------------------------- MODULE StateMachineStore -------------------------
(***************************************************************************)
(* StateMachineStore (raft/state_machine): the applied state, which lives  *)
(* in memory only, and the one snapshot kept in the shared database.       *)
(*                                                                         *)
(* openraft's state-machine worker calls apply, get_snapshot_builder and   *)
(* install_snapshot one after the other.  build_snapshot runs in a task of *)
(* its own on a CLONE of the store: the clone has its own last_applied_log *)
(* and last_membership, but shares the application data (an Arc<RwLock<A>>)*)
(* and the database with the worker, which goes on applying and installing.*)
(*                                                                         *)
(* An entry is its log index: only committed entries are applied, and they *)
(* are the same on every node.  Application data is the sequence of the    *)
(* entries whose requests were applied to it, so a replay is visible.      *)
(***************************************************************************)
EXTENDS RocksDB, Functions

CONSTANTS
  Normal,    \* indexes of the entries that carry a request
  Member,    \* indexes of the entries that carry a membership
  MaxAhead   \* how far the data of a received snapshot may run ahead

ASSUME StateMachineAssumption ==
  /\ Normal \subseteq Index
  /\ Member \subseteq Index \ Normal
  /\ MaxAhead \in Nat

VARIABLES
  sm,         \* last_applied_log, last_membership of the worker's store
  appData,    \* application_data, shared with the builder and the readers
  builder,    \* the build_snapshot task
  smIo,       \* the install_snapshot in progress
  known,      \* the last log id of the snapshot RaftCore counts on
  committed,  \* the last index that RaftCore knows to be committed
  halted,     \* a storage error was returned: RaftCore stops
  overtaken   \* history: the newest snapshot that an older one was written over

smVars == <<sm, appData, builder, smIo, known, committed, halted, overtaken>>

NoTask == [at |-> "none"]

Task(phases) == {NoTask} \cup [at : phases, snap : Snapshot]

\* The data of an application to which exactly the entries up to i were applied.
AppliedPrefix[i \in LogId] ==
  IF i = None THEN <<>>
  ELSE IF i \in Normal THEN Append(AppliedPrefix[i - 1], i) ELSE AppliedPrefix[i - 1]

\* The log id of the last membership up to i.
IsLastMembership(i, m) ==
  \/ m = None /\ \A j \in Member : j > i
  \/ m \in Member /\ m <= i /\ \A j \in Member : j <= i => j <= m

Later(i, j) == IF i >= j THEN i ELSE j

SMInit ==
  /\ sm = [applied |-> None, member |-> None]
  /\ appData = <<>>
  /\ builder = NoTask
  /\ smIo = NoTask
  /\ known = None
  /\ committed = None
  /\ halted = FALSE
  /\ overtaken = None

WorkerIsFree == smIo = NoTask /\ ~halted

-----------------------------------------------------------------------------
(* The leader of the cluster commits an entry and this node learns of it.  *)

Commit(i) ==
  /\ i > committed
  /\ committed' = i
  /\ UNCHANGED <<dbVars, sm, appData, builder, smIo, known, halted, overtaken>>

-----------------------------------------------------------------------------
(* apply: one entry of the stream.  last_applied_log is set first, so a    *)
(* request that cannot be decoded or applied leaves it ahead of the data.  *)

\* Mutant: last_applied_log is set to the entry after the applied one.
ApplyOffByOne(i) ==
  /\ WorkerIsFree
  /\ i = sm.applied + 1
  /\ i <= committed
  /\ sm' = [applied |-> i + 1, member |-> IF i \in Member THEN i ELSE sm.member]
  /\ appData' = IF i \in Normal THEN Append(appData, i) ELSE appData
  /\ UNCHANGED <<dbVars, builder, smIo, known, committed, halted, overtaken>>

Apply(i) ==
  /\ WorkerIsFree
  /\ i = sm.applied + 1
  /\ i <= committed
  /\ sm' = [applied |-> i, member |-> IF i \in Member THEN i ELSE sm.member]
  /\ appData' = IF i \in Normal THEN Append(appData, i) ELSE appData
  /\ UNCHANGED <<dbVars, builder, smIo, known, committed, halted, overtaken>>

\* Mutant: the error of an apply is swallowed and the worker goes on.
ApplyErrorIgnored(i) ==
  /\ WorkerIsFree
  /\ i = sm.applied + 1
  /\ i <= committed
  /\ i \in Normal
  /\ sm' = [sm EXCEPT !.applied = i]
  /\ UNCHANGED <<dbVars, appData, builder, smIo, known, committed, halted, overtaken>>

ApplyFails(i) ==
  /\ WorkerIsFree
  /\ i = sm.applied + 1
  /\ i <= committed
  /\ i \in Normal
  /\ sm' = [sm EXCEPT !.applied = i]
  /\ halted' = TRUE
  /\ UNCHANGED <<dbVars, appData, builder, smIo, known, committed, overtaken>>

-----------------------------------------------------------------------------
(* get_snapshot_builder clones the store; build_snapshot exports the live  *)
(* data under the read lock, takes last_applied_log and last_membership    *)
(* from the clone, and writes and flushes the one "snapshot" key.          *)

GetSnapshotBuilder ==
  /\ WorkerIsFree
  /\ FewUnsynced
  /\ builder = NoTask
  /\ sm.applied # None
  /\ builder' = [at |-> "cloned",
                 snap |-> [last |-> sm.applied, member |-> sm.member, data |-> <<>>]]
  /\ UNCHANGED <<dbVars, sm, appData, smIo, known, committed, halted, overtaken>>

\* Mutant: last_membership is taken from the running store, not from the clone.
BuildExportLiveMember ==
  /\ builder.at = "cloned"
  /\ builder' = [at |-> "exported",
                 snap |-> [builder.snap EXCEPT !.data = appData, !.member = sm.member]]
  /\ UNCHANGED <<dbVars, sm, appData, smIo, known, committed, halted, overtaken>>

BuildExport ==
  /\ builder.at = "cloned"
  /\ builder' = [at |-> "exported", snap |-> [builder.snap EXCEPT !.data = appData]]
  /\ UNCHANGED <<dbVars, sm, appData, smIo, known, committed, halted, overtaken>>

\* Any error of build_snapshot before the write.
BuildFails ==
  /\ builder.at = "cloned"
  /\ builder' = NoTask
  /\ halted' = TRUE
  /\ UNCHANGED <<dbVars, sm, appData, smIo, known, committed, overtaken>>

\* The one key is written whatever is there: a newer snapshot is lost.
BuildPut ==
  /\ builder.at = "exported"
  /\ Put([db EXCEPT !.snapshot = builder.snap])
  /\ overtaken' = IF builder.snap.last < db.snapshot.last
                     THEN Later(overtaken, db.snapshot.last) ELSE overtaken
  /\ builder' = [builder EXCEPT !.at = "written"]
  /\ UNCHANGED <<sm, appData, smIo, known, committed, halted>>

BuildFlush ==
  /\ builder.at = "written"
  /\ FlushWal
  /\ known' = Later(known, builder.snap.last)
  /\ builder' = NoTask
  /\ UNCHANGED <<sm, appData, smIo, committed, halted, overtaken>>

-----------------------------------------------------------------------------
(* install_snapshot: update_state_machine_ sets last_applied_log and       *)
(* last_membership, then decodes, imports and replaces the data under the  *)
(* write lock; then the snapshot is written and flushed.  openraft skips a *)
(* snapshot that is not ahead of what is committed.  The snapshot was      *)
(* built by another node, where the data may also have run ahead.          *)

InstallUpdate(i, ahead) ==
  /\ WorkerIsFree
  /\ FewUnsynced
  /\ i > committed
  /\ i <= ahead /\ ahead <= i + MaxAhead
  /\ \E m \in LogId :
       /\ IsLastMembership(i, m)
       /\ sm' = [applied |-> i, member |-> m]
       /\ smIo' = [at |-> "updating",
                   snap |-> [last |-> i, member |-> m, data |-> AppliedPrefix[ahead]]]
  /\ committed' = i
  /\ UNCHANGED <<dbVars, appData, builder, known, halted, overtaken>>

\* Mutant: what the application holds is laid over the imported data.
InstallUnderOldData ==
  /\ smIo.at = "updating"
  /\ appData' = smIo.snap.data \o appData
  /\ smIo' = [smIo EXCEPT !.at = "imported"]
  /\ UNCHANGED <<dbVars, sm, builder, known, committed, halted, overtaken>>

\* Mutant: install_snapshot answers once the memory is updated.
InstallAnswersEarly ==
  /\ smIo.at = "updating"
  /\ appData' = smIo.snap.data
  /\ smIo' = [smIo EXCEPT !.at = "imported"]
  /\ known' = Later(known, smIo.snap.last)
  /\ UNCHANGED <<dbVars, sm, builder, committed, halted, overtaken>>

InstallImport ==
  /\ smIo.at = "updating"
  /\ appData' = smIo.snap.data
  /\ smIo' = [smIo EXCEPT !.at = "imported"]
  /\ UNCHANGED <<dbVars, sm, builder, known, committed, halted, overtaken>>

\* The data cannot be decoded or imported: the error leaves the new meta with
\* the old data.
InstallFails ==
  /\ smIo.at = "updating"
  /\ smIo' = NoTask
  /\ halted' = TRUE
  /\ UNCHANGED <<dbVars, sm, appData, builder, known, committed, overtaken>>

InstallPut ==
  /\ smIo.at = "imported"
  /\ Put([db EXCEPT !.snapshot = smIo.snap])
  /\ smIo' = [smIo EXCEPT !.at = "written"]
  /\ UNCHANGED <<sm, appData, builder, known, committed, halted, overtaken>>

InstallFlush ==
  /\ smIo.at = "written"
  /\ FlushWal
  /\ known' = Later(known, smIo.snap.last)
  /\ smIo' = NoTask
  /\ UNCHANGED <<sm, appData, builder, committed, halted, overtaken>>

-----------------------------------------------------------------------------
\* StateMachineStore::new on the database found at restart.  The store does not save
\* what is committed (read_committed is not implemented), so RaftCore starts from what is
\* applied.
Restore ==
  /\ sm' = [applied |-> db'.snapshot.last, member |-> db'.snapshot.member]
  /\ appData' = db'.snapshot.data
  /\ builder' = NoTask
  /\ smIo' = NoTask
  /\ known' = db'.snapshot.last
  /\ committed' = db'.snapshot.last
  /\ halted' = FALSE
  /\ UNCHANGED overtaken

SMCrash == PowerLoss /\ Restore

-----------------------------------------------------------------------------
SMStep ==
  \/ \E i \in Index : ApplyFails(i)
  \/ GetSnapshotBuilder
  \/ BuildExport
  \/ BuildFails
  \/ BuildPut
  \/ BuildFlush
  \/ \E i, ahead \in Index : InstallUpdate(i, ahead)
  \/ InstallImport
  \/ InstallFails
  \/ InstallPut
  \/ InstallFlush

SMNext ==
  \/ \E i \in Index : Commit(i)
  \/ \E i \in Index : Apply(i)
  \/ SMStep
  \/ SMCrash

SMStoreInit == DBInit /\ SMInit

SMSpec == SMStoreInit /\ [][SMNext]_<<dbVars, smVars>>

-----------------------------------------------------------------------------
(* Properties.                                                             *)

\* The type of every variable.
SMTypeOK ==
  /\ db \in Content
  /\ survivors \subseteq Content
  /\ crashes \in 0..MaxCrashes
  /\ sm \in [applied : LogId, member : LogId]
  /\ appData \in Seq(Index)
  /\ builder \in Task({"cloned", "exported", "written"})
  /\ smIo \in Task({"updating", "imported", "written"})
  /\ known \in LogId
  /\ committed \in LogId
  /\ halted \in BOOLEAN
  /\ overtaken \in LogId

\* No request up to i is missing from the data.
Covers(data, i) == \A j \in Normal : j <= i => j \in Range(data)

\* The data is the one the meta stands for, outside an install that is half done
\* and a stop after an error.
Consistent == ~halted /\ smIo.at # "updating"

\* No applied request is ever lost: the data read by the application holds every
\* request up to last_applied_log, and any snapshot that a restart may load holds
\* every request up to its last_log_id, although the builder reads live data, an
\* apply may fail half-way, and an install may overtake the builder.
NothingAppliedIsLost ==
  /\ \A d \in survivors : Covers(d.snapshot.data, d.snapshot.last)
  /\ Consistent => Covers(appData, sm.applied)

\* The membership reported with the applied state, and with any snapshot a restart
\* may load, is the last one in the log up to it: a node never comes back with the
\* voters of another moment.
MembershipMatchesLog ==
  /\ IsLastMembership(sm.applied, sm.member)
  /\ \A d \in survivors : IsLastMembership(d.snapshot.last, d.snapshot.member)

\* Every time an entry was applied, the later ones the data holds, up to k, were
\* applied again after it.
Ordered(data, k) ==
  \A p \in DOMAIN data, j \in Range(data) :
    data[p] < j /\ j <= k => \E q \in DOMAIN data : p < q /\ data[q] = j

\* Requests that overwrite (a key-value put) survive being applied twice: the last
\* effects of the entries up to last_applied_log, and of those up to the last_log_id
\* of any snapshot a restart may load, are in log order, whatever was replayed after
\* restarts and snapshots that ran ahead.
OverwritesConverge ==
  /\ \A d \in survivors : Ordered(d.snapshot.data, d.snapshot.last)
  /\ Consistent => Ordered(appData, sm.applied)

\* What a snapshot stands for: its data is the state after exactly the entries up
\* to its last_log_id.  build_snapshot takes the log id from the clone and the data
\* from the live application, so this does not hold.
SnapshotMatchesMeta ==
  \A d \in survivors : d.snapshot.data = AppliedPrefix[d.snapshot.last]
=============================================================================
