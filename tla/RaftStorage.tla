---------------------------- MODULE RaftStorage ----------------------------
(***************************************************************************)
(* One node's storage as openraft drives it (store.rs new_storage): the    *)
(* log store and the state machine store over the same RocksDB.  RaftCore  *)
(* issues the log calls, the state-machine worker applies and installs,    *)
(* the builder and the flush tasks run beside them, and a crash takes all  *)
(* of them.  What openraft guards is stated here as guards: it applies     *)
(* committed entries that the log holds, truncates only what is not        *)
(* committed, and purges only what a finished snapshot covers.             *)
(***************************************************************************)
EXTENDS LogStore, StateMachineStore

storageVars == <<dbVars, logVars, smVars>>

StorageInit == DBInit /\ LogInit /\ SMInit

-----------------------------------------------------------------------------
(* Calls of the log store.                                                 *)

\* RaftCore appends after its last log id, which is never behind the state machine.
StorageAppend(n) ==
  /\ \E last \in LogId : IsLastLogId(db, last) /\ last >= sm.applied
  /\ AppendBegin(n)

StorageTruncate(i) ==
  /\ i > committed
  /\ Truncate(i)

\* Purging follows a snapshot that RaftCore knows of; at start-up it also drops a
\* log that ends before the snapshot.
StoragePurge(i) ==
  /\ i <= known
  /\ PurgeMark(i)

LogStep ==
  \/ \E v \in Vote : SaveVotePut(v)
  \/ SaveVoteFlush
  \/ \E n \in 1..MaxBatch : StorageAppend(n)
  \/ \E t \in Terms : AppendPut(t)
  \/ AppendSpawn
  \/ \E i \in Index : SyncTask(i)
  \/ \E i \in Index : IoCompleted(i)
  \/ \E i \in Index : StorageTruncate(i)
  \/ \E i \in Index : StoragePurge(i)
  \/ PurgeDelete

-----------------------------------------------------------------------------
(* Calls of the state machine store.                                       *)

\* An entry of this node's log is committed.
StorageCommit(i) ==
  /\ Present(db, i)
  /\ Commit(i)

\* The worker reads the entries it applies from the log.
StorageApply(i) ==
  /\ i \in TryGetLogEntries(db, i, i)
  /\ Apply(i)

StorageApplyFails(i) ==
  /\ i \in TryGetLogEntries(db, i, i)
  /\ ApplyFails(i)

SMLogStep ==
  \/ \E i \in Index : StorageCommit(i)
  \/ \E i \in Index : StorageApply(i)
  \/ \E i \in Index : StorageApplyFails(i)
  \/ GetSnapshotBuilder
  \/ BuildExport
  \/ BuildFails
  \/ BuildPut
  \/ BuildFlush
  \/ \E i, ahead \in Index : InstallUpdate(i, ahead)
  \/ InstallImport
  \/ InstallFails
  \/ InstallPut
  \/ InstallFlush

StorageCrash == Crash /\ Restore

-----------------------------------------------------------------------------
StorageNext ==
  \/ LogStep /\ UNCHANGED smVars
  \/ SMLogStep /\ UNCHANGED logVars
  \/ StorageCrash

StorageSpec == StorageInit /\ [][StorageNext]_storageVars

-----------------------------------------------------------------------------
(* Properties.                                                             *)

StorageTypeOK == TypeOK /\ SMTypeOK

\* Whatever a crash leaves, what was purged from the log is in the snapshot that the
\* restarted node loads.  An install beside a builder breaks this: the builder writes
\* its older snapshot over the installed one, for which the log was purged.
SnapshotCoversPurged == \A d \in survivors : d.purged <= d.snapshot.last

\* The last entry that a snapshot stands for, had none been overwritten by an older one.
Covered(last) == Later(last, overtaken)

\* That is the only way: whatever a crash leaves of purge (two writes, not synced) and of
\* the snapshots (one write, then a sync) in the write-ahead log they share, what was
\* purged is in the snapshot on disk, or in a newer one that a builder wrote over.
OnlyOvertakingUncovers == \A d \in survivors : d.purged <= Covered(d.snapshot.last)

\* Whatever a crash leaves, the restarted node can replay every entry it had told RaftCore
\* was durable, from the snapshot on without a gap; after a snapshot that overtook a newer
\* one, from the newer one on.
RestartReplaysAcked ==
  \A d \in survivors, i \in Index :
    reported[i] # Absent /\ i > Covered(d.snapshot.last)
      => TryGetLogEntries(d, Covered(d.snapshot.last) + 1, i) = Covered(d.snapshot.last) + 1..i

\* The worker finds in the log every entry known to be committed that it has still to
\* apply, synced or not, reported or not: neither a truncate nor a purge in progress, an
\* install or a restart takes one from it (a restart on a snapshot that overtook a newer
\* one excepted, which never gets past the newer one).
ApplyFindsItsEntries ==
  \A i \in Index :
    Covered(sm.applied) < i /\ i <= committed =>
      TryGetLogEntries(db, Covered(sm.applied) + 1, i) = Covered(sm.applied) + 1..i
=============================================================================
