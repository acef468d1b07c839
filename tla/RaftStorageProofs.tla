------------------------- MODULE RaftStorageProofs -------------------------
(***************************************************************************)
(* Proofs about RaftStorage: the two stores keep each other's invariants   *)
(* over the database they share, and snapshot and log meet whatever a      *)
(* crash leaves, but for a snapshot that was written over a newer one.     *)
(***************************************************************************)
EXTENDS RaftStorage, LogStoreProofs, StateMachineProofs

-----------------------------------------------------------------------------
(* Either store alone: its steps are steps of its own specification, and   *)
(* those of the other write elsewhere.                                     *)

\* The contents may only change in their snapshots.
SnapshotsChange ==
  /\ db'.vote = db.vote /\ db'.purged = db.purged /\ db'.logs = db.logs
  /\ \A d \in survivors' : \E e \in survivors :
       d.vote = e.vote /\ d.purged = e.purged /\ d.logs = e.logs

\* The contents may only change in their votes and logs.
LogsChange ==
  /\ db'.snapshot = db.snapshot
  /\ \A d \in survivors' : \E e \in survivors : d.snapshot = e.snapshot

LEMMA LogStepIsNext == LogStep => Next
BY DEF LogStep, Next, StorageAppend, StorageTruncate, StoragePurge

LEMMA SMLogStepIsNext == SMLogStep => SMNext
BY DEF SMLogStep, SMNext, SMStep, StorageCommit, StorageApply, StorageApplyFails

\* A call of the log store leaves the snapshots alone.
LEMMA LogStepWrites ==
  ASSUME LogInv, LogStep
  PROVE  LogsChange
<1>1. db \in Content /\ db \in survivors
  BY DEF LogInv, TypeOK, DbSurvives
<1>2. ASSUME NEW new, Put(new), new.snapshot = db.snapshot PROVE LogsChange
  BY <1>1, <1>2 DEF Put, LogsChange
<1>3. ASSUME FlushWal PROVE LogsChange
  BY <1>1, <1>3 DEF FlushWal, LogsChange
<1>4. ASSUME UNCHANGED dbVars PROVE LogsChange
  BY <1>4 DEF dbVars, LogsChange
<1>5. ASSUME NEW v \in Vote, SaveVotePut(v) PROVE LogsChange
  BY <1>1, <1>2, <1>5 DEF SaveVotePut, Content
<1>6. CASE SaveVoteFlush
  BY <1>3, <1>6 DEF SaveVoteFlush
<1>7. ASSUME NEW n \in 1..MaxBatch, StorageAppend(n) PROVE LogsChange
  BY <1>4, <1>7 DEF StorageAppend, AppendBegin
<1>8. ASSUME NEW t \in Terms, AppendPut(t) PROVE LogsChange
  BY <1>1, <1>2, <1>8 DEF AppendPut, Content
<1>9. CASE AppendSpawn
  BY <1>4, <1>9 DEF AppendSpawn
<1>10. ASSUME NEW i \in Index, SyncTask(i) PROVE LogsChange
  BY <1>3, <1>10 DEF SyncTask
<1>11. ASSUME NEW i \in Index, IoCompleted(i) PROVE LogsChange
  BY <1>4, <1>11 DEF IoCompleted
<1>12. ASSUME NEW i \in Index, StorageTruncate(i) PROVE LogsChange
  BY <1>1, <1>2, <1>12 DEF StorageTruncate, Truncate, Content
<1>13. ASSUME NEW i \in Index, StoragePurge(i) PROVE LogsChange
  BY <1>1, <1>2, <1>13 DEF StoragePurge, PurgeMark, Content
<1>14. CASE PurgeDelete
  BY <1>1, <1>2, <1>14 DEF PurgeDelete, Content
<1>15. QED
  BY <1>5, <1>6, <1>7, <1>8, <1>9, <1>10, <1>11, <1>12, <1>13, <1>14 DEF LogStep

\* A call of the state machine store leaves votes and logs alone.
LEMMA SMLogStepWrites ==
  ASSUME StateInv, SMLogStep
  PROVE  SnapshotsChange
<1>1. db \in Content /\ db \in survivors
  BY Parts DEF StateInv, SnapshotsInv
<1>2. ASSUME NEW s, Put([db EXCEPT !.snapshot = s]) PROVE SnapshotsChange
  BY <1>1, <1>2 DEF Put, SnapshotsChange, Content
<1>3. ASSUME FlushWal PROVE SnapshotsChange
  BY <1>1, <1>3 DEF FlushWal, SnapshotsChange
<1>4. ASSUME UNCHANGED dbVars PROVE SnapshotsChange
  BY <1>4 DEF dbVars, SnapshotsChange
<1>5. CASE BuildPut \/ InstallPut
  BY <1>2, <1>5 DEF BuildPut, InstallPut
<1>6. CASE BuildFlush \/ InstallFlush
  BY <1>3, <1>6 DEF BuildFlush, InstallFlush
<1>7. CASE \/ \E i \in Index : StorageCommit(i) \/ StorageApply(i) \/ StorageApplyFails(i)
           \/ GetSnapshotBuilder \/ BuildExport \/ BuildFails
           \/ \E i, ahead \in Index : InstallUpdate(i, ahead)
           \/ InstallImport \/ InstallFails
  BY <1>4, <1>7 DEF StorageCommit, Commit, StorageApply, Apply, StorageApplyFails, ApplyFails,
     GetSnapshotBuilder, BuildExport, BuildFails, InstallUpdate, InstallImport, InstallFails
<1>8. QED
  BY <1>5, <1>6, <1>7 DEF SMLogStep

\* The state machine store's invariant survives the log store's calls, ...
LEMMA LogStepKeepsStateInv ==
  ASSUME LogInv, StateInv, LogStep, UNCHANGED smVars
  PROVE  StateInv'
<1>1. LogInv'
  BY LogStepIsNext, LogInvStep
<1>2. LogsChange
  BY LogStepWrites
<1>3. UNCHANGED <<sm, appData, builder, smIo, known, committed, halted, overtaken>>
  BY DEF smVars
<1>4. SMTypeOK'
  BY <1>1, <1>3 DEF LogInv, TypeOK, StateInv, SMTypeOK
<1>5. SnapshotsInv'
  BY <1>1, <1>2, <1>3 DEF LogInv, DbSurvives, LogsChange, StateInv, SnapshotsInv, Good
<1>6. WorkerInv' /\ BuilderInv' /\ InstallInv'
  BY <1>3 DEF StateInv, WorkerInv, BuilderInv, InstallInv, Consistent
<1>7. QED
  BY <1>4, <1>5, <1>6 DEF StateInv

\* ... and the log store's invariant the state machine store's.
LEMMA SMLogStepKeepsLogInv ==
  ASSUME LogInv, StateInv, SMLogStep, UNCHANGED logVars
  PROVE  LogInv'
<1>1. StateInv'
  BY SMLogStepIsNext, StateInvStep
<1>2. SnapshotsChange
  BY SMLogStepWrites
<1>3. UNCHANGED <<logIo, unsynced, synced, reported, savedVote>>
  BY DEF logVars
<1>4. TypeOK'
  BY <1>1, <1>3 DEF LogInv, TypeOK, StateInv, SMTypeOK
<1>5. DbSurvives'
  BY <1>1 DEF StateInv, SnapshotsInv, DbSurvives
<1>6. NoPromiseLost' /\ VoteDurable' /\ VoteInv'
  BY <1>2, <1>3 DEF LogInv, SnapshotsChange, NoPromiseLost, VoteDurable, VoteInv
<1>7. PurgeInv' /\ SyncedInv'
  BY <1>2, <1>3 DEF LogInv, SnapshotsChange, PurgeInv, SyncedInv
<1>8. TasksInv' /\ GapInv' /\ CallInv'
  BY <1>2, <1>3 DEF LogInv, SnapshotsChange, TasksInv, GapInv, CallInv, Present
<1>9. QED
  BY <1>4, <1>5, <1>6, <1>7, <1>8 DEF LogInv

-----------------------------------------------------------------------------
(* The two stores together.                                                *)

\* The log ids of the node, in their order: the snapshot RaftCore counts on, the
\* stored one (or the newer one it was written over), the applied state.
OrderInv ==
  /\ known <= Covered(db.snapshot.last)
  /\ db.snapshot.last <= sm.applied

\* A snapshot that was written, and is still to be flushed, is the stored one or
\* covered by it.
WrittenInv ==
  /\ builder.at = "written" => builder.snap.last <= Covered(db.snapshot.last)
  /\ smIo.at = "written" => smIo.snap.last <= Covered(db.snapshot.last)

\* The last entry known to be committed is in the log until it is applied.
CommittedInv == committed > Covered(sm.applied) => Present(db, committed)

StoresInv == LogInv /\ StateInv

CoverInv == OnlyOvertakingUncovers /\ OrderInv /\ WrittenInv /\ CommittedInv

LEMMA StorageInvInit == StorageInit => StoresInv /\ CoverInv
<1> SUFFICES ASSUME StorageInit PROVE StoresInv /\ CoverInv
  OBVIOUS
<1>1. StoresInv
  BY LogInvInit, StateInvInit DEF StorageInit, Init, SMStoreInit, StoresInv
<1>2. /\ survivors = {db} /\ db.purged = None /\ db.snapshot.last = None
      /\ known = None /\ committed = None /\ overtaken = None /\ sm.applied = None
      /\ builder.at = "none" /\ smIo.at = "none"
      /\ None <= None /\ ~(None > None)
  BY DEF StorageInit, DBInit, SMInit, NoSnapshot, NoTask, None
<1>3. CoverInv
  BY <1>2 DEF CoverInv, OnlyOvertakingUncovers, Covered, Later, OrderInv, WrittenInv,
              CommittedInv
<1>4. QED
  BY <1>1, <1>3

LEMMA StoresInvStep == StoresInv /\ [StorageNext]_storageVars => StoresInv'
<1> SUFFICES ASSUME StoresInv, [StorageNext]_storageVars PROVE StoresInv'
  OBVIOUS
<1> USE DEF StoresInv
<1>1. CASE UNCHANGED storageVars
  BY <1>1, LogInvStep, StateInvStep DEF storageVars, vars
<1>2. CASE LogStep /\ UNCHANGED smVars
  BY <1>2, LogStepIsNext, LogInvStep, LogStepKeepsStateInv
<1>3. CASE SMLogStep /\ UNCHANGED logVars
  BY <1>3, SMLogStepIsNext, StateInvStep, SMLogStepKeepsLogInv
<1>4. CASE StorageCrash
  BY <1>4, LogInvStep, StateInvStep DEF StorageCrash, Next, SMNext, SMCrash, Crash
<1>5. QED
  BY <1>1, <1>2, <1>3, <1>4 DEF StorageNext

\* The log ids are integers.
LEMMA StorageInts ==
  ASSUME StoresInv
  PROVE  /\ \A d \in survivors : d.purged \in Int /\ d.snapshot.last \in Int
         /\ db \in survivors /\ db \in Content
         /\ known \in Int /\ sm.applied \in Int /\ committed \in Int /\ overtaken \in Int
         /\ builder.at # "none" => builder.snap.last \in Int
         /\ smIo.at # "none" => smIo.snap.last \in Int
<1>1. \A d \in survivors : d \in Content /\ d.snapshot \in Snapshot /\ d.purged \in LogId
  BY Parts, ContentParts DEF StoresInv, StateInv
<1>2. QED
  BY <1>1, Ints, Parts, SnapshotParts, BuilderParts, InstallParts
  DEF StoresInv, StateInv, SnapshotsInv, SMTypeOK

\* What was purged was applied, or is in a snapshot that was written over.
LEMMA PurgedIsApplied ==
  ASSUME StoresInv, CoverInv
  PROVE  db.purged <= Covered(sm.applied)
BY StorageInts DEF CoverInv, OnlyOvertakingUncovers, OrderInv, Covered, Later

\* A write to votes and logs keeps the cover if the purged log id stays or moves up
\* to the snapshot RaftCore counts on, and the last committed entry is not deleted.
LEMMA LogPutKeepsCover ==
  ASSUME StoresInv, CoverInv, NEW new, Put(new), UNCHANGED smVars,
         new.snapshot = db.snapshot,
         new.purged \in Int, new.purged = db.purged \/ new.purged <= known,
         committed > Covered(sm.applied) => Present(new, committed)
  PROVE  CoverInv'
<1> USE StorageInts
<1>1. /\ UNCHANGED <<sm, builder, smIo, known, committed, overtaken>>
      /\ db' = new /\ survivors' = survivors \cup {new}
  BY DEF smVars, Put
<1>2. new.purged <= Covered(new.snapshot.last)
  BY DEF CoverInv, OnlyOvertakingUncovers, OrderInv, Covered, Later
<1>3. OnlyOvertakingUncovers'
  BY <1>1, <1>2 DEF CoverInv, OnlyOvertakingUncovers, Covered
<1>4. OrderInv' /\ WrittenInv' /\ CommittedInv'
  BY <1>1 DEF CoverInv, OrderInv, WrittenInv, CommittedInv, Covered
<1>5. QED
  BY <1>3, <1>4 DEF CoverInv

LEMMA LogStepKeepsCover ==
  ASSUME StoresInv, CoverInv, LogStep, UNCHANGED smVars
  PROVE  CoverInv'
<1>1. /\ db.purged \in Int /\ db \in Content /\ db.logs \in [Index -> Slot]
      /\ committed \in LogId /\ known \in Int
      /\ committed > Covered(sm.applied) =>
           committed \in Index /\ Present(db, committed) /\ db.purged < committed
  <2>1. /\ db.purged \in Int /\ db \in Content /\ db.logs \in [Index -> Slot]
        /\ committed \in LogId /\ known \in Int
    BY StorageInts, ContentParts DEF StoresInv, StateInv, SMTypeOK
  <2>2. ASSUME committed > Covered(sm.applied)
        PROVE  committed \in Index /\ Present(db, committed) /\ db.purged < committed
    <3>1. Covered(sm.applied) \in Int /\ committed \in Int /\ Covered(sm.applied) >= -1
      <4>1. sm.applied \in LogId /\ overtaken \in LogId
        BY Parts DEF StoresInv, StateInv, SMTypeOK
      <4>2. QED
        BY <4>1, StorageInts, RocksDBAssumption DEF Covered, Later, LogId, Index, None
    <3>2. committed \in Index
      BY <2>1, <2>2, <3>1 DEF LogId, None
    <3>3. QED
      BY <2>1, <2>2, <3>1, <3>2, PurgedIsApplied DEF CoverInv, CommittedInv
  <2>3. QED
    BY <2>1, <2>2
<1>2. CASE UNCHANGED db /\ survivors' \in {survivors, {db}}
  <2>1. UNCHANGED <<sm, builder, smIo, known, committed, overtaken>>
    BY DEF smVars
  <2>2. QED
    BY <1>2, <2>1, StorageInts
    DEF CoverInv, OnlyOvertakingUncovers, OrderInv, WrittenInv, CommittedInv, Covered
<1>3. ASSUME NEW v \in Vote, SaveVotePut(v) PROVE CoverInv'
  <2> DEFINE new == [db EXCEPT !.vote = v]
  <2>1. /\ new.snapshot = db.snapshot /\ new.purged = db.purged /\ new.logs = db.logs
    BY <1>1 DEF Content
  <2>2. Put(new)
    BY <1>3 DEF SaveVotePut
  <2> HIDE DEF new
  <2>3. QED
    BY <1>1, <2>1, <2>2, LogPutKeepsCover DEF Present
<1>4. CASE SaveVoteFlush \/ AppendSpawn
  BY <1>2, <1>4 DEF SaveVoteFlush, AppendSpawn, FlushWal, dbVars
<1>5. ASSUME NEW n \in 1..MaxBatch, StorageAppend(n) PROVE CoverInv'
  BY <1>2, <1>5 DEF StorageAppend, AppendBegin, dbVars
<1>6. ASSUME NEW t \in Terms, AppendPut(t) PROVE CoverInv'
  <2> DEFINE new == [db EXCEPT !.logs[logIo.next] = t]
  <2>1. /\ new.snapshot = db.snapshot /\ new.purged = db.purged
        /\ new.logs = [db.logs EXCEPT ![logIo.next] = t]
    BY <1>1 DEF Content
  <2>2. Put(new)
    BY <1>6 DEF AppendPut
  <2> HIDE DEF new
  <2>3. \A i \in Index : Present(db, i) => Present(new, i)
    BY <1>1, <2>1, RocksDBAssumption DEF Present, Absent
  <2>4. QED
    BY <1>1, <2>1, <2>2, <2>3, LogPutKeepsCover
<1>7. ASSUME NEW i \in Index, SyncTask(i) \/ IoCompleted(i) PROVE CoverInv'
  BY <1>2, <1>7 DEF SyncTask, IoCompleted, FlushWal, dbVars
<1>8. ASSUME NEW i \in Index, StorageTruncate(i) PROVE CoverInv'
  <2> DEFINE new == [db EXCEPT !.logs = [j \in Index |-> IF j >= i THEN Absent ELSE @[j]]]
  <2>1. /\ new.snapshot = db.snapshot /\ new.purged = db.purged
        /\ new.logs = [j \in Index |-> IF j >= i THEN Absent ELSE db.logs[j]]
    BY <1>1 DEF Content
  <2>2. Put(new) /\ committed < i
    BY <1>8 DEF StorageTruncate, Truncate
  <2> HIDE DEF new
  <2>3. committed \in Index => (Present(db, committed) => Present(new, committed))
    BY <2>1, <2>2, Ints, Indexes DEF Present
  <2>4. QED
    BY <1>1, <2>1, <2>2, <2>3, LogPutKeepsCover
<1>9. ASSUME NEW i \in Index, StoragePurge(i) PROVE CoverInv'
  <2> DEFINE new == [db EXCEPT !.purged = i]
  <2>1. new.snapshot = db.snapshot /\ new.purged = i /\ new.logs = db.logs
    BY <1>1 DEF Content
  <2>2. Put(new) /\ i <= known /\ i \in Int
    BY <1>9, Ints, Indexes DEF StoragePurge, PurgeMark
  <2> HIDE DEF new
  <2>3. QED
    BY <1>1, <2>1, <2>2, LogPutKeepsCover DEF Present
<1>10. CASE PurgeDelete
  <2> DEFINE new == [db EXCEPT !.logs =
                       [j \in Index |-> IF j < logIo.upto + 1 THEN Absent ELSE @[j]]]
  <2>1. /\ new.snapshot = db.snapshot /\ new.purged = db.purged
        /\ new.logs = [j \in Index |-> IF j < logIo.upto + 1 THEN Absent ELSE db.logs[j]]
    BY <1>1 DEF Content
  <2>2. Put(new) /\ logIo.upto = db.purged
    BY <1>10 DEF PurgeDelete, StoresInv, LogInv, CallInv
  <2> HIDE DEF new
  <2>3. committed \in Index /\ db.purged < committed /\ Present(db, committed)
          => Present(new, committed)
    BY <1>1, <2>1, <2>2, Ints, Indexes DEF Present
  <2>4. QED
    BY <1>1, <2>1, <2>2, <2>3, LogPutKeepsCover
<1>11. QED
  BY <1>3, <1>4, <1>5, <1>6, <1>7, <1>8, <1>9, <1>10 DEF LogStep

\* Apart from the writes of the snapshot, a call of the state machine store moves
\* only the applied state, and that forward, and what is known to be committed, to the
\* applied state or to an entry of the log.
LEMMA WorkerKeepsCover ==
  ASSUME StoresInv, CoverInv, UNCHANGED <<db, survivors, known, overtaken>>,
         sm.applied <= sm'.applied, sm'.applied \in Int,
         \/ UNCHANGED committed
         \/ committed' = sm'.applied
         \/ Present(db, committed'),
         builder'.at = "written" => builder' = builder,
         smIo'.at = "written" => smIo' = smIo
  PROVE  CoverInv'
<1>1. OnlyOvertakingUncovers' /\ OrderInv' /\ WrittenInv'
  BY StorageInts DEF CoverInv, OnlyOvertakingUncovers, OrderInv, WrittenInv, Covered
<1>2. CommittedInv'
  BY StorageInts DEF CoverInv, CommittedInv, Covered, Later, Present
<1>3. QED
  BY <1>1, <1>2 DEF CoverInv

\* Writing a snapshot that is not ahead of the applied state; when it is behind the
\* stored one, the stored one is what it overtook.
LEMMA PutKeepsCover ==
  ASSUME StoresInv, CoverInv, NEW s \in Snapshot,
         Put([db EXCEPT !.snapshot = s]),
         s.last <= sm.applied,
         overtaken' = IF s.last < db.snapshot.last
                        THEN Later(overtaken, db.snapshot.last) ELSE overtaken,
         UNCHANGED <<sm, known, committed>>
  PROVE  /\ OnlyOvertakingUncovers' /\ OrderInv' /\ CommittedInv'
         /\ db'.snapshot = s
         /\ Covered(db.snapshot.last) <= Covered(db.snapshot.last)'
<1>1. /\ db' \in Content /\ db'.snapshot = s
      /\ db'.purged = db.purged /\ db'.logs = db.logs
      /\ survivors' = survivors \cup {db'}
  <2>1. db' = [db EXCEPT !.snapshot = s] /\ survivors' = survivors \cup {db'}
    BY DEF Put
  <2>2. QED
    BY <2>1, StorageInts, ReplaceSnapshot
<1>2. s.last \in Int
  BY SnapshotParts
<1>3. /\ overtaken <= overtaken' /\ overtaken' \in Int
      /\ Covered(db.snapshot.last) <= Covered(db.snapshot.last)'
  BY <1>1, <1>2, StorageInts DEF Covered, Later
<1>4. OnlyOvertakingUncovers'
  <2>1. ASSUME NEW d \in survivors PROVE d.purged <= Later(d.snapshot.last, overtaken')
    BY <1>3, StorageInts DEF CoverInv, OnlyOvertakingUncovers, Covered, Later
  <2>2. db'.purged <= Later(db'.snapshot.last, overtaken')
    BY <1>1, <1>2, <1>3, StorageInts DEF CoverInv, OnlyOvertakingUncovers, Covered, Later
  <2>3. QED
    BY <1>1, <2>1, <2>2 DEF OnlyOvertakingUncovers, Covered
<1>5. OrderInv'
  BY <1>1, <1>2, <1>3, StorageInts DEF CoverInv, OrderInv, Covered, Later
<1>6. CommittedInv'
  BY <1>1, <1>3, StorageInts DEF CoverInv, CommittedInv, Covered, Later, Present
<1>7. QED
  BY <1>1, <1>3, <1>4, <1>5, <1>6

\* The flush that ends a build or an install: RaftCore counts on what was written.
LEMMA FlushKeepsCover ==
  ASSUME StoresInv, CoverInv, FlushWal, NEW last \in Int,
         last <= Covered(db.snapshot.last),
         known' = Later(known, last),
         builder' = builder \/ builder'.at = "none",
         smIo' = smIo \/ smIo'.at = "none",
         UNCHANGED <<sm, committed, overtaken>>
  PROVE  CoverInv'
<1>1. UNCHANGED db /\ survivors' = {db}
  BY DEF FlushWal
<1>2. OnlyOvertakingUncovers' /\ CommittedInv'
  BY <1>1, StorageInts DEF CoverInv, OnlyOvertakingUncovers, CommittedInv, Covered
<1>3. OrderInv'
  BY <1>1, StorageInts DEF CoverInv, OrderInv, Covered, Later
<1>4. WrittenInv'
  BY <1>1 DEF CoverInv, WrittenInv, Covered
<1>5. QED
  BY <1>2, <1>3, <1>4 DEF CoverInv

LEMMA SMLogStepKeepsCover ==
  ASSUME StoresInv, CoverInv, SMLogStep, UNCHANGED logVars
  PROVE  CoverInv'
<1>1. SMTypeOK
  BY DEF StoresInv, StateInv
<1>2. /\ builder.at # "none" => builder.snap.last <= sm.applied
      /\ smIo.at # "none" => smIo.snap.last = sm.applied
      /\ sm.applied <= committed
  BY DEF StoresInv, StateInv, BuilderInv, InstallInv, WorkerInv
<1>3. ASSUME NEW i \in Index, StorageCommit(i) PROVE CoverInv'
  BY <1>3, StorageInts, WorkerKeepsCover DEF StorageCommit, Commit, dbVars
<1>4. ASSUME NEW i \in Index, StorageApply(i) \/ StorageApplyFails(i) PROVE CoverInv'
  <2>1. /\ UNCHANGED <<db, survivors, known, committed, overtaken, builder, smIo>>
        /\ i = sm.applied + 1
        /\ sm'.applied = i
    BY <1>1, <1>4 DEF StorageApply, Apply, StorageApplyFails, ApplyFails, dbVars, SMTypeOK
  <2>2. sm.applied <= sm'.applied /\ sm'.applied \in Int
    BY <2>1, StorageInts
  <2>3. QED
    BY <2>1, <2>2, WorkerKeepsCover
<1>5. CASE GetSnapshotBuilder \/ BuildExport \/ BuildFails
  <2>1. /\ UNCHANGED <<db, survivors, known, committed, overtaken, sm, smIo>>
        /\ builder'.at # "written"
    BY <1>5 DEF GetSnapshotBuilder, BuildExport, BuildFails, NoTask, dbVars
  <2>2. QED
    BY <2>1, StorageInts, WorkerKeepsCover
<1>6. CASE BuildPut
  <2>1. /\ UNCHANGED <<sm, smIo, known, committed>>
        /\ builder.at = "exported" /\ builder' = [builder EXCEPT !.at = "written"]
        /\ Put([db EXCEPT !.snapshot = builder.snap])
        /\ overtaken' = IF builder.snap.last < db.snapshot.last
                          THEN Later(overtaken, db.snapshot.last) ELSE overtaken
    BY <1>6 DEF BuildPut
  <2>2. /\ builder.snap \in Snapshot
        /\ builder' = [at |-> "written", snap |-> builder.snap]
    BY <1>1, <2>1, BuilderParts
  <2>3. /\ OnlyOvertakingUncovers' /\ OrderInv' /\ CommittedInv'
        /\ db'.snapshot = builder.snap
        /\ Covered(db.snapshot.last) <= Covered(db.snapshot.last)'
    BY <1>2, <2>1, <2>2, PutKeepsCover
  <2>4. WrittenInv'
    <3>1. overtaken' \in Int
      BY <2>1, StorageInts DEF Later
    <3>2. QED
      BY <2>1, <2>2, <2>3, <3>1, StorageInts DEF CoverInv, WrittenInv, Covered, Later
  <2>5. QED
    BY <2>3, <2>4 DEF CoverInv
<1>7. CASE BuildFlush
  <2>1. /\ UNCHANGED <<sm, smIo, committed, overtaken>> /\ FlushWal
        /\ builder.at = "written" /\ builder'.at = "none"
        /\ known' = Later(known, builder.snap.last)
    BY <1>7 DEF BuildFlush, NoTask
  <2>2. builder.snap.last \in Int /\ builder.snap.last <= Covered(db.snapshot.last)
    BY <2>1, StorageInts DEF CoverInv, WrittenInv
  <2>3. QED
    BY <2>1, <2>2, FlushKeepsCover
<1>8. ASSUME NEW i \in Index, NEW ahead \in Index, InstallUpdate(i, ahead) PROVE CoverInv'
  <2>1. /\ UNCHANGED <<db, survivors, known, overtaken, builder>>
        /\ committed < i /\ committed' = i
        /\ sm'.applied = i /\ smIo'.at = "updating"
    BY <1>8 DEF InstallUpdate, dbVars
  <2>2. sm.applied <= sm'.applied /\ sm'.applied \in Int
    BY <1>2, <2>1, StorageInts, Ints, Indexes
  <2>3. QED
    BY <2>1, <2>2, WorkerKeepsCover
<1>9. CASE InstallImport \/ InstallFails
  <2>1. /\ UNCHANGED <<db, survivors, known, committed, overtaken, sm, builder>>
        /\ smIo'.at # "written"
    BY <1>1, <1>9, InstallParts DEF InstallImport, InstallFails, NoTask, dbVars
  <2>2. QED
    BY <2>1, StorageInts, WorkerKeepsCover
<1>10. CASE InstallPut
  <2>1. /\ UNCHANGED <<sm, builder, known, committed, overtaken>>
        /\ smIo.at = "imported" /\ smIo' = [smIo EXCEPT !.at = "written"]
        /\ Put([db EXCEPT !.snapshot = smIo.snap])
    BY <1>10 DEF InstallPut
  <2>2. /\ smIo.snap \in Snapshot
        /\ smIo' = [at |-> "written", snap |-> smIo.snap]
    BY <1>1, <2>1, InstallParts
  <2>3. smIo.snap.last <= sm.applied /\ ~(smIo.snap.last < db.snapshot.last)
    BY <1>2, <2>1, StorageInts DEF CoverInv, OrderInv
  <2>4. /\ OnlyOvertakingUncovers' /\ OrderInv' /\ CommittedInv'
        /\ db'.snapshot = smIo.snap
        /\ Covered(db.snapshot.last) <= Covered(db.snapshot.last)'
    BY <2>1, <2>2, <2>3, PutKeepsCover
  <2>5. WrittenInv'
    BY <2>1, <2>2, <2>4, StorageInts DEF CoverInv, WrittenInv, Covered, Later
  <2>6. QED
    BY <2>4, <2>5 DEF CoverInv
<1>11. CASE InstallFlush
  <2>1. /\ UNCHANGED <<sm, builder, committed, overtaken>> /\ FlushWal
        /\ smIo.at = "written" /\ smIo'.at = "none"
        /\ known' = Later(known, smIo.snap.last)
    BY <1>11 DEF InstallFlush, NoTask
  <2>2. smIo.snap.last \in Int /\ smIo.snap.last <= Covered(db.snapshot.last)
    BY <2>1, StorageInts DEF CoverInv, WrittenInv
  <2>3. QED
    BY <2>1, <2>2, FlushKeepsCover
<1>12. QED
  BY <1>3, <1>4, <1>5, <1>6, <1>7, <1>8, <1>9, <1>10, <1>11 DEF SMLogStep

LEMMA CoverInvStep == StoresInv /\ CoverInv /\ [StorageNext]_storageVars => CoverInv'
<1> SUFFICES ASSUME StoresInv, CoverInv, [StorageNext]_storageVars PROVE CoverInv'
  OBVIOUS
<1>1. CASE UNCHANGED storageVars
  BY <1>1 DEF storageVars, dbVars, smVars, CoverInv, OnlyOvertakingUncovers, OrderInv,
     WrittenInv, CommittedInv, Covered, Present
<1>2. CASE StorageCrash
  <2>1. PICK d \in survivors : db' = d /\ survivors' = {d}
    BY <1>2 DEF StorageCrash, Crash, PowerLoss
  <2>2. /\ sm'.applied = d.snapshot.last /\ known' = d.snapshot.last
        /\ committed' = d.snapshot.last /\ overtaken' = overtaken
        /\ builder'.at = "none" /\ smIo'.at = "none"
    BY <1>2, <2>1 DEF StorageCrash, Restore, NoTask
  <2>3. d.purged <= Covered(d.snapshot.last) /\ d.snapshot.last \in Int
    BY StorageInts DEF CoverInv, OnlyOvertakingUncovers
  <2>4. OnlyOvertakingUncovers' /\ WrittenInv'
    BY <2>1, <2>2, <2>3 DEF OnlyOvertakingUncovers, WrittenInv, Covered
  <2>5. OrderInv' /\ CommittedInv'
    BY <2>1, <2>2, <2>3, StorageInts DEF OrderInv, CommittedInv, Covered, Later
  <2>6. QED
    BY <2>4, <2>5 DEF CoverInv
<1>3. QED
  BY <1>1, <1>2, LogStepKeepsCover, SMLogStepKeepsCover DEF StorageNext

-----------------------------------------------------------------------------
(* The theorems.                                                           *)

\* An entry that a content holds is read from it with all that lie between a log id
\* the purge has not passed and the entry.
LEMMA PresentIsReadable ==
  ASSUME LogInv, NEW d \in survivors, NEW n \in LogId, d.purged <= n,
         NEW i \in Index, Present(d, i)
  PROVE  TryGetLogEntries(d, n + 1, i) = n + 1..i
<1>1. n \in -1..MaxIndex /\ d.purged \in -1..MaxIndex /\ MaxIndex \in Nat
  BY ContentParts, RocksDBAssumption DEF LogInv, TypeOK, LogId, Index, None
<1>2. \A k \in n + 1..i : k \in Index /\ Present(d, k)
  BY <1>1 DEF LogInv, GapInv, Index
<1>3. QED
  BY <1>1, <1>2 DEF TryGetLogEntries, Index

\* Both stores' invariants hold together over the database they share, and so do the
\* order of the log ids and the cover of what was purged.
THEOREM StorageInvariant == StorageSpec => [](StoresInv /\ CoverInv)
<1>1. StoresInv /\ CoverInv /\ [StorageNext]_storageVars => (StoresInv /\ CoverInv)'
  BY StoresInvStep, CoverInvStep
<1>2. QED
  BY <1>1, StorageInvInit, PTL DEF StorageSpec

\* Every variable of a node's storage keeps its type, however the two stores'
\* calls, tasks and crashes interleave.
THEOREM StorageTypeCorrect == StorageSpec => []StorageTypeOK
<1>1. StoresInv => StorageTypeOK
  BY DEF StoresInv, LogInv, StateInv, StorageTypeOK
<1>2. QED
  BY <1>1, StorageInvariant, PTL

\* The promises of each store alone hold over the database they share: flushes
\* and crashes of one never cost the other an entry, a vote or an applied request.
THEOREM StoresKeepTheirPromises ==
  StorageSpec => [](NoPromiseLost /\ VoteDurable /\ NothingAppliedIsLost)
<1>1. StoresInv => NoPromiseLost /\ VoteDurable /\ NothingAppliedIsLost
  BY DEF StoresInv, LogInv, StateInv, SnapshotsInv, WorkerInv, Good, NothingAppliedIsLost
<1>2. QED
  BY <1>1, StorageInvariant, PTL

\* Wherever a crash falls in purge(), build_snapshot() or install_snapshot(), the
\* snapshot that a restart loads reaches the purged log id, unless it was written over
\* a newer one that does.
THEOREM PurgedIsCovered == StorageSpec => []OnlyOvertakingUncovers
<1>1. CoverInv => OnlyOvertakingUncovers
  BY DEF CoverInv
<1>2. QED
  BY <1>1, StorageInvariant, PTL

\* A restart replays, after its snapshot (or the newer one that it was written over)
\* and without a gap, every entry RaftCore was told is durable.
THEOREM AckedIsReplayed == StorageSpec => []RestartReplaysAcked
<1>1. StoresInv /\ CoverInv => RestartReplaysAcked
  <2> SUFFICES ASSUME StoresInv, CoverInv, NEW d \in survivors, NEW i \in Index,
                      reported[i] # Absent
               PROVE  TryGetLogEntries(d, Covered(d.snapshot.last) + 1, i)
                        = Covered(d.snapshot.last) + 1..i
    BY DEF RestartReplaysAcked
  <2>1. d.purged <= Covered(d.snapshot.last)
    BY DEF CoverInv, OnlyOvertakingUncovers
  <2>2. Covered(d.snapshot.last) \in LogId
    BY Parts, SnapshotParts, LaterType DEF StoresInv, StateInv, SMTypeOK, Covered
  <2>3. Present(d, i)
    BY DEF StoresInv, LogInv, NoPromiseLost, Present
  <2>4. QED
    BY <2>1, <2>2, <2>3, PresentIsReadable DEF StoresInv
<1>2. QED
  BY <1>1, StorageInvariant, PTL

\* The worker finds in the log every entry known to be committed that it has still to
\* apply, whatever truncate, purge, install or restart came in between.
THEOREM WorkerFindsItsEntries == StorageSpec => []ApplyFindsItsEntries
<1>1. StoresInv /\ CoverInv => ApplyFindsItsEntries
  <2> SUFFICES ASSUME StoresInv, CoverInv, NEW i \in Index,
                      Covered(sm.applied) < i, i <= committed
               PROVE  TryGetLogEntries(db, Covered(sm.applied) + 1, i)
                        = Covered(sm.applied) + 1..i
    BY DEF ApplyFindsItsEntries
  <2>1. db \in survivors /\ db.purged <= Covered(sm.applied) /\ db.purged \in Int
    BY StorageInts, PurgedIsApplied
  <2>2. Covered(sm.applied) \in LogId
    BY Parts, LaterType DEF StoresInv, StateInv, SMTypeOK, Covered
  <2>3. committed \in LogId /\ Covered(sm.applied) \in Int /\ i \in Int /\ committed \in Int
    BY <2>2, Parts, Ints, Indexes DEF StoresInv, StateInv
  <2>4. committed \in Index /\ Present(db, committed)
    <3>1. committed # None
      BY <2>3, RocksDBAssumption DEF None, Index
    <3>2. QED
      BY <2>3, <3>1 DEF LogId, CoverInv, CommittedInv
  <2>5. Present(db, i)
    BY <2>1, <2>3, <2>4 DEF StoresInv, LogInv, GapInv
  <2>6. QED
    BY <2>1, <2>2, <2>5, PresentIsReadable DEF StoresInv
<1>2. QED
  BY <1>1, StorageInvariant, PTL
=============================================================================
