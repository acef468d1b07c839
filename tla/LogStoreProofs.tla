--------------------------- MODULE LogStoreProofs ---------------------------
(***************************************************************************)
(* Proofs about LogStore: for every number of entries, terms, votes and    *)
(* crashes, an acknowledged entry and a saved vote survive a power loss,   *)
(* and the log that is found afterwards has no gap.                        *)
(***************************************************************************)
EXTENDS LogStore, TLAPS

-----------------------------------------------------------------------------
(* The inductive invariant.                                                *)

\* What is read is one of the contents a crash may leave.
DbSurvives == db \in survivors

\* The vote: a save_vote in progress is the vote that is read.
VoteInv ==
  logIo.op = "save_vote" => db.vote = logIo.vote /\ savedVote <= logIo.vote

\* The purged log id only grows, and nothing purged is still promised.
PurgeInv ==
  /\ \A d \in survivors : d.purged <= db.purged
  /\ \A i \in Index : reported[i] # Absent => i > db.purged

\* What a synced task will answer for is in every content.
SyncedInv ==
  \A t \in synced, d \in survivors, i \in Index :
    db.purged < i /\ i <= t => d.logs[i] = db.logs[i]

\* A task answers for an entry that is there, or was purged.
TasksInv == \A t \in unsynced \cup synced : Present(db, t) \/ t <= db.purged

\* After the purged log id a content holds a prefix of the indexes.
GapInv ==
  \A d \in survivors : \A i, k \in Index :
    Present(d, k) /\ i < k /\ d.purged < i => Present(d, i)

\* The call in progress: where an append is, and which id a purge wrote.
CallInv ==
  /\ logIo.op = "append" =>
       /\ db.purged < logIo.next
       /\ logIo.next <= logIo.last + 1
       /\ \A i \in Index : i >= logIo.next => ~Present(db, i)
       /\ \A i \in Index : db.purged < i /\ i < logIo.next => Present(db, i)
  /\ logIo.op = "purge" => logIo.upto = db.purged

LogInv ==
  /\ TypeOK
  /\ DbSurvives
  /\ NoPromiseLost
  /\ VoteDurable
  /\ VoteInv
  /\ PurgeInv
  /\ SyncedInv
  /\ TasksInv
  /\ GapInv
  /\ CallInv

-----------------------------------------------------------------------------
(* Facts about the records and the writes.                                 *)

\* What the call in progress is, from its operation.
LEMMA LogIoCases ==
  ASSUME logIo \in LogIo
  PROVE  /\ logIo.op = "save_vote" => logIo.vote \in Vote
         /\ logIo.op = "append" =>
              /\ logIo.next \in 0..MaxIndex + 1
              /\ logIo.last \in Index
              /\ logIo = [op |-> "append", next |-> logIo.next, last |-> logIo.last]
         /\ logIo.op = "purge" => logIo.upto \in Index
BY DEF LogIo, Idle

\* A content is a record of its four parts.
LEMMA ContentParts ==
  ASSUME NEW d \in Content
  PROVE  /\ d.vote \in Vote
         /\ d.purged \in LogId
         /\ d.logs \in [Index -> Slot]
         /\ d.snapshot \in Snapshot
BY DEF Content

\* Replacing the logs of a content gives a content that differs nowhere else.
LEMMA ReplaceLogs ==
  ASSUME NEW d \in Content, NEW logs \in [Index -> Slot],
         NEW e, e = [d EXCEPT !.logs = logs]
  PROVE  /\ e \in Content
         /\ e.logs = logs
         /\ e.vote = d.vote
         /\ e.purged = d.purged
BY DEF Content

-----------------------------------------------------------------------------
(* The invariant holds at the start and is kept by every step.             *)

LEMMA LogInvInit == Init => LogInv
<1> SUFFICES ASSUME Init PROVE LogInv
  OBVIOUS
<1> USE RocksDBAssumption, LogStoreAssumption
<1>1. db \in Content /\ survivors = {db}
  BY DEF Init, DBInit, Content, Vote, LogId, None, Slot, Absent, Snapshot, NoSnapshot
<1>2. TypeOK
  BY <1>1 DEF TypeOK, Init, DBInit, LogInit, LogIo, NothingReported, Slot, Vote
<1>3. DbSurvives /\ VoteDurable /\ VoteInv
  BY <1>1 DEF Init, DBInit, LogInit, DbSurvives, VoteDurable, VoteInv, Idle
<1>4. NoPromiseLost /\ PurgeInv
  BY <1>1, ContentParts
  DEF Init, DBInit, LogInit, NothingReported, NoPromiseLost, PurgeInv, LogId, Index, None
<1>5. SyncedInv /\ TasksInv
  BY DEF Init, LogInit, SyncedInv, TasksInv
<1>6. GapInv /\ CallInv
  BY <1>1 DEF Init, DBInit, LogInit, GapInv, CallInv, Idle, Present, Absent
<1>7. QED
  BY <1>2, <1>3, <1>4, <1>5, <1>6 DEF LogInv

LEMMA SaveVotePutStep ==
  ASSUME LogInv, NEW v \in Vote, SaveVotePut(v)
  PROVE  LogInv'
<1> USE DEF LogInv
<1>1. /\ db' \in Content
      /\ db'.vote = v
      /\ db'.purged = db.purged
      /\ db'.logs = db.logs
      /\ survivors' = survivors \cup {db'}
  BY DEF SaveVotePut, Put, TypeOK, Content
<1>2. TypeOK'
  BY <1>1 DEF SaveVotePut, Put, TypeOK, LogIo
<1>3. DbSurvives' /\ NoPromiseLost'
  BY <1>1 DEF SaveVotePut, DbSurvives, NoPromiseLost
<1>4. VoteDurable' /\ VoteInv'
  <2>1. db.vote \in Nat /\ v \in Nat /\ savedVote \in Nat /\ savedVote <= db.vote
    BY ContentParts, RocksDBAssumption DEF TypeOK, DbSurvives, VoteDurable, Vote
  <2>2. QED
    BY <1>1, <2>1 DEF SaveVotePut, VoteDurable, VoteInv
<1>5. PurgeInv'
  BY <1>1, ContentParts DEF SaveVotePut, PurgeInv, DbSurvives, TypeOK, LogId, Index, None
<1>6. SyncedInv' /\ TasksInv' /\ GapInv'
  BY <1>1 DEF SaveVotePut, SyncedInv, TasksInv, GapInv, DbSurvives, Present
<1>7. CallInv'
  BY DEF SaveVotePut, CallInv
<1>8. QED
  BY <1>2, <1>3, <1>4, <1>5, <1>6, <1>7

\* A flush leaves one content, the one that is read.
LEMMA FlushKeeps ==
  ASSUME LogInv, FlushWal
  PROVE  /\ db' = db /\ survivors' = {db} /\ crashes' = crashes
         /\ survivors' \subseteq Content
         /\ DbSurvives'
         /\ GapInv'
         /\ \A i \in Index : reported[i] # Absent => db.logs[i] = reported[i]
BY DEF FlushWal, LogInv, TypeOK, DbSurvives, GapInv, NoPromiseLost, Present

LEMMA SaveVoteFlushStep ==
  ASSUME LogInv, SaveVoteFlush
  PROVE  LogInv'
<1> USE DEF LogInv
<1>1. /\ db' = db /\ survivors' = {db} /\ crashes' = crashes
      /\ survivors' \subseteq Content
      /\ DbSurvives'
      /\ GapInv'
      /\ \A i \in Index : reported[i] # Absent => db.logs[i] = reported[i]
  BY FlushKeeps DEF SaveVoteFlush
<1>2. TypeOK'
  BY <1>1, LogIoCases DEF SaveVoteFlush, TypeOK, LogIo
<1>3. NoPromiseLost'
  BY <1>1 DEF SaveVoteFlush, NoPromiseLost
<1>4. VoteDurable' /\ VoteInv'
  BY <1>1, LogIoCases, RocksDBAssumption
  DEF SaveVoteFlush, VoteDurable, VoteInv, Idle, TypeOK, Vote
<1>5. PurgeInv'
  BY <1>1, ContentParts DEF SaveVoteFlush, PurgeInv, DbSurvives, TypeOK, LogId, Index, None
<1>6. SyncedInv' /\ TasksInv'
  BY <1>1 DEF SaveVoteFlush, SyncedInv, TasksInv, Present
<1>7. CallInv'
  BY DEF SaveVoteFlush, CallInv, Idle
<1>8. QED
  BY <1>1, <1>2, <1>3, <1>4, <1>5, <1>6, <1>7

LEMMA AppendBeginStep ==
  ASSUME LogInv, NEW n \in 1..MaxBatch, AppendBegin(n)
  PROVE  LogInv'
<1> USE DEF LogInv
<1>1. PICK last \in LogId :
        /\ IsLastLogId(db, last)
        /\ last >= db.purged
        /\ last + n <= MaxIndex
        /\ logIo' = [op |-> "append", next |-> last + 1, last |-> last + n]
  BY DEF AppendBegin, dbVars
<1>2. UNCHANGED <<db, survivors, crashes, unsynced, synced, reported, savedVote>>
  BY DEF AppendBegin, dbVars
<1>3. last \in -1..MaxIndex /\ n \in Nat \ {0} /\ MaxIndex \in Nat /\ db.purged \in -1..MaxIndex
  BY RocksDBAssumption, LogStoreAssumption, ContentParts DEF TypeOK, LogId, Index, None
<1>4. TypeOK'
  BY <1>1, <1>2, <1>3 DEF TypeOK, LogIo, Index
<1>5. /\ DbSurvives' /\ NoPromiseLost' /\ VoteDurable' /\ PurgeInv'
      /\ SyncedInv' /\ TasksInv' /\ GapInv'
  BY <1>2 DEF DbSurvives, NoPromiseLost, VoteDurable, PurgeInv, SyncedInv, TasksInv,
              GapInv, Present
<1>6. VoteInv'
  BY <1>1 DEF VoteInv
<1>7. CallInv'
  <2>1. \A i \in Index : i >= last + 1 => ~Present(db, i)
    BY <1>1, <1>3 DEF IsLastLogId, Index
  <2>2. \A i \in Index : db.purged < i /\ i < last + 1 => Present(db, i)
    BY <1>1, <1>3 DEF IsLastLogId, GapInv, DbSurvives, Index
  <2>3. logIo'.op = "append" /\ logIo'.next = last + 1 /\ logIo'.last = last + n
    BY <1>1
  <2>4. db.purged < last + 1 /\ last + 1 <= last + n + 1
    BY <1>1, <1>3
  <2>5. QED
    BY <1>2, <2>1, <2>2, <2>3, <2>4 DEF CallInv, Present
<1>8. QED
  BY <1>4, <1>5, <1>6, <1>7
LEMMA AppendPutStep ==
  ASSUME LogInv, NEW t \in Terms, AppendPut(t)
  PROVE  LogInv'
<1> USE DEF LogInv
<1> DEFINE next == logIo.next
           last == logIo.last
           logs == [db.logs EXCEPT ![next] = t]
<1>1. /\ logIo.op = "append"
      /\ next <= last
      /\ next \in Index /\ last \in Index
      /\ logIo = [op |-> "append", next |-> next, last |-> last]
  BY LogIoCases, RocksDBAssumption DEF AppendPut, TypeOK, Index
<1>2. /\ db \in Content
      /\ db.logs \in [Index -> Slot]
      /\ db.purged \in -1..MaxIndex
      /\ t \in Slot /\ t # Absent
      /\ logs \in [Index -> Slot]
  <2>1. db \in Content
    BY DEF TypeOK
  <2>2. db.logs \in [Index -> Slot] /\ db.purged \in LogId
    BY <2>1, ContentParts
  <2>3. t \in Slot /\ t # Absent
    BY RocksDBAssumption DEF Slot, Absent
  <2>4. logs \in [Index -> Slot]
    BY <2>2, <2>3
  <2>5. QED
    BY <2>1, <2>2, <2>3, <2>4, RocksDBAssumption DEF LogId, Index, None
<1>3. /\ db' \in Content
      /\ db'.logs = logs
      /\ db'.vote = db.vote
      /\ db'.purged = db.purged
      /\ survivors' = survivors \cup {db'}
  <2>1. [db EXCEPT !.logs[next] = t] = [db EXCEPT !.logs = logs]
    BY <1>2 DEF Content
  <2>2. db' = [db EXCEPT !.logs = logs] /\ survivors' = survivors \cup {db'}
    BY <2>1 DEF AppendPut, Put
  <2>3. QED
    BY <1>2, <2>2, ReplaceLogs
<1>4. /\ logIo' = [op |-> "append", next |-> next + 1, last |-> last]
      /\ UNCHANGED <<unsynced, synced, reported, savedVote, crashes>>
  BY <1>1 DEF AppendPut, Put
<1>5. MaxIndex \in Nat /\ next \in 0..MaxIndex /\ last \in 0..MaxIndex
  BY <1>1, RocksDBAssumption DEF Index
<1>6. \A i \in Index : i # next => db'.logs[i] = db.logs[i]
  BY <1>2, <1>3
<1>7. db'.logs[next] = t
  BY <1>1, <1>2, <1>3
<1>8. /\ db.purged < next
      /\ \A i \in Index : i >= next => ~Present(db, i)
      /\ \A i \in Index : db.purged < i /\ i < next => Present(db, i)
  BY <1>1 DEF CallInv
<1>9. TypeOK'
  BY <1>3, <1>4, <1>5 DEF TypeOK, LogIo, Index
<1>10. DbSurvives' /\ VoteDurable' /\ VoteInv'
  BY <1>3, <1>4 DEF DbSurvives, VoteDurable, VoteInv
<1>11. NoPromiseLost'
  <2>1. reported[next] = Absent
    BY <1>1, <1>5, <1>8 DEF DbSurvives, NoPromiseLost, Present
  <2>2. \A i \in Index : reported[i] # Absent => db'.logs[i] = reported[i]
    BY <1>6, <2>1 DEF DbSurvives, NoPromiseLost
  <2>3. QED
    BY <1>3, <1>4, <2>2 DEF NoPromiseLost
<1>12. PurgeInv'
  BY <1>2, <1>3, <1>4 DEF PurgeInv
<1>13. \A k \in unsynced \cup synced : k < next
  BY <1>1, <1>5, <1>8, <1>2 DEF TasksInv, TypeOK, Index
<1>14. SyncedInv'
  <2> SUFFICES ASSUME NEW k \in synced, NEW d \in survivors', NEW i \in Index,
                      db.purged < i, i <= k
               PROVE  d.logs[i] = db'.logs[i]
    BY <1>3, <1>4 DEF SyncedInv
  <2>1. i # next
    BY <1>13, <1>5 DEF TypeOK, Index
  <2>2. QED
    BY <2>1, <1>3, <1>6 DEF SyncedInv
<1>15. TasksInv'
  BY <1>3, <1>4, <1>6, <1>13, <1>5 DEF TasksInv, TypeOK, Index, Present
<1>16. GapInv'
  <2> SUFFICES ASSUME NEW i \in Index, NEW k \in Index,
                      Present(db', k), i < k, db.purged < i
               PROVE  Present(db', i)
    BY <1>3 DEF GapInv, Present
  <2>1. CASE k = next
    BY <2>1, <1>8, <1>6, <1>5 DEF Present, Index
  <2>2. CASE k # next
    <3>1. Present(db, k)
      BY <2>2, <1>6 DEF Present
    <3>2. k < next
      BY <3>1, <1>8, <1>5, <2>2 DEF Index
    <3>3. QED
      BY <3>2, <1>8, <1>6, <1>5 DEF Present, Index
  <2>3. QED
    BY <2>1, <2>2
<1>17. CallInv'
  <2>1. \A i \in Index : i >= next + 1 => ~Present(db', i)
    BY <1>5, <1>6, <1>8 DEF Present, Index
  <2>2. \A i \in Index : db.purged < i /\ i < next + 1 => Present(db', i)
    BY <1>2, <1>5, <1>6, <1>7, <1>8 DEF Present, Index
  <2>3. logIo'.op = "append" /\ logIo'.next = next + 1 /\ logIo'.last = last
    BY <1>4
  <2>4. db'.purged < next + 1 /\ next + 1 <= last + 1
    BY <1>1, <1>2, <1>3, <1>5, <1>8
  <2>5. QED
    BY <1>3, <2>1, <2>2, <2>3, <2>4 DEF CallInv
<1>18. QED
  BY <1>9, <1>10, <1>11, <1>12, <1>14, <1>15, <1>16, <1>17

LEMMA AppendSpawnStep ==
  ASSUME LogInv, AppendSpawn
  PROVE  LogInv'
<1> USE DEF LogInv
<1>1. logIo.op = "append" /\ logIo.next > logIo.last /\ logIo.last \in Index
  BY LogIoCases DEF AppendSpawn, TypeOK
<1>2. /\ UNCHANGED <<db, survivors, synced, reported, savedVote, crashes>>
      /\ unsynced' = unsynced \cup {logIo.last}
      /\ logIo' = Idle
  BY DEF AppendSpawn, dbVars
<1>3. TypeOK'
  BY <1>1, <1>2 DEF TypeOK, LogIo
<1>4. /\ DbSurvives' /\ NoPromiseLost' /\ VoteDurable' /\ PurgeInv'
      /\ SyncedInv' /\ GapInv' /\ VoteInv' /\ CallInv'
  BY <1>2 DEF DbSurvives, NoPromiseLost, VoteDurable, PurgeInv, SyncedInv, GapInv,
              VoteInv, CallInv, Idle, Present
<1>5. TasksInv'
  <2>1. Present(db, logIo.last) \/ logIo.last <= db.purged
    BY <1>1, ContentParts, RocksDBAssumption DEF CallInv, TypeOK, Index, LogId, None
  <2>2. QED
    BY <2>1, <1>2 DEF TasksInv, Present
<1>6. QED
  BY <1>3, <1>4, <1>5

LEMMA SyncTaskStep ==
  ASSUME LogInv, NEW i \in Index, SyncTask(i)
  PROVE  LogInv'
<1> USE DEF LogInv
<1>1. /\ db' = db /\ survivors' = {db} /\ crashes' = crashes
      /\ survivors' \subseteq Content
      /\ DbSurvives'
      /\ GapInv'
      /\ \A j \in Index : reported[j] # Absent => db.logs[j] = reported[j]
  BY FlushKeeps DEF SyncTask
<1>2. TypeOK'
  BY <1>1 DEF SyncTask, TypeOK
<1>3. NoPromiseLost' /\ VoteDurable' /\ VoteInv'
  BY <1>1 DEF SyncTask, NoPromiseLost, VoteDurable, VoteInv, DbSurvives
<1>4. PurgeInv'
  BY <1>1, ContentParts DEF SyncTask, PurgeInv, DbSurvives, TypeOK, LogId, Index, None
<1>5. SyncedInv' /\ TasksInv' /\ CallInv'
  BY <1>1 DEF SyncTask, SyncedInv, TasksInv, CallInv, Present
<1>6. QED
  BY <1>1, <1>2, <1>3, <1>4, <1>5

LEMMA IoCompletedStep ==
  ASSUME LogInv, NEW i \in Index, IoCompleted(i)
  PROVE  LogInv'
<1> USE DEF LogInv
<1>1. /\ UNCHANGED <<db, survivors, logIo, unsynced, savedVote, crashes>>
      /\ i \in synced
      /\ synced' = synced \ {i}
      /\ \A j \in Index :
           reported'[j] = IF db.purged < j /\ j <= i THEN db.logs[j] ELSE reported[j]
      /\ reported' = [j \in Index |-> reported'[j]]
  BY DEF IoCompleted, dbVars
<1>2. TypeOK'
  BY <1>1, ContentParts DEF TypeOK
<1>3. NoPromiseLost'
  BY <1>1 DEF NoPromiseLost, SyncedInv
<1>4. PurgeInv'
  BY <1>1, ContentParts DEF PurgeInv, TypeOK, LogId, Index, None
<1>5. /\ DbSurvives' /\ VoteDurable' /\ VoteInv' /\ SyncedInv'
      /\ TasksInv' /\ GapInv' /\ CallInv'
  BY <1>1 DEF DbSurvives, VoteDurable, VoteInv, SyncedInv, TasksInv, GapInv, CallInv, Present
<1>6. QED
  BY <1>2, <1>3, <1>4, <1>5

\* What is left of the flush tasks after a truncate answers for less than before.
LEMMA CutTasksAnswerForLess ==
  ASSUME NEW tasks \in SUBSET Index, NEW i \in Index, NEW t \in CutTasks(tasks, i)
  PROVE  /\ t \in Index
         /\ t < i
         /\ \E k \in tasks : k \in Index /\ t <= k
<1>1. i \in Int /\ \A k \in Index : k \in Int
  BY RocksDBAssumption DEF Index
<1>2. t \in Index /\ t \in Int
  BY <1>1 DEF CutTasks
<1>3. CASE t \in tasks /\ t < i
  BY <1>2, <1>3
<1>4. CASE t = i - 1 /\ \E k \in tasks : k >= i
  <2>1. PICK k \in tasks : k >= i
    BY <1>4
  <2>2. k \in Int /\ k \in Index /\ t <= k /\ t < i
    BY <1>1, <1>4, <2>1
  <2>3. QED
    BY <1>2, <2>2
<1>5. QED
  BY <1>3, <1>4 DEF CutTasks

LEMMA TruncateStep ==
  ASSUME LogInv, NEW i \in Index, Truncate(i)
  PROVE  LogInv'
<1> USE DEF LogInv
<1> DEFINE logs == [j \in Index |-> IF j >= i THEN Absent ELSE db.logs[j]]
<1>1. /\ db \in Content
      /\ db.logs \in [Index -> Slot]
      /\ db.purged \in -1..MaxIndex /\ db.purged < i
      /\ logs \in [Index -> Slot]
      /\ i \in 0..MaxIndex /\ MaxIndex \in Nat
  <2>1. db \in Content /\ db.logs \in [Index -> Slot] /\ db.purged \in LogId
    BY ContentParts DEF TypeOK
  <2>2. i \in 0..MaxIndex /\ MaxIndex \in Nat
    BY RocksDBAssumption DEF Index
  <2>3. db.purged \in -1..MaxIndex /\ db.purged < i
    BY <2>1, <2>2 DEF Truncate, LogId, Index, None
  <2>4. logs \in [Index -> Slot]
    BY <2>1 DEF Slot, Absent
  <2>5. QED
    BY <2>1, <2>2, <2>3, <2>4
<1>2. /\ db' \in Content
      /\ db'.logs = logs
      /\ db'.vote = db.vote
      /\ db'.purged = db.purged
      /\ survivors' = survivors \cup {db'}
  BY <1>1, ReplaceLogs DEF Truncate, Put
<1>3. /\ logIo = Idle /\ logIo' = Idle
      /\ UNCHANGED <<savedVote, crashes>>
      /\ unsynced' = CutTasks(unsynced, i)
      /\ synced' = CutTasks(synced, i)
      /\ reported' = [j \in Index |-> IF j >= i THEN Absent ELSE reported[j]]
  BY DEF Truncate, Put, MayCall
<1>4. \A j \in Index : db'.logs[j] = IF j >= i THEN Absent ELSE db.logs[j]
  BY <1>2
<1>5. \A j \in Index : reported'[j] = IF j >= i THEN Absent ELSE reported[j]
  BY <1>3
<1>6. TypeOK'
  BY <1>2, <1>3, <1>1 DEF TypeOK, CutTasks, Slot, LogIo
<1>7. DbSurvives' /\ VoteDurable' /\ VoteInv' /\ CallInv'
  BY <1>2, <1>3 DEF DbSurvives, VoteDurable, VoteInv, CallInv, Idle
<1>8. NoPromiseLost' /\ PurgeInv'
  <2>1. NoPromiseLost'
    BY <1>2, <1>4, <1>5 DEF NoPromiseLost, DbSurvives
  <2>2. \A d \in survivors' : d.purged <= db'.purged
    BY <1>1, <1>2 DEF PurgeInv
  <2>3. \A j \in Index : reported'[j] # Absent => j > db'.purged
    BY <1>2, <1>5 DEF PurgeInv
  <2>4. QED
    BY <2>1, <2>2, <2>3 DEF PurgeInv
<1>9. SyncedInv'
  <2> SUFFICES ASSUME NEW t \in synced', NEW d \in survivors', NEW j \in Index,
                      db.purged < j, j <= t
               PROVE  d.logs[j] = db'.logs[j]
    BY <1>2 DEF SyncedInv
  <2>1. /\ t \in Index /\ t < i
        /\ \E k \in synced : k \in Index /\ t <= k
    BY <1>3, CutTasksAnswerForLess DEF TypeOK
  <2>2. PICK k \in synced : k \in Index /\ t <= k
    BY <2>1
  <2>3. j < i /\ j <= k
    BY <2>1, <2>2, <1>1 DEF Index
  <2>4. QED
    BY <2>2, <2>3, <1>2, <1>4, <1>1 DEF SyncedInv, Index
<1>10. TasksInv'
  <2> SUFFICES ASSUME NEW t \in unsynced' \cup synced', ~(t <= db.purged)
               PROVE  Present(db', t)
    BY <1>2 DEF TasksInv
  <2>1. /\ t \in Index /\ t < i
        /\ \E k \in unsynced \cup synced : k \in Index /\ t <= k
    BY <1>3, CutTasksAnswerForLess DEF TypeOK
  <2>2. PICK k \in unsynced \cup synced : k \in Index /\ t <= k
    BY <2>1
  <2>3. k \in Index /\ Present(db, k)
    BY <2>1, <2>2, <1>1 DEF TasksInv, Index
  <2>4. Present(db, t)
    BY <2>1, <2>2, <2>3, <1>1 DEF GapInv, DbSurvives, Index
  <2>5. QED
    BY <2>1, <2>4, <1>4, <1>1 DEF Present, Index
<1>11. GapInv'
  BY <1>2, <1>4, <1>1 DEF GapInv, DbSurvives, Present, Index
<1>12. QED
  BY <1>6, <1>7, <1>8, <1>9, <1>10, <1>11

LEMMA PurgeMarkStep ==
  ASSUME LogInv, NEW i \in Index, PurgeMark(i)
  PROVE  LogInv'
<1> USE DEF LogInv
<1>1. /\ db \in Content
      /\ db.purged \in -1..MaxIndex /\ db.purged <= i
      /\ i \in 0..MaxIndex /\ MaxIndex \in Nat
      /\ survivors \subseteq Content
  BY ContentParts, RocksDBAssumption DEF TypeOK, PurgeMark, LogId, Index, None
<1>2. /\ db' \in Content
      /\ db'.logs = db.logs
      /\ db'.vote = db.vote
      /\ db'.purged = i
      /\ survivors' = survivors \cup {db'}
  BY <1>1 DEF PurgeMark, Put, Content, LogId
<1>3. /\ logIo' = [op |-> "purge", upto |-> i]
      /\ UNCHANGED <<unsynced, synced, savedVote, crashes>>
      /\ reported' = [j \in Index |-> IF j <= i THEN Absent ELSE reported[j]]
  BY DEF PurgeMark, Put
<1>4. TypeOK'
  BY <1>2, <1>3 DEF TypeOK, Slot, LogIo
<1>5. DbSurvives' /\ VoteDurable' /\ VoteInv' /\ CallInv'
  BY <1>2, <1>3 DEF DbSurvives, VoteDurable, VoteInv, CallInv
<1>6. NoPromiseLost'
  BY <1>2, <1>3 DEF NoPromiseLost, DbSurvives
<1>7. PurgeInv'
  <2>1. \A d \in survivors : d.purged \in -1..MaxIndex
    BY <1>1, ContentParts DEF LogId, Index, None
  <2>2. QED
    BY <2>1, <1>1, <1>2, <1>3 DEF PurgeInv, Index
<1>8. SyncedInv' /\ TasksInv'
  BY <1>1, <1>2, <1>3 DEF SyncedInv, TasksInv, DbSurvives, Present, Index, TypeOK
<1>9. GapInv'
  BY <1>1, <1>2 DEF GapInv, DbSurvives, Present, Index
<1>10. QED
  BY <1>4, <1>5, <1>6, <1>7, <1>8, <1>9

LEMMA PurgeDeleteStep ==
  ASSUME LogInv, PurgeDelete
  PROVE  LogInv'
<1> USE DEF LogInv
<1> DEFINE upto == logIo.upto
           logs == [j \in Index |-> IF j < upto + 1 THEN Absent ELSE db.logs[j]]
<1>1. /\ logIo.op = "purge" /\ upto = db.purged
      /\ upto \in 0..MaxIndex /\ MaxIndex \in Nat
      /\ db \in Content
      /\ db.logs \in [Index -> Slot]
      /\ logs \in [Index -> Slot]
  BY LogIoCases, ContentParts, RocksDBAssumption
  DEF TypeOK, PurgeDelete, CallInv, Slot, Absent, Index
<1>2. /\ db' \in Content
      /\ db'.logs = logs
      /\ db'.vote = db.vote
      /\ db'.purged = db.purged
      /\ survivors' = survivors \cup {db'}
  BY <1>1, ReplaceLogs DEF PurgeDelete, Put
<1>3. /\ logIo' = Idle
      /\ UNCHANGED <<unsynced, synced, reported, savedVote, crashes>>
  BY DEF PurgeDelete, Put
<1>4. \A j \in Index : db'.logs[j] = IF j <= db.purged THEN Absent ELSE db.logs[j]
  BY <1>1, <1>2 DEF Index
<1>5. TypeOK'
  BY <1>2, <1>3 DEF TypeOK, LogIo
<1>6. DbSurvives' /\ VoteDurable' /\ VoteInv' /\ CallInv'
  BY <1>2, <1>3 DEF DbSurvives, VoteDurable, VoteInv, CallInv, Idle
<1>7. NoPromiseLost' /\ PurgeInv'
  BY <1>1, <1>2, <1>3, <1>4 DEF NoPromiseLost, PurgeInv, DbSurvives, Index
<1>8. SyncedInv' /\ TasksInv'
  BY <1>1, <1>2, <1>3, <1>4 DEF SyncedInv, TasksInv, DbSurvives, Present, Index, TypeOK
<1>9. GapInv'
  BY <1>1, <1>2, <1>4 DEF GapInv, DbSurvives, Present, Index
<1>10. QED
  BY <1>5, <1>6, <1>7, <1>8, <1>9

LEMMA CrashStep ==
  ASSUME LogInv, Crash
  PROVE  LogInv'
<1> USE DEF LogInv
<1>1. /\ db' \in survivors /\ survivors' = {db'}
      /\ db' \in Content
      /\ logIo' = Idle /\ unsynced' = {} /\ synced' = {}
      /\ reported' = Restarted(db')
      /\ savedVote' = savedVote
      /\ crashes' = crashes + 1 /\ crashes < MaxCrashes
  BY DEF Crash, PowerLoss, TypeOK
<1>2. /\ db'.logs \in [Index -> Slot]
      /\ db'.purged \in -1..MaxIndex /\ db.purged \in -1..MaxIndex
      /\ db'.purged <= db.purged
      /\ MaxIndex \in Nat
  BY <1>1, ContentParts, RocksDBAssumption DEF TypeOK, PurgeInv, LogId, Index, None
<1>3. \A i \in Index :
        reported'[i] = IF reported[i] = Absent /\ i > db'.purged
                         THEN db'.logs[i] ELSE reported[i]
  BY <1>1 DEF Restarted
<1>4. TypeOK'
  BY <1>1, <1>2, RocksDBAssumption DEF TypeOK, LogIo, Restarted
<1>5. DbSurvives' /\ VoteDurable' /\ VoteInv' /\ CallInv' /\ SyncedInv' /\ TasksInv'
  BY <1>1 DEF DbSurvives, VoteDurable, VoteInv, CallInv, SyncedInv, TasksInv, Idle
<1>6. NoPromiseLost' /\ PurgeInv'
  BY <1>1, <1>2, <1>3 DEF NoPromiseLost, PurgeInv, Index
<1>7. GapInv'
  BY <1>1 DEF GapInv, Present
<1>8. QED
  BY <1>4, <1>5, <1>6, <1>7

-----------------------------------------------------------------------------
(* The theorems.                                                           *)

LEMMA LogInvStep == LogInv /\ [Next]_vars => LogInv'
<1> SUFFICES ASSUME LogInv, [Next]_vars PROVE LogInv'
  OBVIOUS
<1>1. CASE \E v \in Vote : SaveVotePut(v)
  BY <1>1, SaveVotePutStep
<1>2. CASE SaveVoteFlush
  BY <1>2, SaveVoteFlushStep
<1>3. CASE \E n \in 1..MaxBatch : AppendBegin(n)
  BY <1>3, AppendBeginStep
<1>4. CASE \E t \in Terms : AppendPut(t)
  BY <1>4, AppendPutStep
<1>5. CASE AppendSpawn
  BY <1>5, AppendSpawnStep
<1>6. CASE \E i \in Index : SyncTask(i)
  BY <1>6, SyncTaskStep
<1>7. CASE \E i \in Index : IoCompleted(i)
  BY <1>7, IoCompletedStep
<1>8. CASE \E i \in Index : Truncate(i)
  BY <1>8, TruncateStep
<1>9. CASE \E i \in Index : PurgeMark(i)
  BY <1>9, PurgeMarkStep
<1>10. CASE PurgeDelete
  BY <1>10, PurgeDeleteStep
<1>11. CASE Crash
  BY <1>11, CrashStep
<1>12. CASE UNCHANGED vars
  BY <1>12
  DEF vars, dbVars, logVars, LogInv, TypeOK, DbSurvives, NoPromiseLost, VoteDurable, VoteInv, PurgeInv,
      SyncedInv, TasksInv, GapInv, CallInv, Present
<1>13. QED
  BY <1>1, <1>2, <1>3, <1>4, <1>5, <1>6, <1>7, <1>8, <1>9, <1>10, <1>11, <1>12 DEF Next

\* The inductive invariant holds in every behaviour of the log store.
THEOREM LogStoreInvariant == Spec => []LogInv
BY LogInvInit, LogInvStep, PTL DEF Spec

\* Every variable of the log store keeps its type.
THEOREM LogStoreTypeCorrect == Spec => []TypeOK
<1>1. LogInv => TypeOK
  BY DEF LogInv
<1>2. QED
  BY <1>1, LogStoreInvariant, PTL

\* What RaftCore was told is durable survives every power loss, whatever the
\* order in which the detached flush tasks of append() run.
THEOREM PromisesAreKept == Spec => []NoPromiseLost
<1>1. LogInv => NoPromiseLost
  BY DEF LogInv
<1>2. QED
  BY <1>1, LogStoreInvariant, PTL

\* A vote that save_vote() returned for survives every power loss.
THEOREM VotesAreKept == Spec => []VoteDurable
<1>1. LogInv => VoteDurable
  BY DEF LogInv
<1>2. QED
  BY <1>1, LogStoreInvariant, PTL

\* Range reads after the purged log id skip no entry, before and after a crash.
THEOREM ReadsSkipNothing == Spec => []LogHasNoGap
<1>1. LogInv => LogHasNoGap
  <2> SUFFICES ASSUME LogInv, NEW d \in survivors, NEW from \in Index, NEW to \in Index,
                      from > d.purged, to \in TryGetLogEntries(d, from, to)
               PROVE  TryGetLogEntries(d, from, to) = from..to
    BY DEF LogHasNoGap
  <2>1. d.purged \in -1..MaxIndex /\ MaxIndex \in Nat /\ Present(d, to)
    BY ContentParts, RocksDBAssumption
    DEF LogInv, TypeOK, LogId, Index, None, TryGetLogEntries
  <2>2. \A i \in from..to : i \in Index /\ Present(d, i)
    BY <2>1 DEF LogInv, GapInv, Index
  <2>3. QED
    BY <2>1, <2>2 DEF TryGetLogEntries, Index
<1>2. QED
  BY <1>1, LogStoreInvariant, PTL
=============================================================================
