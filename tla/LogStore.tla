------------------------------ MODULE LogStore ------------------------------
(***************************************************************************)
(* RocksLogStore (raft/store/log.rs): openraft's log and vote storage over *)
(* the shared database.  RaftCore awaits the mutating calls one at a time, *)
(* so one call is in progress at most (`logIo'); each put, delete and      *)
(* flush inside a call is a step of its own.  append() returns before its  *)
(* data is synced: a detached blocking task syncs the write-ahead log and  *)
(* then answers the IOFlushed callback.  Tasks of several appends run in   *)
(* any order, and a crash may come between any two steps.                  *)
(***************************************************************************)
EXTENDS RocksDB

CONSTANTS
  MaxBatch     \* largest number of entries in one append

ASSUME LogStoreAssumption == MaxBatch \in Nat \ {0}

VARIABLES
  logIo,       \* the call in progress
  unsynced,    \* flush tasks spawned: the last index each will answer for
  synced,      \* flush tasks that have synced and not yet called back
  reported,    \* history: entries RaftCore was told are durable
  savedVote    \* history: the vote of the last save_vote that returned

logVars == <<logIo, unsynced, synced, reported, savedVote>>

Idle == [op |-> "idle"]

\* RaftCore makes its next call (the second conjunct is the bound).
MayCall == logIo = Idle /\ FewUnsynced

LogIo == {Idle}
         \cup [op : {"save_vote"}, vote : Vote]
         \cup [op : {"append"}, next : 0..MaxIndex + 1, last : Index]
         \cup [op : {"purge"}, upto : Index]

NothingReported == [i \in Index |-> Absent]

LogInit ==
  /\ logIo = Idle
  /\ unsynced = {}
  /\ synced = {}
  /\ reported = NothingReported
  /\ savedVote = 0

-----------------------------------------------------------------------------
(* What a reader gets.                                                     *)

\* get_log_state: the last key of the logs column, else the purged log id.
IsLastLogId(d, i) ==
  \/ i = d.purged /\ \A j \in Index : ~Present(d, j)
  \/ i \in Index /\ Present(d, i) /\ \A j \in Index : Present(d, j) => j <= i

\* try_get_log_entries(from..=to): the entries of the logs column in order.
TryGetLogEntries(d, from, to) ==
  {i \in Index : from <= i /\ i <= to /\ Present(d, i)}

-----------------------------------------------------------------------------
(* save_vote: the put, then an awaited flush_wal(true).                    *)

SaveVotePut(v) ==
  /\ MayCall
  /\ v > db.vote
  /\ Put([db EXCEPT !.vote = v])
  /\ logIo' = [op |-> "save_vote", vote |-> v]
  /\ UNCHANGED <<unsynced, synced, reported, savedVote>>

\* Mutant: save_vote returns without the flush.
SaveVoteNoFlush ==
  /\ logIo.op = "save_vote"
  /\ savedVote' = logIo.vote
  /\ logIo' = Idle
  /\ UNCHANGED <<dbVars, unsynced, synced, reported>>

SaveVoteFlush ==
  /\ logIo.op = "save_vote"
  /\ FlushWal
  /\ savedVote' = logIo.vote
  /\ logIo' = Idle
  /\ UNCHANGED <<unsynced, synced, reported>>

-----------------------------------------------------------------------------
(* append: one put per entry, then the detached flush task.                *)

\* RaftCore appends after the last log id, once what it purged is gone.
AppendBegin(n) ==
  /\ MayCall
  /\ \E last \in LogId :
       /\ IsLastLogId(db, last)
       /\ last >= db.purged
       /\ last + n <= MaxIndex
       /\ logIo' = [op |-> "append", next |-> last + 1, last |-> last + n]
  /\ UNCHANGED <<dbVars, unsynced, synced, reported, savedVote>>

\* Mutant: the loop of append() takes one entry too many.
AppendPutOneMore(t) ==
  /\ logIo.op = "append"
  /\ logIo.next <= logIo.last + 1
  /\ \A i \in Index : db.logs[i] <= t
  /\ Put([db EXCEPT !.logs[logIo.next] = t])
  /\ logIo' = [logIo EXCEPT !.next = @ + 1]
  /\ UNCHANGED <<unsynced, synced, reported, savedVote>>

AppendPut(t) ==
  /\ logIo.op = "append"
  /\ logIo.next <= logIo.last
  /\ \A i \in Index : db.logs[i] <= t
  /\ Put([db EXCEPT !.logs[logIo.next] = t])
  /\ logIo' = [logIo EXCEPT !.next = @ + 1]
  /\ UNCHANGED <<unsynced, synced, reported, savedVote>>

\* Mutant: no task is spawned while another is waiting to sync.
AppendSpawnUnlessBusy ==
  /\ logIo.op = "append"
  /\ logIo.next > logIo.last
  /\ unsynced' = IF unsynced = {} THEN {logIo.last} ELSE unsynced
  /\ logIo' = Idle
  /\ UNCHANGED <<dbVars, synced, reported, savedVote>>

AppendSpawn ==
  /\ logIo.op = "append"
  /\ logIo.next > logIo.last
  /\ unsynced' = unsynced \cup {logIo.last}
  /\ logIo' = Idle
  /\ UNCHANGED <<dbVars, synced, reported, savedVote>>

\* The blocking task of an append: flush_wal(true), ...
SyncTask(i) ==
  /\ i \in unsynced
  /\ FlushWal
  /\ unsynced' = unsynced \ {i}
  /\ synced' = synced \cup {i}
  /\ UNCHANGED <<logIo, reported, savedVote>>

\* Mutant: the callback is answered without waiting for the sync.
IoCompletedEarly(i) ==
  /\ i \in unsynced \cup synced
  /\ synced' = synced \ {i}
  /\ unsynced' = unsynced \ {i}
  /\ reported' = [j \in Index |->
                    IF db.purged < j /\ j <= i THEN db.logs[j] ELSE reported[j]]
  /\ UNCHANGED <<dbVars, logIo, savedVote>>

\* ... then io_completed: RaftCore takes every entry up to i for durable.
IoCompleted(i) ==
  /\ i \in synced
  /\ synced' = synced \ {i}
  /\ reported' = [j \in Index |->
                    IF db.purged < j /\ j <= i THEN db.logs[j] ELSE reported[j]]
  /\ UNCHANGED <<dbVars, logIo, unsynced, savedVote>>

-----------------------------------------------------------------------------
(* truncate: one delete_range from the index on, not synced.  RaftCore     *)
(* drops what it was told of the entries it truncates, and a task still    *)
(* running answers only for those that stay.                               *)

CutTasks(tasks, i) ==
  {j \in Index : \/ j \in tasks /\ j < i
                 \/ j = i - 1 /\ \E k \in tasks : k >= i}

\* Mutant: the range of truncate starts one entry too early.
TruncateOneMore(i) ==
  /\ MayCall
  /\ i > db.purged
  /\ Put([db EXCEPT !.logs = [j \in Index |-> IF j >= i - 1 THEN Absent ELSE @[j]]])
  /\ unsynced' = CutTasks(unsynced, i)
  /\ synced' = CutTasks(synced, i)
  /\ reported' = [j \in Index |-> IF j >= i THEN Absent ELSE reported[j]]
  /\ UNCHANGED <<logIo, savedVote>>

Truncate(i) ==
  /\ MayCall
  /\ i > db.purged
  /\ Put([db EXCEPT !.logs = [j \in Index |-> IF j >= i THEN Absent ELSE @[j]]])
  /\ unsynced' = CutTasks(unsynced, i)
  /\ synced' = CutTasks(synced, i)
  /\ reported' = [j \in Index |-> IF j >= i THEN Absent ELSE reported[j]]
  /\ UNCHANGED <<logIo, savedVote>>

-----------------------------------------------------------------------------
(* purge: the purged log id first, then the delete_range; neither synced.  *)

\* Mutant: the entries are deleted before the purged log id is written.
PurgeDeleteFirst(i) ==
  /\ MayCall
  /\ i >= db.purged
  /\ Put([db EXCEPT !.logs = [j \in Index |-> IF j <= i THEN Absent ELSE @[j]]])
  /\ logIo' = [op |-> "purge", upto |-> i]
  /\ reported' = [j \in Index |-> IF j <= i THEN Absent ELSE reported[j]]
  /\ UNCHANGED <<unsynced, synced, savedVote>>

PurgeMark(i) ==
  /\ MayCall
  /\ i >= db.purged
  /\ Put([db EXCEPT !.purged = i])
  /\ logIo' = [op |-> "purge", upto |-> i]
  /\ reported' = [j \in Index |-> IF j <= i THEN Absent ELSE reported[j]]
  /\ UNCHANGED <<unsynced, synced, savedVote>>

\* Mutant: the exclusive end of purge's range is taken for an inclusive one.
PurgeDeleteOneMore ==
  /\ logIo.op = "purge"
  /\ Put([db EXCEPT !.logs =
            [j \in Index |-> IF j <= logIo.upto + 1 THEN Absent ELSE @[j]]])
  /\ logIo' = Idle
  /\ UNCHANGED <<unsynced, synced, reported, savedVote>>

PurgeDelete ==
  /\ logIo.op = "purge"
  /\ Put([db EXCEPT !.logs =
            [j \in Index |-> IF j < logIo.upto + 1 THEN Absent ELSE @[j]]])
  /\ logIo' = Idle
  /\ UNCHANGED <<unsynced, synced, reported, savedVote>>

-----------------------------------------------------------------------------
\* A crash, or an I/O error that makes RaftCore stop: the calls and tasks
\* are gone, and the restarted RaftCore takes the log it reads for durable.
Restarted(d) ==
  [i \in Index |-> IF reported[i] = Absent /\ i > d.purged THEN d.logs[i]
                                                          ELSE reported[i]]

Crash ==
  /\ PowerLoss
  /\ logIo' = Idle
  /\ unsynced' = {}
  /\ synced' = {}
  /\ reported' = Restarted(db')
  /\ UNCHANGED savedVote

-----------------------------------------------------------------------------
vars == <<dbVars, logVars>>

Init == DBInit /\ LogInit

Next ==
  \/ \E v \in Vote : SaveVotePut(v)
  \/ SaveVoteFlush
  \/ \E n \in 1..MaxBatch : AppendBegin(n)
  \/ \E t \in Terms : AppendPut(t)
  \/ AppendSpawn
  \/ \E i \in Index : SyncTask(i)
  \/ \E i \in Index : IoCompleted(i)
  \/ \E i \in Index : Truncate(i)
  \/ \E i \in Index : PurgeMark(i)
  \/ PurgeDelete
  \/ Crash

Spec == Init /\ [][Next]_vars

\* A call that was begun is polled to its end, and tokio's blocking pool
\* runs every task that was spawned.  New calls and crashes are not fair.
Fairness ==
  /\ WF_vars(SaveVoteFlush)
  /\ WF_vars(\E t \in Terms : AppendPut(t))
  /\ WF_vars(AppendSpawn)
  /\ WF_vars(PurgeDelete)
  /\ \A i \in Index : WF_vars(SyncTask(i)) /\ WF_vars(IoCompleted(i))

FairSpec == Spec /\ Fairness

-----------------------------------------------------------------------------
(* Properties.                                                             *)

\* The type of every variable.
TypeOK ==
  /\ db \in Content
  /\ survivors \subseteq Content
  /\ logIo \in LogIo
  /\ unsynced \subseteq Index
  /\ synced \subseteq Index
  /\ reported \in [Index -> Slot]
  /\ savedVote \in Vote
  /\ crashes \in 0..MaxCrashes

\* An entry RaftCore was told is durable (IOFlushed answered for it or for a
\* later entry, or it was read at start-up) is still there, with its term,
\* whatever a power loss leaves now: out-of-order flush tasks, an unsynced
\* truncate or a purge cut in two never take it back.
NoPromiseLost ==
  \A d \in survivors, i \in Index : reported[i] # Absent => d.logs[i] = reported[i]

\* A node never forgets a vote that save_vote returned for: it cannot grant a
\* second vote in that term after a restart.
VoteDurable == \A d \in survivors : d.vote >= savedVote

\* Wherever a crash falls (inside an append's puts or between the two writes of
\* a purge), and for a reader running beside the call as well, a range read that
\* starts after the purged log id and reaches its end skips no entry.
LogHasNoGap ==
  \A d \in survivors : \A from, to \in Index :
    (from > d.purged /\ to \in TryGetLogEntries(d, from, to))
      => TryGetLogEntries(d, from, to) = from..to

\* Every entry written is answered for, or truncated or purged: the flush task
\* that append() detaches is never lost except in a crash.
EveryWriteIsAnswered ==
  \A i \in Index :
    Present(db, i) ~> (reported[i] # Absent \/ ~Present(db, i) \/ i <= db.purged)
=============================================================================
