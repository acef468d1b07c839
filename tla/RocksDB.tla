------------------------------ MODULE RocksDB ------------------------------
(***************************************************************************)
(* The RocksDB database that RocksLogStore and StateMachineStore share     *)
(* (store.rs opens one DB and hands the same Arc<DB> to both).             *)
(*                                                                         *)
(* The engine is external; what is modelled is what the repository relies  *)
(* on.  The three column families are written through ONE write-ahead log, *)
(* so a put is visible at once, is durable only after flush_wal(true), and *)
(* a power loss leaves the database as it was after some prefix of the     *)
(* writes made since the last flush.  `survivors' holds those contents.    *)
(***************************************************************************)
EXTENDS Integers, Sequences, FiniteSets

CONSTANTS
  MaxIndex,   \* largest log index of the instance
  Terms,      \* terms a log entry may carry
  MaxVote,    \* largest vote of the instance; votes are numbered in their order
  MaxCrashes, \* bound on the crashes of a behaviour
  MaxUnsynced \* bound on the contents a crash may leave when a call begins

ASSUME RocksDBAssumption ==
  /\ MaxIndex \in Nat
  /\ Terms \subseteq Nat \ {0}
  /\ MaxVote \in Nat
  /\ MaxCrashes \in Nat
  /\ MaxUnsynced \in Nat \ {0}

Index  == 0..MaxIndex
None   == -1                 \* Option::None of a log id
LogId  == Index \cup {None}
Vote   == 0..MaxVote         \* 0: the key "vote" is not there
Absent == 0                  \* no entry under this key of the logs column
Slot   == Terms \cup {Absent}

(* The column families: "vote" and "last_purged_log_id" of meta, the logs  *)
(* column (index -> term of the entry), and "snapshot" of store: its meta  *)
(* (last log id, log id of the last membership) and its data, which is the *)
(* sequence of the entries whose effects the exported application has.     *)
Snapshot == [last : LogId, member : LogId, data : Seq(Index)]
Content  == [vote : Vote, purged : LogId, logs : [Index -> Slot], snapshot : Snapshot]

NoSnapshot == [last |-> None, member |-> None, data |-> <<>>]

VARIABLES
  db,          \* what the process reads
  survivors,   \* contents a power loss may leave
  crashes      \* how often the process stopped and was started again

dbVars == <<db, survivors, crashes>>

DBInit ==
  /\ db = [vote |-> 0, purged |-> None, logs |-> [i \in Index |-> Absent],
           snapshot |-> NoSnapshot]
  /\ survivors = {db}
  /\ crashes = 0

\* put_cf, delete_range_cf: one atomic write, not yet synced.
Put(new) ==
  /\ db' = new
  /\ survivors' = survivors \cup {new}
  /\ UNCHANGED crashes

\* flush_wal(true): every write made so far, by whoever made it, is durable.
FlushWal ==
  /\ survivors' = {db}
  /\ UNCHANGED <<db, crashes>>

\* The process or the machine stops and the database is opened again: it
\* recovers a prefix of the unsynced writes and flushes what it recovered.
PowerLoss ==
  /\ crashes < MaxCrashes
  /\ \E d \in survivors : db' = d /\ survivors' = {d}
  /\ crashes' = crashes + 1

\* The bound on unsynced writes, a guard of the steps that begin a call.
FewUnsynced == Cardinality(survivors) <= MaxUnsynced

Present(d, i) == d.logs[i] # Absent
=============================================================================
