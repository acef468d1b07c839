------------------------------ MODULE History ------------------------------
(***************************************************************************)
(* What a Raft cluster promises to what is built on it: one history, of    *)
(* which every node knows a beginning.  A node learns more of it, makes it *)
(* longer, or restarts and has to learn it again.                          *)
(***************************************************************************)
EXTENDS SequencesExt

CONSTANTS Node, Entry, MaxLength

VARIABLES
  chosen,   \* the entries that are committed, in order
  learned   \* what each node knows of them

historyVars == <<chosen, learned>>

Histories == BoundedSeq(Entry, MaxLength)

HistoryInit ==
  /\ chosen = <<>>
  /\ learned = [n \in Node |-> <<>>]

\* n learns that s is committed, the first to know of it or not.
Learn(n, s) ==
  /\ IsPrefix(learned[n], s)
  /\ learned' = [learned EXCEPT ![n] = s]
  /\ \/ IsPrefix(s, chosen) /\ UNCHANGED chosen
     \/ IsPrefix(chosen, s) /\ chosen' = s

\* n restarts.
Forget(n, s) ==
  /\ IsPrefix(s, learned[n])
  /\ learned' = [learned EXCEPT ![n] = s]
  /\ UNCHANGED chosen

HistoryNext ==
  \E n \in Node, s \in Histories : Learn(n, s) \/ Forget(n, s)

HistorySpec == HistoryInit /\ [][HistoryNext]_historyVars
=============================================================================
