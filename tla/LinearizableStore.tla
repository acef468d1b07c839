------------------------- MODULE LinearizableStore -------------------------
(***************************************************************************)
(* What a client of the service is promised.  There is one history of      *)
(* writes.  A write takes effect once, after it began and before it is     *)
(* answered; one that is not answered may have taken effect or may yet.  A *)
(* safe read is answered from a point of the history between its beginning *)
(* and its end.                                                            *)
(***************************************************************************)
EXTENDS Integers, Sequences

CONSTANTS Writes, SafeReads

VARIABLES
  history,  \* what took effect: the call of a write, or something internal
  call,     \* per call "idle", "begun", "answered" or "failed"
  since,    \* how long the history was when a read began that has not ended
  seen      \* the point of the history a read was answered from

storeVars == <<history, call, since, seen>>

Call  == Writes \cup SafeReads
Other == "other"

StoreInit ==
  /\ history = <<>>
  /\ call = [c \in Call |-> "idle"]
  /\ since = [c \in Call |-> 0]
  /\ seen = [c \in Call |-> 0]

BeginWrite(c) ==
  /\ call[c] = "idle"
  /\ call' = [call EXCEPT ![c] = "begun"]
  /\ UNCHANGED <<history, since, seen>>

TakeEffect(w) ==
  /\ w \in Writes => call[w] # "idle" /\ \A i \in DOMAIN history : history[i] # w
  /\ history' = Append(history, w)
  /\ UNCHANGED <<call, since, seen>>

AnswerWrite(c) ==
  /\ call[c] = "begun"
  /\ \E i \in DOMAIN history : history[i] = c
  /\ call' = [call EXCEPT ![c] = "answered"]
  /\ UNCHANGED <<history, since, seen>>

BeginRead(c) ==
  /\ call[c] = "idle"
  /\ call' = [call EXCEPT ![c] = "begun"]
  /\ since' = [since EXCEPT ![c] = Len(history)]
  /\ UNCHANGED <<history, seen>>

AnswerRead(c, point) ==
  /\ call[c] = "begun"
  /\ point \in since[c]..Len(history)
  /\ call' = [call EXCEPT ![c] = "answered"]
  /\ seen' = [seen EXCEPT ![c] = point]
  /\ since' = [since EXCEPT ![c] = 0]
  /\ UNCHANGED history

\* Calls end without an answer, also several at once when a node goes down.
Fail(C) ==
  /\ \A c \in C : call[c] \in {"idle", "begun"}
  /\ call' = [c \in Call |-> IF c \in C THEN "failed" ELSE call[c]]
  /\ since' = [c \in Call |-> IF c \in C THEN 0 ELSE since[c]]
  /\ UNCHANGED <<history, seen>>

StoreNext ==
  \/ \E c \in Writes : BeginWrite(c) \/ AnswerWrite(c)
  \/ \E w \in Writes \cup {Other} : TakeEffect(w)
  \/ \E c \in SafeReads : BeginRead(c) \/ \E point \in 0..Len(history) : AnswerRead(c, point)
  \/ \E C \in SUBSET Call : Fail(C)

StoreSpec == StoreInit /\ [][StoreNext]_storeVars
=============================================================================
