--------------------------- MODULE ClientsProofs ---------------------------
(***************************************************************************)
(* TypeOK, Linearizable, ReadsOwnWrites and JointConfigsSurvive for every  *)
(* set of nodes and calls.  Each step of Clients is a step of              *)
(* LinearizableStore or leaves what the store shows unchanged.             *)
(* The invariant says that a log id names one proposal for ever, so that   *)
(* the caller who waits for it is answered by the entry that holds its     *)
(* request, and that a read waits for as much as was chosen when it began. *)
(***************************************************************************)
EXTENDS Clients, TLAPS, FiniteSetTheorems

Futures == [on : Node, boot : Nat, since : Nat, index : Nat]
Waiters == [log_id : [leader_id : Nat, index : Nat], call : Writes \cup Changes]

IsLog(s) == s \in Seq(Range(s))

\* Entry i of a log: its log id, and the request of a call that was made.
EntryOK(e, i, t, made) ==
  /\ e.index = i /\ e.term \in 0..t
  /\ e.app_data = {} \/ \E c \in made : e.app_data = {c}

LogOK(l, t, made) ==
  /\ \A i \in 1..Len(l) : EntryOK(l[i], i, t, made)
  /\ \A i, j \in 1..Len(l) : l[i].app_data = l[j].app_data /\ l[i].app_data # {} => i = j

Made == {c \in Writes : call[c] # "idle"}

LogInv ==
  /\ IsLog(chosen) /\ IsLog(tail) /\ term \in Nat
  /\ chosen = <<>> => tail = <<>> /\ term = 0
  /\ LogOK(LeaderLog, term, Made)

NodeInv ==
  /\ boots \in [Node -> Nat] /\ applied \in [Node -> Nat]
  /\ \A n \in Node : applied[n] <= Len(chosen)
  /\ leader \subseteq Node /\ running \subseteq Node
  /\ leader # {} => chosen # <<>>

CallInv ==
  /\ call \in [Call -> Pending \cup {"idle", "answered", "dropped", "failed"}]
  /\ future \in [Call -> Futures] /\ seen \in [Call -> Nat]
  /\ \A c \in Writes : call[c] \notin {"checked", "awaiting", "reading"} /\ future[c].since = 0

\* A read has begun if and only if it holds since; it waits for at least that much.
ReadInv ==
  \A c \in SafeReads :
    /\ call[c] \in {"awaiting", "reading"} =>
         future[c].since <= future[c].index /\ future[c].since <= Len(chosen)
    /\ call[c] = "reading" => future[c].index <= applied[future[c].on]
    /\ call[c] \notin {"awaiting", "reading"} => future[c].since = 0
    /\ call[c] \notin {"checked", "waiting", "dropped"}

\* Whoever waits for a log id finds its own request there, or nothing yet.
Finds(w, l, t) ==
  /\ w.log_id.leader_id <= t
  /\ w.log_id.leader_id = t => w.log_id.index <= Len(l)
  /\ \A i \in 1..Len(l) : LogIdFromPb(l[i]) = w.log_id => l[i].app_data = {w.call} \cap Writes

WaitInv ==
  /\ waiting \in [Node -> SUBSET Waiters]
  /\ \A n \in Node : \A w \in waiting[n] :
       /\ call[w.call] = "waiting" /\ future[w.call].on = n
       /\ Finds(w, LeaderLog, term)
  /\ \A n \in Node : \A v, w \in waiting[n] : v.call = w.call => v = w

IInv == LogInv /\ NodeInv /\ CallInv /\ ReadInv /\ WaitInv

-----------------------------------------------------------------------------
(* Sequences.                                                              *)

\* Two logs are over one set of entries.
LEMMA OneSet ==
  ASSUME NEW s, NEW t, IsLog(s), IsLog(t), NEW e
  PROVE  \E S : s \in Seq(S) /\ t \in Seq(S) /\ e \in S
<1> DEFINE S == Range(s) \cup Range(t) \cup {e}
<1>1. s \in Seq(S) /\ t \in Seq(S) /\ e \in S
  BY DEF IsLog
<1> QED
  BY <1>1

LEMMA IsLogIs ==
  ASSUME NEW S, NEW s \in Seq(S)
  PROVE  IsLog(s)
BY DEF IsLog, Range

\* Committing moves an entry from one part of the leader's log to the other.
LEMMA MoveHead ==
  ASSUME NEW S, NEW s \in Seq(S), NEW t \in Seq(S), t # <<>>
  PROVE  /\ Append(s, Head(t)) \o Tail(t) = s \o t
         /\ Append(s, Head(t)) \in Seq(S) /\ Tail(t) \in Seq(S)
         /\ Head(t) = (s \o t)[Len(s) + 1]
         /\ Len(s) + 1 \in 1..Len(s \o t)
<1> DEFINE a == Append(s, Head(t))
<1>1. a \in Seq(S) /\ Tail(t) \in Seq(S) /\ Len(a) = Len(s) + 1 /\ Len(Tail(t)) = Len(t) - 1
  OBVIOUS
<1>2. Len(a \o Tail(t)) = Len(s \o t)
  BY <1>1
<1>3. ASSUME NEW i \in 1..Len(s \o t)
      PROVE  (a \o Tail(t))[i] = (s \o t)[i]
  <2>1. CASE i <= Len(s)
    BY <1>1, <2>1
  <2>2. CASE i = Len(s) + 1
    BY <1>1, <2>2
  <2>3. CASE i > Len(s) + 1
    BY <1>1, <2>3
  <2> QED
    BY <2>1, <2>2, <2>3
<1>4. a \o Tail(t) = s \o t
  BY <1>1, <1>2, <1>3
<1> QED
  BY <1>1, <1>4

\* A log that keeps k entries and gets one more, of a later term or at its end.
LEMMA ExtendLog ==
  ASSUME NEW S, NEW l \in Seq(S), NEW t \in Nat, NEW u \in Nat, t <= u,
         NEW made, NEW more, made \subseteq more, LogOK(l, t, made),
         NEW k \in 0..Len(l), NEW e \in S, EntryOK(e, k + 1, u, more),
         \A i \in 1..Len(l) : l[i].app_data = e.app_data => e.app_data = {}
  PROVE  LogOK(Append(SubSeq(l, 1, k), e), u, more)
<1> DEFINE r == Append(SubSeq(l, 1, k), e)
<1>1. /\ r \in Seq(S) /\ Len(r) = k + 1 /\ r[k + 1] = e
      /\ \A i \in 1..k : r[i] = l[i]
  OBVIOUS
<1> HIDE DEF r
<1>2. \A i \in 1..k : EntryOK(r[i], i, u, more)
  BY <1>1 DEF LogOK, EntryOK
<1>3. \A i \in 1..Len(r) : EntryOK(r[i], i, u, more)
  BY <1>1, <1>2
<1>4. ASSUME NEW i \in 1..Len(r), NEW j \in 1..Len(r),
             r[i].app_data = r[j].app_data, r[i].app_data # {}
      PROVE  i = j
  <2>1. CASE i <= k /\ j <= k
    BY <2>1, <1>1, <1>4 DEF LogOK
  <2>2. CASE i = k + 1 \/ j = k + 1
    BY <2>2, <1>1, <1>4
  <2> QED
    BY <2>1, <2>2, <1>1
<1> QED
  BY <1>3, <1>4 DEF LogOK, r

LEMMA ExtendFinds ==
  ASSUME NEW S, NEW l \in Seq(S), NEW t \in Nat, NEW u \in Nat,
         NEW k \in 0..Len(l), t < u \/ (t = u /\ k = Len(l)),
         NEW e \in S, e.term = u, e.index = k + 1,
         NEW w \in Waiters, Finds(w, l, t)
  PROVE  Finds(w, Append(SubSeq(l, 1, k), e), u)
<1> DEFINE r == Append(SubSeq(l, 1, k), e)
<1>1. /\ r \in Seq(S) /\ Len(r) = k + 1 /\ r[k + 1] = e
      /\ \A i \in 1..k : r[i] = l[i]
  OBVIOUS
<1> HIDE DEF r
<1>2. w.log_id.leader_id \in Nat /\ w.log_id.index \in Nat
  BY DEF Waiters
<1>3. LogIdFromPb(e).leader_id = u /\ LogIdFromPb(e).index = k + 1
  BY DEF LogIdFromPb
<1>4. LogIdFromPb(e) # w.log_id
  BY <1>2, <1>3 DEF Finds
<1>5. \A i \in 1..Len(r) : LogIdFromPb(r[i]) = w.log_id => r[i].app_data = {w.call} \cap Writes
  BY <1>1, <1>4 DEF Finds
<1> QED
  BY <1>1, <1>2, <1>5 DEF Finds, r

LEMMA ConcatIs ==
  ASSUME NEW S, NEW s \in Seq(S), NEW t \in Seq(S)
  PROVE  /\ s \o t \in Seq(S) /\ Len(s \o t) = Len(s) + Len(t)
         /\ \A i \in 1..Len(s) : (s \o t)[i] = s[i]
         /\ \A i \in 1..Len(t) : (s \o t)[Len(s) + i] = t[i]
OBVIOUS

LEMMA CutIs ==
  ASSUME NEW S, NEW t \in Seq(S), NEW k \in 0..Len(t), NEW e \in S
  PROVE  /\ SubSeq(t, 1, k) \in Seq(S) /\ Len(SubSeq(t, 1, k)) = k
         /\ Append(SubSeq(t, 1, k), e) \in Seq(S)
         /\ Len(Append(SubSeq(t, 1, k), e)) = k + 1
         /\ Append(SubSeq(t, 1, k), e)[k + 1] = e
         /\ \A i \in 1..k : Append(SubSeq(t, 1, k), e)[i] = t[i]
         /\ k = Len(t) => SubSeq(t, 1, k) = t
OBVIOUS

LEMMA SameSeq ==
  ASSUME NEW S, NEW s \in Seq(S), NEW t \in Seq(S), Len(s) = Len(t),
         \A i \in 1..Len(s) : s[i] = t[i]
  PROVE  s = t
OBVIOUS

\* The leader's log when its tail keeps k entries and gets one more.
LEMMA CutTail ==
  ASSUME NEW S, NEW s \in Seq(S), NEW t \in Seq(S), NEW k \in 0..Len(t), NEW e \in S
  PROVE  /\ s \o Append(SubSeq(t, 1, k), e) = Append(SubSeq(s \o t, 1, Len(s) + k), e)
         /\ Len(s \o SubSeq(t, 1, k)) = Len(s) + k
         /\ Len(s) + k \in 0..Len(s \o t)
<1>1. PICK a : a = Append(SubSeq(t, 1, k), e)
  OBVIOUS
<1>2. PICK l : l = s \o t
  OBVIOUS
<1>3. PICK b : b = Append(SubSeq(l, 1, Len(s) + k), e)
  OBVIOUS
<1>4. PICK r : r = s \o a
  OBVIOUS
<1>5. /\ a \in Seq(S) /\ Len(a) = k + 1 /\ a[k + 1] = e /\ \A i \in 1..k : a[i] = t[i]
      /\ SubSeq(t, 1, k) \in Seq(S) /\ Len(SubSeq(t, 1, k)) = k
  BY <1>1, CutIs
<1>6. /\ l \in Seq(S) /\ Len(l) = Len(s) + Len(t)
      /\ \A i \in 1..Len(s) : l[i] = s[i]
      /\ \A i \in 1..Len(t) : l[Len(s) + i] = t[i]
  BY <1>2, ConcatIs
<1>7. Len(s) \in Nat /\ Len(s) + k \in 0..Len(l)
  BY <1>6
<1>8. /\ b \in Seq(S) /\ Len(b) = Len(s) + k + 1 /\ b[Len(s) + k + 1] = e
      /\ \A i \in 1..(Len(s) + k) : b[i] = l[i]
  BY <1>3, <1>6, <1>7, CutIs
<1>9. /\ r \in Seq(S) /\ Len(r) = Len(s) + k + 1
      /\ \A i \in 1..Len(s) : r[i] = s[i]
      /\ \A i \in 1..(k + 1) : r[Len(s) + i] = a[i]
  <2>1. /\ r \in Seq(S) /\ Len(r) = Len(s) + Len(a)
        /\ \A i \in 1..Len(s) : r[i] = s[i]
        /\ \A i \in 1..Len(a) : r[Len(s) + i] = a[i]
    <3>1. a \in Seq(S)
      BY <1>5
    <3> QED
      BY <3>1, <1>4, ConcatIs
  <2> QED
    BY <2>1, <1>5, <1>7
<1>10. ASSUME NEW i \in 1..(Len(s) + k + 1)
       PROVE  r[i] = b[i]
  <2>1. CASE i <= Len(s)
    BY <1>6, <1>7, <1>8, <1>9, <2>1
  <2>2. CASE i > Len(s)
    <3>1. PICK j \in 1..(k + 1) : i = Len(s) + j
      <4>1. i - Len(s) \in 1..(k + 1) /\ i = Len(s) + (i - Len(s))
        BY <1>7, <2>2
      <4> QED
        BY <4>1
    <3>2. r[i] = a[j]
      BY <3>1, <1>9
    <3>3. CASE j = k + 1
      BY <3>1, <3>2, <3>3, <1>5, <1>7, <1>8
    <3>4. CASE j # k + 1
      <4>1. j \in 1..k /\ j \in 1..Len(t) /\ i \in 1..(Len(s) + k)
        BY <3>1, <3>4, <1>7
      <4> QED
        BY <4>1, <3>1, <3>2, <1>5, <1>6, <1>8
    <3> QED
      BY <3>3, <3>4
  <2> QED
    BY <1>7, <2>1, <2>2
<1>11. r = b
  BY <1>8, <1>9, <1>10, SameSeq
<1>12. Len(s \o SubSeq(t, 1, k)) = Len(s) + k
  BY <1>5, ConcatIs
<1> QED
  BY <1>1, <1>2, <1>3, <1>4, <1>7, <1>11, <1>12

LEMMA ExtendTail ==
  ASSUME NEW S, NEW s \in Seq(S), NEW t \in Seq(S), NEW e \in S
  PROVE  /\ s \o Append(t, e) = Append(SubSeq(s \o t, 1, Len(s \o t)), e)
         /\ Len(s \o t) \in 0..Len(s \o t)
<1>1. Len(t) \in Nat /\ Len(s) \in Nat
  OBVIOUS
<1>2. SUFFICES ASSUME NEW k \in 0..Len(t), k = Len(t)
               PROVE  /\ s \o Append(t, e) = Append(SubSeq(s \o t, 1, Len(s \o t)), e)
                      /\ Len(s \o t) \in 0..Len(s \o t)
  BY <1>1
<1>3. /\ s \o Append(SubSeq(t, 1, k), e) = Append(SubSeq(s \o t, 1, Len(s) + k), e)
      /\ Len(s \o SubSeq(t, 1, k)) = Len(s) + k
      /\ Len(s) + k \in 0..Len(s \o t)
  BY CutTail, Zenon
<1>4. SubSeq(t, 1, k) = t
  BY <1>2, CutIs
<1>5. Len(s \o t) = Len(s) + k
  BY <1>2, ConcatIs
<1> QED
  BY <1>1, <1>2, <1>3, <1>4, <1>5

-----------------------------------------------------------------------------
(* What a step shows.                                                      *)

StoreStep == Store!StoreNext \/ UNCHANGED Store!storeVars

\* A step that changes neither the history nor a data call shows nothing.
LEMMA Stutters ==
  ASSUME UNCHANGED <<chosen, seen>>,
         \A c \in DataCalls : call'[c] = call[c] /\ future'[c].since = future[c].since
  PROVE  StoreStep
BY DEF StoreStep, Store!storeVars, Stage

\* Calls that end without an answer.
LEMMA FailShown ==
  ASSUME CallInv, NEW C, C \subseteq {c \in Call : call[c] \in Pending}, Fail(C),
         UNCHANGED <<chosen, seen>>
  PROVE  StoreStep
<1> DEFINE D == C \cap DataCalls
<1>1. D \in SUBSET Store!Call
  BY DEF DataCalls, Store!Call
<1>2. /\ \A c \in D : Stage(c) = "begun"
      /\ \A c \in Store!Call : Stage(c)' = IF c \in D THEN "failed" ELSE Stage(c)
      /\ \A c \in Store!Call : future'[c].since = IF c \in D THEN 0 ELSE future[c].since
  BY DEF Fail, Stage, NoFuture, DataCalls, Store!Call, Call, Pending
<1>3. DataCalls = Store!Call
  BY DEF DataCalls, Store!Call
<1>4. Store!Fail(D)
  BY <1>1, <1>2, <1>3 DEF Store!Fail
<1> QED
  BY <1>1, <1>4 DEF StoreStep, Store!StoreNext

LEMMA LogKept ==
  ASSUME LogInv, UNCHANGED <<chosen, tail, term>>, Made \subseteq Made'
  PROVE  LogInv'
BY DEF LogInv, LogOK, EntryOK, LeaderLog, IsLog

\* Ending calls keeps every invariant but what is said of who waits.
LEMMA FailKeeps ==
  ASSUME IInv, NEW C, C \subseteq {c \in Call : call[c] \in Pending}, Fail(C),
         UNCHANGED <<chosen, tail, term, seen>>,
         \A c \in SafeReads \ C :
           call[c] = "reading" => applied'[future[c].on] = applied[future[c].on]
  PROVE  LogInv' /\ CallInv' /\ ReadInv'
<1>0. NoFuture \in Futures /\ NoFuture.since = 0
  BY ClientsAssumption DEF NoFuture, Futures
<1>1. /\ call' = [c \in Call |-> IF c \in C THEN "failed" ELSE call[c]]
      /\ future' = [c \in Call |-> IF c \in C THEN NoFuture ELSE future[c]]
  BY DEF Fail
<1>2. Made \subseteq Made'
  BY <1>1 DEF Made, Call
<1>3. LogInv'
  BY <1>2, LogKept DEF IInv
<1>4. CallInv'
  BY <1>0, <1>1 DEF IInv, CallInv, Call
<1>5. ReadInv'
  BY <1>0, <1>1 DEF IInv, ReadInv, Call, LogInv
<1> QED
  BY <1>3, <1>4, <1>5

\* Who waits still does; others may not any more.
LEMMA WaitKept ==
  ASSUME IInv, waiting' \in [Node -> SUBSET Waiters], UNCHANGED <<chosen, tail, term>>,
         \A o \in Node : \A w \in waiting'[o] :
           w \in waiting[o] /\ call'[w.call] = call[w.call] /\ future'[w.call] = future[w.call]
  PROVE  WaitInv'
BY DEF IInv, WaitInv, LeaderLog

-----------------------------------------------------------------------------
(* The steps of the cluster.                                               *)

LEMMA ElectStep ==
  ASSUME IInv, NEW n \in Node, Elect(n)
  PROVE  IInv' /\ StoreStep
<1>1. PICK k \in 0..Len(tail) :
        tail' = Append(SubSeq(tail, 1, k),
                  EntryNew([leader_id |-> term + 1, index |-> Len(chosen \o SubSeq(tail, 1, k)) + 1],
                           {}, {}))
  BY DEF Elect
<1>2. PICK e : e = EntryNew([leader_id |-> term + 1,
                             index |-> Len(chosen \o SubSeq(tail, 1, k)) + 1], {}, {})
  OBVIOUS
<1>3. PICK S : chosen \in Seq(S) /\ tail \in Seq(S) /\ e \in S
  BY OneSet DEF IInv, LogInv
<1>4. PICK m : m = Len(chosen) + k
  OBVIOUS
<1>5. /\ chosen' = chosen /\ tail' = Append(SubSeq(tail, 1, k), e)
      /\ LeaderLog' = Append(SubSeq(LeaderLog, 1, m), e)
      /\ Len(chosen \o SubSeq(tail, 1, k)) = m /\ m \in 0..Len(LeaderLog)
      /\ LeaderLog \in Seq(S) /\ tail' \in Seq(S)
  <2>1. chosen' = chosen /\ tail' = Append(SubSeq(tail, 1, k), e)
    BY <1>1, <1>2 DEF Elect
  <2>2. /\ chosen \o Append(SubSeq(tail, 1, k), e)
             = Append(SubSeq(chosen \o tail, 1, Len(chosen) + k), e)
        /\ Len(chosen \o SubSeq(tail, 1, k)) = Len(chosen) + k
        /\ Len(chosen) + k \in 0..Len(chosen \o tail)
    BY <1>3, CutTail, Zenon
  <2>3. /\ LeaderLog' = Append(SubSeq(LeaderLog, 1, m), e)
        /\ Len(chosen \o SubSeq(tail, 1, k)) = m /\ m \in 0..Len(LeaderLog)
    BY <2>1, <2>2, <1>4, Zenon DEF LeaderLog
  <2>4. LeaderLog \in Seq(S)
    BY <1>3, ConcatIs DEF LeaderLog
  <2>5. tail' \in Seq(S)
    BY <2>1, <1>3, CutIs
  <2> QED
    BY <2>1, <2>3, <2>4, <2>5
<1>6. e.term = term + 1 /\ e.index = m + 1 /\ e.app_data = {}
  BY <1>2, <1>5 DEF EntryNew
<1>7. /\ term \in Nat /\ term' = term + 1 /\ leader' = {n}
      /\ UNCHANGED <<running, nodeVars, callVars>>
  BY DEF Elect, IInv, LogInv
<1>8. LogInv'
  <2>1. EntryOK(e, m + 1, term + 1, Made)
    BY <1>6, <1>7 DEF EntryOK
  <2>2. LogOK(Append(SubSeq(LeaderLog, 1, m), e), term + 1, Made)
    <3>1. LogOK(LeaderLog, term, Made) /\ term + 1 \in Nat /\ term <= term + 1
      BY <1>7 DEF IInv, LogInv
    <3> QED
      BY <2>1, <3>1, <1>3, <1>5, <1>6, <1>7, ExtendLog
  <2>3. Made' = Made
    BY <1>7 DEF Made, callVars
  <2>4. chosen # <<>>
    BY DEF Elect, QuorumRuns, IsInitialized
  <2>5. IsLog(chosen') /\ IsLog(tail')
    BY <1>3, <1>5, IsLogIs
  <2>6. LogOK(LeaderLog', term', Made')
    BY <2>2, <2>3, <1>5, <1>7
  <2> QED
    BY <2>4, <2>5, <2>6, <1>5, <1>7 DEF LogInv
<1>9. WaitInv'
  <2>1. ASSUME NEW o \in Node, NEW w \in waiting[o]
        PROVE  Finds(w, LeaderLog', term')
    <3>1. w \in Waiters /\ Finds(w, LeaderLog, term)
      BY DEF IInv, WaitInv
    <3> QED
      BY <3>1, <1>3, <1>5, <1>6, <1>7, ExtendFinds
  <2> QED
    BY <2>1, <1>7 DEF IInv, WaitInv, nodeVars, callVars
<1>10. NodeInv' /\ CallInv' /\ ReadInv'
  <2>1. chosen # <<>>
    BY DEF Elect, QuorumRuns, IsInitialized
  <2> QED
    BY <2>1, <1>5, <1>7 DEF IInv, NodeInv, CallInv, ReadInv, nodeVars, callVars
<1>11. StoreStep
  BY <1>5, <1>7, Stutters DEF callVars
<1> QED
  BY <1>8, <1>9, <1>10, <1>11 DEF IInv

\* Committing an entry is where its request takes effect.
LEMMA CommitStep ==
  ASSUME IInv, CommitNext
  PROVE  IInv' /\ StoreStep
<1>1. PICK S : chosen \in Seq(S) /\ tail \in Seq(S)
  BY OneSet DEF IInv, LogInv
<1>2. /\ tail # <<>> /\ chosen' = Append(chosen, Head(tail)) /\ tail' = Tail(tail)
      /\ UNCHANGED <<leader, term, running, nodeVars, callVars>>
  BY DEF CommitNext
<1>3. /\ LeaderLog' = LeaderLog
      /\ chosen' \in Seq(S) /\ tail' \in Seq(S)
      /\ Head(tail) = LeaderLog[Len(chosen) + 1]
      /\ Len(chosen) + 1 \in 1..Len(LeaderLog)
      /\ Len(chosen') = Len(chosen) + 1 /\ chosen' # <<>>
  BY <1>1, <1>2, MoveHead DEF LeaderLog
<1>4. LogInv'
  BY <1>2, <1>3, IsLogIs DEF IInv, LogInv, Made, callVars
<1>5. WaitInv'
  BY <1>2, <1>3 DEF IInv, WaitInv, nodeVars, callVars
<1>6. NodeInv' /\ CallInv' /\ ReadInv'
  <2>1. Len(chosen) \in Nat
    BY <1>1
  <2>2. NodeInv'
    BY <2>1, <1>2, <1>3 DEF IInv, NodeInv, nodeVars
  <2>3. CallInv'
    BY <1>2 DEF IInv, CallInv, callVars
  <2>4. ReadInv'
    <3>1. \A c \in SafeReads : future[c].since \in Nat
      BY DEF IInv, CallInv, Futures, Call
    <3> QED
      BY <3>1, <2>1, <1>2, <1>3 DEF IInv, ReadInv, nodeVars, callVars
  <2> QED
    BY <2>2, <2>3, <2>4
<1>7. StoreStep
  <2> DEFINE h == [i \in DOMAIN chosen |-> Requested(chosen[i])]
             v == Requested(Head(tail))
             k == [i \in DOMAIN chosen' |-> Requested(chosen'[i])]
  <2>1. /\ DOMAIN chosen = 1..Len(chosen) /\ DOMAIN chosen' = 1..(Len(chosen) + 1)
        /\ chosen'[Len(chosen) + 1] = Head(tail)
        /\ \A i \in 1..Len(chosen) : chosen'[i] = chosen[i] /\ chosen[i] = LeaderLog[i]
    BY <1>1, <1>2, <1>3 DEF LeaderLog
  <2>2. k = Append(h, v)
    BY <2>1, <1>1
  <2>3. v \in Writes \cup {Store!Other}
    BY <1>3 DEF IInv, LogInv, LogOK, EntryOK, Made, Requested, Store!Other
  <2>4. ASSUME v \in Writes
        PROVE  /\ Stage(v) # "idle"
               /\ \A i \in 1..Len(chosen) : h[i] # v
    <3> DEFINE e == Head(tail)
    <3>1. /\ e.app_data = {v} /\ v \in Made
      BY <2>4, <1>3, ClientsAssumption DEF IInv, LogInv, LogOK, EntryOK, Made, Requested
    <3>2. Stage(v) # "idle"
      BY <3>1 DEF Made, Stage
    <3>3. ASSUME NEW i \in 1..Len(chosen)
          PROVE  h[i] # v
      <4>1. i \in 1..Len(LeaderLog) /\ i # Len(chosen) + 1 /\ h[i] = Requested(LeaderLog[i])
        BY <2>1, <1>1, <1>3
      <4>2. LeaderLog[i].app_data # {v}
        BY <4>1, <3>1, <1>3 DEF IInv, LogInv, LogOK
      <4>3. \/ LeaderLog[i].app_data = {}
            \/ \E c \in Writes : LeaderLog[i].app_data = {c}
        BY <4>1 DEF IInv, LogInv, LogOK, EntryOK, Made
      <4>4. CASE LeaderLog[i].app_data = {}
        <5>1. Requested(LeaderLog[i]) = "other"
          BY <4>4 DEF Requested
        <5>2. v # "other"
          BY <2>4, ClientsAssumption
        <5> QED
          BY <4>1, <5>1, <5>2
      <4>5. CASE \E c \in Writes : LeaderLog[i].app_data = {c}
        <5>1. PICK c \in Writes : LeaderLog[i].app_data = {c}
          BY <4>5
        <5>2. Requested(LeaderLog[i]) = c
          BY <5>1 DEF Requested
        <5> QED
          BY <4>1, <4>2, <5>1, <5>2
      <4> QED
        BY <4>3, <4>4, <4>5
    <3> QED
      BY <3>2, <3>3
  <2>5. UNCHANGED <<call, future, seen>>
    BY <1>2 DEF callVars
  <2>6. /\ DOMAIN h = 1..Len(chosen)
        /\ \A c \in DataCalls : Stage(c)' = Stage(c)
    BY <2>1, <2>5 DEF Stage
  <2>7. Store!TakeEffect(v)
    <3>1. v \in Writes => v \in DataCalls
      BY DEF DataCalls
    <3> HIDE DEF v
    <3> QED
      BY <2>2, <2>4, <2>5, <2>6, <3>1 DEF Store!TakeEffect, Store!storeVars
  <2> QED
    BY <2>3, <2>7 DEF StoreStep, Store!StoreNext
<1> QED
  BY <1>4, <1>5, <1>6, <1>7 DEF IInv

-----------------------------------------------------------------------------
(* The steps of calls that propose an entry.                               *)

\* A proposal of a call c: a write if its request is c, a change without a request.
LEMMA ProposeStep ==
  ASSUME IInv, NEW n \in Node, NEW c \in Writes \cup Changes, NEW membership,
         Propose(c, n, {c} \cap Writes, membership)
  PROVE  IInv' /\ StoreStep
<1>1. PICK e : e = EntryNew(NextLogId, {c} \cap Writes, membership)
  OBVIOUS
<1>2. PICK S : chosen \in Seq(S) /\ tail \in Seq(S) /\ e \in S
  BY OneSet DEF IInv, LogInv
<1>3. PICK w : w = [log_id |-> NextLogId, call |-> c]
  OBVIOUS
<1>4. PICK f : f = [NoFuture EXCEPT !.on = n, !.boot = boots[n]]
  OBVIOUS
<1>5. /\ call[c] = "idle" /\ call' = [call EXCEPT ![c] = "waiting"]
      /\ future' = [future EXCEPT ![c] = f]
      /\ tail' = Append(tail, e)
      /\ waiting' = [waiting EXCEPT ![n] = @ \cup {w}]
      /\ UNCHANGED <<chosen, leader, term, running, applied, boots, seen>>
  BY <1>1, <1>3, <1>4 DEF Propose, Goto
<1>6. c \in Call /\ term \in Nat
  BY DEF Call, IInv, LogInv
<1>7. f \in Futures /\ f.on = n /\ f.since = 0
  <2>1. NoFuture \in Futures /\ NoFuture.since = 0 /\ boots[n] \in Nat
    BY ClientsAssumption DEF NoFuture, Futures, IInv, NodeInv
  <2> QED
    BY <2>1, <1>4 DEF Futures
<1>8. PICK m : m = Len(LeaderLog)
  OBVIOUS
<1>9. /\ LeaderLog \in Seq(S) /\ tail' \in Seq(S) /\ m \in 0..Len(LeaderLog)
      /\ LeaderLog' = Append(SubSeq(LeaderLog, 1, m), e)
  <2>1. LeaderLog \in Seq(S) /\ tail' \in Seq(S)
    BY <1>2, <1>5, ConcatIs DEF LeaderLog
  <2>2. /\ chosen \o Append(tail, e) = Append(SubSeq(chosen \o tail, 1, Len(chosen \o tail)), e)
        /\ Len(chosen \o tail) \in 0..Len(chosen \o tail)
    BY <1>2, ExtendTail
  <2> QED
    BY <2>1, <2>2, <1>5, <1>8 DEF LeaderLog
<1>10. /\ e.term = term /\ e.index = m + 1 /\ e.app_data = {c} \cap Writes
       /\ NextLogId = [leader_id |-> term, index |-> m + 1]
  BY <1>1, <1>8 DEF EntryNew, NextLogId
<1>11. Made' = Made \cup ({c} \cap Writes) /\ c \notin Made
  BY <1>5, <1>6 DEF Made, Call, IInv, CallInv
<1>12. LogInv'
  <2>1. EntryOK(e, m + 1, term, Made')
    BY <1>6, <1>10, <1>11 DEF EntryOK
  <2>2. \A i \in 1..Len(LeaderLog) : LeaderLog[i].app_data = e.app_data => e.app_data = {}
    BY <1>10, <1>11 DEF IInv, LogInv, LogOK, EntryOK
  <2>3. LogOK(Append(SubSeq(LeaderLog, 1, m), e), term, Made')
    <3>1. /\ Made \subseteq Made' /\ term <= term /\ LogOK(LeaderLog, term, Made)
          /\ LeaderLog \in Seq(S) /\ m \in 0..Len(LeaderLog) /\ e \in S
      BY <1>2, <1>6, <1>9, <1>11 DEF IInv, LogInv
    <3> QED
      BY <3>1, <2>1, <2>2, <1>6, ExtendLog
  <2>4. IsLog(chosen') /\ IsLog(tail')
    BY <1>2, <1>5, <1>9, IsLogIs
  <2>5. chosen # <<>>
    BY DEF Propose, IInv, NodeInv
  <2> QED
    BY <2>3, <2>4, <2>5, <1>5, <1>6, <1>9 DEF LogInv
<1>13. WaitInv'
  <2>1. w \in Waiters /\ w.log_id = NextLogId /\ w.call = c
    BY <1>3, <1>6, <1>9, <1>10 DEF Waiters
  <2>2. ASSUME NEW o \in Node, NEW v \in waiting[o]
        PROVE  v \in Waiters /\ Finds(v, LeaderLog', term) /\ v.call # c
    <3>1. v \in Waiters /\ Finds(v, LeaderLog, term) /\ call[v.call] = "waiting"
      BY DEF IInv, WaitInv
    <3>2. Finds(v, LeaderLog', term)
      BY <3>1, <1>2, <1>6, <1>8, <1>9, <1>10, ExtendFinds
    <3> QED
      BY <3>1, <3>2, <1>5
  <2>3. Finds(w, LeaderLog', term)
    <3>1. PICK l : l = LeaderLog'
      OBVIOUS
    <3>2. Len(l) = m + 1 /\ l[m + 1] = e /\ \A i \in 1..m : l[i] = LeaderLog[i]
      BY <3>1, <1>2, <1>9, CutIs
    <3>3. m \in Nat
      BY <1>9
    <3>4. \A i \in 1..m : LogIdFromPb(l[i]).index = i
      BY <3>2, <1>8 DEF IInv, LogInv, LogOK, EntryOK, LogIdFromPb
    <3>5. w.log_id.leader_id = term /\ w.log_id.index = m + 1
      BY <2>1, <1>10
    <3>6. ASSUME NEW i \in 1..(m + 1), LogIdFromPb(l[i]) = w.log_id
          PROVE  l[i].app_data = {w.call} \cap Writes
      <4>1. i = m + 1
        BY <3>3, <3>4, <3>5, <3>6
      <4> QED
        BY <4>1, <3>2, <1>10, <2>1
    <3> QED
      BY <3>1, <3>2, <3>3, <3>5, <3>6, <1>6 DEF Finds
  <2>4. \A o \in Node : waiting'[o] = IF o = n THEN waiting[n] \cup {w} ELSE waiting[o]
    BY <1>5 DEF IInv, WaitInv
  <2>5. waiting' \in [Node -> SUBSET Waiters]
    BY <2>1, <1>5 DEF IInv, WaitInv
  <2>6. ASSUME NEW o \in Node, NEW v \in waiting'[o]
        PROVE  call'[v.call] = "waiting" /\ future'[v.call].on = o /\ Finds(v, LeaderLog', term')
    <3>1. CASE v \in waiting[o]
      BY <3>1, <2>2, <1>5 DEF IInv, WaitInv
    <3>2. CASE v = w /\ o = n
      BY <3>2, <2>1, <2>3, <1>5, <1>6, <1>7 DEF IInv, CallInv
    <3> QED
      BY <3>1, <3>2, <2>4
  <2>7. ASSUME NEW o \in Node, NEW u \in waiting'[o], NEW v \in waiting'[o], u.call = v.call
        PROVE  u = v
    BY <2>1, <2>2, <2>4, <2>7 DEF IInv, WaitInv
  <2> QED
    BY <2>5, <2>6, <2>7 DEF WaitInv
<1>14. CallInv'
  BY <1>5, <1>6, <1>7 DEF IInv, CallInv, Pending
<1>15. ReadInv' /\ NodeInv'
  <2>1. \A r \in SafeReads : call'[r] = call[r] /\ future'[r] = future[r]
    BY <1>5, <1>6, ClientsAssumption DEF IInv, CallInv, Call
  <2>2. ReadInv'
    BY <2>1, <1>5 DEF IInv, ReadInv
  <2> QED
    BY <2>2, <1>5 DEF IInv, NodeInv
<1>16. StoreStep
  <2>1. \A d \in DataCalls \ {c} : call'[d] = call[d] /\ future'[d] = future[d]
    BY <1>5, <1>6 DEF IInv, CallInv, Call, DataCalls
  <2>2. CASE c \in Changes
    <3>1. c \notin DataCalls
      BY <2>2, ClientsAssumption DEF DataCalls
    <3> QED
      BY <2>1, <3>1, <1>5, Stutters
  <2>3. CASE c \in Writes
    <3>1. c \in DataCalls /\ call'[c] = "waiting" /\ future'[c].since = future[c].since
      BY <2>3, <1>5, <1>6, <1>7 DEF IInv, CallInv, DataCalls
    <3>2. Stage(c) = "idle" /\ Stage(c)' = "begun"
      BY <3>1, <1>5 DEF Stage, Pending
    <3>3. \A d \in DataCalls : Stage(d)' = IF d = c THEN "begun" ELSE Stage(d)
      BY <2>1, <3>2 DEF Stage
    <3>4. \A d \in DataCalls : future'[d].since = future[d].since
      BY <2>1, <3>1
    <3>5. Store!BeginWrite(c)
      BY <3>1, <3>2, <3>3, <3>4, <1>5 DEF Store!BeginWrite
    <3> QED
      BY <2>3, <3>5 DEF StoreStep, Store!StoreNext
  <2> QED
    BY <2>2, <2>3
<1> QED
  BY <1>12, <1>13, <1>14, <1>15, <1>16 DEF IInv

LEMMA WriteStep ==
  ASSUME IInv, NEW n \in Node, NEW c \in Writes, Write(c, n)
  PROVE  IInv' /\ StoreStep
<1>1. {c} = {c} \cap Writes
  OBVIOUS
<1>2. Propose(c, n, {c} \cap Writes, {})
  BY <1>1 DEF Write
<1> QED
  BY <1>2, ProposeStep

LEMMA ChangeStep ==
  ASSUME IInv, NEW n \in Node, NEW c \in Changes, Change(c, n)
  PROVE  IInv' /\ StoreStep
<1>1. {} = {c} \cap Writes
  BY ClientsAssumption
<1>2. \E membership : Propose(c, n, {}, membership)
  BY DEF Change
<1>3. PICK membership : Propose(c, n, {c} \cap Writes, membership)
  BY <1>1, <1>2
<1> QED
  BY <1>3, ProposeStep

-----------------------------------------------------------------------------
(* The steps that end calls.                                               *)

LEMMA StepDownStep ==
  ASSUME IInv, StepDown
  PROVE  IInv' /\ StoreStep
<1>1. leader' = {} /\ UNCHANGED <<chosen, term, tail, running, nodeVars, callVars>>
  BY DEF StepDown
<1>2. LogInv'
  BY <1>1, LogKept DEF IInv, Made, callVars
<1>3. NodeInv' /\ CallInv' /\ ReadInv'
  BY <1>1 DEF IInv, NodeInv, CallInv, ReadInv, nodeVars, callVars
<1>4. WaitInv'
  BY <1>1, WaitKept DEF IInv, WaitInv, nodeVars, callVars
<1>5. StoreStep
  BY <1>1, Stutters DEF callVars
<1> QED
  BY <1>2, <1>3, <1>4, <1>5 DEF IInv

LEMMA TruncatedStep ==
  ASSUME IInv, NEW n \in Node, NEW w \in waiting[n], Truncated(n, w)
  PROVE  IInv' /\ StoreStep
<1>1. /\ waiting' = [waiting EXCEPT ![n] = @ \ {w}] /\ Fail({w.call})
      /\ UNCHANGED <<chosen, leader, term, tail, running, applied, boots, seen>>
  BY DEF Truncated, clusterVars
<1>2. w \in Waiters /\ call[w.call] = "waiting" /\ future[w.call].on = n
  BY DEF IInv, WaitInv
<1>3. w.call \in Call
  BY <1>2 DEF Waiters, Call
<1>4. {w.call} \subseteq {c \in Call : call[c] \in Pending}
  BY <1>2, <1>3 DEF Pending
<1>5. LogInv' /\ CallInv' /\ ReadInv'
  BY <1>1, <1>4, FailKeeps
<1>6. NodeInv'
  BY <1>1 DEF IInv, NodeInv
<1>7. WaitInv'
  <2>1. waiting' \in [Node -> SUBSET Waiters]
    BY <1>1 DEF IInv, WaitInv
  <2>2. ASSUME NEW o \in Node, NEW v \in waiting'[o]
        PROVE  v \in waiting[o] /\ call'[v.call] = call[v.call] /\ future'[v.call] = future[v.call]
    <3>1. v \in waiting[o] /\ v \in Waiters
      BY <1>1 DEF IInv, WaitInv
    <3>2. v.call # w.call
      BY <1>1, <1>2, <3>1 DEF IInv, WaitInv
    <3>3. v.call \in Call
      BY <3>1 DEF Waiters, Call
    <3> QED
      BY <3>1, <3>2, <3>3, <1>1 DEF Fail
  <2> QED
    BY <2>1, <2>2, <1>1, WaitKept
<1>8. StoreStep
  BY <1>1, <1>4, FailShown DEF IInv
<1> QED
  BY <1>5, <1>6, <1>7, <1>8 DEF IInv

\* What a node that stops leaves of those who wait.
LEMMA StopKeeps ==
  ASSUME IInv, NEW n \in Node, NEW C, C \subseteq PendingOn(n), Fail(C),
         waiting' = [waiting EXCEPT ![n] = {}], UNCHANGED <<chosen, tail, term>>
  PROVE  WaitInv'
<1>1. waiting' \in [Node -> SUBSET Waiters]
  BY DEF IInv, WaitInv
<1>2. ASSUME NEW o \in Node, NEW v \in waiting'[o]
      PROVE  v \in waiting[o] /\ call'[v.call] = call[v.call] /\ future'[v.call] = future[v.call]
  <2>1. v \in waiting[o] /\ o # n /\ v \in Waiters
    BY DEF IInv, WaitInv
  <2>2. future[v.call].on = o /\ v.call \in Call
    BY <2>1 DEF IInv, WaitInv, Waiters, Call
  <2>3. v.call \notin C
    BY <2>1, <2>2 DEF PendingOn
  <2> QED
    BY <2>1, <2>2, <2>3 DEF Fail
<1> QED
  BY <1>1, <1>2, WaitKept

LEMMA ShutdownStep ==
  ASSUME IInv, NEW n \in Node, Shutdown(n)
  PROVE  IInv' /\ StoreStep
<1> DEFINE C == {c \in PendingOn(n) : call[c] \in {"checked", "waiting"}}
<1>1. /\ waiting' = [waiting EXCEPT ![n] = {}] /\ Fail(C)
      /\ running' = running \ {n} /\ leader' = leader \ {n}
      /\ UNCHANGED <<chosen, term, tail, applied, boots, seen>>
  BY DEF Shutdown
<1>2. C \subseteq PendingOn(n) /\ C \subseteq {c \in Call : call[c] \in Pending}
  BY DEF PendingOn
<1> HIDE DEF C
<1>3. LogInv' /\ CallInv' /\ ReadInv'
  BY <1>1, <1>2, FailKeeps
<1>4. NodeInv'
  BY <1>1 DEF IInv, NodeInv
<1>5. WaitInv'
  BY <1>1, <1>2, StopKeeps
<1>6. StoreStep
  BY <1>1, <1>2, FailShown DEF IInv
<1> QED
  BY <1>3, <1>4, <1>5, <1>6 DEF IInv

LEMMA RestartStep ==
  ASSUME IInv, NEW n \in Node, Restart(n)
  PROVE  IInv' /\ StoreStep
<1>1. /\ waiting' = [waiting EXCEPT ![n] = {}] /\ Fail(PendingOn(n))
      /\ boots' = [boots EXCEPT ![n] = @ + 1]
      /\ running' = running \cup {n} /\ leader' = leader \ {n}
      /\ UNCHANGED <<chosen, term, tail, seen>>
  BY DEF Restart
<1>2. PICK k \in 0..applied[n] : applied' = [applied EXCEPT ![n] = k]
  BY DEF Restart
<1>3. PendingOn(n) \subseteq {c \in Call : call[c] \in Pending}
  BY DEF PendingOn
<1>4. \A c \in SafeReads \ PendingOn(n) :
        call[c] = "reading" => applied'[future[c].on] = applied[future[c].on]
  <2>1. \A c \in SafeReads : c \in Call /\ future[c].on \in Node
    BY DEF IInv, CallInv, Call, Futures
  <2> QED
    BY <2>1, <1>2 DEF PendingOn, Pending, IInv, NodeInv
<1>5. LogInv' /\ CallInv' /\ ReadInv'
  BY <1>1, <1>3, <1>4, FailKeeps
<1>6. NodeInv'
  <2>1. chosen \in Seq(Range(chosen))
    BY DEF IInv, LogInv, IsLog
  <2>2. Len(chosen) \in Nat
    BY <2>1
  <2> QED
    BY <2>2, <1>1, <1>2 DEF IInv, NodeInv
<1>7. WaitInv'
  BY <1>1, StopKeeps
<1>8. StoreStep
  BY <1>1, <1>3, FailShown DEF IInv
<1> QED
  BY <1>5, <1>6, <1>7, <1>8 DEF IInv

-----------------------------------------------------------------------------
(* The steps of apply.                                                     *)

LEMMA ApplyStep ==
  ASSUME IInv, NEW n \in Node, Apply(n)
  PROVE  IInv' /\ StoreStep
<1>1. PICK e : e = chosen[applied[n] + 1]
  OBVIOUS
<1>2. PICK done : done = Waiting(n, e)
  OBVIOUS
<1>3. PICK sent : sent = IF Responds(e) THEN "answered" ELSE "dropped"
  OBVIOUS
<1>4. /\ applied[n] < Len(chosen)
      /\ waiting' = [waiting EXCEPT ![n] = @ \ done]
      /\ call' = [c \in Call |-> IF \E w \in done : w.call = c THEN sent ELSE call[c]]
      /\ applied' = [applied EXCEPT ![n] = @ + 1]
      /\ UNCHANGED <<chosen, leader, term, tail, running, boots, future, seen>>
  BY <1>1, <1>2, <1>3 DEF Apply, clusterVars
<1>5. PICK S : chosen \in Seq(S) /\ tail \in Seq(S)
  BY OneSet DEF IInv, LogInv
<1>6. Len(chosen) \in Nat /\ applied[n] \in Nat /\ applied[n] + 1 \in 1..Len(chosen)
  <2>1. Len(chosen) \in Nat /\ applied[n] \in Nat
    BY <1>5 DEF IInv, NodeInv
  <2> QED
    BY <2>1, <1>4
<1>7. applied[n] + 1 \in 1..Len(LeaderLog) /\ LeaderLog[applied[n] + 1] = e
  <2>1. Len(LeaderLog) = Len(chosen) + Len(tail) /\ Len(tail) \in Nat
    BY <1>5, ConcatIs DEF LeaderLog
  <2>2. \A i \in 1..Len(chosen) : LeaderLog[i] = chosen[i]
    BY <1>5, ConcatIs DEF LeaderLog
  <2> QED
    BY <2>1, <2>2, <1>1, <1>6
<1>8. ASSUME NEW w \in done
      PROVE  /\ w \in waiting[n] /\ w.call \in Writes \cup Changes
             /\ call[w.call] = "waiting" /\ future[w.call].on = n
             /\ e.app_data = {w.call} \cap Writes
  <2>1. w \in waiting[n] /\ w.log_id = LogIdFromPb(e)
    BY <1>2 DEF Waiting
  <2>2. w \in Waiters /\ call[w.call] = "waiting" /\ future[w.call].on = n
        /\ Finds(w, LeaderLog, term)
    BY <2>1 DEF IInv, WaitInv
  <2>3. e.app_data = {w.call} \cap Writes
    BY <2>1, <2>2, <1>7 DEF Finds
  <2> QED
    BY <2>1, <2>2, <2>3 DEF Waiters
<1>9. LogInv'
  <2>1. Made \subseteq Made'
    BY <1>3, <1>4 DEF Made, Call
  <2> QED
    BY <2>1, <1>4, LogKept DEF IInv
<1>10. NodeInv'
  BY <1>4, <1>6 DEF IInv, NodeInv
<1>11. CallInv'
  BY <1>3, <1>4 DEF IInv, CallInv, Call
<1>12. ReadInv'
  <2>1. ASSUME NEW c \in SafeReads
        PROVE  /\ call'[c] = call[c] /\ future'[c] = future[c]
               /\ future[c].index \in Nat /\ future[c].on \in Node
    <3>1. c \in Call /\ c \notin Writes \cup Changes
      BY ClientsAssumption DEF Call
    <3>2. \A w \in done : w.call # c
      BY <3>1, <1>8
    <3> QED
      BY <3>1, <3>2, <1>4 DEF IInv, CallInv, Futures
  <2>2. \A o \in Node : applied[o] \in Nat /\ applied'[o] \in Nat /\ applied[o] <= applied'[o]
    BY <1>4, <1>6 DEF IInv, NodeInv
  <2>3. \A c \in SafeReads : call'[c] = "reading" => future'[c].index <= applied'[future'[c].on]
    <3>1. ASSUME NEW c \in SafeReads, call'[c] = "reading"
          PROVE  future'[c].index <= applied'[future'[c].on]
      <4>1. future[c].index <= applied[future[c].on]
        BY <3>1, <2>1 DEF IInv, ReadInv
      <4> QED
        BY <4>1, <2>1, <2>2
    <3> QED
      BY <3>1
  <2> QED
    BY <2>1, <2>3, <1>4 DEF IInv, ReadInv
<1>13. WaitInv'
  <2>1. waiting' \in [Node -> SUBSET Waiters]
    BY <1>4 DEF IInv, WaitInv
  <2>2. ASSUME NEW o \in Node, NEW v \in waiting'[o]
        PROVE  v \in waiting[o] /\ call'[v.call] = call[v.call]
    <3>1. v \in waiting[o] /\ (o = n => v \notin done)
      BY <1>4 DEF IInv, WaitInv
    <3>2. v.call \in Call /\ future[v.call].on = o
      BY <3>1 DEF IInv, WaitInv, Waiters, Call
    <3>3. \A w \in done : w.call # v.call
      BY <3>1, <3>2, <1>8 DEF IInv, WaitInv
    <3> QED
      BY <3>1, <3>2, <3>3, <1>4
  <2> QED
    BY <2>1, <2>2, <1>4, WaitKept
<1>14. StoreStep
  <2>1. CASE \E w \in done : w.call \in Writes
    <3>1. PICK w \in done : w.call \in Writes
      BY <2>1
    <3>2. PICK c \in Writes : c = w.call
      BY <3>1
    <3>3. e.app_data = {c} /\ call[c] = "waiting"
      BY <3>1, <3>2, <1>8
    <3>4. sent = "answered"
      BY <3>3, <1>3 DEF Responds
    <3>5. \A v \in done : v.call = c
      BY <3>3, <1>8
    <3>6. c \in DataCalls /\ \A d \in DataCalls : Stage(d)' = IF d = c THEN "answered" ELSE Stage(d)
      BY <3>1, <3>2, <3>4, <3>5, <1>4 DEF Stage, DataCalls, Call, Pending
    <3>7. Stage(c) = "begun"
      BY <3>3 DEF Stage, Pending
    <3>8. applied[n] + 1 \in DOMAIN chosen /\ Requested(chosen[applied[n] + 1]) = c
      <4>1. applied[n] + 1 \in DOMAIN chosen
        BY <1>5, <1>6
      <4>2. Requested(e) = c
        BY <3>3 DEF Requested
      <4> QED
        BY <4>1, <4>2, <1>1
    <3>9. Store!AnswerWrite(c)
      BY <3>6, <3>7, <3>8, <1>4 DEF Store!AnswerWrite
    <3> QED
      BY <3>9 DEF StoreStep, Store!StoreNext
  <2>2. CASE \A w \in done : w.call \notin Writes
    <3>1. \A w \in done : w.call \notin DataCalls
      BY <2>2, <1>8, ClientsAssumption DEF DataCalls
    <3>2. \A c \in DataCalls : call'[c] = call[c] /\ future'[c].since = future[c].since
      BY <3>1, <1>4 DEF DataCalls, Call
    <3> QED
      BY <3>2, <1>4, Stutters
  <2> QED
    BY <2>1, <2>2
<1> QED
  BY <1>9, <1>10, <1>11, <1>12, <1>13, <1>14 DEF IInv

-----------------------------------------------------------------------------
(* The steps of reads and of calls that initialize.                        *)

\* A step of one call that waits for no entry.
LEMMA CallKeeps ==
  ASSUME IInv, NEW c \in SafeReads \cup Inits,
         NEW at \in Pending \cup {"answered", "failed"}, NEW f \in Futures,
         call' = [call EXCEPT ![c] = at], future' = [future EXCEPT ![c] = f],
         seen' \in [Call -> Nat],
         UNCHANGED <<chosen, term, tail, leader, running, nodeVars>>,
         c \in SafeReads =>
           /\ at \in {"awaiting", "reading"} => f.since <= f.index /\ f.since <= Len(chosen)
           /\ at = "reading" => f.index <= applied[f.on]
           /\ at \notin {"awaiting", "reading"} => f.since = 0
           /\ at \notin {"checked", "waiting"}
  PROVE  IInv'
<1>1. c \in Call /\ c \notin Writes \cup Changes
  BY ClientsAssumption DEF Call
<1>2. LogInv'
  <2>1. Made \subseteq Made'
    BY <1>1 DEF Made, Pending, IInv, CallInv
  <2> QED
    BY <2>1, LogKept DEF IInv
<1>3. NodeInv'
  BY DEF IInv, NodeInv, nodeVars
<1>4. CallInv'
  BY <1>1 DEF IInv, CallInv, Call
<1>5. ReadInv'
  <2>1. UNCHANGED <<chosen, applied>>
    BY DEF nodeVars
  <2>2. ASSUME NEW r \in SafeReads, r # c
        PROVE  call'[r] = call[r] /\ future'[r] = future[r]
    BY <2>2 DEF IInv, CallInv, Call
  <2>3. call'[c] = at /\ future'[c] = f
    BY <1>1 DEF IInv, CallInv
  <2> QED
    BY <2>1, <2>2, <2>3 DEF IInv, ReadInv, Pending
<1>6. WaitInv'
  <2>1. \A o \in Node : \A w \in waiting[o] : w.call \in Call /\ w.call # c
    BY <1>1 DEF IInv, WaitInv, Waiters, Call
  <2>2. \A o \in Node : \A w \in waiting[o] :
          call'[w.call] = call[w.call] /\ future'[w.call] = future[w.call]
    BY <2>1 DEF IInv, CallInv
  <2>3. waiting' = waiting /\ waiting' \in [Node -> SUBSET Waiters]
    BY DEF nodeVars, IInv, WaitInv
  <2> QED
    BY <2>2, <2>3, WaitKept
<1> QED
  BY <1>2, <1>3, <1>4, <1>5, <1>6 DEF IInv

\* The read index is not below what was chosen.
LEMMA ReadIndexIs ==
  ASSUME IInv
  PROVE  ReadIndex \in Nat /\ Len(chosen) <= ReadIndex
<1> DEFINE own == {i \in DOMAIN LeaderLog : LeaderLog[i].term = term}
           first == {i \in own : \A j \in own : i <= j}
<1>1. PICK S : chosen \in Seq(S) /\ tail \in Seq(S)
  BY OneSet DEF IInv, LogInv
<1>2. Len(chosen) \in Nat /\ DOMAIN LeaderLog = 1..Len(LeaderLog) /\ Len(LeaderLog) \in Nat
  <2>1. LeaderLog \in Seq(S)
    BY <1>1, ConcatIs DEF LeaderLog
  <2> QED
    BY <2>1, <1>1
<1>3. own \subseteq Nat
  BY <1>2
<1>4. ReadIndex = Max({Len(chosen)} \cup first)
  BY DEF ReadIndex
<1> HIDE DEF own
<1>5. \A i, j \in first : i = j
  BY <1>3
<1>6. first \subseteq Nat
  BY <1>3
<1> HIDE DEF first
<1>7. PICK k \in Nat : k = Len(chosen)
  BY <1>2
<1>8. \E m \in {k} \cup first : \A i \in {k} \cup first : m >= i
  <2>1. CASE \A i \in first : i <= k
    BY <2>1, <1>6
  <2>2. ASSUME NEW i \in first, ~(i <= k)
        PROVE  \A j \in {k} \cup first : i >= j
    BY <2>2, <1>5, <1>6
  <2> QED
    BY <2>1, <2>2
<1>9. ReadIndex \in {k} \cup first /\ ReadIndex >= k
  BY <1>4, <1>7, <1>8 DEF Max
<1> QED
  BY <1>6, <1>7, <1>9

LEMMA ReadSafeStep ==
  ASSUME IInv, NEW n \in Node, NEW c \in SafeReads, ReadSafe(c, n)
  PROVE  IInv' /\ StoreStep
<1>1. PICK f : f = [NoFuture EXCEPT !.on = n, !.since = Len(chosen), !.index = ReadIndex]
  OBVIOUS
<1>2. /\ call[c] = "idle" /\ call' = [call EXCEPT ![c] = "awaiting"]
      /\ future' = [future EXCEPT ![c] = f]
      /\ UNCHANGED <<chosen, leader, term, tail, running, nodeVars, seen>>
  BY <1>1 DEF ReadSafe, Goto, clusterVars
<1>3. Len(chosen) \in Nat
  BY OneSet DEF IInv, LogInv
<1>4. f \in Futures /\ f.since = Len(chosen) /\ f.index = ReadIndex
  BY <1>1, <1>3, ReadIndexIs DEF NoFuture, Futures
<1>5. c \in Call /\ c \in DataCalls
  BY DEF Call, DataCalls
<1>6. IInv'
  <2>1. /\ "awaiting" \in Pending \cup {"answered", "failed"} /\ seen' \in [Call -> Nat]
        /\ f.since <= f.index /\ f.since <= Len(chosen)
    BY <1>2, <1>3, <1>4, ReadIndexIs DEF Pending, IInv, CallInv
  <2> QED
    BY <2>1, <1>2, <1>4, CallKeeps
<1>7. StoreStep
  <2>1. /\ Stage(c) = "idle"
        /\ \A d \in DataCalls : Stage(d)' = IF d = c THEN "begun" ELSE Stage(d)
    BY <1>2, <1>5 DEF Stage, Pending, IInv, CallInv, Call, DataCalls
  <2>2. \A d \in DataCalls : future'[d].since = IF d = c THEN Len(chosen) ELSE future[d].since
    BY <1>2, <1>4, <1>5 DEF IInv, CallInv, Call, DataCalls
  <2>3. PICK h : h = [i \in DOMAIN chosen |-> Requested(chosen[i])]
    OBVIOUS
  <2>4. Len(h) = Len(chosen)
    BY <1>3, <2>3 DEF IInv, LogInv, IsLog
  <2>5. Store!BeginRead(c)
    BY <2>1, <2>2, <2>3, <2>4, <1>2, <1>5 DEF Store!BeginRead
  <2> QED
    BY <2>5 DEF StoreStep, Store!StoreNext
<1> QED
  BY <1>6, <1>7

LEMMA AwaitReadyStep ==
  ASSUME IInv, NEW c \in SafeReads, AwaitReady(c)
  PROVE  IInv' /\ StoreStep
<1>1. /\ call[c] = "awaiting"
      /\ UNCHANGED <<chosen, leader, term, tail, running, nodeVars, seen>>
  BY DEF AwaitReady, clusterVars
<1>2. c \in Call /\ seen' \in [Call -> Nat] /\ future[c] \in Futures
  BY <1>1 DEF Call, IInv, CallInv
<1>3. CASE /\ applied[future[c].on] >= future[c].index
           /\ Goto(c, "reading") /\ UNCHANGED future
  <2>1. future' = [future EXCEPT ![c] = future[c]] /\ call' = [call EXCEPT ![c] = "reading"]
    BY <1>3 DEF Goto, IInv, CallInv
  <2>2. /\ future[c].since <= future[c].index /\ future[c].since <= Len(chosen)
        /\ future[c].index <= applied[future[c].on]
    BY <1>1, <1>2, <1>3 DEF IInv, ReadInv, Futures, NodeInv
  <2>3. "reading" \in Pending
    BY DEF Pending
  <2>4. IInv'
    BY <2>1, <2>2, <2>3, <1>1, <1>2, CallKeeps
  <2>5. \A d \in DataCalls : Stage(d)' = Stage(d) /\ future'[d] = future[d]
    BY <2>1, <1>1, <1>3 DEF Stage, Pending, IInv, CallInv, DataCalls, Call
  <2>6. StoreStep
    BY <2>5, <1>1 DEF StoreStep, Store!storeVars
  <2> QED
    BY <2>4, <2>6
<1>4. CASE Fail({c})
  <2>1. {c} \subseteq {d \in Call : call[d] \in Pending}
    BY <1>1, <1>2 DEF Pending
  <2>2. NoFuture \in Futures /\ NoFuture.since = 0
    BY ClientsAssumption DEF NoFuture, Futures
  <2>3. call' = [call EXCEPT ![c] = "failed"] /\ future' = [future EXCEPT ![c] = NoFuture]
    BY <1>4 DEF Fail, IInv, CallInv
  <2>4. IInv'
    BY <2>2, <2>3, <1>1, <1>2, CallKeeps DEF Pending
  <2>5. StoreStep
    BY <2>1, <1>1, <1>4, FailShown DEF IInv
  <2> QED
    BY <2>4, <2>5
<1> QED
  BY <1>3, <1>4 DEF AwaitReady

\* The read sees all that was chosen when it began.
LEMMA ReadLockedStep ==
  ASSUME IInv, NEW c \in SafeReads, ReadLocked(c)
  PROVE  IInv' /\ StoreStep
<1>1. PICK point : point = applied[future[c].on]
  OBVIOUS
<1>2. /\ call[c] = "reading" /\ call' = [call EXCEPT ![c] = "answered"]
      /\ seen' = [seen EXCEPT ![c] = point]
      /\ future' = [future EXCEPT ![c] = NoFuture]
      /\ UNCHANGED <<chosen, leader, term, tail, running, nodeVars>>
  BY <1>1 DEF ReadLocked, Goto, ReadAt, clusterVars
<1>3. c \in Call /\ c \in DataCalls /\ future[c] \in Futures
  BY DEF Call, DataCalls, IInv, CallInv
<1>4. Len(chosen) \in Nat
  BY OneSet DEF IInv, LogInv
<1>5. /\ point \in Nat /\ point <= Len(chosen) /\ future[c].since \in Nat
      /\ future[c].since <= point
  BY <1>1, <1>2, <1>3, <1>4 DEF IInv, NodeInv, ReadInv, Futures
<1>6. IInv'
  <2>1. NoFuture \in Futures /\ NoFuture.since = 0
    BY ClientsAssumption DEF NoFuture, Futures
  <2>2. seen' \in [Call -> Nat]
    BY <1>2, <1>5 DEF IInv, CallInv
  <2> QED
    BY <2>1, <2>2, <1>2, CallKeeps DEF Pending
<1>7. StoreStep
  <2>1. /\ Stage(c) = "begun"
        /\ \A d \in DataCalls : Stage(d)' = IF d = c THEN "answered" ELSE Stage(d)
    BY <1>2, <1>3 DEF Stage, Pending, IInv, CallInv, Call, DataCalls
  <2>2. \A d \in DataCalls :
          /\ future'[d].since = IF d = c THEN 0 ELSE future[d].since
          /\ seen'[d] = IF d = c THEN point ELSE seen[d]
    BY <1>2, <1>3 DEF NoFuture, IInv, CallInv, Call, DataCalls
  <2>3. PICK h : h = [i \in DOMAIN chosen |-> Requested(chosen[i])]
    OBVIOUS
  <2>4. Len(h) = Len(chosen)
    BY <1>4, <2>3 DEF IInv, LogInv, IsLog
  <2>5. point \in future[c].since..Len(h) /\ point \in 0..Len(h)
    BY <2>4, <1>4, <1>5
  <2>6. Store!AnswerRead(c, point)
    BY <2>1, <2>2, <2>3, <2>5, <1>2, <1>3 DEF Store!AnswerRead
  <2>7. \E p \in 0..Len(h) : Store!AnswerRead(c, p)
    BY <2>5, <2>6
  <2> QED
    BY <2>3, <2>7 DEF StoreStep, Store!StoreNext
<1> QED
  BY <1>6, <1>7

LEMMA CheckInitializedStep ==
  ASSUME IInv, NEW c \in Inits, CheckInitialized(c)
  PROVE  IInv' /\ StoreStep
<1>1. PICK at \in {"answered", "checked"} : call' = [call EXCEPT ![c] = at]
  BY DEF CheckInitialized, Goto
<1>2. UNCHANGED <<chosen, leader, term, tail, running, nodeVars, future, seen>>
  BY DEF CheckInitialized, clusterVars
<1>3. c \in Call /\ c \notin SafeReads /\ c \notin DataCalls
  BY ClientsAssumption DEF Call, DataCalls
<1>4. /\ future' = [future EXCEPT ![c] = future[c]] /\ future[c] \in Futures
      /\ seen' \in [Call -> Nat] /\ at \in Pending \cup {"answered", "failed"}
  BY <1>2, <1>3 DEF IInv, CallInv, Pending
<1>5. IInv'
  BY <1>1, <1>2, <1>3, <1>4, CallKeeps
<1>6. \A d \in DataCalls : call'[d] = call[d] /\ future'[d].since = future[d].since
  BY <1>1, <1>2, <1>3 DEF IInv, CallInv, DataCalls, Call
<1> QED
  BY <1>2, <1>5, <1>6, Stutters

\* The first membership is an effect that no client asked for.
LEMMA InitializeStep ==
  ASSUME IInv, NEW c \in Inits, NEW nodes, Initialize(c, nodes)
  PROVE  IInv' /\ StoreStep
<1>1. PICK at \in {"answered", "failed"} : call' = [call EXCEPT ![c] = at]
  BY DEF Initialize, Goto
<1>2. UNCHANGED <<leader, term, tail, running, nodeVars, future, seen>>
  BY DEF Initialize
<1>3. c \in Call /\ c \notin SafeReads /\ c \notin Writes \cup Changes /\ c \notin DataCalls
  BY ClientsAssumption DEF Call, DataCalls
<1>4. /\ future' = [future EXCEPT ![c] = future[c]] /\ future[c] \in Futures
      /\ seen' \in [Call -> Nat] /\ at \in Pending \cup {"answered", "failed"}
  BY <1>2, <1>3 DEF IInv, CallInv
<1>5. \A d \in DataCalls : call'[d] = call[d] /\ future'[d] = future[d]
  BY <1>1, <1>2, <1>3 DEF IInv, CallInv, DataCalls, Call
<1>6. CASE UNCHANGED chosen
  <2>1. IInv'
    BY <1>1, <1>2, <1>3, <1>4, <1>6, CallKeeps
  <2>2. StoreStep
    BY <1>2, <1>5, <1>6, Stutters
  <2> QED
    BY <2>1, <2>2
<1>7. CASE chosen # chosen'
  <2>1. PICK m : /\ chosen = <<>>
                 /\ chosen' = <<EntryNew([leader_id |-> 0, index |-> 1], {}, {m})>>
    BY <1>7 DEF Initialize, IsInitialized
  <2>2. PICK e : e = EntryNew([leader_id |-> 0, index |-> 1], {}, {m})
    OBVIOUS
  <2>3. e.term = 0 /\ e.index = 1 /\ e.app_data = {}
    BY <2>2 DEF EntryNew
  <2>4. /\ chosen' = <<e>> /\ tail = <<>> /\ term = 0 /\ tail' = <<>> /\ term' = 0
        /\ LeaderLog = <<>> /\ LeaderLog' = <<e>>
    BY <2>1, <2>2, <1>2 DEF IInv, LogInv, LeaderLog
  <2>5. LogInv'
    <3>1. IsLog(chosen')
      <4>1. <<e>> \in Seq({e})
        OBVIOUS
      <4>2. IsLog(<<e>>)
        BY <4>1, IsLogIs
      <4> QED
        BY <4>2, <2>4
    <3>2. IsLog(tail') /\ chosen' # <<>>
      BY <2>4 DEF IsLog
    <3>3. LogOK(<<e>>, 0, Made')
      BY <2>3 DEF LogOK, EntryOK
    <3> QED
      BY <3>1, <3>2, <3>3, <2>4 DEF LogInv
  <2>6. NodeInv' /\ CallInv' /\ ReadInv'
    <3>1. NodeInv'
      BY <2>1, <2>4, <1>2 DEF IInv, NodeInv, nodeVars
    <3>2. CallInv'
      BY <1>1, <1>2, <1>3 DEF IInv, CallInv, Call
    <3>3. \A r \in SafeReads : call'[r] = call[r] /\ future'[r] = future[r] /\ future[r].since \in Nat
      BY <1>5 DEF DataCalls, IInv, CallInv, Futures, Call
    <3>4. Len(chosen) = 0 /\ Len(chosen') = 1
      BY <2>1, <2>4
    <3>5. ReadInv'
      BY <3>3, <3>4, <1>2 DEF IInv, ReadInv, nodeVars
    <3> QED
      BY <3>1, <3>2, <3>5
  <2>7. WaitInv'
    <3>1. ASSUME NEW n \in Node, NEW w \in waiting[n]
          PROVE  Finds(w, <<e>>, 0) /\ call'[w.call] = call[w.call]
      <4>1. w \in Waiters /\ Finds(w, <<>>, 0)
        BY <2>4 DEF IInv, WaitInv
      <4>2. w.log_id.leader_id = 0 /\ w.log_id.index = 0
        BY <4>1 DEF Finds, Waiters
      <4>3. Finds(w, <<e>>, 0)
        BY <2>3, <4>2 DEF Finds, LogIdFromPb
      <4>4. w.call \in Call /\ w.call # c
        BY <4>1, <1>3 DEF Waiters, Call
      <4> QED
        BY <4>3, <4>4, <1>1 DEF IInv, CallInv
    <3> QED
      BY <3>1, <2>4, <1>2 DEF IInv, WaitInv, nodeVars
  <2>8. StoreStep
    <3>1. PICK h : h = [i \in DOMAIN chosen |-> Requested(chosen[i])]
      OBVIOUS
    <3>2. PICK k : k = [i \in DOMAIN chosen' |-> Requested(chosen'[i])]
      OBVIOUS
    <3>3. Requested(e) = "other"
      BY <2>3 DEF Requested
    <3>4. h = <<>> /\ k = <<"other">>
      BY <3>1, <3>2, <3>3, <2>1, <2>4
    <3>5. k = Append(h, "other")
      BY <3>4
    <3>6. \A d \in DataCalls : Stage(d)' = Stage(d)
      BY <1>5 DEF Stage
    <3>7. Store!TakeEffect("other")
      BY <3>1, <3>2, <3>5, <3>6, <1>2, ClientsAssumption DEF Store!TakeEffect
    <3> QED
      BY <3>7 DEF StoreStep, Store!StoreNext, Store!Other
  <2> QED
    BY <2>5, <2>6, <2>7, <2>8 DEF IInv
<1> QED
  BY <1>6, <1>7

-----------------------------------------------------------------------------
(* The theorem.                                                            *)

LEMMA InitInv ==
  ASSUME Init
  PROVE  IInv /\ Store!StoreInit
<1>1. LogInv
  <2>1. LeaderLog = <<>> /\ IsLog(<<>>)
    BY DEF Init, LeaderLog, IsLog
  <2> QED
    BY <2>1 DEF Init, LogInv, LogOK
<1>2. NodeInv /\ WaitInv
  BY DEF Init, NodeInv, WaitInv
<1>3. CallInv /\ ReadInv
  BY ClientsAssumption DEF Init, CallInv, ReadInv, NoFuture, Futures, Call
<1>4. Store!StoreInit
  <2>1. [i \in DOMAIN chosen |-> Requested(chosen[i])] = <<>>
    BY DEF Init
  <2>2. \A c \in DataCalls : Stage(c) = "idle" /\ future[c].since = 0 /\ seen[c] = 0
    BY DEF Init, Stage, Pending, NoFuture, DataCalls, Call
  <2> QED
    BY <2>1, <2>2 DEF Store!StoreInit, Store!Call, DataCalls
<1> QED
  BY <1>1, <1>2, <1>3, <1>4 DEF IInv

LEMMA NextStep ==
  ASSUME IInv, [Next]_vars
  PROVE  IInv' /\ StoreStep
<1>1. CASE Next
  <2>1. ASSUME NEW n \in Node, NodeStep(n)
        PROVE  IInv' /\ StoreStep
    BY <2>1, ElectStep, ApplyStep, ShutdownStep, RestartStep, TruncatedStep DEF NodeStep
  <2>2. CASE DataCall
    BY <2>2, WriteStep, ReadSafeStep, AwaitReadyStep, ReadLockedStep DEF DataCall
  <2>3. CASE ControlCall
    BY <2>3, ChangeStep, CheckInitializedStep, InitializeStep DEF ControlCall
  <2> QED
    BY <1>1, <2>1, <2>2, <2>3, StepDownStep, CommitStep DEF Next
<1>2. CASE UNCHANGED vars
  <2>1. UNCHANGED <<chosen, leader, term, tail, running, nodeVars, callVars>>
    BY <1>2 DEF vars, clusterVars
  <2>2. LogInv'
    BY <2>1, LogKept DEF IInv, Made, callVars
  <2>3. NodeInv' /\ CallInv' /\ ReadInv'
    BY <2>1 DEF IInv, NodeInv, CallInv, ReadInv, nodeVars, callVars
  <2>4. WaitInv'
    BY <2>1, WaitKept DEF IInv, WaitInv, nodeVars, callVars
  <2>5. StoreStep
    BY <2>1, Stutters DEF callVars
  <2> QED
    BY <2>2, <2>3, <2>4, <2>5 DEF IInv
<1> QED
  BY <1>1, <1>2

\* write and read_safe over the cluster implement one linearizable store: the write that
\* apply answers is the one whose caller waits, and it is in the history; a safe read is
\* answered from a point not before its call.
THEOREM LinearizableHolds == Spec => Linearizable
<1>1. Init => IInv /\ Store!StoreInit
  BY InitInv
<1>2. IInv /\ [Next]_vars => IInv'
  BY NextStep
<1>3. IInv /\ [Next]_vars => [Store!StoreNext]_(Store!storeVars)
  BY NextStep DEF StoreStep
<1> QED
  BY <1>1, <1>2, <1>3, PTL DEF Spec, Linearizable, Store!StoreSpec

-----------------------------------------------------------------------------
(* Reading one's own writes.                                               *)

\* The start of a node that a call holds is not later than the last one, and who was
\* answered in the last one finds the write among what the node applied since.
OwnInv ==
  \A w \in Writes :
    /\ future[w].boot <= boots[future[w].on]
    /\ call[w] = "answered" /\ future[w].boot = boots[future[w].on] =>
         \E i \in 1..applied[future[w].on] : chosen[i].app_data = {w}

\* A step that answers no write and restarts no node.
LEMMA OwnKept ==
  ASSUME IInv, OwnInv, boots' = boots, applied' = applied,
         \A i \in 1..Len(chosen) : chosen'[i] = chosen[i],
         \A w \in Writes :
           \/ future'[w] = future[w] /\ (call'[w] = "answered" => call[w] = "answered")
           \/ call'[w] # "answered" /\ future'[w].boot <= boots[future'[w].on]
  PROVE  OwnInv'
<1>1. Len(chosen) \in Nat
  BY OneSet DEF IInv, LogInv
<1>2. \A w \in Writes : future[w].on \in Node
  BY DEF IInv, CallInv, Futures, Call
<1>3. \A n \in Node : applied[n] \in Nat /\ applied[n] <= Len(chosen)
  BY DEF IInv, NodeInv
<1>4. \A w \in Writes : \A i \in 1..applied[future[w].on] : chosen'[i] = chosen[i]
  BY <1>1, <1>2, <1>3
<1> QED
  BY <1>4 DEF OwnInv

LEMMA OwnFail ==
  ASSUME IInv, OwnInv, NEW C, Fail(C), UNCHANGED <<boots, applied, chosen>>
  PROVE  OwnInv'
<1>1. /\ NoFuture.boot <= boots[NoFuture.on]
  BY ClientsAssumption DEF NoFuture, IInv, NodeInv
<1>2. \A w \in Writes :
        \/ future'[w] = future[w] /\ call'[w] = call[w]
        \/ call'[w] = "failed" /\ future'[w] = NoFuture
  BY DEF Fail, Call
<1> QED
  BY <1>1, <1>2, OwnKept

LEMMA OwnPropose ==
  ASSUME IInv, OwnInv, NEW n \in Node, NEW c \in Writes \cup Changes,
         NEW app_data, NEW membership, Propose(c, n, app_data, membership)
  PROVE  OwnInv'
<1>1. PICK f : f = [NoFuture EXCEPT !.on = n, !.boot = boots[n]]
  OBVIOUS
<1>2. /\ call' = [call EXCEPT ![c] = "waiting"] /\ future' = [future EXCEPT ![c] = f]
      /\ UNCHANGED <<chosen, applied, boots>>
  BY <1>1 DEF Propose, Goto
<1>3. f.on = n /\ f.boot = boots[n] /\ boots[n] <= boots[n]
  BY <1>1 DEF NoFuture, IInv, NodeInv
<1>4. \A w \in Writes :
        \/ future'[w] = future[w] /\ call'[w] = call[w]
        \/ call'[w] = "waiting" /\ future'[w] = f
  BY <1>2 DEF IInv, CallInv, Call
<1> QED
  BY <1>2, <1>3, <1>4, OwnKept

LEMMA OwnApply ==
  ASSUME IInv, OwnInv, NEW n \in Node, Apply(n)
  PROVE  OwnInv'
<1>1. PICK e : e = chosen[applied[n] + 1]
  OBVIOUS
<1>2. PICK done : done = Waiting(n, e)
  OBVIOUS
<1>3. PICK sent \in {"answered", "dropped"} :
        call' = [c \in Call |-> IF \E w \in done : w.call = c THEN sent ELSE call[c]]
  BY <1>1, <1>2 DEF Apply
<1>4. /\ applied[n] < Len(chosen) /\ applied' = [applied EXCEPT ![n] = @ + 1]
      /\ UNCHANGED <<chosen, boots, future>>
  BY DEF Apply, clusterVars
<1>5. PICK S : chosen \in Seq(S) /\ tail \in Seq(S)
  BY OneSet DEF IInv, LogInv
<1>6. Len(chosen) \in Nat /\ applied \in [Node -> Nat] /\ applied[n] + 1 \in 1..Len(chosen)
  <2>1. Len(chosen) \in Nat /\ applied \in [Node -> Nat]
    BY <1>5 DEF IInv, NodeInv
  <2> QED
    BY <2>1, <1>4
<1>7. applied[n] + 1 \in 1..Len(LeaderLog) /\ LeaderLog[applied[n] + 1] = e
  <2>1. Len(LeaderLog) = Len(chosen) + Len(tail) /\ Len(tail) \in Nat
    BY <1>5, ConcatIs DEF LeaderLog
  <2>2. \A i \in 1..Len(chosen) : LeaderLog[i] = chosen[i]
    BY <1>5, ConcatIs DEF LeaderLog
  <2> QED
    BY <2>1, <2>2, <1>1, <1>6
<1>8. ASSUME NEW w \in done
      PROVE  future[w.call].on = n /\ e.app_data = {w.call} \cap Writes
  <2>1. w \in waiting[n] /\ w.log_id = LogIdFromPb(e)
    BY <1>2 DEF Waiting
  <2>2. future[w.call].on = n /\ Finds(w, LeaderLog, term)
    BY <2>1 DEF IInv, WaitInv
  <2> QED
    BY <2>1, <2>2, <1>7 DEF Finds
<1>9. ASSUME NEW w \in Writes
      PROVE  /\ future[w].on \in Node /\ applied[future[w].on] \in Nat
             /\ applied'[future[w].on] \in Nat /\ applied[future[w].on] <= applied'[future[w].on]
  <2>1. future[w].on \in Node
    BY DEF IInv, CallInv, Futures, Call
  <2> QED
    BY <2>1, <1>4, <1>6
<1>10. ASSUME NEW w \in Writes, call'[w] = "answered", future[w].boot = boots[future[w].on]
       PROVE  \E i \in 1..applied'[future[w].on] : chosen[i].app_data = {w}
  <2>1. CASE \E v \in done : v.call = w
    <3>1. future[w].on = n /\ e.app_data = {w}
      BY <2>1, <1>8
    <3>2. applied[n] + 1 \in 1..applied'[n]
      BY <1>4, <1>6
    <3> QED
      BY <3>1, <3>2, <1>1
  <2>2. CASE ~\E v \in done : v.call = w
    <3>1. call[w] = "answered"
      BY <2>2, <1>3, <1>10 DEF Call
    <3>2. PICK i \in 1..applied[future[w].on] : chosen[i].app_data = {w}
      BY <3>1, <1>10 DEF OwnInv
    <3>3. i \in 1..applied'[future[w].on]
      BY <1>9, <3>2
    <3> QED
      BY <3>2, <3>3
  <2> QED
    BY <2>1, <2>2
<1> QED
  BY <1>4, <1>10 DEF OwnInv

LEMMA OwnRestart ==
  ASSUME IInv, OwnInv, NEW n \in Node, Restart(n)
  PROVE  OwnInv'
<1>1. /\ Fail(PendingOn(n)) /\ boots' = [boots EXCEPT ![n] = @ + 1]
      /\ UNCHANGED chosen
  BY DEF Restart
<1>2. \A o \in Node \ {n} : applied'[o] = applied[o] /\ boots'[o] = boots[o]
  BY <1>1 DEF Restart, IInv, NodeInv
<1>3. boots[n] \in Nat /\ boots'[n] = boots[n] + 1
  BY <1>1 DEF IInv, NodeInv
<1>4. ASSUME NEW w \in Writes
      PROVE  /\ future'[w].boot <= boots'[future'[w].on]
             /\ call'[w] = "answered" /\ future'[w].boot = boots'[future'[w].on] =>
                  \E i \in 1..applied'[future'[w].on] : chosen'[i].app_data = {w}
  <2>1. CASE w \in PendingOn(n)
    <3>1. call'[w] = "failed" /\ future'[w] = NoFuture
      BY <2>1, <1>1 DEF Fail, PendingOn
    <3>2. boots'[First] \in Nat
      BY <1>2, <1>3, ClientsAssumption DEF IInv, NodeInv
    <3> QED
      BY <3>1, <3>2 DEF NoFuture
  <2>2. CASE w \notin PendingOn(n)
    <3>1. call'[w] = call[w] /\ future'[w] = future[w] /\ future[w].on \in Node
          /\ future[w].boot \in Nat
      BY <2>2, <1>1 DEF Fail, IInv, CallInv, Futures, Call
    <3>2. CASE future[w].on = n
      BY <3>1, <3>2, <1>3 DEF OwnInv
    <3>3. CASE future[w].on # n
      BY <3>1, <3>3, <1>1, <1>2 DEF OwnInv
    <3> QED
      BY <3>2, <3>3
  <2> QED
    BY <2>1, <2>2
<1> QED
  BY <1>4 DEF OwnInv

\* A step of another call.
LEMMA OwnOther ==
  ASSUME IInv, OwnInv, NEW c \in SafeReads \cup Inits, NEW at,
         call' = [call EXCEPT ![c] = at],
         future' = future \/ \E f : future' = [future EXCEPT ![c] = f],
         UNCHANGED <<chosen, nodeVars>>
  PROVE  OwnInv'
<1>1. \A w \in Writes : w # c
  BY ClientsAssumption
<1>2. \A w \in Writes : future'[w] = future[w] /\ call'[w] = call[w]
  BY <1>1 DEF IInv, CallInv, Call
<1>3. UNCHANGED <<boots, applied>>
  BY DEF nodeVars
<1> QED
  BY <1>2, <1>3, OwnKept

LEMMA OwnStep ==
  ASSUME IInv, OwnInv, [Next]_vars
  PROVE  OwnInv'
<1>1. ASSUME NEW n \in Node, NodeStep(n)
      PROVE  OwnInv'
  <2>1. CASE Elect(n)
    BY <2>1, OwnKept DEF Elect, nodeVars, callVars
  <2>2. CASE Shutdown(n)
    BY <2>2, OwnFail DEF Shutdown
  <2>3. ASSUME NEW w \in waiting[n], Truncated(n, w)
        PROVE  OwnInv'
    BY <2>3, OwnFail DEF Truncated, clusterVars
  <2> QED
    BY <1>1, <2>1, <2>2, <2>3, OwnApply, OwnRestart DEF NodeStep
<1>2. CASE StepDown
  BY <1>2, OwnKept DEF StepDown, nodeVars, callVars
<1>3. CASE CommitNext
  <2>1. PICK S : chosen \in Seq(S) /\ tail \in Seq(S)
    BY OneSet DEF IInv, LogInv
  <2>2. \A i \in 1..Len(chosen) : chosen'[i] = chosen[i]
    BY <1>3, <2>1 DEF CommitNext
  <2> QED
    BY <1>3, <2>2, OwnKept DEF CommitNext, nodeVars, callVars
<1>4. CASE DataCall
  <2>1. ASSUME NEW n \in Node, NEW c \in Writes, Write(c, n)
        PROVE  OwnInv'
    BY <2>1, OwnPropose DEF Write
  <2>2. ASSUME NEW n \in Node, NEW c \in SafeReads, ReadSafe(c, n)
        PROVE  OwnInv'
    BY <2>2, OwnOther DEF ReadSafe, Goto, clusterVars
  <2>3. ASSUME NEW c \in SafeReads, AwaitReady(c)
        PROVE  OwnInv'
    <3>1. CASE Goto(c, "reading") /\ UNCHANGED future
      BY <3>1, <2>3, OwnOther DEF AwaitReady, Goto, clusterVars
    <3>2. CASE Fail({c})
      BY <3>2, <2>3, OwnFail DEF AwaitReady, clusterVars, nodeVars
    <3> QED
      BY <3>1, <3>2, <2>3 DEF AwaitReady
  <2>4. ASSUME NEW c \in SafeReads, ReadLocked(c)
        PROVE  OwnInv'
    BY <2>4, OwnOther DEF ReadLocked, Goto, clusterVars
  <2> QED
    BY <1>4, <2>1, <2>2, <2>3, <2>4 DEF DataCall
<1>5. CASE ControlCall
  <2>1. ASSUME NEW n \in Node, NEW c \in Changes, Change(c, n)
        PROVE  OwnInv'
    <3>1. \E membership : Propose(c, n, {}, membership)
      BY <2>1 DEF Change
    <3> QED
      BY <3>1, OwnPropose
  <2>2. ASSUME NEW c \in Inits, CheckInitialized(c)
        PROVE  OwnInv'
    BY <2>2, OwnOther DEF CheckInitialized, Goto, clusterVars
  <2>3. ASSUME NEW c \in Inits, NEW nodes, Initialize(c, nodes)
        PROVE  OwnInv'
    <3>1. \A w \in Writes : w # c
      BY ClientsAssumption
    <3>2. \A w \in Writes : future'[w] = future[w] /\ call'[w] = call[w]
      BY <2>3, <3>1 DEF Initialize, Goto, IInv, CallInv, Call
    <3>3. \A i \in 1..Len(chosen) : chosen'[i] = chosen[i]
      <4>1. CASE UNCHANGED chosen
        BY <4>1
      <4>2. CASE chosen = <<>>
        BY <4>2
      <4> QED
        BY <4>1, <4>2, <2>3 DEF Initialize, IsInitialized
    <3>4. UNCHANGED <<boots, applied>>
      BY <2>3 DEF Initialize, nodeVars
    <3> QED
      BY <3>2, <3>3, <3>4, OwnKept
  <2> QED
    BY <1>5, <2>1, <2>2, <2>3 DEF ControlCall
<1>6. CASE UNCHANGED vars
  BY <1>6, OwnKept DEF vars, clusterVars, nodeVars, callVars
<1> QED
  BY <1>1, <1>2, <1>3, <1>4, <1>5, <1>6 DEF Next

\* Who was answered a write finds it in a plain read on that node, until it restarts.
THEOREM ReadsOwnWritesHolds == Spec => []ReadsOwnWrites
<1>1. Init => IInv /\ OwnInv
  <2>1. Init => OwnInv
    BY ClientsAssumption DEF Init, OwnInv, NoFuture, Call
  <2> QED
    BY <2>1, InitInv
<1>2. IInv /\ OwnInv /\ [Next]_vars => (IInv /\ OwnInv)'
  BY NextStep, OwnStep
<1>3. OwnInv => ReadsOwnWrites
  BY DEF OwnInv, ReadsOwnWrites, ReadAt
<1> QED
  BY <1>1, <1>2, <1>3, PTL DEF Spec

-----------------------------------------------------------------------------
(* Types.                                                                  *)

\* One leader at a time, on a node that runs; no node was started, and no call was made on a
\* start, more often than nodes were stopped.
TypesInv ==
  /\ leader \subseteq running /\ (leader = {} \/ \E n \in Node : leader = {n})
  /\ stops \in 0..MaxStops
  /\ \A n \in Node : boots[n] <= stops
  /\ \A c \in Call : future[c].boot <= stops

\* What is not stopped or elected keeps the types.
LEMMA TypesKept ==
  ASSUME TypesInv, UNCHANGED <<running, boots, stops>>, leader' = leader \/ leader' = {},
         \A c \in Call : future'[c].boot = future[c].boot \/ future'[c].boot <= stops
  PROVE  TypesInv'
BY DEF TypesInv

\* A call that ends has no future; the others keep theirs.
LEMMA FailBoots ==
  ASSUME NEW C, Fail(C)
  PROVE  \A c \in Call : future'[c].boot = 0 \/ future'[c].boot = future[c].boot
BY DEF Fail, NoFuture

LEMMA StopTypes ==
  ASSUME IInv, TypesInv, NEW n \in Node, Shutdown(n) \/ Restart(n)
  PROVE  TypesInv'
<1>1. /\ leader' = leader \ {n} /\ stops < MaxStops /\ stops' = stops + 1
      /\ running' = running \ {n} \/ running' = running \cup {n}
      /\ boots' = boots \/ boots' = [boots EXCEPT ![n] = @ + 1]
      /\ \E C : Fail(C)
  BY DEF Shutdown, Restart, MayStop
<1>2. boots \in [Node -> Nat] /\ stops \in Nat /\ MaxStops \in Nat
  BY ClientsAssumption DEF IInv, NodeInv, TypesInv
<1>3. leader' \subseteq running' /\ (leader' = {} \/ \E p \in Node : leader' = {p})
  BY <1>1 DEF TypesInv
<1>4. stops' \in 0..MaxStops
  BY <1>1, <1>2
<1>5. \A p \in Node : boots'[p] <= stops'
  <2>1. \A p \in Node : boots[p] \in Nat /\ boots[p] <= stops
    BY <1>2 DEF TypesInv
  <2>2. \A p \in Node : boots'[p] = boots[p] \/ boots'[p] = boots[p] + 1
    BY <1>1, <1>2
  <2> QED
    BY <2>1, <2>2, <1>1, <1>2
<1>6. \A c \in Call : future'[c].boot <= stops'
  <2>1. \A c \in Call : future[c].boot \in Nat /\ future[c].boot <= stops
    BY DEF TypesInv, IInv, CallInv, Futures
  <2>2. \A c \in Call : future'[c].boot = 0 \/ future'[c].boot = future[c].boot
    BY <1>1, FailBoots
  <2> QED
    BY <2>1, <2>2, <1>1, <1>2
<1> QED
  BY <1>3, <1>4, <1>5, <1>6 DEF TypesInv

LEMMA BegunTypes ==
  ASSUME IInv, TypesInv, NEW n \in Node, NEW c \in Call, NEW f, f.boot = 0 \/ f.boot = boots[n],
         future' = [future EXCEPT ![c] = f], UNCHANGED <<leader, running, boots, stops>>
  PROVE  TypesInv'
<1>1. future \in [Call -> Futures] /\ stops \in Nat /\ boots[n] <= stops
  BY DEF IInv, CallInv, TypesInv
<1>2. f.boot <= stops
  BY <1>1
<1>3. \A d \in Call : future'[d].boot = future[d].boot \/ future'[d].boot <= stops
  BY <1>1, <1>2
<1> QED
  BY <1>3, TypesKept

LEMMA TypesStep ==
  ASSUME IInv, TypesInv, [Next]_vars
  PROVE  TypesInv'
<1>0. stops \in Nat /\ future \in [Call -> Futures] /\ boots \in [Node -> Nat] /\ First \in Node
  BY ClientsAssumption DEF IInv, NodeInv, CallInv, TypesInv
<1>1. ASSUME NEW n \in Node, Elect(n)
      PROVE  TypesInv'
  BY <1>1 DEF Elect, TypesInv, nodeVars, callVars
<1>2. ASSUME NEW n \in Node, Shutdown(n) \/ Restart(n)
      PROVE  TypesInv'
  BY <1>2, StopTypes
<1>3. ASSUME NEW n \in Node, NEW w \in waiting[n], Truncated(n, w)
      PROVE  TypesInv'
  BY <1>3, <1>0, FailBoots, TypesKept DEF Truncated, clusterVars
<1>4. ASSUME NEW n \in Node, Apply(n)
      PROVE  TypesInv'
  BY <1>4, TypesKept DEF Apply, clusterVars
<1>5. CASE StepDown \/ CommitNext
  BY <1>5, TypesKept DEF StepDown, CommitNext, nodeVars, callVars
<1>6. ASSUME NEW c \in Call, NEW n \in Node, NEW app_data, NEW membership, Propose(c, n, app_data, membership)
      PROVE  TypesInv'
  <2>1. PICK f : f = [NoFuture EXCEPT !.on = n, !.boot = boots[n]]
    OBVIOUS
  <2>2. f.boot = boots[n]
    BY <2>1 DEF NoFuture
  <2>3. future' = [future EXCEPT ![c] = f] /\ UNCHANGED <<leader, running, boots, stops>>
    BY <2>1, <1>6 DEF Propose
  <2> QED
    BY <2>2, <2>3, BegunTypes
<1>7. ASSUME NEW c \in SafeReads, NEW n \in Node, ReadSafe(c, n)
      PROVE  TypesInv'
  <2>1. PICK f : f = [NoFuture EXCEPT !.on = n, !.since = Len(chosen), !.index = ReadIndex]
    OBVIOUS
  <2>2. f.boot = 0
    BY <2>1 DEF NoFuture
  <2>3. future' = [future EXCEPT ![c] = f] /\ UNCHANGED <<leader, running, boots, stops>> /\ c \in Call
    BY <2>1, <1>7 DEF ReadSafe, clusterVars, nodeVars, Call
  <2> QED
    BY <2>2, <2>3, BegunTypes
<1>8. ASSUME NEW c \in SafeReads, AwaitReady(c)
      PROVE  TypesInv'
  <2>1. UNCHANGED <<clusterVars, nodeVars, seen>> /\ (UNCHANGED future \/ Fail({c}))
    BY <1>8 DEF AwaitReady
  <2> QED
    BY <2>1, <1>0, FailBoots, TypesKept DEF clusterVars, nodeVars
<1>9. ASSUME NEW c \in SafeReads, ReadLocked(c)
      PROVE  TypesInv'
  <2>1. NoFuture.boot = 0 /\ c \in Call
    BY DEF NoFuture, Call
  <2>2. future' = [future EXCEPT ![c] = NoFuture] /\ UNCHANGED <<leader, running, boots, stops>>
    BY <1>9 DEF ReadLocked, clusterVars, nodeVars
  <2> QED
    BY <2>1, <2>2, <1>0, BegunTypes
<1>10. ASSUME NEW c \in Inits, CheckInitialized(c) \/ \E nodes : Initialize(c, nodes)
       PROVE  TypesInv'
  BY <1>10, TypesKept DEF CheckInitialized, Initialize, clusterVars, nodeVars
<1>11. CASE UNCHANGED vars
  BY <1>11, TypesKept DEF vars, clusterVars, nodeVars, callVars
<1>12. CASE ControlCall
  <2>1. ASSUME NEW c \in Changes, NEW n \in Node, Change(c, n)
        PROVE  TypesInv'
    <3>1. c \in Call
      BY DEF Call
    <3>2. \E app_data, membership : Propose(c, n, app_data, membership)
      BY <2>1 DEF Change
    <3> QED
      BY <3>1, <3>2, <1>6
  <2> QED
    BY <2>1, <1>10, <1>12 DEF ControlCall
<1>13. CASE DataCall
  <2>1. ASSUME NEW c \in Writes, NEW n \in Node, Write(c, n)
        PROVE  TypesInv'
    <3>1. c \in Call
      BY DEF Call
    <3> QED
      BY <2>1, <3>1, <1>6 DEF Write
  <2> QED
    BY <2>1, <1>7, <1>8, <1>9, <1>13 DEF DataCall
<1> QED
  BY <1>1, <1>2, <1>3, <1>4, <1>5, <1>11, <1>12, <1>13 DEF Next, NodeStep

LEMMA TypesSafe ==
  ASSUME IInv, TypesInv
  PROVE  TypeOK
<1>1. \A i \in DOMAIN chosen : chosen[i].index = i
  <2>1. PICK S : chosen \in Seq(S) /\ tail \in Seq(S)
    BY OneSet DEF IInv, LogInv
  <2>2. \A i \in 1..Len(LeaderLog) : LeaderLog[i].index = i
    BY DEF IInv, LogInv, LogOK, EntryOK
  <2>3. \A i \in 1..Len(chosen) : i \in 1..Len(LeaderLog) /\ LeaderLog[i] = chosen[i]
    BY <2>1 DEF LeaderLog
  <2> QED
    BY <2>1, <2>2, <2>3
<1>2. leader \subseteq running /\ running \subseteq Node
  BY DEF IInv, NodeInv, TypesInv
<1>3. Cardinality(leader) <= 1
  <2>1. CASE leader = {}
    <3>1. Cardinality(leader) = 0
      BY <2>1, FS_EmptySet
    <3> QED
      BY <3>1
  <2>2. CASE \E n \in Node : leader = {n}
    <3>1. Cardinality(leader) = 1
      BY <2>2, FS_Singleton
    <3> QED
      BY <3>1
  <2> QED
    BY <2>1, <2>2 DEF TypesInv
<1>4. /\ term \in Nat /\ stops \in 0..MaxStops /\ stops \in Nat /\ MaxStops \in Nat
      /\ boots \in [Node -> Nat] /\ applied \in [Node -> Nat]
      /\ call \in [Call -> Pending \cup {"idle", "answered", "dropped", "failed"}]
      /\ future \in [Call -> Futures] /\ seen \in [Call -> Nat]
  BY ClientsAssumption DEF IInv, LogInv, NodeInv, CallInv, TypesInv
<1>5. boots \in [Node -> 0..MaxStops]
  <2>1. \A n \in Node : boots[n] \in Nat /\ boots[n] <= stops
    BY <1>4 DEF TypesInv
  <2>2. \A n \in Node : boots[n] \in 0..MaxStops
    BY <2>1, <1>4
  <2> QED
    BY <2>2, <1>4
<1>6. applied \in [Node -> 0..Len(chosen)]
  <2>1. Len(chosen) \in Nat
    BY DEF IInv, LogInv, IsLog
  <2>2. \A n \in Node : applied[n] \in 0..Len(chosen)
    BY <2>1, <1>4 DEF IInv, NodeInv
  <2> QED
    BY <2>2, <1>4
<1>7. \A n \in Node : \A w \in waiting[n] : call[w.call] = "waiting" /\ future[w.call].on = n
  BY DEF IInv, WaitInv
<1>8. future \in [Call -> [on : Node, boot : 0..MaxStops, since : Nat, index : Nat]]
  <2>1. ASSUME NEW c \in Call
        PROVE  future[c] \in [on : Node, boot : 0..MaxStops, since : Nat, index : Nat]
    <3>1. future[c] \in Futures /\ future[c].boot <= stops
      BY <1>4 DEF TypesInv
    <3>2. future[c].boot \in 0..MaxStops
      BY <3>1, <1>4 DEF Futures
    <3> QED
      BY <3>1, <3>2 DEF Futures
  <2> QED
    BY <2>1, <1>4
<1> QED
  BY <1>1, <1>2, <1>3, <1>4, <1>5, <1>6, <1>7, <1>8 DEF TypeOK

\* Every variable has its type: there is one leader, on a node that runs, no node applies past
\* what is chosen, and whoever waits for an entry is a call pending on that node.
THEOREM ClientsTypeCorrect == Spec => []TypeOK
<1>1. Init => IInv /\ TypesInv
  <2>1. Init => TypesInv
    BY ClientsAssumption DEF Init, TypesInv, NoFuture
  <2> QED
    BY <2>1, InitInv
<1>2. IInv /\ TypesInv /\ [Next]_vars => IInv' /\ TypesInv'
  BY NextStep, TypesStep
<1>3. IInv /\ TypesInv => TypeOK
  BY TypesSafe
<1> QED
  BY <1>1, <1>2, <1>3, PTL DEF Spec

-----------------------------------------------------------------------------
(* Memberships: one that goes into an entry comes out of it as it was, so  *)
(* that each change starts from the voter sets of the one before and keeps *)
(* one of them.                                                            *)

\* What Membership::new accepts.
IsMembership(m) ==
  /\ m = [configs |-> m.configs, nodes |-> m.nodes]
  /\ m.configs \in Seq(SUBSET DOMAIN m.nodes) /\ m.configs # <<>>
  /\ \A i \in DOMAIN m.configs : m.configs[i] # {}

Carries(e, m) == IsMembership(m) /\ e.membership = {MembershipToPb(m)}

EntriesOK(l) == \A i \in DOMAIN l : l[i].membership = {} \/ \E m : Carries(l[i], m)

IsLast(i, l) == i \in Memberships(l) /\ \A j \in Memberships(l) : j <= i

\* JointConfigsSurvive of a log.
Shares(l) ==
  \A i, j \in Memberships(l) :
    i < j /\ (\A k \in Memberships(l) : k <= i \/ k >= j) =>
      \A m \in GetMembership(l[i]), q \in GetMembership(l[j]) :
        Range(m.configs) \cap Range(q.configs) # {}

MembersInv ==
  /\ EntriesOK(LeaderLog) /\ Shares(LeaderLog)
  /\ chosen # <<>> => \E i \in DOMAIN chosen : IsLast(i, chosen)
  /\ \A i, j \in Memberships(tail) : i = j

-----------------------------------------------------------------------------
(* Memberships.                                                            *)

\* The conversion to protobuf and back gives the membership, joint or not.
LEMMA RoundTrip ==
  ASSUME NEW m, IsMembership(m)
  PROVE  MembershipFromPb(MembershipToPb(m)) = {m}
<1> DEFINE p == MembershipToPb(m)
<1>1. /\ p.nodes = m.nodes /\ DOMAIN p.configs = DOMAIN m.configs
      /\ \A i \in DOMAIN m.configs : DOMAIN p.configs[i] = m.configs[i]
  BY DEF MembershipToPb
<1>2. [i \in DOMAIN m.configs |-> m.configs[i]] = m.configs
  BY DEF IsMembership
<1>3. \A i \in DOMAIN m.configs : m.configs[i] \subseteq DOMAIN m.nodes /\ m.configs[i] # {}
  BY DEF IsMembership
<1> HIDE DEF p
<1>4. MembershipFromPb(p) =
        {[configs |-> [i \in DOMAIN p.configs |-> DOMAIN p.configs[i]], nodes |-> p.nodes]}
  BY <1>1, <1>3 DEF MembershipFromPb
<1>5. [i \in DOMAIN p.configs |-> DOMAIN p.configs[i]] = m.configs
  BY <1>1, <1>2
<1> QED
  BY <1>1, <1>4, <1>5 DEF p, IsMembership

LEMMA GetsBack ==
  ASSUME NEW e, NEW m, Carries(e, m)
  PROVE  GetMembership(e) = {m} /\ e.membership # {}
BY RoundTrip DEF Carries, GetMembership

LEMMA EntryCarries ==
  ASSUME NEW m, IsMembership(m), NEW id, NEW app_data
  PROVE  Carries(EntryNew(id, app_data, {m}), m)
BY DEF Carries, EntryNew

\* A change to a joint configuration, and out of one, keeps a voter set.
LEMMA NextShares ==
  ASSUME NEW m, IsMembership(m), NEW nodes, DOMAIN m.nodes \subseteq DOMAIN nodes,
         NEW goal \in SUBSET DOMAIN nodes, goal # {}, NEW retain \in BOOLEAN
  PROVE  LET q == NextMembership(m, goal, nodes, retain)
         IN  IsMembership(q) /\ Range(m.configs) \cap Range(q.configs) # {}
<1> DEFINE old     == m.configs[Len(m.configs)]
           configs == IF \E i \in DOMAIN m.configs : m.configs[i] = goal
                      THEN <<goal>> ELSE <<old, goal>>
           out     == Voters(m) \ UNION {configs[i] : i \in DOMAIN configs}
           keep    == IF retain THEN DOMAIN nodes ELSE DOMAIN nodes \ out
           q       == [configs |-> configs, nodes |-> [id \in keep |-> nodes[id]]]
<1>1. q = NextMembership(m, goal, nodes, retain)
  BY DEF NextMembership, Last
<1>2. Len(m.configs) \in DOMAIN m.configs
  BY DEF IsMembership
<1>3. old \in Range(m.configs) /\ old \subseteq DOMAIN nodes /\ old # {}
  BY <1>2 DEF Range, IsMembership
<1>4. /\ configs \in Seq({old, goal}) /\ configs # <<>>
      /\ \E i \in DOMAIN configs : configs[i] \in Range(m.configs)
  <2>1. CASE \E i \in DOMAIN m.configs : m.configs[i] = goal
    <3>1. goal \in Range(m.configs) /\ configs = <<goal>>
      BY <2>1 DEF Range
    <3> HIDE DEF old, configs
    <3> QED
      BY <3>1
  <2>2. CASE ~\E i \in DOMAIN m.configs : m.configs[i] = goal
    <3>1. configs = <<old, goal>>
      BY <2>2
    <3> HIDE DEF old, configs
    <3> QED
      BY <3>1, <1>3
  <2> QED
    BY <2>1, <2>2
<1> HIDE DEF old, configs
<1>5. \A i \in DOMAIN configs : configs[i] \in {old, goal} /\ configs[i] \subseteq keep
  BY <1>3, <1>4
<1>6. configs \in Seq(SUBSET keep)
  <2>1. configs \in [1..Len(configs) -> SUBSET keep] /\ Len(configs) \in Nat
    BY <1>4, <1>5
  <2> QED
    BY <2>1
<1> HIDE DEF keep
<1>7. DOMAIN q.nodes = keep /\ q.configs = configs
  OBVIOUS
<1>8. IsMembership(q)
  BY <1>3, <1>4, <1>5, <1>6, <1>7 DEF IsMembership
<1>9. Range(m.configs) \cap Range(q.configs) # {}
  BY <1>4, <1>7 DEF Range
<1> QED
  BY <1>1, <1>8, <1>9

\* The nodes of an init request that names one.
LEMMA NodesOfIs ==
  ASSUME NEW ids \in SUBSET Node, First \in ids
  PROVE  DOMAIN NodesOf(ids) # {}
<1> DEFINE S == {[node_id |-> id, rpc_addr |-> id] : id \in ids}
           s == SetToSeq(S)
<1>1. IsFiniteSet(S) /\ S # {}
  <2>1. IsFiniteSet(ids)
    BY ClientsAssumption, FS_Subset
  <2> DEFINE f == [id \in ids |-> [node_id |-> id, rpc_addr |-> id]]
  <2>2. f \in Surjection(ids, S)
    BY DEF Surjection
  <2> QED
    BY <2>1, <2>2, FS_Surjection
<1>2. /\ Cardinality(S) \in Nat /\ Cardinality(S) # 0
      /\ \E f \in [1..Cardinality(S) -> S] : IsInjective(f)
  <2>1. /\ Cardinality(S) \in Nat /\ ExistsBijection(1..Cardinality(S), S)
        /\ Cardinality(S) = 0 <=> S = {}
    BY <1>1, FS_CardinalityType, FS_EmptySet
  <2> HIDE DEF S
  <2> QED
    BY <2>1, <1>1 DEF ExistsBijection, Bijection, Injection, IsInjective
<1> HIDE DEF S
<1>3. s \in [1..Cardinality(S) -> S]
  BY <1>2 DEF SetToSeq
<1>4. 1 \in DOMAIN s
  BY <1>2, <1>3
<1>5. DOMAIN NodesById(s) = {s[i].node_id : i \in DOMAIN s}
  BY DEF NodesById
<1> QED
  BY <1>4, <1>5 DEF NodesOf, S

-----------------------------------------------------------------------------
(* Logs.                                                                   *)

\* r keeps k entries of l and gets one more.
Extends(r, l, k, e) ==
  /\ k \in 0..Len(l) /\ DOMAIN l = 1..Len(l) /\ Len(l) \in Nat
  /\ DOMAIN r = 1..(k + 1) /\ r[k + 1] = e
  /\ \A i \in 1..k : r[i] = l[i]

LEMMA CutExtends ==
  ASSUME NEW S, NEW l \in Seq(S), NEW k \in 0..Len(l), NEW e \in S
  PROVE  Extends(Append(SubSeq(l, 1, k), e), l, k, e)
BY DEF Extends

LEMMA CutMemberships ==
  ASSUME NEW l, NEW k, NEW e, NEW r, Extends(r, l, k, e)
  PROVE  /\ k \in Nat /\ Memberships(l) \subseteq 1..Len(l) /\ Memberships(r) \subseteq 1..(k + 1)
         /\ \A i \in Memberships(r) : i <= k => i \in Memberships(l)
         /\ \A i \in Memberships(l) : i <= k => i \in Memberships(r)
         /\ k + 1 \in Memberships(r) <=> e.membership # {}
BY DEF Extends, Memberships

LEMMA CutEntriesOK ==
  ASSUME NEW l, NEW k, NEW e, NEW r, Extends(r, l, k, e), EntriesOK(l),
         e.membership = {} \/ \E m : Carries(e, m)
  PROVE  EntriesOK(r)
BY DEF Extends, EntriesOK

\* A blank entry or a request after a beginning of a log.
LEMMA CutShares ==
  ASSUME NEW l, NEW k, NEW e, NEW r, Extends(r, l, k, e), Shares(l), e.membership = {}
  PROVE  Shares(r)
<1>1. /\ k \in Nat /\ Memberships(l) \subseteq 1..Len(l) /\ Memberships(r) \subseteq 1..(k + 1)
      /\ \A i \in Memberships(r) : i <= k => i \in Memberships(l)
      /\ \A i \in Memberships(l) : i <= k => i \in Memberships(r)
      /\ k + 1 \notin Memberships(r)
  BY CutMemberships
<1>2. Len(l) \in Nat /\ \A i \in 1..k : r[i] = l[i]
  BY DEF Extends
<1>3. \A i \in Memberships(r) : i \in 1..k /\ i \in Memberships(l)
  BY <1>1
<1>4. ASSUME NEW i \in Memberships(r), NEW j \in Memberships(r), i < j,
             \A h \in Memberships(r) : h <= i \/ h >= j
      PROVE  \A m \in GetMembership(r[i]), q \in GetMembership(r[j]) :
               Range(m.configs) \cap Range(q.configs) # {}
  <2>1. \A h \in Memberships(l) : h <= i \/ h >= j
    BY <1>1, <1>2, <1>3, <1>4
  <2>2. r[i] = l[i] /\ r[j] = l[j]
    BY <1>2, <1>3
  <2> QED
    BY <2>1, <2>2, <1>3, <1>4 DEF Shares
<1> QED
  BY <1>4 DEF Shares

\* A membership that keeps a voter set of the last one.
LEMMA ChangeShares ==
  ASSUME NEW l, NEW e, NEW r, Extends(r, l, Len(l), e), Shares(l), NEW i, IsLast(i, l),
         NEW m, Carries(l[i], m), NEW q, Carries(e, q),
         Range(m.configs) \cap Range(q.configs) # {}
  PROVE  Shares(r)
<1> DEFINE k == Len(l)
<1>1. /\ k \in Nat /\ Memberships(l) \subseteq 1..k /\ Memberships(r) \subseteq 1..(k + 1)
      /\ \A h \in Memberships(r) : h <= k => h \in Memberships(l)
      /\ \A h \in Memberships(l) : h <= k => h \in Memberships(r)
  BY CutMemberships
<1>2. r[k + 1] = e /\ \A h \in 1..k : r[h] = l[h]
  BY DEF Extends
<1> HIDE DEF k
<1>3. i \in 1..k /\ \A h \in Memberships(l) : h <= i
  BY <1>1 DEF IsLast
<1>4. i \in Memberships(r)
  BY <1>1, <1>3 DEF IsLast
<1>5. ASSUME NEW a \in Memberships(r), NEW b \in Memberships(r), a < b,
             \A h \in Memberships(r) : h <= a \/ h >= b
      PROVE  \A n \in GetMembership(r[a]), p \in GetMembership(r[b]) :
               Range(n.configs) \cap Range(p.configs) # {}
  <2>1. CASE b <= k
    <3>1. /\ a \in Memberships(l) /\ b \in Memberships(l) /\ a \in 1..k /\ b \in 1..k
      BY <2>1, <1>1, <1>5
    <3>2. \A h \in Memberships(l) : h <= a \/ h >= b
      BY <2>1, <1>1, <1>5
    <3>3. r[a] = l[a] /\ r[b] = l[b]
      BY <3>1, <1>2
    <3> QED
      BY <3>1, <3>2, <3>3, <1>5 DEF Shares
  <2>2. CASE b > k
    <3>1. b = k + 1 /\ a \in 1..k /\ a \in Memberships(l)
      BY <2>2, <1>1, <1>5
    <3>2. a = i
      BY <3>1, <1>1, <1>3, <1>4, <1>5
    <3>3. r[a] = l[i] /\ r[b] = e
      BY <3>1, <3>2, <1>2
    <3>4. GetMembership(r[a]) = {m} /\ GetMembership(r[b]) = {q}
      BY <3>3, GetsBack
    <3> QED
      BY <3>4
  <2> QED
    BY <2>1, <2>2, <1>1
<1> QED
  BY <1>5 DEF Shares

\* The configuration a change starts from is the last one of the leader's log.
LEMMA EffectiveIs ==
  ASSUME IInv, MembersInv, chosen # <<>>, Memberships(tail) = {}
  PROVE  \E i : IsLast(i, LeaderLog) /\ Carries(LeaderLog[i], Effective(chosen))
<1>1. PICK S : chosen \in Seq(S) /\ tail \in Seq(S)
  BY OneSet DEF IInv, LogInv
<1>2. PICK i \in DOMAIN chosen : IsLast(i, chosen)
  BY DEF MembersInv
<1>3. /\ LeaderLog \in Seq(S) /\ Len(LeaderLog) = Len(chosen) + Len(tail)
      /\ \A j \in 1..Len(chosen) : LeaderLog[j] = chosen[j]
      /\ \A j \in 1..Len(tail) : LeaderLog[Len(chosen) + j] = tail[j]
  BY <1>1, ConcatIs DEF LeaderLog
<1>4. Memberships(LeaderLog) = Memberships(chosen)
  <2>1. \A j \in 1..Len(tail) : tail[j].membership = {}
    BY <1>1 DEF Memberships
  <2>2. ASSUME NEW j \in 1..(Len(chosen) + Len(tail)), j > Len(chosen)
        PROVE  LeaderLog[j].membership = {}
    <3>1. PICK h \in 1..Len(tail) : j = Len(chosen) + h
      <4>1. j - Len(chosen) \in 1..Len(tail) /\ j = Len(chosen) + (j - Len(chosen))
        BY <1>1, <2>2
      <4> QED
        BY <4>1
    <3> QED
      BY <3>1, <2>1, <1>3
  <2>3. DOMAIN LeaderLog = 1..(Len(chosen) + Len(tail)) /\ DOMAIN chosen = 1..Len(chosen)
        /\ Len(chosen) \in Nat /\ Len(tail) \in Nat
    BY <1>1, <1>3
  <2> QED
    BY <2>2, <2>3, <1>3 DEF Memberships
<1>5. i \in Memberships(chosen) /\ i \in DOMAIN LeaderLog /\ LeaderLog[i] = chosen[i]
      /\ chosen[i].membership # {}
  BY <1>1, <1>2, <1>3 DEF IsLast, Memberships
<1>6. PICK m : Carries(LeaderLog[i], m)
  BY <1>5 DEF MembersInv, EntriesOK
<1>7. (CHOOSE h \in Memberships(chosen) : \A j \in Memberships(chosen) : j <= h) = i
  <2>1. Memberships(chosen) \subseteq Nat
    BY <1>1 DEF Memberships
  <2> QED
    BY <2>1, <1>2 DEF IsLast
<1>8. GetMembership(chosen[i]) = {m}
  BY <1>5, <1>6, GetsBack
<1>9. Effective(chosen) = m
  BY <1>7, <1>8 DEF Effective
<1> QED
  BY <1>2, <1>4, <1>6, <1>9 DEF IsLast

-----------------------------------------------------------------------------
(* The steps.                                                              *)

LEMMA MembersKept ==
  ASSUME MembersInv, UNCHANGED <<chosen, tail>>
  PROVE  MembersInv'
<1>1. LeaderLog' = LeaderLog
  BY DEF LeaderLog
<1>2. EntriesOK(LeaderLog') /\ Shares(LeaderLog')
  BY <1>1 DEF MembersInv
<1> QED
  BY <1>2 DEF MembersInv

LEMMA ElectMembers ==
  ASSUME IInv, MembersInv, NEW n \in Node, Elect(n)
  PROVE  MembersInv'
<1>1. PICK k \in 0..Len(tail) :
        /\ tail' = Append(SubSeq(tail, 1, k),
                     EntryNew([leader_id |-> term + 1, index |-> Len(chosen \o SubSeq(tail, 1, k)) + 1],
                              {}, {}))
        /\ chosen' = chosen
  BY DEF Elect
<1>2. PICK e : e = EntryNew([leader_id |-> term + 1,
                             index |-> Len(chosen \o SubSeq(tail, 1, k)) + 1], {}, {})
  OBVIOUS
<1>3. PICK S : chosen \in Seq(S) /\ tail \in Seq(S) /\ e \in S
  BY OneSet DEF IInv, LogInv
<1>4. tail' = Append(SubSeq(tail, 1, k), e) /\ e.membership = {}
  BY <1>1, <1>2 DEF EntryNew
<1>5. PICK m : m = Len(chosen) + k
  OBVIOUS
<1>6. Extends(LeaderLog', LeaderLog, m, e)
  <2>1. /\ chosen \o Append(SubSeq(tail, 1, k), e)
             = Append(SubSeq(chosen \o tail, 1, Len(chosen) + k), e)
        /\ Len(chosen \o SubSeq(tail, 1, k)) = Len(chosen) + k
        /\ Len(chosen) + k \in 0..Len(chosen \o tail)
    BY <1>3, CutTail, Zenon
  <2>2. LeaderLog' = Append(SubSeq(LeaderLog, 1, m), e) /\ m \in 0..Len(LeaderLog)
    BY <2>1, <1>1, <1>4, <1>5, Zenon DEF LeaderLog
  <2>3. LeaderLog \in Seq(S)
    BY <1>3, ConcatIs DEF LeaderLog
  <2> QED
    BY <2>2, <2>3, <1>3, CutExtends
<1>7. Extends(tail', tail, k, e)
  BY <1>3, <1>4, CutExtends
<1>8. EntriesOK(LeaderLog') /\ Shares(LeaderLog')
  BY <1>4, <1>6, CutEntriesOK, CutShares DEF MembersInv
<1>9. \A i, j \in Memberships(tail') : i = j
  <2>1. /\ k \in Nat /\ Memberships(tail') \subseteq 1..(k + 1)
        /\ \A i \in Memberships(tail') : i <= k => i \in Memberships(tail)
        /\ k + 1 \notin Memberships(tail')
    BY <1>4, <1>7, CutMemberships
  <2>2. Memberships(tail') \subseteq Memberships(tail)
    BY <2>1
  <2> QED
    BY <2>2 DEF MembersInv
<1>10. chosen' # <<>> => \E i \in DOMAIN chosen' : IsLast(i, chosen')
  BY <1>1 DEF MembersInv
<1> QED
  BY <1>8, <1>9, <1>10 DEF MembersInv, EntriesOK, Shares, IsLast

\* The entry that is committed moves from tail to chosen.
LEMMA CommitMembers ==
  ASSUME IInv, MembersInv, CommitNext
  PROVE  MembersInv'
<1>1. PICK S : chosen \in Seq(S) /\ tail \in Seq(S)
  BY OneSet DEF IInv, LogInv
<1>2. chosen' = Append(chosen, Head(tail)) /\ tail' = Tail(tail) /\ tail # <<>>
  BY DEF CommitNext
<1>3. LeaderLog' = LeaderLog
  BY <1>1, <1>2, MoveHead DEF LeaderLog
<1>4. PICK e \in S : e = Head(tail)
  BY <1>1, <1>2
<1>5. Extends(chosen', chosen, Len(chosen), e)
  BY <1>1, <1>2, <1>4 DEF Extends
<1>6. \E i \in DOMAIN chosen' : IsLast(i, chosen')
  <2>1. /\ Len(chosen) \in Nat /\ Memberships(chosen') \subseteq 1..(Len(chosen) + 1)
        /\ \A i \in Memberships(chosen') : i <= Len(chosen) => i \in Memberships(chosen)
        /\ \A i \in Memberships(chosen) : i <= Len(chosen) => i \in Memberships(chosen')
        /\ Memberships(chosen) \subseteq 1..Len(chosen)
    BY <1>5, CutMemberships
  <2>2. CASE Len(chosen) + 1 \in Memberships(chosen')
    BY <2>1, <2>2 DEF IsLast, Memberships
  <2>3. CASE Len(chosen) + 1 \notin Memberships(chosen')
    <3>1. PICK i \in DOMAIN chosen : IsLast(i, chosen)
      BY DEF CommitNext, QuorumRuns, IsInitialized, MembersInv
    <3>2. i \in Memberships(chosen') /\ \A j \in Memberships(chosen') : j \in Memberships(chosen)
      BY <3>1, <2>1, <2>3 DEF IsLast
    <3> QED
      BY <3>1, <3>2 DEF IsLast, Memberships
  <2> QED
    BY <2>2, <2>3
<1>7. \A i, j \in Memberships(tail') : i = j
  <2>1. \A i \in DOMAIN Tail(tail) : i + 1 \in DOMAIN tail /\ Tail(tail)[i] = tail[i + 1] /\ i \in Nat
    BY <1>1, <1>2
  <2>2. \A i \in Memberships(tail') : i + 1 \in Memberships(tail) /\ i \in Nat
    BY <2>1, <1>2 DEF Memberships
  <2>3. ASSUME NEW i \in Memberships(tail'), NEW j \in Memberships(tail')
        PROVE  i = j
    <3>1. i + 1 = j + 1 /\ i \in Nat /\ j \in Nat
      BY <2>2 DEF MembersInv
    <3> QED
      BY <3>1
  <2> QED
    BY <2>3
<1>8. EntriesOK(LeaderLog') /\ Shares(LeaderLog')
  BY <1>3 DEF MembersInv
<1> QED
  BY <1>6, <1>7, <1>8 DEF MembersInv

\* Whether q may follow the configuration in force.
MayFollow(q) ==
  /\ Memberships(tail) = {}
  /\ IsMembership(q) /\ Range(Effective(chosen).configs) \cap Range(q.configs) # {}

LEMMA ProposeMembers ==
  ASSUME IInv, MembersInv, NEW n, NEW c, NEW app_data, NEW membership,
         Propose(c, n, app_data, membership),
         membership = {} \/ \E q : membership = {q} /\ MayFollow(q)
  PROVE  MembersInv'
<1>1. PICK e : e = EntryNew(NextLogId, app_data, membership)
  OBVIOUS
<1>2. PICK S : chosen \in Seq(S) /\ tail \in Seq(S) /\ e \in S
  BY OneSet DEF IInv, LogInv
<1>3. tail' = Append(tail, e) /\ chosen' = chosen /\ chosen # <<>>
  BY <1>1 DEF Propose, IInv, NodeInv
<1>4. Extends(LeaderLog', LeaderLog, Len(LeaderLog), e)
  <2>1. /\ chosen \o Append(tail, e) = Append(SubSeq(chosen \o tail, 1, Len(chosen \o tail)), e)
        /\ Len(chosen \o tail) \in 0..Len(chosen \o tail)
    BY <1>2, ExtendTail, Zenon
  <2>2. /\ LeaderLog' = Append(SubSeq(LeaderLog, 1, Len(LeaderLog)), e)
        /\ Len(LeaderLog) \in 0..Len(LeaderLog)
    BY <2>1, <1>3, Zenon DEF LeaderLog
  <2>3. LeaderLog \in Seq(S)
    BY <1>2, ConcatIs DEF LeaderLog
  <2> QED
    BY <2>2, <2>3, <1>2, CutExtends
<1>5. Extends(tail', tail, Len(tail), e)
  BY <1>2, <1>3 DEF Extends
<1>6. /\ Memberships(tail') \subseteq 1..(Len(tail) + 1)
      /\ \A i \in Memberships(tail') : i <= Len(tail) => i \in Memberships(tail)
      /\ Len(tail) + 1 \in Memberships(tail') <=> e.membership # {}
      /\ Len(tail) \in Nat
  BY <1>5, CutMemberships
<1>7. \E i \in DOMAIN chosen' : IsLast(i, chosen')
  BY <1>3 DEF MembersInv
<1>8. CASE membership = {}
  <2>1. e.membership = {}
    BY <1>1, <1>8 DEF EntryNew
  <2>2. EntriesOK(LeaderLog') /\ Shares(LeaderLog')
    BY <2>1, <1>4, CutEntriesOK, CutShares DEF MembersInv
  <2>3. Memberships(tail') \subseteq Memberships(tail)
    BY <2>1, <1>6
  <2>4. \A i, j \in Memberships(tail') : i = j
    BY <2>3 DEF MembersInv
  <2> QED
    BY <2>2, <2>4, <1>7 DEF MembersInv, EntriesOK, Shares, IsLast
<1>9. CASE \E q : membership = {q} /\ MayFollow(q)
  <2>1. PICK q : membership = {q} /\ MayFollow(q)
    BY <1>9
  <2>2. Carries(e, q)
    BY <2>1, <1>1, EntryCarries DEF MayFollow
  <2>3. PICK i : IsLast(i, LeaderLog) /\ Carries(LeaderLog[i], Effective(chosen))
    BY <2>1, <1>3, EffectiveIs DEF MayFollow
  <2>4. EntriesOK(LeaderLog')
    BY <2>2, <1>4, CutEntriesOK DEF MembersInv
  <2>5. Shares(LeaderLog')
    BY <2>1, <2>2, <2>3, <1>4, ChangeShares DEF MembersInv, MayFollow
  <2>6. \A i1, i2 \in Memberships(tail') : i1 = i2
    BY <2>1, <1>6 DEF MayFollow
  <2> QED
    BY <2>4, <2>5, <2>6, <1>7 DEF MembersInv, EntriesOK, Shares, IsLast
<1> QED
  BY <1>8, <1>9

\* Each control call proposes a membership that may follow.
LEMMA ChangeMembers ==
  ASSUME IInv, MembersInv, NEW n \in Node, NEW c \in Changes, Change(c, n)
  PROVE  MembersInv'
<1> DEFINE m == Effective(chosen)
<1>1. Memberships(tail) = {} /\ chosen # <<>>
  BY DEF Change, IInv, NodeInv
<1>2. IsMembership(m)
  BY <1>1, EffectiveIs DEF Carries
<1> HIDE DEF m
<1>3. PICK q : /\ Propose(c, n, {}, {q})
               /\ \/ \E id \in Node : q = AddLearner(m, id) \/ q = AddVoter(m, id)
                  \/ \E members \in (SUBSET DOMAIN m.nodes) \ {{}}, retain \in BOOLEAN :
                       q = ChangeMembership(m, members, retain)
  BY DEF Change, m
<1>4. /\ Len(m.configs) \in DOMAIN m.configs
      /\ Last(m.configs) \subseteq DOMAIN m.nodes
  BY <1>2 DEF IsMembership, Last
<1>5. IsMembership(q) /\ Range(m.configs) \cap Range(q.configs) # {}
  <2>1. CASE \E id \in Node : q = AddLearner(m, id)
    <3>1. PICK id \in Node : q = AddLearner(m, id)
      BY <2>1
    <3>2. PICK nodes : nodes = Joined(m, id)
      OBVIOUS
    <3>3. q = [configs |-> m.configs, nodes |-> nodes]
      BY <3>1, <3>2, <1>2 DEF AddLearner, IsMembership
    <3>4. DOMAIN m.nodes \subseteq DOMAIN nodes
      BY <3>2 DEF Joined
    <3>5. m.configs \in Seq(SUBSET DOMAIN nodes)
      BY <3>4, <1>2 DEF IsMembership
    <3>6. Last(m.configs) \in Range(m.configs)
      BY <1>4 DEF Range, Last
    <3> QED
      BY <3>3, <3>5, <3>6, <1>2 DEF IsMembership
  <2>2. CASE \E id \in Node : q = AddVoter(m, id)
    <3>1. PICK id \in Node : q = AddVoter(m, id)
      BY <2>2
    <3>2. PICK nodes : nodes = Joined(m, id)
      OBVIOUS
    <3>3. DOMAIN nodes = DOMAIN m.nodes \cup {id}
      BY <3>2 DEF Joined
    <3>4. q = NextMembership(m, Last(m.configs) \cup {id}, nodes, FALSE)
      BY <3>1, <3>2 DEF AddVoter
    <3>5. /\ DOMAIN m.nodes \subseteq DOMAIN nodes
          /\ Last(m.configs) \cup {id} \in SUBSET DOMAIN nodes
      BY <3>3, <1>4
    <3> QED
      BY <3>4, <3>5, <1>2, NextShares
  <2>3. CASE \E members \in (SUBSET DOMAIN m.nodes) \ {{}}, retain \in BOOLEAN :
               q = ChangeMembership(m, members, retain)
    <3>1. PICK members \in (SUBSET DOMAIN m.nodes) \ {{}}, retain \in BOOLEAN :
            q = ChangeMembership(m, members, retain)
      BY <2>3
    <3>2. q = NextMembership(m, members, m.nodes, retain)
      BY <3>1 DEF ChangeMembership
    <3>3. members \in SUBSET DOMAIN m.nodes /\ members # {}
      BY <3>1
    <3> QED
      BY <3>2, <3>3, <1>2, NextShares
  <2> QED
    BY <2>1, <2>2, <2>3, <1>3
<1>6. MayFollow(q)
  BY <1>1, <1>5 DEF MayFollow, m
<1> QED
  BY <1>3, <1>6, ProposeMembers

LEMMA InitializeMembers ==
  ASSUME IInv, MembersInv, NEW c \in Inits, NEW ids \in SUBSET Node, First \in ids,
         Initialize(c, NodesOf(ids))
  PROVE  MembersInv'
<1>1. PICK nodes : nodes = NodesOf(ids) /\ DOMAIN nodes # {}
  BY NodesOfIs
<1>2. PICK m : m = [configs |-> <<DOMAIN nodes>>, nodes |-> nodes]
  OBVIOUS
<1>3. \/ UNCHANGED <<chosen, tail>>
      \/ /\ chosen = <<>>
         /\ chosen' = <<EntryNew([leader_id |-> 0, index |-> 1], {}, {m})>>
         /\ tail' = tail
  BY <1>1, <1>2 DEF Initialize, IsInitialized
<1>4. CASE /\ chosen = <<>>
           /\ chosen' = <<EntryNew([leader_id |-> 0, index |-> 1], {}, {m})>>
           /\ tail' = tail
  <2>1. PICK e : e = EntryNew([leader_id |-> 0, index |-> 1], {}, {m})
    OBVIOUS
  <2>2. IsMembership(m)
    BY <1>1, <1>2 DEF IsMembership
  <2>3. Carries(e, m) /\ e.membership # {}
    BY <2>1, <2>2, EntryCarries, GetsBack
  <2>4. tail = <<>> /\ tail' = <<>> /\ chosen' = <<e>> /\ LeaderLog' = <<e>>
    BY <2>1, <1>4 DEF IInv, LogInv, LeaderLog
  <2>5. DOMAIN LeaderLog' = {1} /\ LeaderLog'[1] = e /\ chosen'[1] = e /\ DOMAIN chosen' = {1}
    BY <2>4
  <2>6. EntriesOK(LeaderLog') /\ Shares(LeaderLog')
    BY <2>3, <2>5 DEF EntriesOK, Shares, Memberships
  <2>7. IsLast(1, chosen')
    BY <2>3, <2>5 DEF IsLast, Memberships
  <2>8. Memberships(tail') = {}
    BY <2>4 DEF Memberships
  <2> QED
    BY <2>5, <2>6, <2>7, <2>8 DEF MembersInv, EntriesOK, Shares, IsLast
<1> QED
  BY <1>3, <1>4, MembersKept

LEMMA MembersStep ==
  ASSUME IInv, MembersInv, [Next]_vars
  PROVE  MembersInv'
<1>1. ASSUME NEW n \in Node, NodeStep(n)
      PROVE  MembersInv'
  BY <1>1, ElectMembers, MembersKept
  DEF NodeStep, Apply, Shutdown, Restart, Truncated, clusterVars
<1>2. CASE StepDown
  BY <1>2, MembersKept DEF StepDown
<1>3. CASE CommitNext
  BY <1>3, CommitMembers
<1>4. CASE DataCall
  <2>1. ASSUME NEW n \in Node, NEW c \in Writes, Write(c, n)
        PROVE  MembersInv'
    BY <2>1, ProposeMembers DEF Write
  <2> QED
    BY <1>4, <2>1, MembersKept DEF DataCall, ReadSafe, AwaitReady, ReadLocked, clusterVars
<1>5. CASE ControlCall
  BY <1>5, ChangeMembers, InitializeMembers, MembersKept
  DEF ControlCall, CheckInitialized, clusterVars
<1>6. CASE UNCHANGED vars
  BY <1>6, MembersKept DEF vars, clusterVars
<1> QED
  BY <1>1, <1>2, <1>3, <1>4, <1>5, <1>6 DEF Next

\* Quorums of successive memberships meet, whatever changes are made on whatever nodes:
\* what membership.rs converts is what openraft computed.
THEOREM JointConfigsSurviveHolds == Spec => []JointConfigsSurvive
<1>1. Init => IInv /\ MembersInv
  <2>1. Init => MembersInv
    BY DEF Init, MembersInv, LeaderLog, EntriesOK, Shares, Memberships
  <2> QED
    BY <2>1, InitInv
<1>2. IInv /\ MembersInv /\ [Next]_vars => (IInv /\ MembersInv)'
  BY NextStep, MembersStep
<1>3. MembersInv => JointConfigsSurvive
  BY DEF MembersInv, Shares, JointConfigsSurvive
<1> QED
  BY <1>1, <1>2, <1>3, PTL DEF Spec
=============================================================================
