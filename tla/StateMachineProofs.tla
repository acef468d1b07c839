------------------------- MODULE StateMachineProofs -------------------------
(***************************************************************************)
(* Proofs about StateMachineStore: for every log and every number of       *)
(* crashes, with installs beside a builder and received snapshots whose    *)
(* data runs ahead, no applied request is lost, memberships match the log, *)
(* and requests that overwrite converge.                                   *)
(***************************************************************************)
EXTENDS StateMachineStore, WellFoundedInduction, TLAPS

-----------------------------------------------------------------------------
(* The data after exactly the entries up to i.  The provers cannot be      *)
(* given the induction theorems of the library, which take an operator as  *)
(* a parameter; but that < is well founded on Nat gives the least element  *)
(* of a set, from which both the existence of the recursive function and   *)
(* the facts about its values are proved.                                  *)

\* A nonempty set of natural numbers has a least element.
LEMMA LeastElement ==
  ASSUME NEW T \in SUBSET Nat, T # {}
  PROVE  \E x \in T : \A y \in T : x <= y
<1> DEFINE R == OpToRel(<, Nat)
<1>1. IsWellFoundedOn(R, Nat)
  BY NatLessThanWellFounded
<1>2. PICK x \in T : \A y \in T : ~(<<y, x>> \in R)
  <2> HIDE DEF R
  <2> QED
    BY <1>1, WFMin, Zenon
<1>3. \A a, b \in Nat : a < b => <<a, b>> \in {ss \in Nat \X Nat : ss[1] < ss[2]}
  OBVIOUS
<1>4. \A a, b \in Nat : a < b => <<a, b>> \in R
  BY <1>3 DEF OpToRel
<1>5. \A y \in T : ~(y < x)
  BY <1>2, <1>4, Zenon
<1>6. QED
  BY <1>5

\* What the definition of AppliedPrefix asks of a function, for the indexes below n.
PrefixStep(f, i) ==
  IF i = None THEN <<>>
  ELSE IF i \in Normal THEN Append(f[i - 1], i) ELSE f[i - 1]

IsPrefixUpTo(f, n) == f = [i \in None..n |-> PrefixStep(f, i)]

LEMMA PrefixExists ==
  ASSUME NEW n \in Nat
  PROVE  \E f : IsPrefixUpTo(f, n - 1)
<1> DEFINE T == {m \in Nat : ~ \E f : IsPrefixUpTo(f, m - 1)}
<1>1. ASSUME T # {} PROVE FALSE
  <2>1. PICK m \in T : \A k \in T : m <= k
    BY <1>1, LeastElement
  <2>2. CASE m = 0
    <3> DEFINE g == [i \in None..(m - 1) |-> <<>>]
    <3>1. IsPrefixUpTo(g, m - 1)
      BY <2>2 DEF IsPrefixUpTo, PrefixStep, None
    <3>2. QED
      BY <2>1, <3>1
  <2>3. CASE m # 0
    <3>1. m - 1 \in Nat /\ m - 1 \notin T
      BY <2>1, <2>3
    <3>2. PICK f : IsPrefixUpTo(f, m - 1 - 1)
      BY <3>1
    <3> DEFINE g == [i \in None..(m - 1) |-> IF i = m - 1 THEN PrefixStep(f, i) ELSE f[i]]
    <3>3. \A i \in None..(m - 1) : i # m - 1 => g[i] = PrefixStep(f, i)
      BY <3>1, <3>2, SMTT(30) DEF IsPrefixUpTo, None
    <3>4. \A i \in None..(m - 1) : i # None => g[i - 1] = f[i - 1]
      BY <3>1 DEF None
    <3>5. \A i \in None..(m - 1) : g[i] = PrefixStep(g, i)
      BY <3>3, <3>4 DEF PrefixStep
    <3>6. IsPrefixUpTo(g, m - 1)
      BY <3>5 DEF IsPrefixUpTo
    <3>7. QED
      BY <2>1, <3>6
  <2>4. QED
    BY <2>2, <2>3
<1>2. QED
  BY <1>1

\* AppliedPrefix is the function its definition describes.
LEMMA PrefixDef ==
  /\ DOMAIN AppliedPrefix = LogId
  /\ \A i \in LogId :
       AppliedPrefix[i] = IF i = None THEN <<>>
                          ELSE IF i \in Normal THEN Append(AppliedPrefix[i - 1], i)
                          ELSE AppliedPrefix[i - 1]
<1> DEFINE n == MaxIndex + 1
<1>1. n \in Nat /\ LogId = None..(n - 1)
  BY RocksDBAssumption DEF LogId, Index, None
<1>2. PICK f : IsPrefixUpTo(f, n - 1)
  <2> HIDE DEF n
  <2> QED
    BY <1>1, PrefixExists, Zenon
<1>3. f = [i \in LogId |-> IF i = None THEN <<>>
                           ELSE IF i \in Normal THEN Append(f[i - 1], i) ELSE f[i - 1]]
  BY <1>1, <1>2 DEF IsPrefixUpTo, PrefixStep
<1>4. AppliedPrefix = [i \in LogId |->
         IF i = None THEN <<>>
         ELSE IF i \in Normal THEN Append(AppliedPrefix[i - 1], i) ELSE AppliedPrefix[i - 1]]
  BY <1>3, Zenon DEF AppliedPrefix
<1>5. QED
  BY <1>4

\* The data after the entries up to i: their requests, each once and in order.
IsPrefixData(s, i) ==
  /\ s \in Seq(Normal)
  /\ \A j \in Index : j \in Range(s) <=> j \in Normal /\ j <= i
  /\ \A p, q \in DOMAIN s : p < q => s[p] < s[q]

\* Appending the next request to the data before it gives the data after it.
LEMMA AppendPrefixData ==
  ASSUME NEW i \in Normal, NEW s, IsPrefixData(s, i - 1)
  PROVE  IsPrefixData(Append(s, i), i)
<1>1. i \in Index /\ i \in Int /\ \A j \in Index : j \in Int
  BY RocksDBAssumption, StateMachineAssumption DEF Index
<1>2. /\ Append(s, i) \in Seq(Normal)
      /\ DOMAIN Append(s, i) = 1..Len(s) + 1
      /\ Append(s, i)[Len(s) + 1] = i
      /\ \A p \in 1..Len(s) : Append(s, i)[p] = s[p]
      /\ DOMAIN s = 1..Len(s) /\ Len(s) \in Nat
      /\ \A p \in 1..Len(s) : s[p] \in Index
  <2>1. s \in Seq(Normal)
    BY DEF IsPrefixData
  <2>2. /\ Append(s, i) \in Seq(Normal)
        /\ DOMAIN Append(s, i) = 1..Len(s) + 1
        /\ Append(s, i)[Len(s) + 1] = i
        /\ \A p \in 1..Len(s) : Append(s, i)[p] = s[p]
        /\ DOMAIN s = 1..Len(s) /\ Len(s) \in Nat
        /\ \A p \in 1..Len(s) : s[p] \in Normal
    BY <2>1
  <2>3. QED
    BY <2>2, StateMachineAssumption
<1>3. \A p \in 1..Len(s) : s[p] \in Int /\ s[p] < i
  <2> SUFFICES ASSUME NEW p \in 1..Len(s) PROVE s[p] \in Int /\ s[p] < i
    OBVIOUS
  <2>1. s[p] \in Index /\ s[p] \in Int /\ s[p] \in Range(s)
    BY <1>1, <1>2 DEF Range
  <2>2. s[p] <= i - 1
    BY <2>1 DEF IsPrefixData
  <2>3. QED
    BY <2>1, <2>2, <1>1
<1>4. \A j \in Index : j \in Range(Append(s, i)) <=> j \in Range(s) \/ j = i
  BY <1>2 DEF Range
<1>5. \A j \in Index : j \in Range(Append(s, i)) <=> j \in Normal /\ j <= i
  BY <1>4, <1>1 DEF IsPrefixData
<1>6. ASSUME NEW p \in DOMAIN Append(s, i), NEW q \in DOMAIN Append(s, i), p < q
      PROVE  Append(s, i)[p] < Append(s, i)[q]
  <2>1. p \in 1..Len(s)
    BY <1>6, <1>2
  <2>2. CASE q = Len(s) + 1
    BY <2>1, <2>2, <1>2, <1>3
  <2>3. CASE q \in 1..Len(s)
    BY <2>1, <2>3, <1>6, <1>2 DEF IsPrefixData
  <2>4. QED
    BY <2>2, <2>3, <1>2
<1>7. QED
  BY <1>2, <1>5, <1>6 DEF IsPrefixData

LEMMA PrefixFacts ==
  ASSUME NEW i \in LogId
  PROVE  IsPrefixData(AppliedPrefix[i], i)
<1> DEFINE T == {m \in Nat : m - 1 \in LogId /\ ~IsPrefixData(AppliedPrefix[m - 1], m - 1)}
<1>1. ASSUME T # {} PROVE FALSE
  <2>1. PICK m \in T : \A k \in T : m <= k
    BY <1>1, LeastElement
  <2>2. CASE m = 0
    <3>1. AppliedPrefix[None] = <<>> /\ None \in LogId
      BY PrefixDef DEF LogId
    <3>2. \A j \in Index : j \in Int /\ ~(j <= None)
      BY RocksDBAssumption DEF Index, None
    <3>3. IsPrefixData(<<>>, None)
      BY <3>2 DEF IsPrefixData, Range
    <3>4. QED
      BY <2>1, <2>2, <3>1, <3>3 DEF None
  <2>3. CASE m # 0
    <3>1. m - 1 \in Index /\ m - 2 \in LogId /\ m - 1 \in Nat /\ m - 1 # None
      BY <2>1, <2>3, RocksDBAssumption DEF LogId, Index, None
    <3>2. IsPrefixData(AppliedPrefix[m - 2], m - 2)
      <4> DEFINE n == m - 1
      <4>1. n \in Nat /\ n \notin T /\ n - 1 = m - 2
        BY <2>1, <3>1
      <4> HIDE DEF n
      <4>2. QED
        BY <4>1, <3>1
    <3>3. CASE m - 1 \in Normal
      <4>1. AppliedPrefix[m - 1] = Append(AppliedPrefix[m - 2], m - 1)
        <5>1. m - 1 \in LogId /\ m - 1 - 1 = m - 2
          BY <3>1 DEF LogId
        <5>2. AppliedPrefix[m - 1] = Append(AppliedPrefix[m - 1 - 1], m - 1)
          BY <5>1, <3>1, <3>3, PrefixDef, Zenon
        <5>3. QED
          BY <5>1, <5>2
      <4>2. IsPrefixData(AppliedPrefix[m - 1], m - 1)
        BY <4>1, <3>1, <3>2, <3>3, AppendPrefixData
      <4>3. QED
        BY <2>1, <4>2
    <3>4. CASE m - 1 \notin Normal
      <4>1. AppliedPrefix[m - 1] = AppliedPrefix[m - 2]
        BY <3>1, <3>4, PrefixDef DEF LogId
      <4>2. \A j \in Index : j \in Normal => (j <= m - 1 <=> j <= m - 2)
        BY <3>1, <3>4, RocksDBAssumption DEF Index
      <4>3. IsPrefixData(AppliedPrefix[m - 1], m - 1)
        BY <4>1, <4>2, <3>2 DEF IsPrefixData
      <4>4. QED
        BY <2>1, <4>3
    <3>5. QED
      BY <3>3, <3>4
  <2>4. QED
    BY <2>2, <2>3
<1> DEFINE n == i + 1
<1>2. n \in Nat /\ n - 1 = i
  BY RocksDBAssumption DEF LogId, Index, None
<1>3. n \notin T
  BY <1>1
<1> HIDE DEF n
<1>4. QED
  BY <1>2, <1>3

-----------------------------------------------------------------------------
(* What the data of an application covers, and in which order.             *)

\* Indexes are integers.
LEMMA Ints == \A i \in LogId : i \in Int
BY RocksDBAssumption DEF LogId, Index, None

LEMMA Indexes == Normal \subseteq Index /\ Member \subseteq Index /\ Index \subseteq LogId
BY StateMachineAssumption DEF LogId

LEMMA DataType == \A s \in Seq(Normal) : s \in Seq(Index)
<1> TAKE s \in Seq(Normal)
<1>1. s \in [1..Len(s) -> Normal] /\ Len(s) \in Nat
  OBVIOUS
<1>2. s \in [1..Len(s) -> Index]
  BY <1>1, Indexes
<1>3. QED
  BY <1>1, <1>2

\* Data that is a whole beginning of the log covers it and is in order.
LEMMA PrefixIsGood ==
  ASSUME NEW ahead \in Index, NEW i \in LogId, i <= ahead
  PROVE  /\ AppliedPrefix[ahead] \in Seq(Normal)
         /\ Covers(AppliedPrefix[ahead], i)
         /\ Ordered(AppliedPrefix[ahead], i)
<1> DEFINE s == AppliedPrefix[ahead]
<1>1. IsPrefixData(s, ahead)
  BY PrefixFacts, Indexes
<1> HIDE DEF s
<1>2. Covers(s, i)
  BY <1>1, Ints, Indexes DEF IsPrefixData, Covers
<1>3. Ordered(s, i)
  <2> SUFFICES ASSUME NEW p \in DOMAIN s, NEW j \in Range(s), s[p] < j
               PROVE  \E q \in DOMAIN s : p < q /\ s[q] = j
    BY DEF Ordered
  <2>1. PICK q \in DOMAIN s : s[q] = j
    BY DEF Range
  <2>2. p \in Int /\ q \in Int /\ s[p] \in Int /\ s[q] \in Int
    BY <1>1, Ints, Indexes DEF IsPrefixData
  <2>3. ~(q < p) /\ q # p
    BY <1>1, <2>1, <2>2 DEF IsPrefixData
  <2>4. QED
    BY <2>1, <2>2, <2>3
<1>4. QED
  BY <1>1, <1>2, <1>3 DEF IsPrefixData, s

\* Applying the request of entry i to data that has the entries before it.
LEMMA AppendData ==
  ASSUME NEW data \in Seq(Normal), NEW i \in Normal
  PROVE  /\ Append(data, i) \in Seq(Normal)
         /\ DOMAIN data = 1..Len(data) /\ Len(data) \in Nat
         /\ DOMAIN Append(data, i) = 1..Len(data) + 1
         /\ Append(data, i)[Len(data) + 1] = i
         /\ \A p \in 1..Len(data) : Append(data, i)[p] = data[p]
         /\ Range(Append(data, i)) = Range(data) \cup {i}
<1>1. /\ Append(data, i) \in Seq(Normal)
      /\ DOMAIN data = 1..Len(data) /\ Len(data) \in Nat
      /\ DOMAIN Append(data, i) = 1..Len(data) + 1
      /\ Append(data, i)[Len(data) + 1] = i
      /\ \A p \in 1..Len(data) : Append(data, i)[p] = data[p]
  OBVIOUS
<1>2. Range(Append(data, i)) = Range(data) \cup {i}
  BY <1>1 DEF Range
<1>3. QED
  BY <1>1, <1>2

LEMMA AppendCovers ==
  ASSUME NEW data \in Seq(Normal), NEW i \in Normal, NEW k \in LogId,
         Covers(data, k) \/ (k = i /\ Covers(data, i - 1))
  PROVE  Covers(Append(data, i), k)
<1>1. Range(Append(data, i)) = Range(data) \cup {i}
  BY AppendData
<1>2. QED
  BY <1>1, Ints, Indexes DEF Covers

\* The new last entry comes after every time an earlier one was applied.
LEMMA AppendOrdered ==
  ASSUME NEW data \in Seq(Normal), NEW i \in Normal, NEW k \in LogId, k <= i,
         Ordered(data, IF k = i THEN i - 1 ELSE k)
  PROVE  Ordered(Append(data, i), k)
<1> DEFINE s == Append(data, i)
           n == Len(data)
<1>1. /\ DOMAIN data = 1..n /\ n \in Nat
      /\ DOMAIN s = 1..n + 1
      /\ s[n + 1] = i
      /\ \A p \in 1..n : s[p] = data[p]
      /\ Range(s) = Range(data) \cup {i}
  BY AppendData
<1> HIDE DEF s, n
<1> SUFFICES ASSUME NEW p \in DOMAIN s, NEW j \in Range(s), s[p] < j, j <= k
             PROVE  \E q \in DOMAIN s : p < q /\ s[q] = j
  BY DEF Ordered, s
<1>2. i \in Int /\ k \in Int
  BY Ints, Indexes
<1>3. j \in Int
  <2>1. Range(data) \subseteq Normal
    BY DEF Range
  <2>2. QED
    BY <2>1, <1>1, <1>2, Ints, Indexes
<1>4. p \in 1..n
  BY <1>1, <1>2, <1>3
<1>5. CASE j = i
  BY <1>1, <1>4, <1>5
<1>6. CASE j # i
  <2>1. j \in Range(data) /\ data[p] < j /\ j <= (IF k = i THEN i - 1 ELSE k)
    BY <1>1, <1>2, <1>3, <1>4, <1>6
  <2>2. PICK q \in DOMAIN data : p < q /\ data[q] = j
    BY <2>1, <1>1, <1>4 DEF Ordered
  <2>3. QED
    BY <2>2, <1>1
<1>7. QED
  BY <1>5, <1>6

\* An entry without a request needs nothing of the data.
LEMMA NoRequest ==
  ASSUME NEW data \in Seq(Normal), NEW i \in Index, i \notin Normal,
         Covers(data, i - 1), Ordered(data, i - 1)
  PROVE  Covers(data, i) /\ Ordered(data, i)
<1>1. i \in Int /\ \A j \in Normal : j \in Int /\ (j <= i => j <= i - 1)
  BY Ints, Indexes
<1>2. Range(data) \subseteq Normal
  BY DEF Range
<1>3. QED
  BY <1>1, <1>2 DEF Covers, Ordered

\* What holds up to k holds up to less.
LEMMA UpToLess ==
  ASSUME NEW data \in Seq(Normal), NEW k \in LogId, NEW i \in LogId, i <= k,
         Covers(data, k), Ordered(data, k)
  PROVE  Covers(data, i) /\ Ordered(data, i)
<1>1. \A j \in Normal : j \in Int /\ (j <= i => j <= k)
  BY Ints, Indexes
<1>2. Range(data) \subseteq Normal
  BY DEF Range
<1>3. QED
  BY <1>1, <1>2 DEF Covers, Ordered

\* The last membership after one more entry.
LEMMA NextMembership ==
  ASSUME NEW i \in Index, NEW m, IsLastMembership(i - 1, m)
  PROVE  IsLastMembership(i, IF i \in Member THEN i ELSE m)
<1>1. i \in Int /\ \A j \in Member : j \in Int
  BY Ints, Indexes
<1>2. CASE i \in Member
  BY <1>1, <1>2 DEF IsLastMembership
<1>3. CASE i \notin Member
  BY <1>1, <1>3 DEF IsLastMembership
<1>4. QED
  BY <1>2, <1>3

-----------------------------------------------------------------------------
(* The inductive invariant.                                                *)

\* A snapshot that a restart may load without losing anything.
Good(s) ==
  /\ s.data \in Seq(Normal)
  /\ Covers(s.data, s.last)
  /\ Ordered(s.data, s.last)
  /\ IsLastMembership(s.last, s.member)

\* The stored snapshot, whatever a crash leaves, and what RaftCore knows to be committed.
SnapshotsInv ==
  /\ db \in survivors
  /\ \A d \in survivors : Good(d.snapshot) /\ d.snapshot.last <= committed

\* The worker's state and the data it shares.
WorkerInv ==
  /\ appData \in Seq(Normal)
  /\ sm.applied <= committed
  /\ IsLastMembership(sm.applied, sm.member)
  /\ Consistent => Covers(appData, sm.applied) /\ Ordered(appData, sm.applied)

\* The builder: the live data never falls behind the clone it was started with.
BuilderInv ==
  /\ builder.at # "none" =>
       /\ builder.snap.last <= sm.applied
       /\ IsLastMembership(builder.snap.last, builder.snap.member)
  /\ builder.at = "cloned" =>
       Covers(appData, builder.snap.last) /\ Ordered(appData, builder.snap.last)
  /\ builder.at \in {"exported", "written"} => Good(builder.snap)

\* The snapshot being installed is the one the worker's state was set from.
InstallInv ==
  smIo.at # "none" => Good(smIo.snap) /\ smIo.snap.last = sm.applied

StateInv ==
  /\ SMTypeOK
  /\ SnapshotsInv
  /\ WorkerInv
  /\ BuilderInv
  /\ InstallInv

-----------------------------------------------------------------------------
(* Facts about the records.                                                *)

\* What a task is, from where it is.
LEMMA TaskParts ==
  ASSUME NEW phases, "none" \notin phases, NEW t \in Task(phases)
  PROVE  t.at # "none" => /\ t.at \in phases
                          /\ t.snap \in Snapshot
                          /\ t = [at |-> t.at, snap |-> t.snap]
BY DEF Task, NoTask

\* Replacing the snapshot of a content gives a content that differs nowhere else.
LEMMA ReplaceSnapshot ==
  ASSUME NEW d \in Content, NEW s \in Snapshot, NEW e, e = [d EXCEPT !.snapshot = s]
  PROVE  /\ e \in Content
         /\ e.snapshot = s
         /\ e.vote = d.vote /\ e.purged = d.purged /\ e.logs = d.logs
BY DEF Content

\* The contents, the snapshots and the members of the worker's state.
LEMMA Parts ==
  ASSUME SMTypeOK
  PROVE  /\ \A d \in survivors : d \in Content /\ d.snapshot \in Snapshot
         /\ db \in Content
         /\ sm.applied \in LogId /\ sm.member \in LogId
         /\ sm = [applied |-> sm.applied, member |-> sm.member]
         /\ committed \in LogId /\ committed \in Int /\ sm.applied \in Int
BY Ints DEF SMTypeOK, Content

LEMMA SnapshotParts ==
  ASSUME NEW s \in Snapshot
  PROVE  s.last \in LogId /\ s.member \in LogId /\ s.last \in Int /\ s.data \in Seq(Index)
BY Ints DEF Snapshot

LEMMA BuilderParts ==
  ASSUME SMTypeOK, builder.at # "none"
  PROVE  /\ builder.at \in {"cloned", "exported", "written"}
         /\ builder.snap \in Snapshot
         /\ builder = [at |-> builder.at, snap |-> builder.snap]
<1> DEFINE phases == {"cloned", "exported", "written"}
<1>1. "none" \notin phases /\ builder \in Task(phases)
  BY DEF SMTypeOK
<1> HIDE DEF phases
<1>2. /\ builder.at \in phases
      /\ builder.snap \in Snapshot
      /\ builder = [at |-> builder.at, snap |-> builder.snap]
  BY <1>1, TaskParts
<1>3. QED
  BY <1>2 DEF phases

LEMMA InstallParts ==
  ASSUME SMTypeOK, smIo.at # "none"
  PROVE  /\ smIo.at \in {"updating", "imported", "written"}
         /\ smIo.snap \in Snapshot
         /\ smIo = [at |-> smIo.at, snap |-> smIo.snap]
<1> DEFINE phases == {"updating", "imported", "written"}
<1>1. "none" \notin phases /\ smIo \in Task(phases)
  BY DEF SMTypeOK
<1> HIDE DEF phases
<1>2. /\ smIo.at \in phases
      /\ smIo.snap \in Snapshot
      /\ smIo = [at |-> smIo.at, snap |-> smIo.snap]
  BY <1>1, TaskParts
<1>3. QED
  BY <1>2 DEF phases

\* Nothing was applied to the empty data.
LEMMA NothingIsGood == Good(NoSnapshot)
<1>1. \A j \in Normal \cup Member : j \in Int /\ ~(j <= None) /\ j > None
  BY RocksDBAssumption, StateMachineAssumption DEF Index, None
<1>2. QED
  BY <1>1 DEF Good, NoSnapshot, Covers, Ordered, IsLastMembership

-----------------------------------------------------------------------------
(* The invariant holds at the start and is kept by every step.             *)

LEMMA StateInvInit == SMStoreInit => StateInv
<1> SUFFICES ASSUME SMStoreInit PROVE StateInv
  OBVIOUS
<1> USE RocksDBAssumption DEF SMStoreInit
<1>1. /\ db \in Content /\ survivors = {db} /\ db.snapshot = NoSnapshot
      /\ crashes \in 0..MaxCrashes
  BY DEF DBInit, Content, Vote, LogId, None, Slot, Absent, Snapshot, NoSnapshot
<1>2. SMTypeOK
  <2>1. sm \in [applied : LogId, member : LogId] /\ known \in LogId /\ committed \in LogId
        /\ overtaken \in LogId
    <3>1. None \in LogId
      BY DEF LogId
    <3>2. QED
      BY <3>1 DEF SMInit
  <2>2. /\ builder \in Task({"cloned", "exported", "written"})
        /\ smIo \in Task({"updating", "imported", "written"})
    BY DEF SMInit, Task
  <2>3. appData \in Seq(Index) /\ halted \in BOOLEAN
    <3>1. appData = <<>> /\ halted = FALSE
      BY DEF SMInit
    <3>2. <<>> \in Seq(Index)
      OBVIOUS
    <3>3. QED
      BY <3>1, <3>2
  <2>4. survivors \subseteq Content
    BY <1>1
  <2>5. QED
    BY <1>1, <2>1, <2>2, <2>3, <2>4, Zenon DEF SMTypeOK
<1>3. NoSnapshot.data = <<>> /\ NoSnapshot.last = None /\ NoSnapshot.member = None
  BY DEF NoSnapshot
<1>4. None <= None
  BY DEF None
<1>5. SnapshotsInv
  BY <1>1, <1>3, <1>4, NothingIsGood DEF SMInit, SnapshotsInv
<1>6. WorkerInv
  BY <1>3, <1>4, NothingIsGood DEF SMInit, WorkerInv, Good
<1>7. BuilderInv /\ InstallInv
  BY DEF SMInit, BuilderInv, InstallInv, NoTask
<1>8. QED
  BY <1>2, <1>5, <1>6, <1>7 DEF StateInv

LEMMA CommitStep ==
  ASSUME StateInv, NEW i \in Index, Commit(i)
  PROVE  StateInv'
<1> USE DEF StateInv
<1>1. /\ i \in LogId /\ i \in Int /\ committed' = i /\ committed < i
      /\ UNCHANGED <<db, survivors, crashes, sm, appData, builder, smIo, known, halted, overtaken>>
  BY Ints, Indexes DEF Commit, dbVars
<1>2. SMTypeOK'
  BY <1>1 DEF SMTypeOK
<1>3. SnapshotsInv'
  <2>1. \A d \in survivors : d.snapshot.last \in Int
    BY Parts, SnapshotParts
  <2>2. QED
    BY <1>1, <2>1, Parts DEF SnapshotsInv
<1>4. WorkerInv'
  BY <1>1, Parts DEF WorkerInv, Consistent
<1>5. BuilderInv' /\ InstallInv'
  BY <1>1 DEF BuilderInv, InstallInv
<1>6. QED
  BY <1>2, <1>3, <1>4, <1>5

\* Steps that leave the stored snapshots alone: what is left to show of the invariant.
LEMMA SnapshotsKept ==
  ASSUME StateInv, UNCHANGED <<db, survivors>>, committed' \in LogId, committed <= committed'
  PROVE  SnapshotsInv'
<1>1. \A d \in survivors : d.snapshot.last \in Int
  BY Parts, SnapshotParts DEF StateInv
<1>2. committed \in Int /\ committed' \in Int
  BY Parts, Ints DEF StateInv
<1>3. QED
  BY <1>1, <1>2 DEF StateInv, SnapshotsInv

LEMMA ApplyStep ==
  ASSUME StateInv, NEW i \in Index, Apply(i)
  PROVE  StateInv'
<1> USE DEF StateInv
<1>1. /\ UNCHANGED <<db, survivors, crashes, builder, smIo, known, committed, halted, overtaken>>
      /\ smIo = NoTask /\ ~halted
      /\ i = sm.applied + 1 /\ i <= committed
      /\ sm' = [applied |-> i, member |-> IF i \in Member THEN i ELSE sm.member]
      /\ appData' = IF i \in Normal THEN Append(appData, i) ELSE appData
  BY DEF Apply, WorkerIsFree, dbVars
<1>2. /\ i \in LogId /\ i \in Int /\ i - 1 = sm.applied
      /\ sm.applied \in LogId /\ sm.applied \in Int
  BY <1>1, Ints, Indexes, Parts
<1>3. /\ appData \in Seq(Normal)
      /\ Covers(appData, i - 1) /\ Ordered(appData, i - 1)
  BY <1>1, <1>2 DEF WorkerInv, Consistent, NoTask
<1>4. /\ appData' \in Seq(Normal)
      /\ Covers(appData', i) /\ Ordered(appData', i)
  <2>1. CASE i \in Normal
    BY <2>1, <1>1, <1>2, <1>3, AppendData, AppendCovers, AppendOrdered
  <2>2. CASE i \notin Normal
    BY <2>2, <1>1, <1>3, NoRequest
  <2>3. QED
    BY <2>1, <2>2
<1>5. SMTypeOK'
  <2>1. sm' \in [applied : LogId, member : LogId]
    BY <1>1, <1>2, Parts
  <2>2. QED
    BY <1>1, <1>4, <2>1, DataType DEF SMTypeOK
<1>6. SnapshotsInv'
  BY <1>1 DEF SnapshotsInv
<1>7. WorkerInv'
  BY <1>1, <1>2, <1>4, NextMembership DEF WorkerInv
<1>8. BuilderInv' /\ InstallInv'
  <2>1. ASSUME builder.at # "none"
        PROVE  builder.snap.last \in LogId /\ builder.snap.last \in Int
               /\ builder.snap.last <= sm.applied
    BY <2>1, BuilderParts, SnapshotParts DEF BuilderInv
  <2>2. ASSUME builder.at = "cloned"
        PROVE  Covers(appData', builder.snap.last) /\ Ordered(appData', builder.snap.last)
    BY <2>1, <2>2, <1>2, <1>4, UpToLess
  <2>3. BuilderInv'
    BY <1>1, <1>2, <2>1, <2>2 DEF BuilderInv
  <2>4. InstallInv'
    BY <1>1 DEF InstallInv, NoTask
  <2>5. QED
    BY <2>3, <2>4
<1>9. QED
  BY <1>5, <1>6, <1>7, <1>8

LEMMA ApplyFailsStep ==
  ASSUME StateInv, NEW i \in Index, ApplyFails(i)
  PROVE  StateInv'
<1> USE DEF StateInv
<1>1. /\ UNCHANGED <<db, survivors, crashes, appData, builder, smIo, known, committed, overtaken>>
      /\ smIo = NoTask /\ halted' = TRUE
      /\ i = sm.applied + 1 /\ i <= committed /\ i \in Normal
      /\ sm' = [sm EXCEPT !.applied = i]
  BY DEF ApplyFails, WorkerIsFree, dbVars
<1>2. /\ i \in LogId /\ i \in Int /\ i - 1 = sm.applied
      /\ sm' = [applied |-> i, member |-> sm.member]
      /\ sm.applied \in Int /\ sm.member \in LogId
  BY <1>1, Ints, Indexes, Parts
<1>3. SMTypeOK'
  BY <1>1, <1>2 DEF SMTypeOK
<1>4. SnapshotsInv' /\ InstallInv'
  BY <1>1 DEF SnapshotsInv, InstallInv, NoTask
<1>5. WorkerInv'
  <2>1. i \notin Member
    BY <1>1, StateMachineAssumption
  <2>2. IsLastMembership(i, sm.member)
    BY <2>1, <1>2, NextMembership DEF WorkerInv
  <2>3. QED
    BY <1>1, <1>2, <2>2 DEF WorkerInv, Consistent
<1>6. BuilderInv'
  <2>1. builder.at # "none" => builder.snap.last \in Int
    BY BuilderParts, SnapshotParts
  <2>2. QED
    BY <1>1, <1>2, <2>1 DEF BuilderInv
<1>7. QED
  BY <1>3, <1>4, <1>5, <1>6

-----------------------------------------------------------------------------
(* The builder.                                                            *)

LEMMA GetSnapshotBuilderStep ==
  ASSUME StateInv, GetSnapshotBuilder
  PROVE  StateInv'
<1> USE DEF StateInv
<1> DEFINE s == [last |-> sm.applied, member |-> sm.member, data |-> <<>>]
<1>1. /\ UNCHANGED <<db, survivors, crashes, sm, appData, smIo, known, committed, halted, overtaken>>
      /\ smIo = NoTask /\ ~halted
      /\ builder' = [at |-> "cloned", snap |-> s]
  BY DEF GetSnapshotBuilder, WorkerIsFree, dbVars
<1>2. s \in Snapshot /\ s.last = sm.applied /\ s.member = sm.member
  BY Parts DEF Snapshot
<1> HIDE DEF s
<1>3. SMTypeOK'
  BY <1>1, <1>2 DEF SMTypeOK, Task
<1>4. SnapshotsInv' /\ WorkerInv' /\ InstallInv'
  BY <1>1 DEF SnapshotsInv, WorkerInv, InstallInv, Consistent
<1>5. Covers(appData, sm.applied) /\ Ordered(appData, sm.applied)
  BY <1>1 DEF WorkerInv, Consistent, NoTask
<1>6. BuilderInv'
  BY <1>1, <1>2, <1>5, Parts DEF BuilderInv, WorkerInv
<1>7. QED
  BY <1>3, <1>4, <1>6

LEMMA BuildExportStep ==
  ASSUME StateInv, BuildExport
  PROVE  StateInv'
<1> USE DEF StateInv
<1>1. /\ UNCHANGED <<db, survivors, crashes, sm, appData, smIo, known, committed, halted, overtaken>>
      /\ builder.at = "cloned"
      /\ builder' = [at |-> "exported", snap |-> [builder.snap EXCEPT !.data = appData]]
  BY DEF BuildExport, dbVars
<1>2. /\ builder.snap \in Snapshot
      /\ appData \in Seq(Normal) /\ appData \in Seq(Index)
  BY <1>1, BuilderParts, DataType DEF WorkerInv
<1>3. PICK s : s = [builder.snap EXCEPT !.data = appData]
  OBVIOUS
<1>4. /\ s \in Snapshot /\ s.data = appData
      /\ s.last = builder.snap.last /\ s.member = builder.snap.member
  BY <1>2, <1>3 DEF Snapshot
<1>5. builder' = [at |-> "exported", snap |-> s]
  BY <1>1, <1>3
<1>6. SMTypeOK'
  BY <1>1, <1>4, <1>5 DEF SMTypeOK, Task
<1>7. SnapshotsInv' /\ WorkerInv' /\ InstallInv'
  BY <1>1 DEF SnapshotsInv, WorkerInv, InstallInv, Consistent
<1>8. Good(s)
  BY <1>1, <1>2, <1>4 DEF Good, BuilderInv
<1>9. BuilderInv'
  BY <1>1, <1>4, <1>5, <1>8 DEF BuilderInv
<1>10. QED
  BY <1>6, <1>7, <1>9

LEMMA BuildFailsStep ==
  ASSUME StateInv, BuildFails
  PROVE  StateInv'
<1> USE DEF StateInv
<1>1. /\ UNCHANGED <<db, survivors, crashes, sm, appData, smIo, known, committed, overtaken>>
      /\ builder' = NoTask /\ halted' = TRUE
  BY DEF BuildFails, dbVars
<1>2. SMTypeOK'
  BY <1>1 DEF SMTypeOK, Task
<1>3. SnapshotsInv' /\ WorkerInv' /\ InstallInv' /\ BuilderInv'
  BY <1>1 DEF SnapshotsInv, WorkerInv, InstallInv, BuilderInv, Consistent, NoTask
<1>4. QED
  BY <1>2, <1>3

\* A write of the snapshot key by the builder or an install.
LEMMA PutSnapshot ==
  ASSUME StateInv, NEW s \in Snapshot, Good(s), s.last <= committed,
         Put([db EXCEPT !.snapshot = s]), UNCHANGED committed
  PROVE  /\ db' \in Content
         /\ survivors' = survivors \cup {db'} /\ survivors' \subseteq Content
         /\ crashes' = crashes
         /\ SnapshotsInv'
<1> USE DEF StateInv
<1>1. db' = [db EXCEPT !.snapshot = s] /\ survivors' = survivors \cup {db'} /\ crashes' = crashes
  BY DEF Put
<1>2. db' \in Content /\ db'.snapshot = s
  BY <1>1, Parts, ReplaceSnapshot
<1>3. survivors' \subseteq Content
  BY <1>1, <1>2 DEF SMTypeOK
<1>4. SnapshotsInv'
  BY <1>1, <1>2 DEF SnapshotsInv
<1>5. QED
  BY <1>1, <1>2, <1>3, <1>4

\* The later of two log ids is a log id.
LEMMA LaterType ==
  ASSUME NEW i \in LogId, NEW j \in LogId
  PROVE  Later(i, j) \in LogId
BY DEF Later

LEMMA BuildPutStep ==
  ASSUME StateInv, BuildPut
  PROVE  StateInv'
<1> USE DEF StateInv
<1>1. /\ UNCHANGED <<sm, appData, smIo, known, committed, halted>>
      /\ builder.at = "exported"
      /\ builder' = [builder EXCEPT !.at = "written"]
      /\ Put([db EXCEPT !.snapshot = builder.snap])
      /\ overtaken' = IF builder.snap.last < db.snapshot.last
                         THEN Later(overtaken, db.snapshot.last) ELSE overtaken
  BY DEF BuildPut
<1>2. /\ builder.snap \in Snapshot
      /\ builder' = [at |-> "written", snap |-> builder.snap]
  BY <1>1, BuilderParts
<1>3. Good(builder.snap) /\ builder.snap.last <= sm.applied
  BY <1>1 DEF BuilderInv
<1>4. builder.snap.last <= committed
  BY <1>2, <1>3, Parts, SnapshotParts DEF WorkerInv
<1>5. /\ db' \in Content
      /\ survivors' \subseteq Content
      /\ crashes' = crashes
      /\ SnapshotsInv'
  BY <1>1, <1>2, <1>3, <1>4, PutSnapshot
<1>6. SMTypeOK'
  <2>1. overtaken' \in LogId
    <3>1. db.snapshot.last \in LogId
      BY Parts, SnapshotParts DEF SnapshotsInv
    <3>2. QED
      BY <1>1, <3>1, LaterType DEF SMTypeOK
  <2>2. QED
    BY <1>1, <1>2, <1>5, <2>1 DEF SMTypeOK, Task
<1>7. WorkerInv' /\ InstallInv'
  BY <1>1 DEF WorkerInv, InstallInv, Consistent
<1>8. BuilderInv'
  BY <1>1, <1>2, <1>3 DEF BuilderInv, Good
<1>9. QED
  BY <1>5, <1>6, <1>7, <1>8

\* A flush leaves the content that is read as the only one.
LEMMA FlushSnapshot ==
  ASSUME StateInv, FlushWal, UNCHANGED committed
  PROVE  /\ db' \in Content /\ survivors' \subseteq Content /\ crashes' = crashes
         /\ SnapshotsInv'
<1> USE DEF StateInv
<1>1. db' = db /\ survivors' = {db} /\ crashes' = crashes
  BY DEF FlushWal
<1>2. SnapshotsInv'
  BY <1>1 DEF SnapshotsInv
<1>3. QED
  BY <1>1, <1>2, Parts

LEMMA BuildFlushStep ==
  ASSUME StateInv, BuildFlush
  PROVE  StateInv'
<1> USE DEF StateInv
<1>1. /\ UNCHANGED <<sm, appData, smIo, committed, halted, overtaken>>
      /\ builder.at = "written" /\ builder' = NoTask
      /\ known' = Later(known, builder.snap.last)
      /\ FlushWal
  BY DEF BuildFlush
<1>2. /\ db' \in Content /\ survivors' \subseteq Content /\ crashes' = crashes
      /\ SnapshotsInv'
  BY <1>1, FlushSnapshot
<1>3. known' \in LogId
  BY <1>1, BuilderParts, SnapshotParts, LaterType DEF SMTypeOK
<1>4. SMTypeOK'
  BY <1>1, <1>2, <1>3 DEF SMTypeOK, Task
<1>5. WorkerInv' /\ InstallInv' /\ BuilderInv'
  BY <1>1 DEF WorkerInv, InstallInv, BuilderInv, Consistent, NoTask
<1>6. QED
  BY <1>2, <1>4, <1>5

-----------------------------------------------------------------------------
(* install_snapshot.                                                       *)

LEMMA InstallUpdateStep ==
  ASSUME StateInv, NEW i \in Index, NEW ahead \in Index, InstallUpdate(i, ahead)
  PROVE  StateInv'
<1> USE DEF StateInv
<1>1. PICK m \in LogId :
        /\ IsLastMembership(i, m)
        /\ sm' = [applied |-> i, member |-> m]
        /\ smIo' = [at |-> "updating",
                    snap |-> [last |-> i, member |-> m, data |-> AppliedPrefix[ahead]]]
  BY DEF InstallUpdate
<1>2. /\ UNCHANGED <<db, survivors, crashes, appData, builder, known, halted, overtaken>>
      /\ i > committed /\ i <= ahead /\ committed' = i
  BY DEF InstallUpdate, dbVars
<1>3. i \in LogId /\ i \in Int
  BY Ints, Indexes
<1>4. PICK s : s = [last |-> i, member |-> m, data |-> AppliedPrefix[ahead]]
  OBVIOUS
<1>5. /\ s.data \in Seq(Normal) /\ s.data \in Seq(Index)
      /\ Covers(s.data, s.last) /\ Ordered(s.data, s.last)
      /\ s.last = i /\ s.member = m
  BY <1>2, <1>3, <1>4, PrefixIsGood, DataType
<1>6. s \in Snapshot /\ Good(s)
  BY <1>1, <1>3, <1>4, <1>5 DEF Snapshot, Good
<1>7. smIo' = [at |-> "updating", snap |-> s]
  BY <1>1, <1>4
<1>8. SMTypeOK'
  BY <1>1, <1>2, <1>3, <1>6, <1>7 DEF SMTypeOK, Task
<1>9. SnapshotsInv'
  BY <1>2, <1>3, Parts, SnapshotsKept
<1>10. WorkerInv'
  BY <1>1, <1>2, <1>3, <1>7 DEF WorkerInv, Consistent
<1>11. BuilderInv'
  <2>1. builder.at # "none" => builder.snap.last \in Int
    BY BuilderParts, SnapshotParts
  <2>2. sm.applied \in Int /\ sm.applied <= i
    BY <1>2, <1>3, Parts DEF WorkerInv
  <2>3. QED
    BY <1>1, <1>2, <1>3, <2>1, <2>2 DEF BuilderInv
<1>12. InstallInv'
  BY <1>1, <1>5, <1>6, <1>7 DEF InstallInv
<1>13. QED
  BY <1>8, <1>9, <1>10, <1>11, <1>12

LEMMA InstallImportStep ==
  ASSUME StateInv, InstallImport
  PROVE  StateInv'
<1> USE DEF StateInv
<1>1. /\ UNCHANGED <<db, survivors, crashes, sm, builder, known, committed, halted, overtaken>>
      /\ smIo.at = "updating"
      /\ appData' = smIo.snap.data
      /\ smIo' = [smIo EXCEPT !.at = "imported"]
  BY DEF InstallImport, dbVars
<1>2. smIo.snap \in Snapshot /\ smIo' = [at |-> "imported", snap |-> smIo.snap]
  BY <1>1, InstallParts
<1>3. /\ Good(smIo.snap) /\ smIo.snap.last = sm.applied
      /\ smIo.snap.data \in Seq(Normal) /\ smIo.snap.data \in Seq(Index)
      /\ Covers(smIo.snap.data, sm.applied) /\ Ordered(smIo.snap.data, sm.applied)
  BY <1>1, <1>2, SnapshotParts DEF InstallInv, Good
<1>4. SMTypeOK'
  BY <1>1, <1>2, <1>3 DEF SMTypeOK, Task
<1>5. SnapshotsInv' /\ WorkerInv'
  BY <1>1, <1>3 DEF SnapshotsInv, WorkerInv
<1>6. InstallInv'
  BY <1>1, <1>2, <1>3 DEF InstallInv
<1>7. BuilderInv'
  <2>1. ASSUME builder.at = "cloned"
        PROVE  Covers(appData', builder.snap.last) /\ Ordered(appData', builder.snap.last)
    <3>1. builder.snap.last \in LogId /\ builder.snap.last <= sm.applied
      BY <2>1, BuilderParts, SnapshotParts DEF BuilderInv
    <3>2. QED
      BY <3>1, <1>1, <1>3, Parts, UpToLess
  <2>2. QED
    BY <1>1, <2>1 DEF BuilderInv
<1>8. QED
  BY <1>4, <1>5, <1>6, <1>7

LEMMA InstallFailsStep ==
  ASSUME StateInv, InstallFails
  PROVE  StateInv'
<1> USE DEF StateInv
<1>1. /\ UNCHANGED <<db, survivors, crashes, sm, appData, builder, known, committed, overtaken>>
      /\ smIo' = NoTask /\ halted' = TRUE
  BY DEF InstallFails, dbVars
<1>2. SMTypeOK'
  BY <1>1 DEF SMTypeOK, Task
<1>3. SnapshotsInv' /\ WorkerInv' /\ InstallInv' /\ BuilderInv'
  BY <1>1 DEF SnapshotsInv, WorkerInv, InstallInv, BuilderInv, Consistent, NoTask
<1>4. QED
  BY <1>2, <1>3

LEMMA InstallPutStep ==
  ASSUME StateInv, InstallPut
  PROVE  StateInv'
<1> USE DEF StateInv
<1>1. /\ UNCHANGED <<sm, appData, builder, known, committed, halted, overtaken>>
      /\ smIo.at = "imported"
      /\ smIo' = [smIo EXCEPT !.at = "written"]
      /\ Put([db EXCEPT !.snapshot = smIo.snap])
  BY DEF InstallPut
<1>2. smIo.snap \in Snapshot /\ smIo' = [at |-> "written", snap |-> smIo.snap]
  BY <1>1, InstallParts
<1>3. Good(smIo.snap) /\ smIo.snap.last = sm.applied /\ smIo.snap.last <= committed
  BY <1>1 DEF InstallInv, WorkerInv
<1>4. /\ db' \in Content
      /\ survivors' \subseteq Content
      /\ crashes' = crashes
      /\ SnapshotsInv'
  BY <1>1, <1>2, <1>3, PutSnapshot
<1>5. SMTypeOK'
  BY <1>1, <1>2, <1>4 DEF SMTypeOK, Task
<1>6. WorkerInv' /\ BuilderInv'
  BY <1>1, <1>2 DEF WorkerInv, BuilderInv, Consistent
<1>7. InstallInv'
  BY <1>1, <1>2, <1>3 DEF InstallInv
<1>8. QED
  BY <1>4, <1>5, <1>6, <1>7

LEMMA InstallFlushStep ==
  ASSUME StateInv, InstallFlush
  PROVE  StateInv'
<1> USE DEF StateInv
<1>1. /\ UNCHANGED <<sm, appData, builder, committed, halted, overtaken>>
      /\ smIo.at = "written" /\ smIo' = NoTask
      /\ known' = Later(known, smIo.snap.last)
      /\ FlushWal
  BY DEF InstallFlush
<1>2. /\ db' \in Content /\ survivors' \subseteq Content /\ crashes' = crashes
      /\ SnapshotsInv'
  BY <1>1, FlushSnapshot
<1>3. known' \in LogId
  BY <1>1, InstallParts, SnapshotParts, LaterType DEF SMTypeOK
<1>4. SMTypeOK'
  BY <1>1, <1>2, <1>3 DEF SMTypeOK, Task
<1>5. WorkerInv' /\ InstallInv' /\ BuilderInv'
  BY <1>1 DEF WorkerInv, InstallInv, BuilderInv, Consistent, NoTask
<1>6. QED
  BY <1>2, <1>4, <1>5

-----------------------------------------------------------------------------
\* A restart finds one of the contents a crash may leave, and starts from its snapshot.
LEMMA SMCrashStep ==
  ASSUME StateInv, SMCrash
  PROVE  StateInv'
<1> USE DEF StateInv
<1>1. PICK d \in survivors : db' = d /\ survivors' = {d}
  BY DEF SMCrash, PowerLoss
<1>2. /\ sm' = [applied |-> d.snapshot.last, member |-> d.snapshot.member]
      /\ appData' = d.snapshot.data
      /\ builder' = NoTask /\ smIo' = NoTask
      /\ known' = d.snapshot.last /\ halted' = FALSE
      /\ committed' = d.snapshot.last /\ overtaken' = overtaken
  BY <1>1 DEF SMCrash, Restore
<1>3. crashes' \in 0..MaxCrashes
  BY RocksDBAssumption DEF SMCrash, PowerLoss, SMTypeOK
<1>4. /\ d \in Content /\ Good(d.snapshot) /\ d.snapshot.last <= d.snapshot.last
      /\ d.snapshot.last \in LogId /\ d.snapshot.member \in LogId
      /\ d.snapshot.data \in Seq(Index)
  BY Parts, SnapshotParts DEF SnapshotsInv
<1>5. SMTypeOK'
  BY <1>1, <1>2, <1>3, <1>4 DEF SMTypeOK, Task
<1>6. SnapshotsInv' /\ WorkerInv'
  BY <1>1, <1>2, <1>4 DEF SnapshotsInv, WorkerInv, Good
<1>7. BuilderInv' /\ InstallInv'
  BY <1>2 DEF BuilderInv, InstallInv, NoTask
<1>8. QED
  BY <1>5, <1>6, <1>7

LEMMA StateInvStep == StateInv /\ [SMNext]_<<dbVars, smVars>> => StateInv'
<1> SUFFICES ASSUME StateInv, [SMNext]_<<dbVars, smVars>> PROVE StateInv'
  OBVIOUS
<1>1. CASE UNCHANGED <<dbVars, smVars>>
  <2>1. SMTypeOK'
    BY <1>1 DEF StateInv, SMTypeOK, dbVars, smVars
  <2>2. SnapshotsInv' /\ WorkerInv' /\ BuilderInv' /\ InstallInv'
    BY <1>1 DEF StateInv, SnapshotsInv, WorkerInv, BuilderInv, InstallInv, Consistent,
                dbVars, smVars
  <2>3. QED
    BY <2>1, <2>2 DEF StateInv
<1>2. CASE SMStep
  BY <1>2, ApplyFailsStep, GetSnapshotBuilderStep, BuildExportStep, BuildFailsStep,
     BuildPutStep, BuildFlushStep, InstallUpdateStep, InstallImportStep,
     InstallFailsStep, InstallPutStep, InstallFlushStep
  DEF SMStep
<1>3. QED
  BY <1>1, <1>2, CommitStep, ApplyStep, SMCrashStep DEF SMNext

-----------------------------------------------------------------------------
\* Every variable keeps its type.
THEOREM StateMachineTypeCorrect == SMSpec => []SMTypeOK
<1>1. StateInv => SMTypeOK
  BY DEF StateInv
<1>2. QED
  BY <1>1, StateInvInit, StateInvStep, PTL DEF SMSpec

\* No applied request is lost, in memory or in a snapshot a restart may load.
THEOREM AppliedIsKept == SMSpec => []NothingAppliedIsLost
<1>1. StateInv => NothingAppliedIsLost
  BY DEF StateInv, SnapshotsInv, WorkerInv, Good, NothingAppliedIsLost
<1>2. QED
  BY <1>1, StateInvInit, StateInvStep, PTL DEF SMSpec

\* The membership reported with a log id is the last one up to it.
THEOREM MembershipFollowsLog == SMSpec => []MembershipMatchesLog
<1>1. StateInv => MembershipMatchesLog
  BY DEF StateInv, SnapshotsInv, WorkerInv, Good, MembershipMatchesLog
<1>2. QED
  BY <1>1, StateInvInit, StateInvStep, PTL DEF SMSpec

\* Requests that overwrite end in log order, however often they were replayed.
THEOREM ReplayConverges == SMSpec => []OverwritesConverge
<1>1. StateInv => OverwritesConverge
  BY DEF StateInv, SnapshotsInv, WorkerInv, Good, OverwritesConverge
<1>2. QED
  BY <1>1, StateInvInit, StateInvStep, PTL DEF SMSpec
=============================================================================
