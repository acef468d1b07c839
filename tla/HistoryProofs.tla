--------------------------- MODULE HistoryProofs ---------------------------
(***************************************************************************)
(* OneHistory and TypeOK of Cluster for every set of nodes and every       *)
(* quorum system: the cluster implements History.                          *)
(*                                                                         *)
(* H gives each leader id that was campaigned under the log of the node    *)
(* that did, F (see ClusterProofs) each that was elected the log of the    *)
(* leader.  What a quorum holds is in the log of every later leader: a     *)
(* node that holds it grants its vote to no log without it, unless a later *)
(* leader already lacked it, and of those there is no first.               *)
(***************************************************************************)
EXTENDS ClusterProofs

\* The vote of the leader with this id.
Lead(id) == FromLeaderId(id, TRUE)

\* y was elected after id and lacks the first k entries of g, the log of id.
Breaks(y, id, g, k, H) == y.term > id.term /\ ~Agree(H[y], g, k)

\* A node with the vote w, the ballots bs and the logs L holds the first k entries of g, and
\* voted for no log without them, unless a later leader that it may follow or a leader
\* before that candidate lacks them.
Kept(w, bs, L, E, id, g, k, H) ==
  /\ VoteGeq(w, Lead(id))
  /\ \/ \A l \in L : Agree(l, g, k)
     \/ \E y \in E : Breaks(y, id, g, k, H) /\ VoteGeq(w, Lead(y))
  /\ \A x \in bs : x.term > id.term =>
       \/ Agree(H[x], g, k)
       \/ \E y \in E : Breaks(y, id, g, k, H) /\ y.term < x.term

\* The entries that a leader commits by counting are of its own term.
Own(id, g, k) == k \in 1..Len(g) /\ g[k].term = id.term

\* p holds each of the first a entries of the leader id that is of its term.
KeptUpTo(p, L, id, a, F, H) ==
  \A k \in 1..a : Own(id, F[id], k) => Kept(vote[p], ballots[p], L, elected, id, F[id], k, H)

\* A quorum holds the first k entries of the leader id.
Chosen(id, k, F, H) ==
  /\ id \in elected /\ Own(id, F[id], k)
  /\ \E Q \in Quorum : \A p \in Q :
       Kept(vote[p], ballots[p], survivors[p], elected, id, F[id], k, H)

\* The first c entries of l are chosen, by a leader of a term up to t, and this is known.
Known(t, c, l, F, H) ==
  c = 0 \/ \E id \in elected : \E k \in 1..Len(F[id]) :
             /\ Chosen(id, k, F, H) /\ id.term <= t /\ c <= k
             /\ Agree(l, F[id], c) /\ Agree(chosen, F[id], c)

-----------------------------------------------------------------------------
(* The invariant.                                                          *)

BallotLogs(F, H) ==
  \A p \in Node : \A x \in ballots[p] :
    /\ x.node_id \in Node /\ x \in ballots[x.node_id] /\ x.term >= 1
    /\ Sound(H[x], elected, F) /\ \A i \in 1..Len(H[x]) : H[x][i].term < x.term

LeaderLogs(F, H) ==
  \A y \in elected :
    /\ Begins(H[y], F[y]) /\ Len(F[y]) <= MaxIndex
    /\ \A i \in 1..Len(F[y]) : i <= Len(H[y]) \/ F[y][i].term = y.term

LogTerms ==
  \A n \in Node : \A l \in survivors[n] : \A i \in 1..Len(l) :
    l[i].term <= LeaderIdOf(vote[n]).term

CandidateLogs(H) ==
  \A n \in Node : role[n] = "candidate" =>
    LeaderIdOf(vote[n]) \in ballots[n] /\ H[LeaderIdOf(vote[n])] = log[n]

RequestLogs(H) ==
  \A c \in calls : c.kind = "vote" => \A v \in c.request.vote :
    /\ \E p \in Node : LeaderIdOf(v) \in ballots[p]
    /\ OptFromPb(c.request.last_log_id) = LastLogId(H[LeaderIdOf(v)])

BaseInv(F, H) ==
  /\ H \in [LeaderId -> Seq(Entry)]
  /\ BallotLogs(F, H) /\ LeaderLogs(F, H) /\ LogTerms /\ CandidateLogs(H) /\ RequestLogs(H)

\* What a leader believes and what an append call stands for.
KeptByCall(c, F, H) ==
  \A v \in c.request.vote : LET id == LeaderIdOf(v)
                                a  == UpTo(c.request) IN
    /\ c.at = "flushing" => KeptUpTo(c.server, {log[c.server]}, id, a, F, H)
    /\ \A p \in c.reply : p.rejected_by = {} /\ ~p.conflict =>
         KeptUpTo(c.server, survivors[c.server], id, a, F, H)

KeptInv(F, H) ==
  /\ \A n, m \in Node : role[n] = "leader" =>
       /\ matched[n][m] <= Len(log[n])
       /\ KeptUpTo(m, survivors[m], LeaderIdOf(vote[n]), matched[n][m], F, H)
  /\ \A c \in calls : c.kind = "append" => KeptByCall(c, F, H)

CommitOf(r) == IndexOf(OptFromPb(r.leader_commit))

KnownInv(F, H) ==
  /\ chosen \in Seq(Entry) /\ Known(MaxTerm, Len(chosen), chosen, F, H)
  /\ commit \in [Node -> Nat]
  /\ \A n \in Node : Known(LeaderIdOf(vote[n]).term, commit[n], log[n], F, H)
  /\ \A c \in calls : c.kind = "append" => \A v \in c.request.vote :
       /\ CommitOf(c.request) \in Nat
       /\ Known(LeaderIdOf(v).term, CommitOf(c.request), F[LeaderIdOf(v)], F, H)

HistoryInv(F, H) == BaseInv(F, H) /\ KeptInv(F, H) /\ KnownInv(F, H)

-----------------------------------------------------------------------------
(* Logs that agree.                                                        *)

LEMMA AgreeTrans ==
  ASSUME NEW l, NEW g, NEW h, NEW a \in Nat, NEW b \in Nat, a <= b, Agree(l, g, a), Agree(g, h, b)
  PROVE  Agree(l, h, a)
<1>1. \A j \in 1..a : j \in 1..b
  OBVIOUS
<1> QED
  BY <1>1 DEF Agree

LEMMA AgreeSym ==
  ASSUME NEW l, NEW g, NEW a, Agree(l, g, a)
  PROVE  Agree(g, l, a)
BY DEF Agree

LEMMA AgreeLess ==
  ASSUME NEW l, NEW g, NEW a \in Nat, NEW b \in Nat, a <= b, Agree(l, g, b)
  PROVE  Agree(l, g, a)
<1>1. \A j \in 1..a : j \in 1..b
  OBVIOUS
<1> QED
  BY <1>1 DEF Agree

LEMMA AgreeBegins ==
  ASSUME NEW g \in Seq(Entry), NEW h \in Seq(Entry), Begins(g, h), NEW a \in Nat, a <= Len(g)
  PROVE  Agree(g, h, a) /\ Agree(h, g, a)
<1>1. a <= Len(h) /\ \A j \in 1..a : g[j] = h[j]
  <2>1. Len(g) \in Nat /\ Len(h) \in Nat
    OBVIOUS
  <2> QED
    BY <2>1 DEF Begins
<1>2. Agree(g, h, a)
  BY <1>1, AgreeIs
<1> QED
  BY <1>2, AgreeSym

LEMMA BeginsTrans ==
  ASSUME NEW g \in Seq(Entry), NEW h \in Seq(Entry), NEW i \in Seq(Entry), Begins(g, h), Begins(h, i)
  PROVE  Begins(g, i)
<1>1. Len(g) \in Nat /\ Len(h) \in Nat /\ Len(i) \in Nat
  OBVIOUS
<1> QED
  BY <1>1 DEF Begins

\* A log that grows still agrees with what it agreed with, as far as it went.
LEMMA AgreeSame ==
  ASSUME NEW l, NEW g \in Seq(Entry), NEW h \in Seq(Entry), Begins(g, h), NEW a \in Nat, a <= Len(g)
  PROVE  Agree(l, g, a) <=> Agree(l, h, a)
BY AgreeBegins, AgreeTrans

LEMMA EntryIs ==
  ASSUME NEW l \in Seq(Entry), NEW i \in 1..Len(l)
  PROVE  l[i] \in Entry /\ l[i].term \in Nat /\ l[i].index \in Nat
<1>1. l[i] \in Entry
  OBVIOUS
<1> QED
  BY <1>1 DEF Entry

\* Numbers below a bound have a least.
LEMMA MinIs ==
  ASSUME NEW N \in Nat, NEW S \in SUBSET (0..N), S # {}
  PROVE  \E x \in S : \A y \in S : x <= y
<1> DEFINE T == {N - x : x \in S}
<1>1. T \in SUBSET (0..N)
  OBVIOUS
<1>2. T # {}
  BY Zenon
<1> HIDE DEF T
<1>3. Max(T) \in T /\ \A t \in T : t <= Max(T)
  BY <1>1, <1>2, MaxIs
<1>4. PICK x \in S : Max(T) = N - x
  BY <1>3 DEF T
<1>5. ASSUME NEW y \in S
      PROVE  x <= y
  <2>1. N - y \in T
    BY DEF T
  <2>2. N - y <= N - x
    BY <2>1, <1>3, <1>4
  <2>3. x \in 0..N /\ y \in 0..N
    OBVIOUS
  <2> QED
    BY <2>2, <2>3
<1> QED
  BY <1>5

-----------------------------------------------------------------------------
(* What the invariants say together.                                       *)

\* The log of a leader begins with the one it was elected with, and what it added is of
\* its term.
IsLeaderLog(y, h, g) ==
  /\ h \in Seq(Entry) /\ g \in Seq(Entry) /\ Begins(h, g)
  /\ \A i \in 1..Len(h) : h[i].term < y.term
  /\ \A i \in 1..Len(g) : g[i].term <= y.term /\ (g[i].term = y.term => i > Len(h))

Setting(F, H) ==
  /\ F \in [LeaderId -> Seq(Entry)] /\ H \in [LeaderId -> Seq(Entry)]
  /\ vote \in [Node -> Votes] /\ ballots \in [Node -> SUBSET LeaderId]
  /\ log \in [Node -> Seq(Entry)] /\ survivors \in [Node -> SUBSET Seq(Entry)]
  /\ elected \in SUBSET LeaderId /\ OnePerTerm(elected)
  /\ \A m \in Node : log[m] \in survivors[m] /\ \A l \in survivors[m] : Sound(l, elected, F)
  /\ \A m \in Node : \A x \in ballots[m] :
       /\ x.term \in 1..MaxTerm /\ Sound(H[x], elected, F)
       /\ \A i \in 1..Len(H[x]) : H[x][i].term < x.term
  /\ \A y \in elected :
       /\ y.term \in 1..MaxTerm
       /\ Sound(F[y], elected, F) /\ Len(F[y]) <= MaxIndex
       /\ IsLeaderLog(y, H[y], F[y])

LEMMA SettingIs ==
  ASSUME IInv, NEW F, MatchInv(F), NEW H, BaseInv(F, H)
  PROVE  Setting(F, H)
<1>1. /\ F \in [LeaderId -> Seq(Entry)] /\ H \in [LeaderId -> Seq(Entry)]
      /\ vote \in [Node -> Votes] /\ ballots \in [Node -> SUBSET LeaderId]
      /\ log \in [Node -> Seq(Entry)] /\ survivors \in [Node -> SUBSET Seq(Entry)]
      /\ elected \in SUBSET LeaderId
  BY DEF IInv, VotesInv, MatchInv, LogsInv, BaseInv
<1>2. OnePerTerm(elected)
  BY IInvSafe DEF OneLeaderPerTerm, OnePerTerm
<1>3. /\ \A m \in Node : log[m] \in survivors[m] /\ \A l \in survivors[m] : Sound(l, elected, F)
      /\ \A y \in elected : Sound(F[y], elected, F)
  BY DEF MatchInv, LogsInv
<1>4. ASSUME NEW m \in Node, NEW x \in ballots[m]
      PROVE  /\ x.term \in 1..MaxTerm /\ Sound(H[x], elected, F)
             /\ \A i \in 1..Len(H[x]) : H[x][i].term < x.term
  <2>1. x \in LeaderId /\ MaxTerm \in Nat
    BY <1>1, ClusterAssumption
  <2>2. x.term >= 1 /\ Sound(H[x], elected, F) /\ \A i \in 1..Len(H[x]) : H[x][i].term < x.term
    BY DEF BaseInv, BallotLogs
  <2> QED
    BY <2>1, <2>2 DEF LeaderId
<1>5. ASSUME NEW y \in elected
      PROVE  /\ y.term \in 1..MaxTerm /\ Len(F[y]) <= MaxIndex
             /\ IsLeaderLog(y, H[y], F[y])
  <2>1. PICK m \in Node : y \in ballots[m]
    BY ClusterAssumption DEF IInv, ElectedInv
  <2>2. y.term \in 1..MaxTerm /\ \A i \in 1..Len(H[y]) : H[y][i].term < y.term
    BY <2>1, <1>4
  <2>3. /\ Begins(H[y], F[y]) /\ Len(F[y]) <= MaxIndex
        /\ \A i \in 1..Len(F[y]) : i <= Len(H[y]) \/ F[y][i].term = y.term
    BY DEF BaseInv, LeaderLogs
  <2>4. H[y] \in Seq(Entry) /\ F[y] \in Seq(Entry) /\ Len(H[y]) \in Nat
    BY <1>1
  <2>5. ASSUME NEW i \in 1..Len(F[y])
        PROVE  F[y][i].term <= y.term /\ (F[y][i].term = y.term => i > Len(H[y]))
    <3>1. CASE i <= Len(H[y])
      <4>1. i \in 1..Len(H[y]) /\ F[y][i] = H[y][i]
        BY <3>1, <2>3, <2>4 DEF Begins
      <4>2. H[y][i].term \in Nat
        BY <4>1, <2>4, EntryIs
      <4> QED
        BY <4>1, <4>2, <2>2
    <3>2. CASE ~(i <= Len(H[y]))
      BY <3>2, <2>2, <2>3, <2>4
    <3> QED
      BY <3>1, <3>2
  <2> QED
    BY <2>2, <2>3, <2>4, <2>5 DEF IsLeaderLog
<1> QED
  BY <1>1, <1>2, <1>3, <1>4, <1>5 DEF Setting

\* The terms of a log never fall.
LEMMA TermsRise ==
  ASSUME NEW F, NEW H, Setting(F, H), NEW l, Sound(l, elected, F),
         NEW j \in 1..Len(l), NEW i \in 1..j
  PROVE  l \in Seq(Entry) /\ l[i].term <= l[j].term
<1>1. l \in Seq(Entry)
  BY DEF Sound, IsLog
<1>2. PICK y \in elected : y.term = l[j].term /\ Agree(l, F[y], j)
  BY DEF Sound
<1>3. F[y] \in Seq(Entry) /\ \A k \in 1..Len(F[y]) : F[y][k].term <= y.term
  BY DEF Setting, IsLeaderLog
<1>4. j <= Len(F[y]) /\ l[i] = F[y][i] /\ i \in 1..Len(F[y])
  BY <1>1, <1>2, <1>3, AgreeIs
<1> QED
  BY <1>1, <1>2, <1>3, <1>4

\* What an entry says of a log: whose it is, and how long it can be.
LEMMA SoundIs ==
  ASSUME NEW F, NEW H, Setting(F, H), NEW l, Sound(l, elected, F)
  PROVE  /\ l \in Seq(Entry) /\ Len(l) <= MaxIndex
         /\ \A i \in 1..Len(l) : l[i].term \in 1..MaxTerm /\ l[i].index = i
<1>1. l \in Seq(Entry) /\ Len(l) \in Nat /\ \A i \in 1..Len(l) : l[i].index = i
  BY DEF Sound, IsLog
<1>2. ASSUME NEW i \in 1..Len(l)
      PROVE  l[i].term \in 1..MaxTerm /\ i <= MaxIndex
  <2>1. PICK y \in elected : y.term = l[i].term /\ Agree(l, F[y], i)
    BY DEF Sound
  <2>2. y.term \in 1..MaxTerm /\ F[y] \in Seq(Entry) /\ Len(F[y]) <= MaxIndex /\ Len(F[y]) \in Nat
    BY DEF Setting, IsLeaderLog
  <2>3. i <= Len(F[y])
    BY <2>1, <2>2, <1>1, AgreeIs
  <2> QED
    BY <2>1, <2>2, <2>3, ClusterAssumption
<1>3. Len(l) <= MaxIndex
  <2>1. CASE Len(l) = 0
    BY <2>1, ClusterAssumption
  <2>2. CASE Len(l) # 0
    BY <2>2, <1>1, <1>2
  <2> QED
    BY <2>1, <2>2
<1> QED
  BY <1>1, <1>2, <1>3

-----------------------------------------------------------------------------
(* Votes and what is chosen.                                               *)

LEMMA LeadIs ==
  ASSUME NEW id \in LeaderId
  PROVE  Lead(id) \in Votes /\ LeaderIdOf(Lead(id)) = id /\ Lead(id).committed = TRUE
BY FromLeaderIdIs DEF Lead

LEMMA LeadOfVote ==
  ASSUME NEW v \in Votes, v.committed
  PROVE  v = Lead(LeaderIdOf(v))
<1>1. v.leader_id = {LeaderIdOf(v)} /\ v.committed = TRUE
  BY LeaderIdIs DEF Votes
<1>2. v = [leader_id |-> v.leader_id, committed |-> v.committed]
  BY DEF Votes
<1> QED
  BY <1>1, <1>2 DEF Lead, FromLeaderId

LEMMA VoteAboveLead ==
  ASSUME NEW w \in Votes, NEW id \in LeaderId, VoteGeq(w, Lead(id))
  PROVE  /\ id.term <= LeaderIdOf(w).term
         /\ ~w.committed => id.term < LeaderIdOf(w).term
         /\ w.committed => id = LeaderIdOf(w) \/ id.term < LeaderIdOf(w).term
<1>1. Lead(id) \in Votes /\ LeaderIdOf(Lead(id)) = id /\ Lead(id).committed = TRUE
  BY LeadIs
<1>2. LeaderIdOf(w) \in LeaderId /\ w.committed \in BOOLEAN
  BY LeaderIdIs DEF Votes
<1> QED
  BY <1>1, <1>2, VoteGeqIs DEF LeaderId

\* A candidate whose log is not behind one that holds the first k entries of g holds them,
\* unless a leader before it lacks them: its last entry is of the term of such a leader.
LEMMA GrantHolds ==
  ASSUME NEW F, NEW H, Setting(F, H), NEW id \in elected, NEW k, Own(id, F[id], k),
         NEW l, Sound(l, elected, F), Agree(l, F[id], k),
         NEW x, x.term > id.term, NEW c, Sound(c, elected, F), \A i \in 1..Len(c) : c[i].term < x.term,
         LogIdGeq(LastLogId(c), LastLogId(l)),
         ~\E y \in elected : Breaks(y, id, F[id], k, H) /\ y.term < x.term
  PROVE  Agree(c, F[id], k)
<1>1. /\ l \in Seq(Entry) /\ \A i \in 1..Len(l) : l[i].index = i /\ l[i].term \in Nat
      /\ c \in Seq(Entry) /\ \A i \in 1..Len(c) : c[i].index = i /\ c[i].term \in Nat
      /\ Len(l) \in Nat /\ Len(c) \in Nat
  BY EntryIs DEF Sound, IsLog
<1>2. F[id] \in Seq(Entry) /\ k \in Nat /\ k >= 1 /\ F[id][k].term = id.term
  BY DEF Setting, IsLeaderLog, Own
<1>3. k <= Len(l) /\ l[k].term = id.term
  BY <1>1, <1>2, AgreeIs
<1>4. l[k].term <= l[Len(l)].term
  BY <1>1, <1>2, <1>3, TermsRise
<1>5. LastLogId(l) = {[leader_id |-> l[Len(l)].term, index |-> l[Len(l)].index]}
  BY <1>1, <1>2, <1>3, LogIdAtIs DEF LastLogId
<1>6. /\ Len(c) # 0
      /\ LastLogId(c) = {[leader_id |-> c[Len(c)].term, index |-> c[Len(c)].index]}
  <2>1. LastLogId(c) # {}
    BY <1>5 DEF LogIdGeq
  <2>2. LastLogId(c) = IF Len(c) \in 1..Len(c)
                       THEN {[leader_id |-> c[Len(c)].term, index |-> c[Len(c)].index]} ELSE {}
    BY <1>1, LogIdAtIs DEF LastLogId
  <2> QED
    BY <2>1, <2>2
<1>7. \/ c[Len(c)].term > l[Len(l)].term
      \/ c[Len(c)].term = l[Len(l)].term /\ Len(c) >= Len(l)
  <2>1. \/ c[Len(c)].term > l[Len(l)].term
        \/ c[Len(c)].term = l[Len(l)].term /\ c[Len(c)].index >= l[Len(l)].index
    BY <1>5, <1>6 DEF LogIdGeq
  <2> QED
    BY <2>1, <1>1, <1>2, <1>3, <1>6
<1>8. Len(c) \in 1..Len(c) /\ Len(l) \in 1..Len(l)
  BY <1>1, <1>2, <1>3, <1>6
<1>9. PICK z \in elected : z.term = c[Len(c)].term /\ Agree(c, F[z], Len(c))
  BY <1>8 DEF Sound
<1>10. /\ z.term \in Nat /\ id.term \in Nat /\ z.term < x.term
       /\ IsLeaderLog(z, H[z], F[z])
  BY <1>1, <1>2, <1>3, <1>8, <1>9 DEF Setting
<1>11. k <= Len(c) /\ Agree(F[z], F[id], k)
  <2>1. CASE z.term = id.term
    <3>1. z = id
      BY <2>1 DEF Setting, OnePerTerm
    <3>2. Len(c) >= Len(l)
      <4>1. c[Len(c)].term \in Nat /\ l[Len(l)].term \in Nat
        BY <1>1, <1>8
      <4>2. c[Len(c)].term <= l[Len(l)].term
        BY <2>1, <1>3, <1>4, <1>9
      <4> QED
        BY <4>1, <4>2, <1>7
    <3>3. Agree(F[id], F[id], k)
      BY <1>2, AgreeIs DEF Own
    <3> QED
      BY <3>1, <3>2, <3>3, <1>1, <1>2, <1>3
  <2>2. CASE z.term # id.term
    <3>1. z.term > id.term
      BY <2>2, <1>1, <1>3, <1>4, <1>7, <1>8, <1>9, <1>10
    <3>2. Agree(H[z], F[id], k)
      BY <3>1, <1>10 DEF Breaks
    <3>3. /\ H[z] \in Seq(Entry) /\ F[z] \in Seq(Entry) /\ Begins(H[z], F[z]) /\ k <= Len(H[z])
          /\ \A i \in 1..Len(F[z]) : F[z][i].term = z.term => i > Len(H[z])
      BY <3>2, <1>2, <1>10, AgreeIs DEF IsLeaderLog
    <3>4. Agree(F[z], F[id], k)
      BY <3>2, <3>3, <1>2, AgreeBegins, AgreeTrans
    <3>5. Len(c) > Len(H[z])
      <4>1. Len(c) \in 1..Len(F[z]) /\ F[z][Len(c)] = c[Len(c)]
        BY <3>3, <1>1, <1>8, <1>9, AgreeIs
      <4> QED
        BY <4>1, <3>3, <1>9
    <3> QED
      BY <3>3, <3>4, <3>5, <1>1, <1>2
  <2> QED
    BY <2>1, <2>2
<1> QED
  <2>1. Agree(c, F[z], k)
    BY <1>1, <1>2, <1>9, <1>11, AgreeLess
  <2> QED
    BY <2>1, <1>2, <1>11, AgreeTrans

\* What a quorum holds is in the log of every later leader: of those that lack it there is
\* no first, for a member of both quorums granted it its vote.
LEMMA Complete ==
  ASSUME IInv, NEW F, NEW H, Setting(F, H), NEW id, NEW k, Chosen(id, k, F, H),
         NEW y \in elected, y.term > id.term
  PROVE  Agree(H[y], F[id], k) /\ Agree(F[y], F[id], k)
<1> DEFINE B == {z \in elected : Breaks(z, id, F[id], k, H)}
           S == {z.term : z \in B}
<1>1. S \in SUBSET (0..MaxTerm) /\ MaxTerm \in Nat
  BY ClusterAssumption DEF Setting
<1>2. B = {}
  <2>1. SUFFICES ASSUME S # {}
                 PROVE  FALSE
    BY Zenon
  <2>2. PICK t \in S : \A s \in S : t <= s
    <3> HIDE DEF S
    <3> QED
      BY <1>1, <2>1, MinIs
  <2>3. PICK z \in B : z.term = t
    OBVIOUS
  <2>4. PICK P \in Quorum : \A p \in P : z \in ballots[p]
    BY DEF IInv, ElectedInv
  <2>5. PICK Q \in Quorum : \A p \in Q :
          Kept(vote[p], ballots[p], survivors[p], elected, id, F[id], k, H)
    BY DEF Chosen
  <2>6. PICK p \in P \cap Q : TRUE
    BY ClusterAssumption
  <2>7. z \in ballots[p] /\ z.term > id.term /\ ~Agree(H[z], F[id], k)
    BY <2>4, <2>6 DEF Breaks
  <2>8. PICK u \in elected : Breaks(u, id, F[id], k, H) /\ u.term < z.term
    BY <2>5, <2>6, <2>7 DEF Kept
  <2>9. u.term \in S /\ u.term \in Nat /\ z.term \in Nat
    BY <2>8 DEF Setting
  <2> QED
    BY <2>2, <2>3, <2>8, <2>9
<1>3. Agree(H[y], F[id], k)
  BY <1>2 DEF Breaks
<1>4. H[y] \in Seq(Entry) /\ F[y] \in Seq(Entry) /\ Begins(H[y], F[y]) /\ F[id] \in Seq(Entry)
  BY DEF Setting, IsLeaderLog, Chosen
<1>5. k \in Nat /\ k <= Len(H[y])
  BY <1>3, <1>4, AgreeIs DEF Chosen, Own
<1> QED
  BY <1>3, <1>4, <1>5, AgreeBegins, AgreeTrans

\* Two leaders agree as far as both have something chosen.
LEMMA Compatible ==
  ASSUME IInv, NEW F, NEW H, Setting(F, H), NEW a, NEW i, Chosen(a, i, F, H),
         NEW b, NEW j, Chosen(b, j, F, H), NEW c \in Nat, c <= i, c <= j
  PROVE  Agree(F[a], F[b], c)
<1>1. /\ a \in elected /\ b \in elected /\ i \in Nat /\ j \in Nat
      /\ F[a] \in Seq(Entry) /\ F[b] \in Seq(Entry) /\ i <= Len(F[a])
      /\ a.term \in Nat /\ b.term \in Nat
  BY DEF Chosen, Own, Setting, IsLeaderLog
<1>2. CASE a.term > b.term
  <2>1. Agree(F[a], F[b], j)
    BY <1>1, <1>2, Complete
  <2> QED
    BY <2>1, <1>1, AgreeLess
<1>3. CASE b.term > a.term
  <2>1. Agree(F[b], F[a], i)
    BY <1>1, <1>3, Complete
  <2> QED
    BY <2>1, <1>1, AgreeLess, AgreeSym
<1>4. CASE a.term = b.term
  <2>1. a = b
    BY <1>1, <1>4 DEF Setting, OnePerTerm
  <2>2. c <= Len(F[a])
    BY <1>1
  <2> QED
    BY <2>1, <2>2, <1>1, AgreeIs
<1> QED
  BY <1>1, <1>2, <1>3, <1>4

-----------------------------------------------------------------------------
(* What a step does to what is kept.                                       *)

VotesGrow == \A p \in Node : vote'[p] = vote[p] \/ VoteGeq(vote'[p], vote[p])

\* A candidate keeps its log, and so does whoever has voted.
SameLogs(H, K) ==
  /\ K \in [LeaderId -> Seq(Entry)]
  /\ \A p \in Node : \A x \in ballots[p] : K[x] = H[x] /\ x \in ballots'[p]

\* A node with this vote may follow a leader that lacks the first k entries of id.
Overruled(w, E, id, g, k, H) == \E y \in E : Breaks(y, id, g, k, H) /\ VoteGeq(w, Lead(y))

\* A node loses no entry that it holds of a leader, but to a later leader that lacks it.
Spares(F, H) ==
  \A p \in Node, id \in elected, k \in Nat :
    Own(id, F[id], k) /\ VoteGeq(vote[p], Lead(id)) =>
      /\ (\A l \in survivors[p] : Agree(l, F[id], k)) =>
           \/ \A l \in survivors'[p] : Agree(l, F[id], k)
           \/ Overruled(vote'[p], elected, id, F[id], k, H)
      /\ Agree(log[p], F[id], k) /\ p \in {c.server : c \in calls'} =>
           \/ Agree(log'[p], F[id], k)
           \/ Overruled(vote'[p], elected, id, F[id], k, H)

\* Nor does it vote for a log without it, unless a leader before that candidate lacks it.
Casts(F, H, K) ==
  \A p \in Node, id \in elected, k \in Nat : \A x \in ballots'[p] \ ballots[p] :
    /\ Own(id, F[id], k) /\ VoteGeq(vote[p], Lead(id)) /\ x.term > id.term
    /\ Agree(log[p], F[id], k) \/ Overruled(vote[p], elected, id, F[id], k, H)
    => \/ Agree(K[x], F[id], k)
       \/ \E y \in elected : Breaks(y, id, F[id], k, H) /\ y.term < x.term

KeepsKept(F, G, H, K) ==
  \A p \in Node, id \in elected, k \in Nat : Own(id, F[id], k) =>
    /\ Kept(vote[p], ballots[p], survivors[p], elected, id, F[id], k, H) =>
         Kept(vote'[p], ballots'[p], survivors'[p], elected', id, G[id], k, K)
    /\ /\ Kept(vote[p], ballots[p], {log[p]}, elected, id, F[id], k, H)
       /\ p \in {c.server : c \in calls'}
       => Kept(vote'[p], ballots'[p], {log'[p]}, elected', id, G[id], k, K)

LEMMA KeptMoves ==
  ASSUME NEW w \in Votes, NEW v \in Votes, v = w \/ VoteGeq(v, w),
         NEW E \in SUBSET LeaderId, NEW D, E \subseteq D, NEW id \in LeaderId,
         NEW g \in Seq(Entry), NEW h \in Seq(Entry), Begins(g, h), NEW k \in Nat, k <= Len(g),
         NEW H, NEW K, \A y \in E : K[y] = H[y],
         NEW bs, NEW cs, \A x \in bs : K[x] = H[x], NEW L, NEW M,
         Kept(w, bs, L, E, id, g, k, H),
         (\A l \in L : Agree(l, g, k)) =>
           (\A l \in M : Agree(l, g, k)) \/ Overruled(v, E, id, g, k, H),
         \A x \in cs \ bs : x.term > id.term =>
           \/ Agree(K[x], g, k)
           \/ \E y \in E : Breaks(y, id, g, k, H) /\ y.term < x.term
  PROVE  Kept(v, cs, M, D, id, h, k, K)
<1>1. \A l : Agree(l, g, k) <=> Agree(l, h, k)
  BY AgreeSame
<1>2. \A y \in E : Breaks(y, id, g, k, H) => y \in D /\ Breaks(y, id, h, k, K)
  BY <1>1 DEF Breaks
<1>3. VoteGeq(w, Lead(id)) /\ Lead(id) \in Votes /\ VoteGeq(v, Lead(id))
  BY LeadIs, VoteGeqTransitive DEF Kept
<1>4. Overruled(w, E, id, g, k, H) => Overruled(v, E, id, g, k, H)
  BY LeadIs, VoteGeqTransitive DEF Overruled
<1>5. (\A l \in L : Agree(l, g, k)) \/ Overruled(w, E, id, g, k, H)
  BY DEF Kept, Overruled
<1>6. (\A l \in M : Agree(l, h, k)) \/ \E y \in D : Breaks(y, id, h, k, K) /\ VoteGeq(v, Lead(y))
  BY <1>1, <1>2, <1>4, <1>5 DEF Overruled
<1>7. ASSUME NEW x \in cs, x.term > id.term
      PROVE  \/ Agree(K[x], h, k)
             \/ \E y \in D : Breaks(y, id, h, k, K) /\ y.term < x.term
  <2>1. \/ Agree(K[x], g, k)
        \/ \E y \in E : Breaks(y, id, g, k, H) /\ y.term < x.term
    BY <1>7 DEF Kept
  <2> QED
    BY <2>1, <1>1, <1>2
<1> QED
  BY <1>3, <1>6, <1>7 DEF Kept

LEMMA KeptStep ==
  ASSUME IInv, IInv', NEW F, NEW H, Setting(F, H), NEW G, Grows(F, G), NEW K, SameLogs(H, K),
         VotesGrow, Spares(F, H), Casts(F, H, K)
  PROVE  KeepsKept(F, G, H, K)
<1>1. \A y \in elected : K[y] = H[y]
  BY ClusterAssumption DEF SameLogs, IInv, ElectedInv
<1>2. ASSUME NEW p \in Node, NEW id \in elected, NEW k \in Nat, Own(id, F[id], k),
             NEW L, NEW M, log[p] \in L, Kept(vote[p], ballots[p], L, elected, id, F[id], k, H),
             VoteGeq(vote[p], Lead(id)) /\ (\A l \in L : Agree(l, F[id], k)) =>
               \/ \A l \in M : Agree(l, F[id], k)
               \/ Overruled(vote'[p], elected, id, F[id], k, H)
      PROVE  Kept(vote'[p], ballots'[p], M, elected', id, G[id], k, K)
  <2>1. VoteGeq(vote[p], Lead(id))
    BY <1>2 DEF Kept
  <2>2. Agree(log[p], F[id], k) \/ Overruled(vote[p], elected, id, F[id], k, H)
    BY <1>2 DEF Kept, Overruled
  <2>3. \A x \in ballots'[p] \ ballots[p] : x.term > id.term =>
           \/ Agree(K[x], F[id], k)
           \/ \E y \in elected : Breaks(y, id, F[id], k, H) /\ y.term < x.term
    BY <2>1, <2>2, <1>2 DEF Casts
  <2>w. PICK w : w = vote[p]
    OBVIOUS
  <2>v. PICK v : v = vote'[p]
    OBVIOUS
  <2>E. PICK E : E = elected
    OBVIOUS
  <2>D. PICK D : D = elected'
    OBVIOUS
  <2>g. PICK g : g = F[id]
    OBVIOUS
  <2>h. PICK h : h = G[id]
    OBVIOUS
  <2>b. PICK bs : bs = ballots[p]
    OBVIOUS
  <2>c. PICK cs : cs = ballots'[p]
    OBVIOUS
  <2>4. /\ w \in Votes /\ v \in Votes /\ (v = w \/ VoteGeq(v, w))
        /\ E \in SUBSET LeaderId /\ E \subseteq D /\ id \in LeaderId
        /\ g \in Seq(Entry) /\ h \in Seq(Entry) /\ Begins(g, h) /\ k <= Len(g)
        /\ \A x \in bs : K[x] = H[x]
    BY <1>2, <2>w, <2>v, <2>E, <2>D, <2>g, <2>h, <2>b
       DEF Setting, IsLeaderLog, IInv, VotesInv, VotesGrow, Grows, Own, SameLogs
  <2>5. (\A l \in L : Agree(l, g, k)) => (\A l \in M : Agree(l, g, k)) \/ Overruled(v, E, id, g, k, H)
    BY <2>1, <1>2, <2>v, <2>E, <2>g
  <2>6. \A x \in cs \ bs : x.term > id.term =>
           \/ Agree(K[x], g, k)
           \/ \E y \in E : Breaks(y, id, g, k, H) /\ y.term < x.term
    BY <2>3, <2>b, <2>c, <2>E, <2>g
  <2>7. Kept(w, bs, L, E, id, g, k, H) /\ \A y \in E : K[y] = H[y]
    BY <1>1, <1>2, <2>w, <2>b, <2>E, <2>g
  <2>8. Kept(v, cs, M, D, id, h, k, K)
    BY <2>4, <2>5, <2>6, <2>7, KeptMoves, SMTT(60)
  <2> QED
    BY <2>8, <2>v, <2>c, <2>D, <2>h
<1>3. ASSUME NEW p \in Node, NEW id \in elected, NEW k \in Nat, Own(id, F[id], k)
      PROVE  /\ Kept(vote[p], ballots[p], survivors[p], elected, id, F[id], k, H) =>
                  Kept(vote'[p], ballots'[p], survivors'[p], elected', id, G[id], k, K)
             /\ /\ Kept(vote[p], ballots[p], {log[p]}, elected, id, F[id], k, H)
                /\ p \in {c.server : c \in calls'}
                => Kept(vote'[p], ballots'[p], {log'[p]}, elected', id, G[id], k, K)
  <2>1. log[p] \in survivors[p]
    BY DEF Setting
  <2>2. /\ VoteGeq(vote[p], Lead(id)) /\ (\A l \in survivors[p] : Agree(l, F[id], k)) =>
             \/ \A l \in survivors'[p] : Agree(l, F[id], k)
             \/ Overruled(vote'[p], elected, id, F[id], k, H)
        /\ p \in {c.server : c \in calls'} =>
             (VoteGeq(vote[p], Lead(id)) /\ Agree(log[p], F[id], k) =>
               \/ Agree(log'[p], F[id], k)
               \/ Overruled(vote'[p], elected, id, F[id], k, H))
    BY <1>3 DEF Spares
  <2>3. Kept(vote[p], ballots[p], survivors[p], elected, id, F[id], k, H) =>
          Kept(vote'[p], ballots'[p], survivors'[p], elected', id, G[id], k, K)
    BY <1>2, <1>3, <2>1, <2>2
  <2>4. ASSUME Kept(vote[p], ballots[p], {log[p]}, elected, id, F[id], k, H),
               p \in {c.server : c \in calls'}
        PROVE  Kept(vote'[p], ballots'[p], {log'[p]}, elected', id, G[id], k, K)
    <3>1. PICK L : L = {log[p]}
      OBVIOUS
    <3>2. PICK M : M = {log'[p]}
      OBVIOUS
    <3>3. VoteGeq(vote[p], Lead(id)) /\ (\A l \in L : Agree(l, F[id], k)) =>
             \/ \A l \in M : Agree(l, F[id], k)
             \/ Overruled(vote'[p], elected, id, F[id], k, H)
      BY <2>2, <2>4, <3>1, <3>2
    <3>4. Kept(vote[p], ballots[p], L, elected, id, F[id], k, H) /\ log[p] \in L
      BY <2>4, <3>1
    <3>5. Kept(vote'[p], ballots'[p], M, elected', id, G[id], k, K)
      BY <1>2, <1>3, <3>3, <3>4
    <3> QED
      BY <3>2, <3>5
  <2> QED
    BY <2>3, <2>4
<1> QED
  BY <1>3 DEF KeepsKept

\* A step that leaves the votes, and on disk at most less than before.
LEMMA ShrinkSpares ==
  ASSUME NEW F, NEW H, UNCHANGED vote, \A p \in Node : survivors'[p] \subseteq survivors[p],
         \A p \in Node : p \in {c.server : c \in calls'} => log'[p] = log[p]
  PROVE  VotesGrow /\ Spares(F, H)
BY DEF VotesGrow, Spares

\* A node writes a vote that is not smaller and a log that keeps what it holds, but for what
\* a later leader that this vote follows lacks.
LEMMA WriteSpares ==
  ASSUME NEW F, NEW H, Setting(F, H), NEW n \in Node, NEW w \in Votes, NEW q \in Seq(Entry),
         Write(n, w, q), w = vote[n] \/ VoteGeq(w, vote[n]),
         \A id \in elected, k \in Nat :
           Own(id, F[id], k) /\ VoteGeq(vote[n], Lead(id)) /\ Agree(log[n], F[id], k) =>
             Agree(q, F[id], k) \/ Overruled(w, elected, id, F[id], k, H)
  PROVE  VotesGrow /\ Spares(F, H)
<1> DEFINE M == (IF w = vote[n] THEN survivors[n] ELSE {log[n]}) \cup Puts(log[n], q)
<1>1. /\ vote \in [Node -> Votes] /\ log \in [Node -> Seq(Entry)] /\ log[n] \in survivors[n]
      /\ survivors \in [Node -> SUBSET Seq(Entry)] /\ F \in [LeaderId -> Seq(Entry)]
      /\ elected \in SUBSET LeaderId
  BY DEF Setting
<1>2. /\ vote'[n] = w /\ log'[n] = q /\ survivors'[n] = M
      /\ \A p \in Node \ {n} : /\ vote'[p] = vote[p] /\ log'[p] = log[p]
                               /\ survivors'[p] = survivors[p]
  BY <1>1 DEF Write
<1>3. ASSUME NEW id \in elected, NEW k \in Nat, Own(id, F[id], k), VoteGeq(vote[n], Lead(id)),
             \A l \in survivors[n] : Agree(l, F[id], k), Agree(q, F[id], k), NEW l \in M
      PROVE  Agree(l, F[id], k)
  <2>1. CASE l \in survivors[n]
    BY <2>1, <1>3
  <2>2. CASE l \in Puts(log[n], q)
    <3>1. Agree(log[n], F[id], k) /\ F[id] \in Seq(Entry) /\ log[n] \in Seq(Entry)
      BY <1>1, <1>3
    <3> QED
      BY <2>2, <3>1, <1>3, PutsAgree
  <2> QED
    BY <2>1, <2>2, <1>1
<1> HIDE DEF M
<1>4. VotesGrow
  BY <1>2 DEF VotesGrow
<1>5. ASSUME NEW id \in elected, NEW k \in Nat, Own(id, F[id], k), VoteGeq(vote[n], Lead(id))
      PROVE  /\ (\A l \in survivors[n] : Agree(l, F[id], k)) =>
                  \/ \A l \in survivors'[n] : Agree(l, F[id], k)
                  \/ Overruled(vote'[n], elected, id, F[id], k, H)
             /\ Agree(log[n], F[id], k) =>
                  \/ Agree(log'[n], F[id], k)
                  \/ Overruled(vote'[n], elected, id, F[id], k, H)
  <2>1. Agree(log[n], F[id], k) =>
          Agree(q, F[id], k) \/ Overruled(w, elected, id, F[id], k, H)
    BY <1>5
  <2> QED
    BY <2>1, <1>1, <1>2, <1>3, <1>5
<1>6. ASSUME NEW p \in Node, NEW id \in elected, NEW k \in Nat,
             Own(id, F[id], k), VoteGeq(vote[p], Lead(id))
      PROVE  /\ (\A l \in survivors[p] : Agree(l, F[id], k)) =>
                  \/ \A l \in survivors'[p] : Agree(l, F[id], k)
                  \/ Overruled(vote'[p], elected, id, F[id], k, H)
             /\ Agree(log[p], F[id], k) =>
                  \/ Agree(log'[p], F[id], k)
                  \/ Overruled(vote'[p], elected, id, F[id], k, H)
  <2>1. CASE p = n
    BY <2>1, <1>5, <1>6
  <2>2. CASE p # n
    BY <2>2, <1>2
  <2> QED
    BY <2>1, <2>2
<1>7. Spares(F, H)
  BY <1>6 DEF Spares
<1> QED
  BY <1>4, <1>7

-----------------------------------------------------------------------------
(* What a step does to ballots, logs and requests.                         *)

\* A ballot is for a candidate that had one, or for a node that is one now.
BallotsMove(K) ==
  \A p \in Node : \A x \in ballots'[p] :
    \/ \E q \in Node : x \in ballots[q]
    \/ x.node_id = p /\ x.term = LeaderIdOf(vote[p]).term + 1 /\ K[x] = log[p]

ElectedMove(K) == \A y \in elected' \ elected : K[y] = log[y.node_id]

LogsMove ==
  \A p \in Node : \A l \in survivors'[p] :
    l \in survivors[p] \/ \A i \in 1..Len(l) : l[i].term <= LeaderIdOf(vote'[p]).term

CandidatesMove(K) ==
  \A n \in Node : role'[n] = "candidate" =>
    LET id == LeaderIdOf(vote'[n]) IN
    \/ role[n] = "candidate" /\ id = LeaderIdOf(vote[n]) /\ log'[n] = log[n]
    \/ id \in ballots'[n] /\ K[id] = log'[n]

RequestsMove(H) ==
  \A c \in calls' : c.kind = "vote" =>
    \/ \E d \in calls : d.kind = "vote" /\ c.request = d.request
    \/ \A v \in c.request.vote :
         /\ \E p \in Node : LeaderIdOf(v) \in ballots[p]
         /\ OptFromPb(c.request.last_log_id) = LastLogId(H[LeaderIdOf(v)])

Effect(F, H, K) ==
  /\ SameLogs(H, K) /\ VotesGrow /\ Spares(F, H) /\ Casts(F, H, K)
  /\ BallotsMove(K) /\ ElectedMove(K) /\ LogsMove /\ CandidatesMove(K) /\ RequestsMove(H)

LEMMA VoteTerms ==
  ASSUME IInv, IInv', VotesGrow, NEW p \in Node
  PROVE  /\ LeaderIdOf(vote[p]).term \in Nat /\ LeaderIdOf(vote'[p]).term \in Nat
         /\ LeaderIdOf(vote[p]).term <= LeaderIdOf(vote'[p]).term
<1>1. vote[p] \in Votes /\ vote'[p] \in Votes
  BY DEF IInv, VotesInv
<1>2. LeaderIdOf(vote[p]) \in LeaderId /\ LeaderIdOf(vote'[p]) \in LeaderId
  BY <1>1, LeaderIdIs
<1>3. LeaderIdOf(vote[p]).term \in Nat /\ LeaderIdOf(vote'[p]).term \in Nat
  BY <1>2 DEF LeaderId
<1>4. CASE vote'[p] = vote[p]
  BY <1>3, <1>4
<1>5. CASE VoteGeq(vote'[p], vote[p])
  BY <1>1, <1>3, <1>5, VoteGeqIs
<1> QED
  BY <1>3, <1>4, <1>5 DEF VotesGrow

LEMMA BaseStep ==
  ASSUME IInv, IInv', NEW F, MatchInv(F), NEW H, BaseInv(F, H), NEW G, Grows(F, G), MatchInv(G)',
         NEW K, Effect(F, H, K)
  PROVE  BaseInv(G, K)'
<1>1. /\ SameLogs(H, K) /\ VotesGrow /\ BallotsMove(K) /\ ElectedMove(K)
      /\ LogsMove /\ CandidatesMove(K) /\ RequestsMove(H)
  BY DEF Effect
<1>2. Setting(F, H)
  BY SettingIs
<1>3. /\ F \in [LeaderId -> Seq(Entry)] /\ G \in [LeaderId -> Seq(Entry)] /\ elected \in SUBSET LeaderId
      /\ elected' \in SUBSET LeaderId /\ elected \subseteq elected'
      /\ \A id \in elected : Begins(F[id], G[id])
  BY <1>2 DEF Setting, Grows
<1>4. \A l : Sound(l, elected, F) => Sound(l, elected', G)
  BY <1>3, SoundGrows
<1>5. \A p \in Node : \A i \in 1..Len(log[p]) : log[p][i].term <= LeaderIdOf(vote[p]).term
  BY <1>2 DEF BaseInv, LogTerms, Setting
<1>6. BallotLogs(G, K)'
  <2>1. ASSUME NEW p \in Node, NEW x \in ballots'[p]
        PROVE  /\ x.node_id \in Node /\ x \in ballots'[x.node_id] /\ x.term >= 1
               /\ Sound(K[x], elected', G) /\ \A i \in 1..Len(K[x]) : K[x][i].term < x.term
    <3>1. CASE \E q \in Node : x \in ballots[q]
      <4>1. PICK q \in Node : x \in ballots[q]
        BY <3>1
      <4>2. /\ x.node_id \in Node /\ x \in ballots[x.node_id] /\ x.term >= 1
            /\ Sound(H[x], elected, F) /\ \A i \in 1..Len(H[x]) : H[x][i].term < x.term
        BY <4>1 DEF BaseInv, BallotLogs
      <4>3. K[x] = H[x] /\ x \in ballots'[x.node_id]
        BY <4>1, <4>2, <1>1 DEF SameLogs
      <4> QED
        BY <4>2, <4>3, <1>4
    <3>2. CASE x.node_id = p /\ x.term = LeaderIdOf(vote[p]).term + 1 /\ K[x] = log[p]
      <4>1. LeaderIdOf(vote[p]).term \in Nat
        BY <1>1, VoteTerms
      <4>2. Sound(log[p], elected', G) /\ log[p] \in Seq(Entry)
        BY <1>2, <1>4 DEF Setting
      <4>3. \A i \in 1..Len(log[p]) : log[p][i].term < x.term
        BY <4>1, <4>2, <3>2, <1>5, EntryIs
      <4> QED
        BY <4>1, <4>2, <4>3, <3>2
    <3> QED
      BY <3>1, <3>2, <1>1 DEF BallotsMove
  <2> QED
    BY <2>1 DEF BallotLogs
<1>7. LeaderLogs(G, K)'
  <2>1. ASSUME NEW y \in elected', y \in elected
        PROVE  /\ Begins(K[y], G[y]) /\ Len(G[y]) <= MaxIndex
               /\ \A i \in 1..Len(G[y]) : i <= Len(K[y]) \/ G[y][i].term = y.term
    <3>1. PICK m \in Node : y \in ballots[m]
      BY <2>1, ClusterAssumption DEF IInv, ElectedInv
    <3>2. K[y] = H[y]
      BY <3>1, <1>1 DEF SameLogs
    <3>3. /\ Begins(H[y], F[y]) /\ Len(F[y]) <= MaxIndex
          /\ \A i \in 1..Len(F[y]) : i <= Len(H[y]) \/ F[y][i].term = y.term
      BY <2>1 DEF BaseInv, LeaderLogs
    <3>4. Begins(F[y], G[y]) /\ OwnEntries(y, F[y], G[y])
      BY <2>1 DEF Grows
    <3>5. /\ H[y] \in Seq(Entry) /\ F[y] \in Seq(Entry) /\ G[y] \in Seq(Entry)
          /\ Len(H[y]) \in Nat /\ Len(F[y]) \in Nat /\ Len(G[y]) \in Nat /\ MaxIndex \in Nat
      BY <1>2, <1>3, <2>1, ClusterAssumption DEF Setting
    <3>6. Begins(H[y], G[y])
      BY <3>3, <3>4, <3>5, BeginsTrans
    <3>7. Len(G[y]) <= MaxIndex
      BY <3>3, <3>4, <3>5 DEF OwnEntries
    <3>8. ASSUME NEW i \in 1..Len(G[y])
          PROVE  i <= Len(H[y]) \/ G[y][i].term = y.term
      <4>1. CASE i <= Len(F[y])
        <5>1. i \in 1..Len(F[y]) /\ G[y][i] = F[y][i]
          BY <4>1, <3>4, <3>5 DEF Begins
        <5> QED
          BY <5>1, <3>3
      <4>2. CASE ~(i <= Len(F[y]))
        BY <4>2, <3>4 DEF OwnEntries
      <4> QED
        BY <4>1, <4>2
    <3> QED
      BY <3>2, <3>6, <3>7, <3>8
  <2>2. ASSUME NEW y \in elected', y \notin elected
        PROVE  /\ Begins(K[y], G[y]) /\ Len(G[y]) <= MaxIndex
               /\ \A i \in 1..Len(G[y]) : i <= Len(K[y]) \/ G[y][i].term = y.term
    <3>1. y.node_id \in Node /\ G[y] = log[y.node_id] /\ K[y] = log[y.node_id]
      BY <2>2, <1>1 DEF Grows, ElectedMove
    <3>2. Sound(log[y.node_id], elected, F)
      BY <3>1, <1>2 DEF Setting
    <3>3. log[y.node_id] \in Seq(Entry) /\ Len(log[y.node_id]) <= MaxIndex
      BY <3>2, <1>2, SoundIs
    <3> QED
      BY <3>1, <3>3 DEF Begins
  <2> QED
    BY <2>1, <2>2 DEF LeaderLogs
<1>8. LogTerms'
  <2>1. ASSUME NEW n \in Node, NEW l \in survivors'[n], NEW i \in 1..Len(l)
        PROVE  l[i].term <= LeaderIdOf(vote'[n]).term
    <3>1. CASE l \in survivors[n]
      <4>1. l[i].term <= LeaderIdOf(vote[n]).term /\ l \in Seq(Entry)
        BY <3>1, <1>2 DEF BaseInv, LogTerms, Setting
      <4>2. l[i].term \in Nat
        BY <4>1, EntryIs
      <4> QED
        BY <4>1, <4>2, <1>1, VoteTerms
    <3>2. CASE l \notin survivors[n]
      BY <3>2, <1>1 DEF LogsMove
    <3> QED
      BY <3>1, <3>2
  <2> QED
    BY <2>1 DEF LogTerms
<1>9. CandidateLogs(K)'
  <2>1. ASSUME NEW n \in Node, role'[n] = "candidate"
        PROVE  LeaderIdOf(vote'[n]) \in ballots'[n] /\ K[LeaderIdOf(vote'[n])] = log'[n]
    <3>1. PICK id : id = LeaderIdOf(vote'[n])
      OBVIOUS
    <3>2. CASE role[n] = "candidate" /\ id = LeaderIdOf(vote[n]) /\ log'[n] = log[n]
      <4>1. id \in ballots[n] /\ H[id] = log[n]
        BY <3>2 DEF BaseInv, CandidateLogs
      <4> QED
        BY <4>1, <3>1, <3>2, <1>1 DEF SameLogs
    <3>3. CASE id \in ballots'[n] /\ K[id] = log'[n]
      BY <3>1, <3>3
    <3> QED
      BY <2>1, <3>1, <3>2, <3>3, <1>1 DEF CandidatesMove
  <2> QED
    BY <2>1 DEF CandidateLogs
<1>10. RequestLogs(K)'
  <2>1. ASSUME NEW c \in calls', c.kind = "vote", NEW v \in c.request.vote
        PROVE  /\ \E p \in Node : LeaderIdOf(v) \in ballots'[p]
               /\ OptFromPb(c.request.last_log_id) = LastLogId(K[LeaderIdOf(v)])
    <3>1. PICK id : id = LeaderIdOf(v)
      OBVIOUS
    <3>2. /\ \E p \in Node : id \in ballots[p]
          /\ OptFromPb(c.request.last_log_id) = LastLogId(H[id])
      BY <2>1, <3>1, <1>1 DEF RequestsMove, BaseInv, RequestLogs
    <3>3. PICK p \in Node : id \in ballots[p]
      BY <3>2
    <3>4. id \in ballots'[p] /\ K[id] = H[id]
      BY <3>3, <1>1 DEF SameLogs
    <3> QED
      BY <3>1, <3>2, <3>4
  <2> QED
    BY <2>1 DEF RequestLogs
<1>11. K \in [LeaderId -> Seq(Entry)]
  BY <1>1 DEF SameLogs
<1> QED
  BY <1>6, <1>7, <1>8, <1>9, <1>10, <1>11 DEF BaseInv

-----------------------------------------------------------------------------
(* The steps.                                                              *)

LEMMA QuietBallots ==
  ASSUME NEW F, NEW H, Setting(F, H), UNCHANGED ballots
  PROVE  SameLogs(H, H) /\ Casts(F, H, H) /\ BallotsMove(H)
<1>1. H \in [LeaderId -> Seq(Entry)]
  BY DEF Setting
<1> QED
  BY <1>1 DEF SameLogs, Casts, BallotsMove

LEMMA RequestsKept ==
  ASSUME NEW H, \A c \in calls' : c \in calls \/ c.kind # "vote"
  PROVE  RequestsMove(H)
BY DEF RequestsMove

LEMMA HandledRequests ==
  ASSUME IInv, NEW H, NEW c \in calls, NEW at, NEW r, Handled(c, at, r)
  PROVE  RequestsMove(H)
<1>e. PICK e : e = [c EXCEPT !.at = at, !.reply = r]
  OBVIOUS
<1>1. e.kind = c.kind /\ e.request = c.request
  <2> DEFINE A == {c.at, at}
             R == {c.reply, r}
  <2>1. c \in [client : Node \cup {Gone}, server : Node, kind : {"vote", "append"},
               request : {c.request}, at : A, reply : R]
    BY DEF IInv, CallsInv, IsCall
  <2> QED
    BY <2>1, <1>e, RecordUpdated
<1>2. \A d \in calls' : d \in calls \/ d = e
  BY <1>e DEF Handled
<1> QED
  BY <1>1, <1>2 DEF RequestsMove

\* A step that leaves votes, logs and roles, and on disk at most less than before.
LEMMA StillEffect ==
  ASSUME NEW F, NEW H, Setting(F, H), UNCHANGED <<vote, log, role, ballots, elected>>,
         \A p \in Node : survivors'[p] \subseteq survivors[p], RequestsMove(H)
  PROVE  Effect(F, H, H)
<1>1. VotesGrow /\ Spares(F, H)
  BY ShrinkSpares
<1>2. LogsMove /\ CandidatesMove(H) /\ ElectedMove(H)
  BY DEF LogsMove, CandidatesMove, ElectedMove
<1> QED
  BY <1>1, <1>2, QuietBallots DEF Effect

LEMMA WriteLogs ==
  ASSUME NEW F, NEW H, Setting(F, H), NEW n \in Node, NEW w, NEW q \in Seq(Entry), Write(n, w, q),
         \A i \in 1..Len(q) : q[i].term <= LeaderIdOf(w).term
  PROVE  LogsMove
<1>1. /\ vote \in [Node -> Votes] /\ survivors \in [Node -> SUBSET Seq(Entry)]
      /\ log \in [Node -> Seq(Entry)] /\ log[n] \in survivors[n]
  BY DEF Setting
<1>2. /\ vote'[n] = w
      /\ \A l \in survivors'[n] : l \in survivors[n] \/ l \in Puts(log[n], q)
      /\ \A p \in Node \ {n} : survivors'[p] = survivors[p]
  BY <1>1 DEF Write
<1>3. ASSUME NEW l \in Puts(log[n], q), NEW i \in 1..Len(l)
      PROVE  l[i].term <= LeaderIdOf(w).term
  <2>1. PICK j \in 0..Len(q) : l = SubSeq(q, 1, j)
    BY <1>1, PutsAre
  <2>2. Len(l) = j /\ \A m \in 1..j : l[m] = q[m]
    BY <2>1, PrefixIs
  <2>3. i \in 1..Len(q) /\ l[i] = q[i]
    BY <2>2
  <2> QED
    BY <2>3
<1>4. ASSUME NEW p \in Node, NEW l \in survivors'[p]
      PROVE  l \in survivors[p] \/ \A i \in 1..Len(l) : l[i].term <= LeaderIdOf(vote'[p]).term
  <2>1. CASE p = n
    BY <2>1, <1>2, <1>3
  <2>2. CASE p # n
    BY <2>2, <1>2
  <2> QED
    BY <2>1, <2>2
<1> QED
  BY <1>4 DEF LogsMove

LEMMA FollowCandidates ==
  ASSUME NEW F, NEW H, Setting(F, H), IInv, NEW n \in Node, NEW w, NEW q, Write(n, w, q), Follow(n, w),
         w = vote[n] /\ role[n] = "candidate" => q = log[n], NEW K
  PROVE  CandidatesMove(K)
<1>1. /\ vote \in [Node -> Votes] /\ log \in [Node -> Seq(Entry)]
      /\ role \in [Node -> {"follower", "candidate", "leader"}]
  BY DEF Setting, IInv, VotesInv
<1>2. /\ vote'[n] = w /\ log'[n] = q
      /\ \A p \in Node \ {n} : vote'[p] = vote[p] /\ log'[p] = log[p]
  BY <1>1 DEF Write
<1>3. ASSUME NEW p \in Node, role'[p] = "candidate"
      PROVE  role[p] = "candidate" /\ vote'[p] = vote[p] /\ log'[p] = log[p]
  <2>1. CASE w = vote[n]
    <3>1. role' = role
      BY <2>1 DEF Follow
    <3> QED
      BY <2>1, <3>1, <1>2, <1>3
  <2>2. CASE w # vote[n]
    <3>1. role' = [role EXCEPT ![n] = "follower"]
      BY <2>2 DEF Follow
    <3>2. p # n
      BY <3>1, <1>1, <1>3
    <3> QED
      BY <3>1, <3>2, <1>1, <1>2, <1>3
  <2> QED
    BY <2>1, <2>2
<1> QED
  BY <1>3 DEF CandidatesMove

\* A node takes over a vote that is not smaller, and leaves its log.
LEMMA SameLogWrite ==
  ASSUME IInv, NEW F, NEW H, MatchInv(F), BaseInv(F, H), NEW n \in Node, NEW w \in Votes,
         Write(n, w, log[n]), w = vote[n] \/ VoteGeq(w, vote[n])
  PROVE  VotesGrow /\ Spares(F, H) /\ LogsMove
<1>1. Setting(F, H)
  BY SettingIs
<1>2. log[n] \in Seq(Entry) /\ log[n] \in survivors[n] /\ vote[n] \in Votes
  BY <1>1 DEF Setting
<1>3. VotesGrow /\ Spares(F, H)
  BY <1>1, <1>2, WriteSpares
<1>4. ASSUME NEW i \in 1..Len(log[n])
      PROVE  log[n][i].term <= LeaderIdOf(w).term
  <2>1. log[n][i].term <= LeaderIdOf(vote[n]).term
    BY <1>2 DEF BaseInv, LogTerms
  <2>2. log[n][i].term \in Nat
    BY <1>2, EntryIs
  <2>3. LeaderIdOf(vote[n]).term \in Nat /\ LeaderIdOf(w).term \in Nat
    BY <1>2, LeaderIdIs DEF LeaderId
  <2>4. LeaderIdOf(vote[n]).term <= LeaderIdOf(w).term
    BY <2>3, <1>2, VoteGeqIs
  <2> QED
    BY <2>1, <2>2, <2>3, <2>4
<1>5. LogsMove
  BY <1>1, <1>2, <1>4, WriteLogs
<1> QED
  BY <1>3, <1>5

LEMMA TakeOverEffect ==
  ASSUME IInv, NEW F, NEW H, MatchInv(F), BaseInv(F, H), NEW n \in Node, NEW w \in Votes,
         Write(n, w, log[n]), Follow(n, w), w = vote[n] \/ VoteGeq(w, vote[n]),
         UNCHANGED <<ballots, elected>>, RequestsMove(H)
  PROVE  Effect(F, H, H)
<1>1. Setting(F, H)
  BY SettingIs
<1>2. VotesGrow /\ Spares(F, H) /\ LogsMove
  BY SameLogWrite
<1>3. CandidatesMove(H)
  BY <1>1, FollowCandidates
<1>4. ElectedMove(H)
  BY DEF ElectedMove
<1> QED
  BY <1>1, <1>2, <1>3, <1>4, QuietBallots DEF Effect

\* A node that campaigns votes for its own log: of what it holds, all is in that.
LEMMA CampaignEffect ==
  ASSUME IInv, NEW F, NEW H, MatchInv(F), BaseInv(F, H), NEW n \in Node, Campaign(n)
  PROVE  \E K : Effect(F, H, K)
<1> DEFINE l == LeaderIdOf(vote[n])
<1>1. Setting(F, H)
  BY SettingIs
<1>2. l \in LeaderId /\ vote[n] \in Votes /\ log[n] \in Seq(Entry) /\ H \in [LeaderId -> Seq(Entry)]
      /\ ballots \in [Node -> SUBSET LeaderId] /\ vote \in [Node -> Votes] /\ log \in [Node -> Seq(Entry)]
      /\ elected \in SUBSET LeaderId /\ role \in [Node -> {"follower", "candidate", "leader"}]
  BY <1>1, LeaderIdIs DEF Setting, IInv, VotesInv
<1>3. PICK x : x = [term |-> l.term + 1, node_id |-> n]
  OBVIOUS
<1>4. x \in LeaderId /\ x.node_id = n /\ x.term = l.term + 1 /\ x.term > l.term /\ l.term \in Nat
  <2>1. l.term + 1 \in 0..MaxTerm /\ l.term \in Nat
    BY <1>2, ClusterAssumption DEF LeaderId, Campaign, MyLeaderId
  <2> QED
    BY <2>1, <1>3 DEF LeaderId
<1>5. PICK K : K = [H EXCEPT ![x] = log[n]]
  OBVIOUS
<1>6. K \in [LeaderId -> Seq(Entry)] /\ K[x] = log[n] /\ \A y \in LeaderId : y # x => K[y] = H[y]
  BY <1>2, <1>4, <1>5
<1>7. ballots' = [ballots EXCEPT ![n] = @ \cup {x}] /\ Count(n, x, {n}) /\ calls' = calls
  BY <1>3 DEF Campaign, MyLeaderId
<1>8. ASSUME NEW p \in Node, NEW y \in ballots[p]
      PROVE  y # x
  <2>1. y.node_id \in Node /\ y \in ballots[y.node_id] /\ y \in LeaderId
    BY <1>2 DEF BaseInv, BallotLogs
  <2>2. CASE y.node_id = n
    <3>1. y.term <= l.term
      BY <2>1, <2>2, <1>4 DEF IInv, BallotsInv, Above, LeaderId
    <3> QED
      BY <3>1, <2>1, <1>4 DEF LeaderId
  <2>3. CASE y.node_id # n
    BY <2>3, <1>4
  <2> QED
    BY <2>2, <2>3
<1>9. /\ ballots'[n] = ballots[n] \cup {x}
      /\ \A p \in Node : p # n => ballots'[p] = ballots[p]
  BY <1>2, <1>7
<1>10. SameLogs(H, K)
  BY <1>2, <1>6, <1>8, <1>9 DEF SameLogs
<1>11. Casts(F, H, K)
  <2>1. ASSUME NEW id \in elected, NEW k \in Nat,
               \/ Agree(log[n], F[id], k)
               \/ Overruled(vote[n], elected, id, F[id], k, H)
        PROVE  \/ Agree(K[x], F[id], k)
               \/ \E y \in elected : Breaks(y, id, F[id], k, H) /\ y.term < x.term
    <3>1. CASE Agree(log[n], F[id], k)
      BY <3>1, <1>6
    <3>2. CASE Overruled(vote[n], elected, id, F[id], k, H)
      <4>1. PICK y \in elected : Breaks(y, id, F[id], k, H) /\ VoteGeq(vote[n], Lead(y))
        BY <3>2 DEF Overruled
      <4>2. y \in LeaderId /\ y.term \in Nat
        BY <1>2 DEF LeaderId
      <4>3. y.term <= l.term
        BY <4>1, <4>2, <1>2, VoteAboveLead
      <4> QED
        BY <4>1, <4>2, <4>3, <1>4
    <3> QED
      BY <2>1, <3>1, <3>2
  <2>2. \A p \in Node : \A y \in ballots'[p] \ ballots[p] : p = n /\ y = x
    BY <1>9
  <2> QED
    BY <2>1, <2>2 DEF Casts
<1>12. BallotsMove(K)
  BY <1>4, <1>6, <1>9 DEF BallotsMove
<1> DEFINE wins == HasQuorum({n})
<1>13. wins \in BOOLEAN
  BY DEF HasQuorum
<1>14. PICK w : w = FromLeaderId(x, wins)
  OBVIOUS
<1>15. w \in Votes /\ LeaderIdOf(w) = x
  BY <1>4, <1>13, <1>14, FromLeaderIdIs
<1>16. /\ Write(n, w, log[n])
       /\ role' = [role EXCEPT ![n] = IF wins THEN "leader" ELSE "candidate"]
       /\ elected' = elected \cup IF wins THEN {x} ELSE {}
  BY <1>7, <1>14 DEF Count
<1>17. VoteGeq(w, vote[n])
  BY <1>2, <1>4, <1>15, VoteGeqIs
<1> HIDE DEF wins
<1>18. VotesGrow /\ Spares(F, H) /\ LogsMove
  BY <1>15, <1>16, <1>17, SameLogWrite
<1>19. ElectedMove(K)
  BY <1>4, <1>6, <1>16 DEF ElectedMove
<1>20. CandidatesMove(K)
  <2>1. vote'[n] = w /\ log'[n] = log[n] /\ \A p \in Node : p # n => vote'[p] = vote[p] /\ log'[p] = log[p]
    BY <1>2, <1>16 DEF Write
  <2>2. \A p \in Node : p # n => role'[p] = role[p]
    BY <1>2, <1>16
  <2> QED
    BY <2>1, <2>2, <1>6, <1>9, <1>15 DEF CandidatesMove
<1>21. RequestsMove(H)
  BY <1>7, RequestsKept
<1> QED
  BY <1>10, <1>11, <1>12, <1>18, <1>19, <1>20, <1>21 DEF Effect

LEMMA RequestVoteEffect ==
  ASSUME IInv, NEW F, NEW H, MatchInv(F), BaseInv(F, H), NEW n \in Node, NEW m \in Node,
         RequestVote(n, m)
  PROVE  Effect(F, H, H)
<1>1. Setting(F, H)
  BY SettingIs
<1>2. UNCHANGED <<vote, log, survivors, role, ballots, elected>> /\ role[n] = "candidate"
  BY DEF RequestVote, nodeVars, historyVars
<1>3. log[n] \in Seq(Entry) /\ Len(log[n]) \in Nat
  BY <1>1 DEF Setting
<1> DEFINE x == LeaderIdOf(vote[n])
           r == VoteRequestToPb([vote |-> vote[n], last_log_id |-> LastLogId(log[n])])
<1>4. r.vote = {vote[n]} /\ r.last_log_id = OptToPb(LastLogId(log[n]))
  BY DEF VoteRequestToPb
<1>5. \A c \in calls' : c \in calls \/ c.request = r
  BY DEF RequestVote, Send
<1> HIDE DEF r
<1>6. OptFromPb(r.last_log_id) = LastLogId(log[n])
  BY <1>3, <1>4, LogIdRoundTrip DEF LastLogId
<1>7. x \in ballots[n] /\ H[x] = log[n]
  BY <1>2 DEF BaseInv, CandidateLogs
<1>8. RequestsMove(H)
  BY <1>4, <1>5, <1>6, <1>7 DEF RequestsMove
<1> QED
  BY <1>1, <1>2, <1>8, StillEffect

\* A node that grants its vote holds nothing that the candidate lacks, unless a leader
\* before that candidate lacks it.
LEMMA HandleVoteEffect ==
  ASSUME IInv, NEW F, NEW H, MatchInv(F), BaseInv(F, H), NEW c \in calls, HandleVote(c)
  PROVE  Effect(F, H, H)
<1> DEFINE n == c.server
<1>1. IsCall(c) /\ VoteCall(c, ballots) /\ c.kind = "vote"
  BY DEF IInv, CallsInv, HandleVote
<1>2. PICK req \in VoteRequestFromPb(c.request) :
        LET grant == Grants(n, req)
            v     == IF grant THEN req.vote ELSE vote[n]
        IN  /\ Write(n, v, log[n])
            /\ Follow(n, v)
            /\ ballots' = [ballots EXCEPT ![n] =
                             @ \cup IF grant THEN req.vote.leader_id ELSE {}]
            /\ Answer(c, VoteResponseToPb(
                 [vote |-> v, vote_granted |-> grant, last_log_id |-> LastLogId(log[n])]))
            /\ UNCHANGED <<commit, faults, elected, chosen>>
  BY DEF HandleVote
<1>3. n \in Node /\ req.vote \in Votes /\ req.vote \in c.request.vote /\ ~req.vote.committed
      /\ req.last_log_id = OptFromPb(c.request.last_log_id)
  BY <1>1, <1>2 DEF IsCall, VoteCall, VoteRequestFromPb
<1>4. Setting(F, H)
  BY SettingIs
<1>5. PICK v : v = IF Grants(n, req) THEN req.vote ELSE vote[n]
  OBVIOUS
<1>6. v \in Votes /\ (v = vote[n] \/ VoteGeq(v, vote[n])) /\ vote[n] \in Votes
  BY <1>3, <1>4, <1>5 DEF Grants, Setting
<1>7. Write(n, v, log[n]) /\ Follow(n, v) /\ UNCHANGED elected
  BY <1>2, <1>5
<1>8. RequestsMove(H)
  BY <1>2, HandledRequests DEF Answer
<1>9. VotesGrow /\ Spares(F, H) /\ LogsMove
  BY <1>3, <1>6, <1>7, SameLogWrite
<1>10. CandidatesMove(H)
  BY <1>3, <1>4, <1>7, FollowCandidates
<1>11. ElectedMove(H)
  BY <1>7 DEF ElectedMove
<1>12. PICK x : x = LeaderIdOf(req.vote)
  OBVIOUS
<1>13. /\ req.vote.leader_id = {x} /\ x \in LeaderId
       /\ (\E p \in Node : x \in ballots[p]) /\ req.last_log_id = LastLogId(H[x])
  BY <1>1, <1>3, <1>12, LeaderIdIs DEF BaseInv, RequestLogs
<1>14. /\ ballots \in [Node -> SUBSET LeaderId] /\ H \in [LeaderId -> Seq(Entry)]
       /\ elected \in SUBSET LeaderId
  BY <1>4 DEF Setting
<1>15. /\ \A p \in Node : ballots[p] \subseteq ballots'[p]
       /\ \A p \in Node : \A y \in ballots'[p] \ ballots[p] : p = n /\ y = x /\ Grants(n, req)
  BY <1>2, <1>3, <1>13, <1>14
<1>16. SameLogs(H, H)
  BY <1>14, <1>15 DEF SameLogs
<1>17. BallotsMove(H)
  BY <1>13, <1>15 DEF BallotsMove
<1>18. ASSUME NEW id \in elected, NEW k \in Nat, Own(id, F[id], k), x.term > id.term, Grants(n, req),
              \/ Agree(log[n], F[id], k)
              \/ Overruled(vote[n], elected, id, F[id], k, H)
       PROVE  \/ Agree(H[x], F[id], k)
              \/ \E y \in elected : Breaks(y, id, F[id], k, H) /\ y.term < x.term
  <2>1. CASE Agree(log[n], F[id], k)
    <3>1. Sound(log[n], elected, F)
      BY <1>3, <1>4 DEF Setting
    <3>2. Sound(H[x], elected, F) /\ \A i \in 1..Len(H[x]) : H[x][i].term < x.term
      BY <1>13, <1>4 DEF Setting
    <3>3. LogIdGeq(LastLogId(H[x]), LastLogId(log[n]))
      BY <1>13, <1>18 DEF Grants
    <3> QED
      BY <2>1, <3>1, <3>2, <3>3, <1>4, <1>18, GrantHolds
  <2>2. CASE Overruled(vote[n], elected, id, F[id], k, H)
    <3>1. PICK y \in elected : Breaks(y, id, F[id], k, H) /\ VoteGeq(vote[n], Lead(y))
      BY <2>2 DEF Overruled
    <3>2. y \in LeaderId /\ Lead(y) \in Votes
      BY <1>14, LeadIs
    <3>3. VoteGeq(req.vote, Lead(y))
      BY <3>1, <3>2, <1>3, <1>6, <1>18, VoteGeqTransitive DEF Grants
    <3>4. y.term < x.term
      BY <3>2, <3>3, <1>3, <1>12, VoteAboveLead
    <3> QED
      BY <3>1, <3>4
  <2> QED
    BY <1>18, <2>1, <2>2
<1>19. Casts(F, H, H)
  BY <1>15, <1>18 DEF Casts
<1> QED
  BY <1>8, <1>9, <1>10, <1>11, <1>16, <1>17, <1>19 DEF Effect

LEMMA VoteReplyEffect ==
  ASSUME IInv, NEW F, NEW H, MatchInv(F), BaseInv(F, H), NEW c \in calls, VoteReply(c)
  PROVE  Effect(F, H, H)
<1>1. IsCall(c) /\ VoteCall(c, ballots) /\ c.kind = "vote" /\ c.at = "answered" /\ calls' = calls \ {c}
      /\ UNCHANGED ballots
  BY DEF IInv, CallsInv, VoteReply
<1> DEFINE n == c.client
<1>2. n \in Node
  BY <1>1 DEF IsCall
<1>3. PICK p \in c.reply : \E resp \in VoteResponseFromPb(p) :
        LET stale == role[n] # "candidate" \/ c.request.vote # {vote[n]}
        IN  \/ /\ resp.vote_granted /\ ~stale
               /\ Count(n, MyLeaderId(n), granted[n] \cup {c.server})
               /\ UNCHANGED matched
            \/ /\ resp.vote_granted /\ stale
               /\ UNCHANGED <<vote, log, survivors, role, granted, matched, elected>>
            \/ /\ ~resp.vote_granted
               /\ TakeOver(n, resp.vote)
               /\ UNCHANGED elected
  BY DEF VoteReply
<1>4. PICK resp \in VoteResponseFromPb(p) :
        \/ /\ role[n] = "candidate"
           /\ Count(n, MyLeaderId(n), granted[n] \cup {c.server})
        \/ UNCHANGED <<vote, log, survivors, role, granted, matched, elected>>
        \/ TakeOver(n, resp.vote) /\ UNCHANGED elected
  BY <1>3
<1>5. Setting(F, H)
  BY SettingIs
<1>6. RequestsMove(H)
  BY <1>1, RequestsKept
<1>7. CASE role[n] = "candidate" /\ Count(n, MyLeaderId(n), granted[n] \cup {c.server})
  <2>1. PICK x : x = LeaderIdOf(vote[n])
    OBVIOUS
  <2> DEFINE wins == HasQuorum(granted[n] \cup {c.server})
  <2>2. wins \in BOOLEAN
    BY DEF HasQuorum
  <2>3. PICK w : w = FromLeaderId(x, wins)
    OBVIOUS
  <2>4. vote[n] \in Votes /\ x \in LeaderId /\ ~vote[n].committed
    BY <2>1, <1>2, <1>5, <1>7, LeaderIdIs DEF Setting, IInv, CandidatesInv
  <2>5. w \in Votes /\ LeaderIdOf(w) = x /\ VoteGeq(w, vote[n])
    BY <2>1, <2>2, <2>3, <2>4, FromLeaderIdIs, VoteGeqIs
  <2>6. /\ Write(n, w, log[n])
        /\ role' = [role EXCEPT ![n] = IF wins THEN "leader" ELSE "candidate"]
        /\ elected' = elected \cup IF wins THEN {x} ELSE {}
    BY <2>1, <2>3, <1>7 DEF Count, MyLeaderId
  <2> HIDE DEF wins
  <2>7. VotesGrow /\ Spares(F, H) /\ LogsMove
    BY <2>5, <2>6, <1>2, SameLogWrite
  <2>8. RoleInv(n, F)
    BY <1>2 DEF MatchInv, RolesInv
  <2>9. x.node_id = n /\ H[x] = log[n]
    BY <2>1, <2>8, <1>2, <1>7 DEF RoleInv, BaseInv, CandidateLogs
  <2>10. ElectedMove(H)
    BY <2>6, <2>9 DEF ElectedMove
  <2>11. CandidatesMove(H)
    <3>1. /\ vote \in [Node -> Votes] /\ log \in [Node -> Seq(Entry)]
          /\ role \in [Node -> {"follower", "candidate", "leader"}]
      BY <1>5 DEF Setting, IInv, VotesInv
    <3>2. /\ vote'[n] = w /\ log'[n] = log[n]
          /\ \A q \in Node : q # n => vote'[q] = vote[q] /\ log'[q] = log[q] /\ role'[q] = role[q]
      BY <2>6, <3>1, <1>2 DEF Write
    <3> QED
      BY <3>2, <2>1, <2>5, <1>7 DEF CandidatesMove
  <2> QED
    BY <2>7, <2>10, <2>11, <1>1, <1>5, <1>6, QuietBallots DEF Effect
<1>8. CASE UNCHANGED <<vote, log, survivors, role, granted, matched, elected>>
  BY <1>1, <1>5, <1>6, <1>8, StillEffect
<1>9. CASE TakeOver(n, resp.vote) /\ UNCHANGED elected
  <2> DEFINE w == IF VoteGeq(resp.vote, vote[n]) THEN resp.vote ELSE vote[n]
  <2>1. resp.vote \in Votes
    BY <1>1, <1>3, <1>4 DEF VoteCall, VoteResponseFromPb
  <2>2. w \in Votes /\ (w = vote[n] \/ VoteGeq(w, vote[n]))
    BY <2>1, <1>2 DEF IInv, VotesInv
  <2>3. Write(n, w, log[n]) /\ Follow(n, w)
    BY <1>9 DEF TakeOver
  <2> HIDE DEF w
  <2> QED
    BY <2>2, <2>3, <1>1, <1>2, <1>6, <1>9, TakeOverEffect
<1> QED
  BY <1>4, <1>7, <1>8, <1>9

LEMMA LeaderAppendEffect ==
  ASSUME IInv, NEW F, NEW H, MatchInv(F), BaseInv(F, H), NEW n \in Node, LeaderAppend(n)
  PROVE  Effect(F, H, H)
<1>1. Setting(F, H)
  BY SettingIs
<1>2. PICK x : x = LeaderIdOf(vote[n])
  OBVIOUS
<1>3. PICK e : e = [term |-> x.term, index |-> Len(log[n]) + 1]
  OBVIOUS
<1>4. PICK q : q = Append(log[n], e)
  OBVIOUS
<1>5. Write(n, vote[n], q) /\ UNCHANGED <<role, calls, ballots, elected>>
  BY <1>2, <1>3, <1>4 DEF LeaderAppend, MyLeaderId, historyVars
<1>6. vote[n] \in Votes /\ log[n] \in Seq(Entry) /\ x \in LeaderId /\ log[n] \in survivors[n]
      /\ vote \in [Node -> Votes] /\ log \in [Node -> Seq(Entry)] /\ F \in [LeaderId -> Seq(Entry)]
  BY <1>1, <1>2, LeaderIdIs DEF Setting
<1>7. e \in Entry /\ e.term = x.term /\ x.term \in Nat
  BY <1>3, <1>6 DEF LeaderId, Entry
<1>8. /\ q \in Seq(Entry) /\ Len(q) = Len(log[n]) + 1 /\ q[Len(log[n]) + 1] = e
      /\ \A j \in 1..Len(log[n]) : q[j] = log[n][j]
  BY <1>4, <1>6, <1>7, AppendIs
<1>9. Begins(log[n], q)
  BY <1>6, <1>8 DEF Begins
<1>10. ASSUME NEW id \in elected, NEW k \in Nat, Agree(log[n], F[id], k)
       PROVE  Agree(q, F[id], k)
  <2>1. F[id] \in Seq(Entry)
    BY <1>1 DEF Setting
  <2>2. k <= Len(log[n])
    BY <2>1, <1>6, <1>10, AgreeIs
  <2> QED
    BY <2>2, <1>6, <1>8, <1>9, <1>10, AgreeBegins, AgreeTrans
<1>11. VotesGrow /\ Spares(F, H)
  BY <1>1, <1>5, <1>6, <1>8, <1>10, WriteSpares
<1>12. ASSUME NEW i \in 1..Len(q)
       PROVE  q[i].term <= LeaderIdOf(vote[n]).term
  <2>1. CASE i \in 1..Len(log[n])
    <3>1. log[n][i].term <= LeaderIdOf(vote[n]).term
      BY <2>1, <1>6 DEF BaseInv, LogTerms
    <3> QED
      BY <2>1, <3>1, <1>8
  <2>2. CASE i \notin 1..Len(log[n])
    <3>1. i = Len(log[n]) + 1
      BY <2>2, <1>6, <1>8
    <3> QED
      BY <3>1, <1>2, <1>7, <1>8
  <2> QED
    BY <2>1, <2>2
<1>13. LogsMove
  BY <1>1, <1>5, <1>8, <1>12, WriteLogs
<1>14. CandidatesMove(H)
  <2>1. vote' = vote /\ \A p \in Node : p # n => log'[p] = log[p]
    BY <1>5, <1>6 DEF Write
  <2>2. role[n] # "candidate"
    BY DEF LeaderAppend
  <2> QED
    BY <2>1, <2>2, <1>5 DEF CandidatesMove
<1>15. ElectedMove(H) /\ RequestsMove(H)
  BY <1>5, RequestsKept DEF ElectedMove
<1> QED
  BY <1>1, <1>5, <1>11, <1>13, <1>14, <1>15, QuietBallots DEF Effect

LEMMA SendAppendEffect ==
  ASSUME IInv, NEW F, NEW H, MatchInv(F), BaseInv(F, H), NEW n \in Node, NEW m \in Node,
         NEW i \in 0..MaxIndex, SendAppend(n, m, i)
  PROVE  Effect(F, H, H)
<1>1. Setting(F, H)
  BY SettingIs
<1>2. UNCHANGED <<vote, log, survivors, role, ballots, elected>>
  BY DEF SendAppend, nodeVars, historyVars
<1>3. \A c \in calls' : c \in calls \/ c.kind # "vote"
  <2>1. PICK r : calls' = calls \cup {[client |-> n, server |-> m, kind |-> "append",
                                       request |-> r, at |-> "sent", reply |-> {}]}
    BY DEF SendAppend, Send
  <2> QED
    BY <2>1
<1> QED
  BY <1>1, <1>2, <1>3, RequestsKept, StillEffect

LEMMA LostEffect ==
  ASSUME IInv, NEW F, NEW H, MatchInv(F), BaseInv(F, H), NEW c \in calls, Lose(c) \/ GiveUp(c)
  PROVE  Effect(F, H, H)
<1>1. Setting(F, H)
  BY SettingIs
<1>2. UNCHANGED <<vote, log, survivors, role, ballots, elected>>
  BY DEF Lose, GiveUp, nodeVars, historyVars
<1>e. PICK e : e = [c EXCEPT !.client = Gone]
  OBVIOUS
<1>3. e.kind = c.kind /\ e.request = c.request
  <2>1. IsCall(c)
    BY DEF IInv, CallsInv
  <2> QED
    BY <2>1, <1>e DEF IsCall
<1>4. \A d \in calls' : d \in calls \/ d = e
  BY <1>e DEF Lose, GiveUp
<1>5. RequestsMove(H)
  BY <1>3, <1>4 DEF RequestsMove
<1> QED
  BY <1>1, <1>2, <1>5, StillEffect

LEMMA FlushEffect ==
  ASSUME IInv, NEW F, NEW H, MatchInv(F), BaseInv(F, H), NEW n \in Node, Flush(n)
  PROVE  Effect(F, H, H)
<1>1. Setting(F, H)
  BY SettingIs
<1>2. UNCHANGED <<vote, log, role, ballots, elected>>
  BY DEF Flush
<1>3. \A p \in Node : survivors'[p] \subseteq survivors[p]
  <2>1. survivors' = [survivors EXCEPT ![n] = {log[n]}]
    BY DEF Flush
  <2> QED
    BY <2>1, <1>1 DEF Setting
<1> DEFINE told == {c \in calls : c.server = n /\ c.at = "flushing"}
           answer(c) == [c EXCEPT !.at = "answered", !.reply = {AppendResponseToPb(Success)}]
<1>4. \A d \in calls' : d \in calls \/ \E c \in told : d = answer(c)
  BY DEF Flush
<1>5. ASSUME NEW c \in told
      PROVE  answer(c).kind = c.kind /\ answer(c).request = c.request /\ c \in calls
  <2>1. IsCall(c)
    BY DEF IInv, CallsInv
  <2> DEFINE A == {c.at, "answered"}
             R == {c.reply, {AppendResponseToPb(Success)}}
  <2>2. c \in [client : Node \cup {Gone}, server : Node, kind : {"vote", "append"},
               request : {c.request}, at : A, reply : R]
    BY <2>1 DEF IsCall
  <2> QED
    BY <2>2, RecordUpdated
<1> HIDE DEF answer, told
<1>6. RequestsMove(H)
  BY <1>4, <1>5 DEF RequestsMove
<1> QED
  BY <1>1, <1>2, <1>3, <1>6, StillEffect

LEMMA CrashEffect ==
  ASSUME IInv, NEW F, NEW H, MatchInv(F), BaseInv(F, H), NEW n \in Node, Crash(n)
  PROVE  Effect(F, H, H)
<1>1. Setting(F, H)
  BY SettingIs
<1>2. /\ log \in [Node -> Seq(Entry)] /\ survivors \in [Node -> SUBSET Seq(Entry)]
      /\ role \in [Node -> {"follower", "candidate", "leader"}]
  BY <1>1 DEF Setting, IInv, VotesInv
<1>3. PICK l \in survivors[n] :
        log' = [log EXCEPT ![n] = l] /\ survivors' = [survivors EXCEPT ![n] = {l}]
  BY DEF Crash
<1>4. /\ role' = [role EXCEPT ![n] = "follower"] /\ UNCHANGED <<vote, elected, ballots>>
      /\ calls' \subseteq calls /\ \A c \in calls' : c.server # n
  BY DEF Crash, historyVars
<1>5. /\ \A p \in Node : survivors'[p] \subseteq survivors[p]
      /\ \A p \in Node : p # n => log'[p] = log[p] /\ role'[p] = role[p]
      /\ role'[n] = "follower"
  BY <1>2, <1>3, <1>4
<1>6. VotesGrow /\ Spares(F, H)
  BY <1>4, <1>5, ShrinkSpares
<1>7. LogsMove /\ CandidatesMove(H) /\ ElectedMove(H)
  BY <1>4, <1>5 DEF LogsMove, CandidatesMove, ElectedMove
<1>8. RequestsMove(H)
  BY <1>4, RequestsKept
<1> QED
  BY <1>1, <1>4, <1>6, <1>7, <1>8, QuietBallots DEF Effect

LEMMA AppendReplyEffect ==
  ASSUME IInv, NEW F, NEW H, MatchInv(F), BaseInv(F, H), NEW c \in calls, AppendReply(c)
  PROVE  Effect(F, H, H)
<1>1. /\ IsCall(c) /\ AppendCall(c) /\ c.kind = "append" /\ c.at = "answered"
      /\ calls' = calls \ {c} /\ UNCHANGED <<ballots, elected>>
  BY DEF IInv, CallsInv, AppendReply
<1> DEFINE n == c.client
<1>2. n \in Node
  BY <1>1 DEF IsCall
<1>3. PICK p \in c.reply :
        LET resp == AppendResponseFromPb(p) IN
        \/ resp.is = "HigherVote" /\ TakeOver(n, resp.vote)
        \/ UNCHANGED <<vote, log, survivors, role>>
  BY DEF AppendReply, nodeVars
<1> DEFINE resp == AppendResponseFromPb(p)
<1>4. Setting(F, H) /\ RequestsMove(H)
  BY <1>1, SettingIs, RequestsKept
<1>5. CASE resp.is = "HigherVote" /\ TakeOver(n, resp.vote)
  <2>1. p.rejected_by # {}
    BY <1>5 DEF AppendResponseFromPb, HigherVote, Conflict, PartialSuccess, Success
  <2>2. resp.vote \in p.rejected_by
    BY <2>1 DEF AppendResponseFromPb, HigherVote
  <2>3. resp.vote \in Votes
    BY <2>2, <1>1, <1>3 DEF AppendCall
  <2> DEFINE w == IF VoteGeq(resp.vote, vote[n]) THEN resp.vote ELSE vote[n]
  <2> HIDE DEF resp
  <2>4. w \in Votes /\ (w = vote[n] \/ VoteGeq(w, vote[n]))
    BY <1>2, <2>3 DEF IInv, VotesInv
  <2>5. Write(n, w, log[n]) /\ Follow(n, w)
    BY <1>5 DEF TakeOver
  <2> HIDE DEF w
  <2> QED
    BY <2>4, <2>5, <1>1, <1>2, <1>4, TakeOverEffect
<1>6. CASE UNCHANGED <<vote, log, survivors, role>>
  BY <1>1, <1>4, <1>6, StillEffect
<1> QED
  BY <1>3, <1>5, <1>6

\* The leader that a node follows is the one whose entries it holds, or a later one.
LEMMA TookIs ==
  ASSUME IInv, NEW F, NEW H, MatchInv(F), BaseInv(F, H), NEW c \in calls,
         NEW v \in Votes, NEW q, Took(c, v, q, F)
  PROVE  /\ c.server \in Node /\ v = Lead(LeaderIdOf(v)) /\ LeaderIdOf(v) \in elected
         /\ vote[c.server] \in Votes /\ VoteGeq(v, vote[c.server])
         /\ q \in Seq(Entry)
         /\ \A i \in 1..Len(q) : q[i].term <= LeaderIdOf(v).term
         /\ \A id \in elected : VoteGeq(vote[c.server], Lead(id)) =>
              id = LeaderIdOf(v) \/ id.term < LeaderIdOf(v).term
         /\ \A a \in Nat : Agree(log[c.server], F[LeaderIdOf(v)], a) => Agree(q, F[LeaderIdOf(v)], a)
<1>1. PICK n : n = c.server
  OBVIOUS
<1>2. PICK y : y = LeaderIdOf(v)
  OBVIOUS
<1>3. Setting(F, H)
  BY SettingIs
<1>4. /\ n \in Node /\ v.committed /\ y \in elected /\ y \in LeaderId /\ y.term \in Nat
      /\ VoteGeq(v, vote[n]) /\ vote[n] \in Votes /\ v = Lead(y)
  <2>1. Reports(c, v, F) /\ IsCall(c)
    BY DEF Took, IInv, CallsInv
  <2>2. n \in Node /\ v.committed /\ y \in elected
    BY <2>1, <1>1, <1>2 DEF Reports, IsCall
  <2> QED
    BY <2>2, <1>1, <1>2, <1>3, LeadOfVote DEF Setting, Took, LeaderId
<1>5. q \in Seq(Entry) /\ log[n] \in Seq(Entry) /\ F[y] \in Seq(Entry)
  BY <1>3, <1>4 DEF Setting, Took, Sound, IsLog
<1>6. ASSUME NEW id \in elected, VoteGeq(vote[n], Lead(id))
      PROVE  id = y \/ id.term < y.term
  <2>1. id \in LeaderId /\ Lead(id) \in Votes
    BY <1>3, LeadIs DEF Setting
  <2>2. VoteGeq(v, Lead(id))
    BY <2>1, <1>4, <1>6, VoteGeqTransitive
  <2> QED
    BY <2>1, <2>2, <1>2, <1>4, VoteAboveLead
<1>7. ASSUME NEW i \in 1..Len(q)
      PROVE  q[i].term <= y.term
  <2>t. \A j \in 1..Len(log[n]) : log[n][j].term <= y.term
    <3>1. ASSUME NEW j \in 1..Len(log[n])
          PROVE  log[n][j].term <= y.term
      <4>1. log[n][j].term <= LeaderIdOf(vote[n]).term
        BY <1>3, <1>4 DEF BaseInv, LogTerms, Setting
      <4>2. LeaderIdOf(vote[n]).term <= y.term /\ LeaderIdOf(vote[n]).term \in Nat
        BY <1>2, <1>4, VoteGeqIs, LeaderIdIs DEF LeaderId
      <4>3. log[n][j].term \in Nat
        BY <1>5, EntryIs
      <4> QED
        BY <4>1, <4>2, <4>3, <1>4
    <3> QED
      BY <3>1
  <2>1. \/ \E j \in 0..Len(log[n]) : q = SubSeq(log[n], 1, j)
        \/ q = log[n]
        \/ Agree(q, F[y], Len(q))
    BY <1>1, <1>2 DEF Took
  <2>2. CASE \E j \in 0..Len(log[n]) : q = SubSeq(log[n], 1, j)
    <3>1. PICK j \in 0..Len(log[n]) : q = SubSeq(log[n], 1, j)
      BY <2>2
    <3>2. Len(q) = j /\ \A m \in 1..j : q[m] = log[n][m]
      BY <3>1, <1>5, PrefixIs
    <3>3. i \in 1..Len(log[n]) /\ q[i] = log[n][i]
      BY <3>2
    <3> QED
      BY <3>3, <2>t
  <2>3. CASE q = log[n]
    BY <2>3, <2>t
  <2>4. CASE Agree(q, F[y], Len(q))
    <3>1. Len(q) \in Nat
      BY <1>5
    <3>2. i \in 1..Len(F[y]) /\ q[i] = F[y][i]
      BY <2>4, <3>1, <1>5, AgreeIs
    <3> QED
      BY <3>2, <1>3, <1>4 DEF Setting, IsLeaderLog
  <2> QED
    BY <2>1, <2>2, <2>3, <2>4
<1>8. \A a \in Nat : Agree(log[n], F[y], a) => Agree(q, F[y], a)
  BY <1>1, <1>2 DEF Took
<1> QED
  BY <1>1, <1>2, <1>4, <1>5, <1>6, <1>7, <1>8

\* What a node holds of a leader a later leader has too, or that one may be followed without.
LEMMA TookEffect ==
  ASSUME IInv, NEW F, NEW H, MatchInv(F), BaseInv(F, H), NEW c \in calls, c.kind = "append",
         NEW v \in Votes, NEW q, Took(c, v, q, F), UNCHANGED <<ballots, elected>>
  PROVE  Effect(F, H, H)
<1>1. PICK n : n = c.server
  OBVIOUS
<1>2. PICK y : y = LeaderIdOf(v)
  OBVIOUS
<1>3. Setting(F, H)
  BY SettingIs
<1>4. /\ n \in Node /\ v = Lead(y) /\ y \in elected /\ y \in LeaderId
      /\ vote[n] \in Votes /\ VoteGeq(v, vote[n]) /\ q \in Seq(Entry)
      /\ \A i \in 1..Len(q) : q[i].term <= LeaderIdOf(v).term
      /\ \A id \in elected : VoteGeq(vote[n], Lead(id)) => id = y \/ id.term < y.term
      /\ \A a \in Nat : Agree(log[n], F[y], a) => Agree(q, F[y], a)
  <2>1. elected \in SUBSET LeaderId
    BY <1>3 DEF Setting
  <2> QED
    BY <2>1, <1>1, <1>2, TookIs
<1>5. Write(n, v, q) /\ Follow(n, v)
  BY <1>1 DEF Took
<1>6. ASSUME NEW id \in elected, NEW k \in Nat, Own(id, F[id], k), VoteGeq(vote[n], Lead(id)),
             Agree(log[n], F[id], k), ~Overruled(v, elected, id, F[id], k, H)
      PROVE  Agree(q, F[id], k)
  <2>1. CASE id = y
    BY <2>1, <1>4, <1>6
  <2>2. CASE id # y
    <3>1. y.term > id.term /\ id.term \in Nat /\ y.term \in Nat
      BY <2>2, <1>3, <1>4, <1>6 DEF Setting
    <3>2. VoteGeq(v, Lead(y))
      BY <1>2, <1>4, LeadIs, VoteGeqIs
    <3>3. Agree(H[y], F[id], k)
      BY <3>1, <3>2, <1>4, <1>6 DEF Overruled, Breaks
    <3>4. H[y] \in Seq(Entry) /\ F[y] \in Seq(Entry) /\ Begins(H[y], F[y]) /\ F[id] \in Seq(Entry)
      BY <1>3, <1>4 DEF Setting, IsLeaderLog
    <3>5. k <= Len(H[y])
      BY <3>3, <3>4, AgreeIs
    <3>6. Agree(F[y], F[id], k)
      BY <3>3, <3>4, <3>5, AgreeBegins, AgreeTrans
    <3>7. Agree(F[id], F[y], k)
      BY <3>6, AgreeSym
    <3>8. Agree(log[n], F[y], k)
      BY <3>7, <1>6, AgreeTrans
    <3>9. Agree(q, F[y], k)
      BY <3>8, <1>4
    <3> QED
      BY <3>6, <3>9, AgreeTrans
  <2> QED
    BY <2>1, <2>2
<1>7. VotesGrow /\ Spares(F, H)
  <2>1. \A id \in elected, k \in Nat :
           Own(id, F[id], k) /\ VoteGeq(vote[n], Lead(id)) /\ Agree(log[n], F[id], k) =>
             Agree(q, F[id], k) \/ Overruled(v, elected, id, F[id], k, H)
    BY <1>6
  <2> QED
    BY <2>1, <1>3, <1>4, <1>5, WriteSpares
<1>8. LogsMove
  BY <1>3, <1>4, <1>5, WriteLogs
<1>9. CandidatesMove(H)
  <2>1. role[n] = "candidate" => v # vote[n]
    BY <1>4, LeadIs DEF IInv, CandidatesInv
  <2> QED
    BY <2>1, <1>3, <1>4, <1>5, FollowCandidates
<1>10. RequestsMove(H)
  <2>1. PICK at, r : Handled(c, at, r)
    BY DEF Took
  <2> QED
    BY <2>1, HandledRequests
<1>11. ElectedMove(H)
  BY DEF ElectedMove
<1> QED
  BY <1>3, <1>7, <1>8, <1>9, <1>10, <1>11, QuietBallots DEF Effect

LEMMA HandleAppendEffect ==
  ASSUME IInv, NEW F, NEW H, MatchInv(F), BaseInv(F, H), NEW c \in calls, HandleAppend(c)
  PROVE  Effect(F, H, H)
<1>1. c.kind = "append" /\ UNCHANGED <<ballots, elected>>
  BY DEF HandleAppend, historyVars
<1>2. CASE Refused(c)
  <2>1. PICK v : Handled(c, "answered", {v})
    BY <1>2 DEF Refused, Answer
  <2>2. RequestsMove(H)
    BY <2>1, HandledRequests
  <2>3. Setting(F, H) /\ UNCHANGED <<vote, log, survivors, role>>
    BY <1>2, SettingIs DEF Refused, nodeVars
  <2> QED
    BY <2>2, <2>3, <1>1, StillEffect
<1>3. CASE \E v \in Votes : \E q : Took(c, v, q, F)
  BY <1>1, <1>3, TookEffect
<1> QED
  BY <1>2, <1>3, HandleAppendIs

\* Each step, and the candidates' logs after it.
LEMMA EffectOfStep ==
  ASSUME IInv, NEW F, NEW H, MatchInv(F), BaseInv(F, H), [Next]_vars
  PROVE  \E K : Effect(F, H, K)
<1>1. ASSUME NEW n \in Node, Campaign(n) \/ LeaderAppend(n) \/ Flush(n) \/ Crash(n)
      PROVE  \E K : Effect(F, H, K)
  BY <1>1, CampaignEffect, LeaderAppendEffect, FlushEffect, CrashEffect
<1>2. ASSUME NEW n \in Node, NEW m \in Node,
             RequestVote(n, m) \/ \E i \in 0..MaxIndex : SendAppend(n, m, i)
      PROVE  \E K : Effect(F, H, K)
  BY <1>2, RequestVoteEffect, SendAppendEffect
<1>3. ASSUME NEW c \in calls,
             \/ HandleVote(c) \/ VoteReply(c) \/ HandleAppend(c) \/ AppendReply(c)
             \/ Lose(c) \/ GiveUp(c)
      PROVE  \E K : Effect(F, H, K)
  BY <1>3, HandleVoteEffect, VoteReplyEffect, HandleAppendEffect, AppendReplyEffect, LostEffect
<1>4. CASE UNCHANGED vars
  <2>1. /\ UNCHANGED <<vote, log, role, ballots, elected, calls>>
        /\ \A p \in Node : survivors'[p] \subseteq survivors[p]
    BY <1>4 DEF vars, nodeVars, historyVars
  <2>2. RequestsMove(H)
    BY <2>1, RequestsKept
  <2> QED
    BY <2>1, <2>2, SettingIs, StillEffect
<1> QED
  BY <1>1, <1>2, <1>3, <1>4 DEF Next

-----------------------------------------------------------------------------
(* What is kept, after a step.                                             *)

LEMMA KeptCarry ==
  ASSUME IInv, NEW F, NEW H, Setting(F, H), NEW G, Grows(F, G), NEW K, KeepsKept(F, G, H, K),
         NEW p \in Node, NEW id \in elected, NEW a \in Nat, a <= Len(F[id])
  PROVE  /\ KeptUpTo(p, survivors[p], id, a, F, H) => KeptUpTo(p, survivors[p], id, a, G, K)'
         /\ KeptUpTo(p, {log[p]}, id, a, F, H) /\ p \in {c.server : c \in calls'} =>
              KeptUpTo(p, {log[p]}, id, a, G, K)'
<1>1. /\ F[id] \in Seq(Entry) /\ G[id] \in Seq(Entry) /\ Begins(F[id], G[id])
  BY DEF Setting, Grows
<1>2. ASSUME NEW k \in 1..a, Own(id, G[id], k)
      PROVE  k \in Nat /\ Own(id, F[id], k)
  <2>1. k \in 1..Len(F[id]) /\ Len(F[id]) \in Nat
    BY <1>1
  <2> QED
    BY <2>1, <1>1, <1>2 DEF Own, Begins
<1>3. ASSUME KeptUpTo(p, survivors[p], id, a, F, H)
      PROVE  KeptUpTo(p, survivors[p], id, a, G, K)'
  <2>1. ASSUME NEW k \in 1..a, Own(id, G[id], k)
        PROVE  Kept(vote'[p], ballots'[p], survivors'[p], elected', id, G[id], k, K)
    <3>1. k \in Nat /\ Own(id, F[id], k)
      BY <1>2, <2>1
    <3>2. Kept(vote[p], ballots[p], survivors[p], elected, id, F[id], k, H)
      BY <1>3, <3>1 DEF KeptUpTo
    <3> QED
      BY <3>1, <3>2 DEF KeepsKept
  <2> QED
    BY <2>1 DEF KeptUpTo
<1>4. ASSUME KeptUpTo(p, {log[p]}, id, a, F, H), p \in {c.server : c \in calls'}
      PROVE  KeptUpTo(p, {log[p]}, id, a, G, K)'
  <2>1. ASSUME NEW k \in 1..a, Own(id, G[id], k)
        PROVE  Kept(vote'[p], ballots'[p], {log'[p]}, elected', id, G[id], k, K)
    <3>1. k \in Nat /\ Own(id, F[id], k)
      BY <1>2, <2>1
    <3>2. Kept(vote[p], ballots[p], {log[p]}, elected, id, F[id], k, H)
      BY <1>4, <3>1 DEF KeptUpTo
    <3> QED
      BY <1>4, <3>1, <3>2 DEF KeepsKept
  <2> QED
    BY <2>1 DEF KeptUpTo
<1> QED
  BY <1>3, <1>4

\* Who follows the leader id holds what it has of its log.
LEMMA KeptNow ==
  ASSUME NEW id \in LeaderId, NEW w, w = Lead(id), NEW bs \in SUBSET LeaderId, Above(w, bs),
         NEW a \in Nat, NEW g, NEW L, \A l \in L : Agree(l, g, a), NEW E, NEW H, NEW k \in 1..a
  PROVE  Kept(w, bs, L, E, id, g, k, H)
<1>1. w \in Votes /\ LeaderIdOf(w) = id /\ w.committed = TRUE
  BY LeadIs
<1>2. VoteGeq(w, Lead(id))
  BY <1>1, VoteGeqIs
<1>3. \A l \in L : Agree(l, g, k)
  BY AgreeLess
<1>4. \A x \in bs : ~(x.term > id.term)
  BY <1>1 DEF Above, LeaderId
<1> QED
  BY <1>2, <1>3, <1>4 DEF Kept

\* A leader goes on, knows nothing, or learns what is so.
LeadersMove(G, K) ==
  \A n, m \in Node : role'[n] = "leader" =>
    \/ matched'[n][m] = 0
    \/ role[n] = "leader" /\ vote'[n] = vote[n] /\ matched'[n][m] = matched[n][m]
    \/ /\ matched'[n][m] <= Len(log'[n])
       /\ KeptUpTo(m, survivors[m], LeaderIdOf(vote[n]), matched[n][m], G, K)'

AppendsMove(G, K) ==
  \A c \in calls' : c.kind = "append" => c \in calls \/ KeptByCall(c, G, K)'

LEMMA ReportsAre ==
  ASSUME IInv, NEW F, MatchInv(F), NEW c \in calls, c.kind = "append", NEW v \in c.request.vote
  PROVE  /\ Reports(c, v, F) /\ c.server \in Node /\ v \in Votes
         /\ LeaderIdOf(v) \in elected /\ LeaderIdOf(v) \in LeaderId
         /\ F[LeaderIdOf(v)] \in Seq(Entry)
         /\ UpTo(c.request) \in Nat /\ UpTo(c.request) <= Len(F[LeaderIdOf(v)])
<1>1. IsCall(c) /\ Reports(c, v, F)
  BY DEF IInv, CallsInv, MatchInv, AppendsInv
<1>2. c.server \in Node /\ v \in Votes /\ LeaderIdOf(v) \in elected
  BY <1>1 DEF IsCall, Reports
<1>3. LeaderIdOf(v) \in LeaderId /\ F[LeaderIdOf(v)] \in Seq(Entry)
  BY <1>2 DEF IInv, VotesInv, MatchInv, LogsInv
<1>4. UpTo(c.request) \in 0..Len(F[LeaderIdOf(v)])
  BY <1>1 DEF Reports, IsPart
<1> QED
  BY <1>1, <1>2, <1>3, <1>4

LEMMA KeptByCallCarry ==
  ASSUME IInv, NEW F, MatchInv(F), NEW H, Setting(F, H), NEW G, Grows(F, G), NEW K,
         KeepsKept(F, G, H, K), NEW c \in calls, c.server \in {d.server : d \in calls'},
         c.kind = "append", KeptByCall(c, F, H)
  PROVE  KeptByCall(c, G, K)'
<1>1. ASSUME NEW v \in c.request.vote
      PROVE  LET id == LeaderIdOf(v)
                 a  == UpTo(c.request) IN
               /\ c.at = "flushing" => KeptUpTo(c.server, {log[c.server]}, id, a, G, K)'
               /\ \A p \in c.reply : p.rejected_by = {} /\ ~p.conflict =>
                    KeptUpTo(c.server, survivors[c.server], id, a, G, K)'
  <2>1. PICK p : p = c.server
    OBVIOUS
  <2>2. PICK id : id = LeaderIdOf(v)
    OBVIOUS
  <2>3. PICK a : a = UpTo(c.request)
    OBVIOUS
  <2>4. p \in Node /\ id \in elected /\ a \in Nat /\ a <= Len(F[id]) /\ p \in {d.server : d \in calls'}
    BY <2>1, <2>2, <2>3, ReportsAre
  <2>5. /\ KeptUpTo(p, survivors[p], id, a, F, H) => KeptUpTo(p, survivors[p], id, a, G, K)'
        /\ KeptUpTo(p, {log[p]}, id, a, F, H) => KeptUpTo(p, {log[p]}, id, a, G, K)'
    BY <2>4, KeptCarry
  <2>6. /\ c.at = "flushing" => KeptUpTo(p, {log[p]}, id, a, F, H)
        /\ \A r \in c.reply : r.rejected_by = {} /\ ~r.conflict =>
             KeptUpTo(p, survivors[p], id, a, F, H)
    BY <2>1, <2>2, <2>3 DEF KeptByCall
  <2> QED
    BY <2>1, <2>2, <2>3, <2>5, <2>6
<1> QED
  BY <1>1 DEF KeptByCall

LEMMA KeptInvStep ==
  ASSUME IInv, IInv', NEW F, MatchInv(F), NEW H, Setting(F, H), KeptInv(F, H),
         NEW G, Grows(F, G), MatchInv(G)', NEW K, KeepsKept(F, G, H, K),
         LeadersMove(G, K), AppendsMove(G, K)
  PROVE  KeptInv(G, K)'
<1>1. ASSUME NEW n \in Node, NEW m \in Node, role'[n] = "leader"
      PROVE  /\ matched'[n][m] <= Len(log'[n])
             /\ KeptUpTo(m, survivors[m], LeaderIdOf(vote[n]), matched[n][m], G, K)'
  <2>1. CASE matched'[n][m] = 0
    <3>1. log'[n] \in Seq(Entry)
      BY DEF MatchInv, LogsInv
    <3>2. 0 <= Len(log'[n])
      BY <3>1
    <3> QED
      BY <2>1, <3>2 DEF KeptUpTo
  <2>2. CASE role[n] = "leader" /\ vote'[n] = vote[n] /\ matched'[n][m] = matched[n][m]
    <3>1. PICK id : id = LeaderIdOf(vote[n])
      OBVIOUS
    <3>2. PICK a : a = matched[n][m]
      OBVIOUS
    <3>3. RoleInv(n, F) /\ RoleInv(n, G)' /\ a \in Nat
      BY <3>2 DEF MatchInv, RolesInv
    <3>4. id \in elected /\ F[id] = log[n] /\ G[id] = log'[n]
      BY <3>1, <3>3, <2>2, <1>1 DEF RoleInv
    <3>5. Begins(F[id], G[id]) /\ F[id] \in Seq(Entry) /\ G[id] \in Seq(Entry)
      BY <3>4 DEF Grows, Setting
    <3>6. a <= Len(F[id]) /\ KeptUpTo(m, survivors[m], id, a, F, H)
      BY <2>2, <3>1, <3>2, <3>4 DEF KeptInv
    <3>7. KeptUpTo(m, survivors[m], id, a, G, K)'
      BY <3>3, <3>4, <3>6, KeptCarry
    <3>8. a <= Len(G[id])
      <4>1. Len(F[id]) \in Nat /\ Len(G[id]) \in Nat /\ Len(F[id]) <= Len(G[id])
        BY <3>5 DEF Begins
      <4> QED
        BY <4>1, <3>3, <3>6
    <3> QED
      BY <3>1, <3>2, <3>4, <3>7, <3>8, <2>2
  <2> QED
    BY <2>1, <2>2, <1>1 DEF LeadersMove
<1>2. ASSUME NEW c \in calls', c.kind = "append"
      PROVE  KeptByCall(c, G, K)'
  <2>1. CASE c \in calls
    <3>1. KeptByCall(c, F, H)
      BY <1>2, <2>1 DEF KeptInv
    <3>2. c.server \in {d.server : d \in calls'}
      BY <1>2
    <3> QED
      BY <1>2, <2>1, <3>1, <3>2, KeptByCallCarry
  <2>2. CASE KeptByCall(c, G, K)'
    BY <2>2
  <2> QED
    BY <1>2, <2>1, <2>2 DEF AppendsMove
<1> QED
  BY <1>1, <1>2 DEF KeptInv

\* A step, with the logs of the leaders and of the candidates before it and after it.
Moves(F, G, H, K) ==
  /\ IInv /\ IInv' /\ MatchInv(F) /\ MatchInv(G)' /\ BaseInv(F, H)
  /\ Setting(F, H) /\ Setting(G, K)' /\ Grows(F, G) /\ KeepsKept(F, G, H, K)
  /\ VotesGrow

LEMMA QuietLeaders ==
  ASSUME \A n \in Node : role'[n] = "leader" =>
           \/ matched'[n] = NoMatch
           \/ role[n] = "leader" /\ vote'[n] = vote[n] /\ matched'[n] = matched[n],
         NEW G, NEW K
  PROVE  LeadersMove(G, K)
BY NoMatchIs DEF LeadersMove

LEMMA FollowLeaders ==
  ASSUME NEW F, NEW G, NEW H, NEW K, Moves(F, G, H, K),
         NEW n \in Node, NEW v, NEW q, Write(n, v, q), Follow(n, v)
  PROVE  LeadersMove(G, K)
<1>1. /\ vote \in [Node -> Votes] /\ role \in [Node -> {"follower", "candidate", "leader"}]
      /\ matched \in [Node -> [Node -> Nat]]
  BY DEF Moves, IInv, VotesInv, MatchInv, RolesInv
<1>2. vote'[n] = v /\ \A p \in Node : p # n => vote'[p] = vote[p]
  BY <1>1 DEF Write
<1>3. CASE v = vote[n]
  <2>1. UNCHANGED <<role, matched>>
    BY <1>3 DEF Follow
  <2> QED
    BY <2>1, <1>2, <1>3, QuietLeaders
<1>4. CASE v # vote[n]
  <2>1. /\ role' = [role EXCEPT ![n] = "follower"]
        /\ matched' = [matched EXCEPT ![n] = NoMatch]
    BY <1>4 DEF Follow
  <2>2. \A p \in Node : p # n => role'[p] = role[p] /\ matched'[p] = matched[p]
    BY <2>1, <1>1
  <2>3. matched'[n] = NoMatch
    BY <2>1, <1>1
  <2> QED
    BY <2>2, <2>3, <1>2, QuietLeaders
<1> QED
  BY <1>3, <1>4

LEMMA CountLeaders ==
  ASSUME NEW F, NEW G, NEW H, NEW K, Moves(F, G, H, K),
         NEW n \in Node, NEW id, NEW votes, Count(n, id, votes), UNCHANGED matched, role[n] # "leader"
  PROVE  LeadersMove(G, K)
<1>1. /\ vote \in [Node -> Votes] /\ role \in [Node -> {"follower", "candidate", "leader"}]
      /\ RoleInv(n, F)
  BY DEF Moves, IInv, VotesInv, MatchInv, RolesInv
<1>2. matched'[n] = NoMatch
  BY <1>1 DEF RoleInv
<1>3. \A p \in Node : p # n => vote'[p] = vote[p] /\ role'[p] = role[p]
  <2>1. \E w : role' = [role EXCEPT ![n] = w]
    BY DEF Count
  <2>2. \E w : vote' = [vote EXCEPT ![n] = w]
    BY DEF Count, Write
  <2> QED
    BY <2>1, <2>2, <1>1
<1> QED
  BY <1>2, <1>3, QuietLeaders

LEMMA LearnLeaders ==
  ASSUME NEW F, NEW G, NEW H, NEW K, Moves(F, G, H, K), UNCHANGED <<vote, role>>,
         NEW n \in Node, NEW m \in Node, NEW to \in Nat, role[n] = "leader",
         matched' = [matched EXCEPT ![n][m] = Max({@, to})],
         to <= Len(log'[n]), KeptUpTo(m, survivors[m], LeaderIdOf(vote[n]), to, G, K)'
  PROVE  LeadersMove(G, K)
<1>1. matched \in [Node -> [Node -> Nat]]
  BY DEF Moves, MatchInv, RolesInv
<1>2. PICK b : b = Max({matched[n][m], to})
  OBVIOUS
<1>3. b = matched[n][m] \/ b = to
  <2>1. PICK a : a = matched[n][m]
    OBVIOUS
  <2>2. a \in Nat /\ b = Max({a, to})
    BY <2>1, <1>1, <1>2
  <2>3. b = a \/ b = to
    BY <2>2, MaxOfTwo
  <2> QED
    BY <2>1, <2>3
<1>4. /\ matched'[n][m] = b
      /\ \A p, q \in Node : ~(p = n /\ q = m) => matched'[p][q] = matched[p][q]
  <2>1. matched' = [matched EXCEPT ![n] = [matched[n] EXCEPT ![m] = b]]
    BY <1>1, <1>2
  <2>2. PICK r : r = [matched[n] EXCEPT ![m] = b]
    OBVIOUS
  <2>3. r[m] = b /\ \A q \in Node : q # m => r[q] = matched[n][q]
    BY <2>2, <1>1
  <2>4. matched'[n] = r /\ \A p \in Node : p # n => matched'[p] = matched[p]
    BY <2>1, <2>2, <1>1
  <2> QED
    BY <2>3, <2>4
<1>5. ASSUME NEW p \in Node, NEW q \in Node, role'[p] = "leader"
      PROVE  \/ matched'[p][q] = 0
             \/ role[p] = "leader" /\ vote'[p] = vote[p] /\ matched'[p][q] = matched[p][q]
             \/ /\ matched'[p][q] <= Len(log'[p])
                /\ KeptUpTo(q, survivors[q], LeaderIdOf(vote[p]), matched[p][q], G, K)'
  <2>1. CASE p = n /\ q = m
    <3>1. CASE b = matched[n][m]
      BY <2>1, <3>1, <1>4, <1>5
    <3>2. CASE b = to
      BY <2>1, <3>2, <1>4
    <3> QED
      BY <3>1, <3>2, <1>3
  <2>2. CASE ~(p = n /\ q = m)
    BY <2>2, <1>4, <1>5
  <2> QED
    BY <2>1, <2>2
<1> QED
  BY <1>5 DEF LeadersMove

\* What was said before the step is true after it.
LEMMA SaidLeaders ==
  ASSUME NEW F, NEW G, NEW H, NEW K, Moves(F, G, H, K), UNCHANGED <<vote, role>>,
         NEW n \in Node, NEW m \in Node, NEW to \in Nat, role[n] = "leader",
         matched' = [matched EXCEPT ![n][m] = Max({@, to})],
         to <= Len(log[n]), KeptUpTo(m, survivors[m], LeaderIdOf(vote[n]), to, F, H)
  PROVE  LeadersMove(G, K)
<1>1. PICK id : id = LeaderIdOf(vote[n])
  OBVIOUS
<1>2. RoleInv(n, F) /\ RoleInv(n, G)'
  BY DEF Moves, MatchInv, RolesInv
<1>3. id \in elected /\ F[id] = log[n] /\ G[id] = log'[n]
  BY <1>1, <1>2 DEF RoleInv
<1>4. Len(F[id]) \in Nat /\ Len(G[id]) \in Nat /\ Len(F[id]) <= Len(G[id])
  BY <1>3 DEF Moves, Grows, Setting, Begins
<1>5. to <= Len(log'[n])
  BY <1>3, <1>4
<1>6. KeptUpTo(m, survivors[m], id, to, G, K)'
  BY <1>1, <1>3, KeptCarry DEF Moves
<1> QED
  BY <1>1, <1>5, <1>6, LearnLeaders

LEMMA AppendsLess ==
  ASSUME NEW G, NEW K, \A c \in calls' : c \in calls \/ c.kind # "append"
  PROVE  AppendsMove(G, K)
BY DEF AppendsMove

LEMMA HandledMoves ==
  ASSUME IInv, NEW c \in calls, NEW at, NEW r, Handled(c, at, r), NEW G, NEW K,
         c.kind = "append" => \A v \in c.request.vote :
           /\ at = "flushing" =>
                KeptUpTo(c.server, {log[c.server]}, LeaderIdOf(v), UpTo(c.request), G, K)'
           /\ \A p \in r : p.rejected_by # {} \/ p.conflict
  PROVE  AppendsMove(G, K)
<1>e. PICK e : e = [c EXCEPT !.at = at, !.reply = r]
  OBVIOUS
<1>1. IsCall(c)
  BY DEF IInv, CallsInv
<1>2. /\ e.kind = c.kind /\ e.server = c.server /\ e.request = c.request
      /\ e.at = at /\ e.reply = r
  <2> DEFINE A == {c.at, at}
             R == {c.reply, r}
  <2>1. c \in [client : Node \cup {Gone}, server : Node, kind : {"vote", "append"},
               request : {c.request}, at : A, reply : R]
    BY <1>1 DEF IsCall
  <2> QED
    BY <2>1, <1>e, RecordUpdated
<1>3. c.kind = "append" => KeptByCall(e, G, K)'
  BY <1>2 DEF KeptByCall
<1>4. \A d \in calls' : d \in calls \/ d = e
  BY <1>e DEF Handled
<1> QED
  BY <1>2, <1>3, <1>4 DEF AppendsMove

LEMMA FlushKept ==
  ASSUME NEW F, NEW G, NEW H, NEW K, Moves(F, G, H, K), KeptInv(F, H), NEW n \in Node, Flush(n)
  PROVE  LeadersMove(G, K) /\ AppendsMove(G, K)
<1>1. UNCHANGED <<vote, log, role, ballots, elected>> /\ survivors' = [survivors EXCEPT ![n] = {log[n]}]
  BY DEF Flush
<1>2. /\ survivors'[n] = {log[n]} /\ log \in [Node -> Seq(Entry)]
  BY <1>1 DEF Moves, Setting
<1> DEFINE told == {c \in calls : c.server = n /\ c.at = "flushing"}
           p    == AppendResponseToPb(Success)
<1>3. calls' = (calls \ told) \cup {[c EXCEPT !.at = "answered", !.reply = {p}] : c \in told}
  BY DEF Flush
<1> HIDE DEF p
<1>4. ASSUME NEW d \in calls', d \notin calls, d.kind = "append"
      PROVE  KeptByCall(d, G, K)'
  <2>1. PICK c \in told : d = [c EXCEPT !.at = "answered", !.reply = {p}]
    BY <1>3, <1>4
  <2>2. IsCall(c) /\ c.server = n /\ c.at = "flushing"
    BY DEF Moves, IInv, CallsInv
  <2>3. /\ d.kind = c.kind /\ d.server = c.server /\ d.request = c.request
        /\ d.at = "answered" /\ d.reply = {p}
    <3> DEFINE A == {c.at, "answered"}
               R == {c.reply, {p}}
    <3>1. c \in [client : Node \cup {Gone}, server : Node, kind : {"vote", "append"},
                 request : {c.request}, at : A, reply : R]
      BY <2>2 DEF IsCall
    <3> QED
      BY <3>1, <2>1, RecordUpdated
  <2>4. KeptByCall(c, F, H) /\ c \in calls
    BY <2>3, <1>4 DEF KeptInv
  <2>5. c.server \in {x.server : x \in calls'}
    BY <2>3, <1>4
  <2>6. KeptByCall(c, G, K)'
    BY <2>3, <2>4, <2>5, <1>4, KeptByCallCarry DEF Moves
  <2>7. ASSUME NEW v \in d.request.vote
        PROVE  KeptUpTo(d.server, survivors[d.server], LeaderIdOf(v), UpTo(d.request), G, K)'
    <3>1. KeptUpTo(n, {log[n]}, LeaderIdOf(v), UpTo(d.request), G, K)'
      BY <2>2, <2>3, <2>6 DEF KeptByCall
    <3>2. survivors'[n] = {log'[n]}
      BY <1>1, <1>2
    <3> QED
      BY <3>1, <3>2, <2>2, <2>3 DEF KeptUpTo
  <2> QED
    BY <2>3, <2>7 DEF KeptByCall
<1>5. AppendsMove(G, K)
  BY <1>4 DEF AppendsMove
<1>6. CASE role[n] = "leader"
  <2>1. matched' = [matched EXCEPT ![n][n] = Max({@, Len(log[n])})]
    BY <1>6 DEF Flush, Progress
  <2>2. PICK id : id = LeaderIdOf(vote[n])
    OBVIOUS
  <2>3. PICK a : a = Len(log[n])
    OBVIOUS
  <2>4. RoleInv(n, G)' /\ vote[n] \in Votes
    BY DEF Moves, MatchInv, RolesInv, IInv, VotesInv
  <2>5. vote[n] = Lead(id) /\ id \in LeaderId /\ G[id] = log[n]
    BY <2>2, <2>4, <1>1, <1>6, LeadOfVote, LeaderIdIs DEF RoleInv
  <2>6. Above(vote[n], ballots[n]) /\ ballots[n] \in SUBSET LeaderId
    BY DEF Moves, IInv, BallotsInv, VotesInv
  <2>7. a \in Nat /\ Agree(log[n], G[id], a)
    BY <2>3, <2>5, <1>2, AgreeIs
  <2>8. ASSUME NEW k \in 1..a
        PROVE  Kept(vote'[n], ballots'[n], survivors'[n], elected', id, G[id], k, K)
    <3>1. PICK w : w = vote[n]
      OBVIOUS
    <3>2. PICK L : L = survivors'[n]
      OBVIOUS
    <3>3. PICK g : g = G[id]
      OBVIOUS
    <3>4. PICK bs : bs = ballots[n]
      OBVIOUS
    <3>5. PICK E : E = elected
      OBVIOUS
    <3>6. w = Lead(id) /\ Above(w, bs) /\ bs \in SUBSET LeaderId /\ \A l \in L : Agree(l, g, a)
      BY <3>1, <3>2, <3>3, <3>4, <2>5, <2>6, <2>7, <1>2
    <3>7. Kept(w, bs, L, E, id, g, k, K)
      BY <3>6, <2>5, <2>7, KeptNow
    <3> QED
      BY <3>1, <3>2, <3>3, <3>4, <3>5, <3>7, <1>1
  <2>9. KeptUpTo(n, survivors[n], LeaderIdOf(vote[n]), a, G, K)'
    BY <2>2, <2>8, <1>1 DEF KeptUpTo
  <2>10. a <= Len(log'[n])
    BY <2>3, <2>7, <1>1
  <2> QED
    BY <2>1, <2>3, <2>7, <2>9, <2>10, <1>1, <1>6, <1>5, LearnLeaders
<1>7. CASE role[n] # "leader"
  <2>1. UNCHANGED matched
    BY <1>7 DEF Flush
  <2> QED
    BY <2>1, <1>1, <1>5, QuietLeaders
<1> QED
  BY <1>6, <1>7

-----------------------------------------------------------------------------
(* What is kept, action by action.                                         *)

LEMMA VotingKept ==
  ASSUME NEW F, NEW G, NEW H, NEW K, Moves(F, G, H, K),
         \/ \E n \in Node : Campaign(n) \/ \E m \in Node : RequestVote(n, m)
         \/ \E c \in calls : HandleVote(c) \/ VoteReply(c)
  PROVE  LeadersMove(G, K) /\ AppendsMove(G, K)
<1>1. ASSUME NEW n \in Node, Campaign(n)
      PROVE  LeadersMove(G, K) /\ AppendsMove(G, K)
  <2>1. /\ role[n] # "leader" /\ UNCHANGED <<matched, calls>>
        /\ \E id : Count(n, id, {n})
    BY <1>1 DEF Campaign
  <2> QED
    BY <2>1, CountLeaders, AppendsLess
<1>2. ASSUME NEW n \in Node, NEW m \in Node, RequestVote(n, m)
      PROVE  LeadersMove(G, K) /\ AppendsMove(G, K)
  <2>1. UNCHANGED <<role, vote, matched>>
    BY <1>2 DEF RequestVote, nodeVars
  <2>2. PICK r : calls' = calls \cup {[client |-> n, server |-> m, kind |-> "vote",
                                       request |-> r, at |-> "sent", reply |-> {}]}
    BY <1>2 DEF RequestVote, Send
  <2>3. \A c \in calls' : c \in calls \/ c.kind # "append"
    BY <2>2
  <2> QED
    BY <2>1, <2>3, QuietLeaders, AppendsLess
<1>3. ASSUME NEW c \in calls, HandleVote(c)
      PROVE  LeadersMove(G, K) /\ AppendsMove(G, K)
  <2>1. IInv /\ c.kind = "vote" /\ c.server \in Node
    BY <1>3 DEF Moves, IInv, CallsInv, IsCall, HandleVote
  <2>2. PICK v, r : /\ Write(c.server, v, log[c.server]) /\ Follow(c.server, v)
                    /\ Handled(c, "answered", {r})
    BY <1>3 DEF HandleVote, Answer
  <2>3. LeadersMove(G, K)
    BY <2>1, <2>2, FollowLeaders
  <2>4. AppendsMove(G, K)
    BY <2>1, <2>2, HandledMoves
  <2> QED
    BY <2>3, <2>4
<1>4. ASSUME NEW c \in calls, VoteReply(c)
      PROVE  LeadersMove(G, K) /\ AppendsMove(G, K)
  <2> DEFINE n == c.client
  <2>1. AppendsMove(G, K)
    <3>1. calls' \subseteq calls
      BY <1>4 DEF VoteReply
    <3> QED
      BY <3>1, AppendsLess
  <2>2. n \in Node
    <3>1. IsCall(c) /\ c.at = "answered"
      BY <1>4 DEF Moves, IInv, CallsInv, VoteReply
    <3> QED
      BY <3>1 DEF IsCall
  <2>3. \/ /\ role[n] = "candidate" /\ UNCHANGED matched
           /\ Count(n, MyLeaderId(n), granted[n] \cup {c.server})
        \/ UNCHANGED <<vote, role, matched>>
        \/ \E v : TakeOver(n, v)
    BY <1>4 DEF VoteReply
  <2>4. CASE /\ role[n] = "candidate" /\ UNCHANGED matched
             /\ Count(n, MyLeaderId(n), granted[n] \cup {c.server})
    BY <2>1, <2>2, <2>4, CountLeaders
  <2>5. CASE UNCHANGED <<vote, role, matched>>
    BY <2>1, <2>5, QuietLeaders
  <2>6. CASE \E v : TakeOver(n, v)
    <3>1. PICK w : Write(n, w, log[n]) /\ Follow(n, w)
      BY <2>6 DEF TakeOver
    <3> QED
      BY <3>1, <2>1, <2>2, FollowLeaders
  <2> QED
    BY <2>3, <2>4, <2>5, <2>6
<1> QED
  BY <1>1, <1>2, <1>3, <1>4

LEMMA StoringKept ==
  ASSUME NEW F, NEW G, NEW H, NEW K, Moves(F, G, H, K),
         \/ \E n \in Node : \/ LeaderAppend(n) \/ Crash(n)
                            \/ \E m \in Node, i \in 0..MaxIndex : SendAppend(n, m, i)
         \/ UNCHANGED vars
  PROVE  LeadersMove(G, K) /\ AppendsMove(G, K)
<1>1. ASSUME NEW n \in Node, LeaderAppend(n)
      PROVE  LeadersMove(G, K) /\ AppendsMove(G, K)
  <2>1. vote \in [Node -> Votes]
    BY DEF Moves, IInv, VotesInv
  <2>2. UNCHANGED <<role, vote, matched, calls>>
    BY <1>1, <2>1 DEF LeaderAppend, Write
  <2> QED
    BY <2>2, QuietLeaders, AppendsLess
<1>2. ASSUME NEW n \in Node, Crash(n)
      PROVE  LeadersMove(G, K) /\ AppendsMove(G, K)
  <2>1. /\ role' = [role EXCEPT ![n] = "follower"]
        /\ matched' = [matched EXCEPT ![n] = NoMatch]
        /\ UNCHANGED vote /\ calls' \subseteq calls
    BY <1>2 DEF Crash
  <2>2. /\ role \in [Node -> {"follower", "candidate", "leader"}]
        /\ matched \in [Node -> [Node -> Nat]]
    BY DEF Moves, IInv, VotesInv, MatchInv, RolesInv
  <2>3. matched'[n] = NoMatch /\ \A p \in Node : p # n => role'[p] = role[p] /\ matched'[p] = matched[p]
    BY <2>1, <2>2
  <2> QED
    BY <2>1, <2>3, QuietLeaders, AppendsLess
<1>3. ASSUME NEW n \in Node, NEW m \in Node, NEW i \in 0..MaxIndex, SendAppend(n, m, i)
      PROVE  LeadersMove(G, K) /\ AppendsMove(G, K)
  <2>1. UNCHANGED <<role, vote, matched>>
    BY <1>3 DEF SendAppend, nodeVars
  <2>2. PICK r : calls' = calls \cup {[client |-> n, server |-> m, kind |-> "append",
                                       request |-> r, at |-> "sent", reply |-> {}]}
    BY <1>3 DEF SendAppend, Send
  <2>3. \A c \in calls' : c \in calls \/ KeptByCall(c, G, K)'
    BY <2>2 DEF KeptByCall
  <2> QED
    BY <2>1, <2>3, QuietLeaders DEF AppendsMove
<1>4. CASE UNCHANGED vars
  BY <1>4, QuietLeaders, AppendsLess DEF vars, nodeVars
<1> QED
  BY <1>1, <1>2, <1>3, <1>4

LEMMA LostKept ==
  ASSUME NEW F, NEW G, NEW H, NEW K, Moves(F, G, H, K), KeptInv(F, H),
         NEW c \in calls, Lose(c) \/ GiveUp(c)
  PROVE  LeadersMove(G, K) /\ AppendsMove(G, K)
<1>1. UNCHANGED <<role, vote, matched>>
  BY DEF Lose, GiveUp, nodeVars
<1>e. PICK e : e = [c EXCEPT !.client = Gone]
  OBVIOUS
<1>2. /\ e.kind = c.kind /\ e.request = c.request /\ e.server = c.server
      /\ e.at = c.at /\ e.reply = c.reply
  <2>1. IsCall(c)
    BY DEF Moves, IInv, CallsInv
  <2> QED
    BY <2>1, <1>e DEF IsCall
<1>3. ASSUME NEW d \in calls', d \notin calls, d.kind = "append"
      PROVE  KeptByCall(d, G, K)'
  <2>1. d = e
    BY <1>3, <1>e DEF Lose, GiveUp
  <2>2. KeptByCall(c, F, H)
    BY <2>1, <1>2, <1>3 DEF KeptInv
  <2>3. c.server \in {x.server : x \in calls'}
    BY <2>1, <1>2, <1>3
  <2>4. KeptByCall(c, G, K)'
    BY <2>1, <2>2, <2>3, <1>2, <1>3, KeptByCallCarry DEF Moves
  <2> QED
    BY <2>1, <2>4, <1>2 DEF KeptByCall
<1> QED
  BY <1>1, <1>3, QuietLeaders DEF AppendsMove

\* An answer that is not a success stands for nothing.
LEMMA RefusalMoves ==
  ASSUME IInv, NEW c \in calls, NEW r, Handled(c, "answered", r), NEW G, NEW K,
         \A p \in r : p.rejected_by # {} \/ p.conflict
  PROVE  AppendsMove(G, K)
<1>1. PICK at : at = "answered"
  OBVIOUS
<1>2. at # "flushing"
  BY <1>1
<1>3. Handled(c, at, r)
  BY <1>1
<1>4. \A v \in c.request.vote :
        /\ at = "flushing" =>
             KeptUpTo(c.server, {log[c.server]}, LeaderIdOf(v), UpTo(c.request), G, K)'
        /\ \A p \in r : p.rejected_by # {} \/ p.conflict
  BY <1>2
<1> QED
  BY <1>3, <1>4, HandledMoves

LEMMA HandleAppendKept ==
  ASSUME NEW F, NEW G, NEW H, NEW K, Moves(F, G, H, K), NEW c \in calls, HandleAppend(c)
  PROVE  LeadersMove(G, K) /\ AppendsMove(G, K)
<1>1. IInv /\ MatchInv(F)
  BY DEF Moves
<1>2. CASE Refused(c)
  <2>1. UNCHANGED <<role, vote, matched>>
    BY <1>2 DEF Refused, nodeVars
  <2>2. PICK v : Handled(c, "answered", {AppendResponseToPb(HigherVote(v))})
    BY <1>2 DEF Refused, Answer
  <2>3. AppendResponseToPb(HigherVote(v)).rejected_by # {}
    BY DEF AppendResponseToPb, HigherVote
  <2>4. PICK r : r = {AppendResponseToPb(HigherVote(v))}
    OBVIOUS
  <2>5. \A p \in r : p.rejected_by # {}
    BY <2>3, <2>4
  <2>6. AppendsMove(G, K)
    BY <2>2, <2>4, <2>5, <1>1, RefusalMoves
  <2> QED
    BY <2>1, <2>6, QuietLeaders
<1>3. CASE \E v \in Votes : \E q : Took(c, v, q, F)
  <2>1. PICK v, q : v \in Votes /\ Took(c, v, q, F)
    BY <1>3
  <2>n. PICK n : n = c.server
    OBVIOUS
  <2>i. PICK id : id = LeaderIdOf(v)
    OBVIOUS
  <2>2. n \in Node /\ v = Lead(id) /\ id \in elected /\ q \in Seq(Entry)
    BY <2>1, <2>n, <2>i, TookIs DEF Moves
  <2>3. Write(n, v, q) /\ Follow(n, v) /\ c.request.vote = {v}
    BY <2>1, <2>n DEF Took
  <2>4. LeadersMove(G, K)
    BY <2>2, <2>3, FollowLeaders
  <2>5. CASE Handled(c, "answered", {AppendResponseToPb(Conflict)})
    <3>1. AppendResponseToPb(Conflict).conflict = TRUE
      BY DEF AppendResponseToPb, Conflict
    <3>2. PICK r : r = {AppendResponseToPb(Conflict)}
      OBVIOUS
    <3>3. \A p \in r : p.conflict
      BY <3>1, <3>2
    <3>4. AppendsMove(G, K)
      BY <2>5, <3>2, <3>3, <1>1, RefusalMoves
    <3> QED
      BY <2>4, <3>4
  <2>6. CASE /\ Agree(q, F[id], UpTo(c.request)) /\ Handled(c, "flushing", {})
    <3>1. PICK a : a = UpTo(c.request)
      OBVIOUS
    <3>2. PICK g : g = G[id]
      OBVIOUS
    <3>3. /\ id \in LeaderId /\ F[id] \in Seq(Entry) /\ g \in Seq(Entry) /\ Begins(F[id], g)
          /\ vote'[n] = v /\ log'[n] = q
      BY <2>2, <2>3, <3>2 DEF Moves, Setting, Grows, Write
    <3>4. a \in Nat
      <4>1. Reports(c, v, F)
        BY <2>1 DEF Took
      <4>2. IsPart(c.request, F[id])
        BY <4>1, <2>i DEF Reports
      <4> QED
        BY <4>2, <3>1, <3>3 DEF IsPart
    <3>5. Agree(q, g, a)
      BY <2>2, <2>6, <3>1, <3>3, <3>4, AgreeGrows
    <3>6. PICK L : L = {log'[n]}
      OBVIOUS
    <3>7. PICK bs : bs = ballots'[n]
      OBVIOUS
    <3>8. PICK E : E = elected'
      OBVIOUS
    <3>9. Above(v, bs) /\ bs \in SUBSET LeaderId
      BY <2>2, <3>3, <3>7 DEF Moves, IInv, BallotsInv, VotesInv
    <3>10. \A l \in L : Agree(l, g, a)
      BY <3>3, <3>5, <3>6
    <3>11. \A k \in 1..a : Kept(v, bs, L, E, id, g, k, K)
      BY <3>3, <3>4, <3>9, <3>10, <2>2, KeptNow
    <3>12. KeptUpTo(n, {log[n]}, id, a, G, K)'
      BY <3>2, <3>3, <3>6, <3>7, <3>8, <3>11 DEF KeptUpTo
    <3>13. AppendsMove(G, K)
      BY <3>1, <3>12, <2>3, <2>6, <2>n, <2>i, <1>1, HandledMoves
    <3> QED
      BY <2>4, <3>13
  <2> QED
    BY <2>1, <2>5, <2>6, <2>i DEF Took
<1> QED
  BY <1>1, <1>2, <1>3, HandleAppendIs

LEMMA AppendReplyKept ==
  ASSUME NEW F, NEW G, NEW H, NEW K, Moves(F, G, H, K), KeptInv(F, H),
         NEW c \in calls, AppendReply(c)
  PROVE  LeadersMove(G, K) /\ AppendsMove(G, K)
<1>1. /\ IsCall(c) /\ AppendCall(c) /\ c.kind = "append" /\ c.at = "answered"
      /\ calls' = calls \ {c} /\ UNCHANGED elected
  BY DEF Moves, IInv, CallsInv, AppendReply
<1>a. AppendsMove(G, K)
  BY <1>1, AppendsLess
<1> DEFINE n == c.client
<1>2. n \in Node /\ c.server \in Node
  BY <1>1 DEF IsCall
<1>3. PICK p \in c.reply, req \in AppendRequestFromPb(c.request) :
        LET resp  == AppendResponseFromPb(p)
            stale == role[n] # "leader" \/ req.vote # vote[n]
        IN  \/ /\ resp.is = "HigherVote"
               /\ TakeOver(n, resp.vote)
               /\ UNCHANGED <<commit, chosen>>
            \/ /\ resp.is # "HigherVote" /\ ~stale
               /\ Progress(n, c.server, Matching(resp, req))
               /\ UNCHANGED <<vote, log, survivors, role, granted>>
            \/ /\ resp.is # "HigherVote" /\ stale
               /\ UNCHANGED <<nodeVars, chosen>>
  BY DEF AppendReply
<1> DEFINE resp == AppendResponseFromPb(p)
<1>4. CASE resp.is = "HigherVote" /\ TakeOver(n, resp.vote)
  <2>1. PICK w : Write(n, w, log[n]) /\ Follow(n, w)
    BY <1>4 DEF TakeOver
  <2> QED
    BY <2>1, <1>2, <1>a, FollowLeaders
<1>5. CASE /\ resp.is # "HigherVote" /\ role[n] = "leader" /\ req.vote = vote[n]
           /\ Progress(n, c.server, Matching(resp, req))
           /\ UNCHANGED <<vote, log, survivors, role>>
  <2> DEFINE to == Matching(resp, req)
  <2>1. /\ req.vote \in c.request.vote /\ req.prev_log_id = OptFromPb(c.request.prev_log_id)
        /\ req.entries = c.request.entries
    BY DEF AppendRequestFromPb
  <2>2. /\ Reports(c, vote[n], F) /\ UpTo(c.request) \in Nat
        /\ UpTo(c.request) <= Len(F[LeaderIdOf(vote[n])])
    BY <2>1, <1>1, <1>5, ReportsAre DEF Moves
  <2>3. RoleInv(n, F) /\ log \in [Node -> Seq(Entry)]
    BY <1>2 DEF Moves, MatchInv, RolesInv, LogsInv
  <2>4. F[LeaderIdOf(vote[n])] = log[n] /\ Len(log[n]) \in Nat
    BY <2>3, <1>2, <1>5 DEF RoleInv
  <2>5. LastIndex(req) = UpTo(c.request)
    BY <2>1 DEF LastIndex, UpTo, PrevOf
  <2>6. p.last_log_id = {} /\ p.conflict \in BOOLEAN
    BY <2>2 DEF Reports
  <2>7. p.rejected_by = {}
    BY <1>5 DEF AppendResponseFromPb, HigherVote
  <2>8. /\ to \in Nat /\ to <= Len(log[n])
        /\ KeptUpTo(c.server, survivors[c.server], LeaderIdOf(vote[n]), to, F, H)
    <3>1. CASE p.conflict
      <4>1. to = 0
        BY <3>1, <2>7 DEF AppendResponseFromPb, Matching, Conflict, Success
      <4> HIDE DEF to
      <4> QED
        BY <4>1, <2>4 DEF KeptUpTo
    <3>2. CASE ~p.conflict
      <4>1. to = UpTo(c.request)
        BY <3>2, <2>5, <2>6, <2>7 DEF AppendResponseFromPb, Matching
      <4>2. KeptByCall(c, F, H)
        BY <1>1 DEF KeptInv
      <4>3. KeptUpTo(c.server, survivors[c.server], LeaderIdOf(vote[n]), UpTo(c.request), F, H)
        BY <4>2, <3>2, <2>1, <2>7, <1>5 DEF KeptByCall
      <4> HIDE DEF to
      <4> QED
        BY <4>1, <4>3, <2>2, <2>4
    <3> QED
      BY <3>1, <3>2, <2>6
  <2>9. matched' = [matched EXCEPT ![n][c.server] = Max({@, to})]
    BY <1>5 DEF Progress
  <2> HIDE DEF to
  <2> QED
    BY <2>8, <2>9, <1>2, <1>5, <1>a, SaidLeaders
<1>6. CASE UNCHANGED nodeVars
  <2>1. UNCHANGED <<vote, role, matched>>
    BY <1>6 DEF nodeVars
  <2> QED
    BY <2>1, <1>a, QuietLeaders
<1> QED
  BY <1>3, <1>4, <1>5, <1>6

LEMMA KeptInvPreserved ==
  ASSUME NEW F, NEW G, NEW H, NEW K, Moves(F, G, H, K), KeptInv(F, H), [Next]_vars
  PROVE  KeptInv(G, K)'
<1>1. LeadersMove(G, K) /\ AppendsMove(G, K)
  <2>1. ASSUME NEW n \in Node, Flush(n)
        PROVE  LeadersMove(G, K) /\ AppendsMove(G, K)
    BY <2>1, FlushKept
  <2>2. ASSUME NEW c \in calls, HandleAppend(c) \/ AppendReply(c) \/ Lose(c) \/ GiveUp(c)
        PROVE  LeadersMove(G, K) /\ AppendsMove(G, K)
    BY <2>2, HandleAppendKept, AppendReplyKept, LostKept
  <2> QED
    BY <2>1, <2>2, VotingKept, StoringKept DEF Next
<1> QED
  BY <1>1, KeptInvStep DEF Moves

-----------------------------------------------------------------------------
(* What is known to be chosen, after a step.                               *)

LEMMA ChosenKept ==
  ASSUME NEW F, NEW G, NEW H, NEW K, Moves(F, G, H, K), NEW id, NEW k, Chosen(id, k, F, H)
  PROVE  Chosen(id, k, G, K)'
<1>1. id \in elected /\ Own(id, F[id], k)
  BY DEF Chosen
<1>2. /\ id \in elected' /\ Begins(F[id], G[id]) /\ F[id] \in Seq(Entry) /\ G[id] \in Seq(Entry)
  BY <1>1 DEF Moves, Grows, Setting
<1>3. Own(id, G[id], k) /\ k \in Nat
  <2>1. Len(F[id]) \in Nat /\ Len(G[id]) \in Nat
    BY <1>2
  <2> QED
    BY <2>1, <1>1, <1>2 DEF Own, Begins
<1>4. PICK Q \in Quorum : \A p \in Q :
        Kept(vote[p], ballots[p], survivors[p], elected, id, F[id], k, H)
  BY DEF Chosen
<1>5. ASSUME NEW p \in Q
      PROVE  Kept(vote'[p], ballots'[p], survivors'[p], elected', id, G[id], k, K)
  <2>1. p \in Node
    BY ClusterAssumption
  <2>2. KeepsKept(F, G, H, K)
    BY DEF Moves
  <2> QED
    BY <2>1, <2>2, <1>1, <1>3, <1>4 DEF KeepsKept
<1> QED
  BY <1>2, <1>3, <1>5 DEF Chosen

\* A leader has what one of its term or an earlier one had chosen.
LEMMA LeaderHas ==
  ASSUME IInv, NEW F, NEW H, Setting(F, H), NEW id, NEW k, Chosen(id, k, F, H),
         NEW y \in elected, id.term <= y.term
  PROVE  Agree(F[y], F[id], k)
<1>1. id \in elected /\ k \in 1..Len(F[id]) /\ F[id] \in Seq(Entry)
      /\ id.term \in Nat /\ y.term \in Nat
  BY DEF Chosen, Own, Setting
<1>2. CASE y.term > id.term
  BY <1>2, Complete
<1>3. CASE y.term = id.term
  <2>1. y = id
    BY <1>1, <1>3 DEF Setting, OnePerTerm
  <2>2. k \in Nat /\ k <= Len(F[id])
    BY <1>1
  <2> QED
    BY <2>1, <2>2, <1>1, AgreeIs
<1> QED
  BY <1>1, <1>2, <1>3

\* What is known of a log is known of one that agrees with it.
LEMMA KnownLess ==
  ASSUME NEW F, NEW H, Setting(F, H), NEW t \in Nat, NEW u \in Nat, t <= u, NEW c \in Nat, NEW a \in Nat, a <= c,
         NEW l, NEW m, Known(t, c, l, F, H), Agree(m, l, a)
  PROVE  Known(u, a, m, F, H)
<1>1. CASE c = 0
  BY <1>1 DEF Known
<1>2. CASE \E id \in elected : \E k \in 1..Len(F[id]) :
             /\ Chosen(id, k, F, H) /\ id.term <= t /\ c <= k
             /\ Agree(l, F[id], c) /\ Agree(chosen, F[id], c)
  <2>1. PICK id \in elected : \E k \in 1..Len(F[id]) :
               /\ Chosen(id, k, F, H) /\ id.term <= t /\ c <= k
               /\ Agree(l, F[id], c) /\ Agree(chosen, F[id], c)
    BY <1>2
  <2>2. PICK k \in 1..Len(F[id]) :
               /\ Chosen(id, k, F, H) /\ id.term <= t /\ c <= k
               /\ Agree(l, F[id], c) /\ Agree(chosen, F[id], c)
    BY <2>1
  <2>3. id.term \in Nat /\ F[id] \in Seq(Entry) /\ k \in Nat
    BY DEF Setting
  <2>4. id.term <= u /\ a <= k
    BY <2>2, <2>3
  <2>5. Agree(m, F[id], a)
    BY <2>2, AgreeTrans
  <2>6. Agree(chosen, F[id], a)
    BY <2>2, AgreeLess
  <2> QED
    BY <2>2, <2>4, <2>5, <2>6 DEF Known
<1> QED
  BY <1>1, <1>2 DEF Known

LEMMA KnownKept ==
  ASSUME NEW F, NEW G, NEW H, NEW K, Moves(F, G, H, K),
         chosen \in Seq(Entry), chosen' \in Seq(Entry), Begins(chosen, chosen'),
         NEW t, NEW c \in Nat, NEW l, NEW m, Known(t, c, l, F, H),
         \A id \in elected : Agree(l, F[id], c) => Agree(m, F[id], c)
  PROVE  Known(t, c, m, G, K)'
<1>1. CASE c = 0
  BY <1>1 DEF Known
<1>2. CASE \E id \in elected : \E k \in 1..Len(F[id]) :
             /\ Chosen(id, k, F, H) /\ id.term <= t /\ c <= k
             /\ Agree(l, F[id], c) /\ Agree(chosen, F[id], c)
  <2>1. PICK id \in elected : \E k \in 1..Len(F[id]) :
               /\ Chosen(id, k, F, H) /\ id.term <= t /\ c <= k
               /\ Agree(l, F[id], c) /\ Agree(chosen, F[id], c)
    BY <1>2
  <2>2. PICK k \in 1..Len(F[id]) :
               /\ Chosen(id, k, F, H) /\ id.term <= t /\ c <= k
               /\ Agree(l, F[id], c) /\ Agree(chosen, F[id], c)
    BY <2>1
  <2>3. /\ id \in elected' /\ F[id] \in Seq(Entry) /\ G[id] \in Seq(Entry) /\ Begins(F[id], G[id])
    BY DEF Moves, Grows, Setting
  <2>4. k \in Nat /\ Len(F[id]) \in Nat /\ Len(G[id]) \in Nat /\ Len(F[id]) <= Len(G[id])
    BY <2>3 DEF Begins
  <2>5. c <= Len(F[id]) /\ k \in 1..Len(G[id])
    BY <2>2, <2>4
  <2>6. Agree(m, G[id], c) /\ Agree(chosen, G[id], c)
    BY <2>2, <2>3, <2>5, AgreeSame
  <2>7. Agree(chosen', G[id], c)
    <3>1. PICK s : s = chosen
      OBVIOUS
    <3>2. PICK r : r = chosen'
      OBVIOUS
    <3>3. s \in Seq(Entry) /\ r \in Seq(Entry) /\ Begins(s, r) /\ Agree(s, G[id], c)
      BY <3>1, <3>2, <2>6
    <3>4. c <= Len(s)
      BY <3>3, <2>3, AgreeIs
    <3>5. Agree(r, s, c)
      BY <3>3, <3>4, AgreeBegins
    <3>6. Agree(r, G[id], c)
      BY <3>3, <3>5, AgreeTrans
    <3> QED
      BY <3>2, <3>6
  <2>8. Chosen(id, k, G, K)'
    BY <2>2, ChosenKept
  <2> QED
    BY <2>2, <2>3, <2>5, <2>6, <2>7, <2>8 DEF Known
<1> QED
  BY <1>1, <1>2 DEF Known

\* A node that follows a leader of a term that is not smaller, and loses nothing of its log,
\* still knows what it knew.
LEMMA KnownFollows ==
  ASSUME IInv, NEW F, NEW H, Setting(F, H), NEW t \in Nat, NEW y \in elected, t <= y.term, NEW c \in Nat,
         NEW l, NEW q, Known(t, c, l, F, H),
         \A a \in Nat : Agree(l, F[y], a) => Agree(q, F[y], a)
  PROVE  Known(y.term, c, q, F, H)
<1>1. CASE c = 0
  BY <1>1 DEF Known
<1>2. CASE \E id \in elected : \E k \in 1..Len(F[id]) :
             /\ Chosen(id, k, F, H) /\ id.term <= t /\ c <= k
             /\ Agree(l, F[id], c) /\ Agree(chosen, F[id], c)
  <2>1. PICK id \in elected : \E k \in 1..Len(F[id]) :
               /\ Chosen(id, k, F, H) /\ id.term <= t /\ c <= k
               /\ Agree(l, F[id], c) /\ Agree(chosen, F[id], c)
    BY <1>2
  <2>2. PICK k \in 1..Len(F[id]) :
               /\ Chosen(id, k, F, H) /\ id.term <= t /\ c <= k
               /\ Agree(l, F[id], c) /\ Agree(chosen, F[id], c)
    BY <2>1
  <2>3. id.term \in Nat /\ y.term \in Nat /\ k \in Nat
    BY DEF Setting
  <2>4. id.term <= y.term
    BY <2>2, <2>3
  <2>5. Agree(F[y], F[id], k)
    BY <2>2, <2>4, LeaderHas
  <2>6. Agree(F[y], F[id], c) /\ Agree(F[id], F[y], c)
    BY <2>2, <2>3, <2>5, AgreeLess, AgreeSym
  <2>7. Agree(l, F[y], c)
    BY <2>2, <2>6, AgreeTrans
  <2>8. Agree(q, F[y], c)
    BY <2>7
  <2>9. Agree(q, F[id], c)
    BY <2>6, <2>8, AgreeTrans
  <2> QED
    BY <2>2, <2>4, <2>9 DEF Known
<1> QED
  BY <1>1, <1>2 DEF Known

LEMMA KnownIs ==
  ASSUME NEW F, NEW H, Setting(F, H), NEW t, NEW c \in Nat, NEW l \in Seq(Entry), chosen \in Seq(Entry),
         Known(t, c, l, F, H)
  PROVE  c <= Len(l) /\ c <= Len(chosen) /\ Agree(l, chosen, c)
<1>1. CASE c = 0
  BY <1>1 DEF Agree
<1>2. CASE \E id \in elected : \E k \in 1..Len(F[id]) :
             /\ Chosen(id, k, F, H) /\ id.term <= t /\ c <= k
             /\ Agree(l, F[id], c) /\ Agree(chosen, F[id], c)
  <2>1. PICK id \in elected : Agree(l, F[id], c) /\ Agree(chosen, F[id], c)
    BY <1>2
  <2>2. F[id] \in Seq(Entry)
    BY DEF Setting
  <2>3. Agree(F[id], chosen, c)
    BY <2>1, AgreeSym
  <2>4. Agree(l, chosen, c)
    BY <2>1, <2>3, AgreeTrans
  <2> QED
    BY <2>4, AgreeIs
<1> QED
  BY <1>1, <1>2 DEF Known

-----------------------------------------------------------------------------
(* What is known to be committed, after a step.                            *)

\* Compatible holds of the next state too.
Compatibility ==
  \A F, H, a, i, b, j : \A c \in Nat :
    /\ IInv /\ Setting(F, H) /\ Chosen(a, i, F, H) /\ Chosen(b, j, F, H) /\ c <= i /\ c <= j
    => Agree(F[a], F[b], c)

LEMMA CompatibleAlways == Compatibility
BY Compatible DEF Compatibility

LEMMA CompatibleNext == Compatibility'
BY CompatibleAlways, PTL

\* What a node knows after the step was known of its log before, or is known now.
CommitsMove(F, G, H, K) ==
  /\ commit' \in [Node -> Nat]
  /\ \A n \in Node :
       \/ Known(LeaderIdOf(vote'[n]).term, commit'[n], log'[n], F, H)
       \/ Known(LeaderIdOf(vote[n]).term, commit[n], log[n], G, K)'

AsksMove(F, H) ==
  \A c \in calls' : c.kind = "append" =>
    \/ \E d \in calls : d.kind = "append" /\ d.request = c.request
    \/ \A v \in c.request.vote :
         /\ CommitOf(c.request) \in Nat /\ LeaderIdOf(v) \in elected
         /\ Known(LeaderIdOf(v).term, CommitOf(c.request), F[LeaderIdOf(v)], F, H)

ChosenMoves(G, K) ==
  /\ chosen' \in Seq(Entry) /\ Begins(chosen, chosen')
  /\ chosen' = chosen \/ Known(MaxTerm, Len(chosen), chosen, G, K)'

\* At most one node learns more, which may be new, or forgets.
CommitStep ==
  \/ UNCHANGED <<commit, chosen>>
  \/ \E n \in Node :
       /\ \A p \in Node : p # n => commit'[p] = commit[p]
       /\ \/ commit'[n] >= commit[n] /\ (chosen' = chosen \/ Len(chosen') = commit'[n])
          \/ commit'[n] = 0 /\ chosen' = chosen

LEMMA KnownInvStep ==
  ASSUME NEW F, NEW G, NEW H, NEW K, Moves(F, G, H, K), KnownInv(F, H),
         CommitsMove(F, G, H, K), AsksMove(F, H), ChosenMoves(G, K)
  PROVE  KnownInv(G, K)'
<1>1. /\ chosen \in Seq(Entry) /\ chosen' \in Seq(Entry) /\ Begins(chosen, chosen')
  BY DEF KnownInv, ChosenMoves
<1>2. ASSUME NEW t, NEW c \in Nat, NEW l, Known(t, c, l, F, H)
      PROVE  Known(t, c, l, G, K)'
  BY <1>1, <1>2, KnownKept
<1>3. Known(MaxTerm, Len(chosen), chosen, G, K)'
  <2>1. CASE chosen' = chosen
    <3>1. PICK s : s = chosen
      OBVIOUS
    <3>2. PICK c : c = Len(s)
      OBVIOUS
    <3>3. c \in Nat /\ Known(MaxTerm, c, s, F, H)
      BY <3>1, <3>2, <1>1 DEF KnownInv
    <3>4. Known(MaxTerm, c, s, G, K)'
      BY <3>3, <1>2
    <3> QED
      BY <2>1, <3>1, <3>2, <3>4
  <2> QED
    BY <2>1 DEF ChosenMoves
<1>4. ASSUME NEW n \in Node
      PROVE  Known(LeaderIdOf(vote[n]).term, commit[n], log[n], G, K)'
  <2>1. CASE Known(LeaderIdOf(vote'[n]).term, commit'[n], log'[n], F, H)
    <3>1. PICK t : t = LeaderIdOf(vote'[n]).term
      OBVIOUS
    <3>2. PICK c : c = commit'[n]
      OBVIOUS
    <3>3. PICK l : l = log'[n]
      OBVIOUS
    <3>4. c \in Nat /\ Known(t, c, l, F, H)
      BY <2>1, <3>1, <3>2, <3>3 DEF CommitsMove
    <3>5. Known(t, c, l, G, K)'
      BY <3>4, <1>2
    <3> QED
      BY <3>1, <3>2, <3>3, <3>5
  <2> QED
    BY <2>1 DEF CommitsMove
<1>5. ASSUME NEW c \in calls', c.kind = "append", NEW v \in c.request.vote
      PROVE  /\ CommitOf(c.request) \in Nat
             /\ Known(LeaderIdOf(v).term, CommitOf(c.request), G[LeaderIdOf(v)], G, K)'
  <2>1. PICK y : y = LeaderIdOf(v)
    OBVIOUS
  <2>2. PICK a : a = CommitOf(c.request)
    OBVIOUS
  <2>3. PICK t : t = y.term
    OBVIOUS
  <2>4. a \in Nat /\ y \in elected /\ Known(t, a, F[y], F, H)
    <3>1. CASE \E d \in calls : d.kind = "append" /\ d.request = c.request
      <4>1. PICK d \in calls : d.kind = "append" /\ d.request = c.request
        BY <3>1
      <4>2. y \in elected
        BY <4>1, <2>1, <1>5, ReportsAre DEF Moves
      <4>3. v \in d.request.vote /\ a = CommitOf(d.request)
        BY <4>1, <2>2, <1>5
      <4> QED
        BY <4>1, <4>2, <4>3, <2>1, <2>3 DEF KnownInv
    <3>2. CASE \A u \in c.request.vote :
                 /\ CommitOf(c.request) \in Nat /\ LeaderIdOf(u) \in elected
                 /\ Known(LeaderIdOf(u).term, CommitOf(c.request), F[LeaderIdOf(u)], F, H)
      BY <3>2, <2>1, <2>2, <2>3, <1>5
    <3> QED
      BY <3>1, <3>2, <1>5 DEF AsksMove
  <2>5. /\ F[y] \in Seq(Entry) /\ G[y] \in Seq(Entry) /\ Begins(F[y], G[y])
        /\ \A id \in elected : F[id] \in Seq(Entry)
    BY <2>4 DEF Moves, Setting, Grows
  <2>6. ASSUME NEW id \in elected, Agree(F[y], F[id], a)
        PROVE  Agree(G[y], F[id], a)
    <3>1. a <= Len(F[y])
      BY <2>4, <2>5, <2>6, AgreeIs
    <3>2. Agree(G[y], F[y], a)
      BY <3>1, <2>4, <2>5, AgreeBegins
    <3> QED
      BY <3>2, <2>4, <2>6, AgreeTrans
  <2>7. Known(t, a, G[y], G, K)'
    <3>1. PICK l : l = F[y]
      OBVIOUS
    <3>2. PICK m : m = G[y]
      OBVIOUS
    <3>3. Known(t, a, l, F, H) /\ \A id \in elected : Agree(l, F[id], a) => Agree(m, F[id], a)
      BY <3>1, <3>2, <2>4, <2>6
    <3>4. Known(t, a, m, G, K)'
      BY <3>3, <2>4, <1>1, KnownKept
    <3> QED
      BY <3>2, <3>4
  <2> QED
    BY <2>1, <2>2, <2>3, <2>4, <2>7
<1>6. commit' \in [Node -> Nat]
  BY DEF CommitsMove
<1> QED
  BY <1>1, <1>3, <1>4, <1>5, <1>6 DEF KnownInv

\* A leader learns that a quorum holds an entry of its term.
LEMMA ProgressKnown ==
  ASSUME NEW F, NEW G, NEW H, NEW K, Moves(F, G, H, K), KnownInv(F, H), KeptInv(G, K)',
         NEW n \in Node, NEW m \in Node, NEW to, role[n] = "leader", UNCHANGED <<vote, log, role>>,
         Progress(n, m, to)
  PROVE  CommitsMove(F, G, H, K) /\ ChosenMoves(G, K) /\ CommitStep
<1> DEFINE own == {k \in DOMAIN log[n] : log[n][k].term = MyLeaderId(n).term}
           ks  == {k \in own : HasQuorum({p \in Node : matched'[n][p] >= k})}
<1>1. PICK point : point = Max({commit[n]} \cup ks)
  OBVIOUS
<1>2. /\ commit' = [commit EXCEPT ![n] = point]
      /\ chosen' = IF point > Len(chosen) THEN SubSeq(log[n], 1, point) ELSE chosen
  BY <1>1 DEF Progress
<1>3. /\ log[n] \in Seq(Entry) /\ commit \in [Node -> Nat] /\ chosen \in Seq(Entry)
      /\ Len(log[n]) \in Nat /\ Len(chosen) \in Nat /\ Setting(F, H)
      /\ \A p \in Node : Known(LeaderIdOf(vote[p]).term, commit[p], log[p], F, H)
  BY DEF Moves, Setting, KnownInv
<1>4. commit[n] <= Len(log[n]) /\ commit[n] <= Len(chosen)
  BY <1>3, KnownIs
<1>5. point \in {commit[n]} \cup ks /\ point \in Nat /\ commit[n] <= point
  <2>1. {commit[n]} \cup ks \in SUBSET (0..Len(log[n]))
    BY <1>3, <1>4
  <2> HIDE DEF ks
  <2>2. /\ point \in {commit[n]} \cup ks
        /\ \A x \in {commit[n]} \cup ks : x <= point
    BY <2>1, <1>1, <1>3, MaxIs
  <2> QED
    BY <2>1, <2>2
<1>6. /\ commit' \in [Node -> Nat] /\ commit'[n] = point
      /\ \A p \in Node : p # n => commit'[p] = commit[p]
  BY <1>2, <1>3, <1>5
<1>7. CASE point = commit[n]
  <2>1. commit' = commit /\ chosen' = chosen
    BY <1>2, <1>3, <1>4, <1>7
  <2>2. Begins(chosen, chosen')
    BY <2>1, <1>3 DEF Begins
  <2> QED
    BY <2>1, <2>2, <1>3 DEF CommitsMove, ChosenMoves, CommitStep
<1>8. CASE point \in ks
  <2>1. PICK id : id = LeaderIdOf(vote[n])
    OBVIOUS
  <2>2. RoleInv(n, G)' /\ G[id] = log[n] /\ id \in elected'
    BY <2>1 DEF Moves, MatchInv, RolesInv, RoleInv
  <2>3. Own(id, G[id], point) /\ point <= Len(log[n]) /\ point >= 1
    BY <2>1, <2>2, <1>3, <1>8 DEF Own, MyLeaderId
  <2>4. PICK Q \in Quorum : Q \subseteq {p \in Node : matched'[n][p] >= point}
    BY <1>8 DEF HasQuorum
  <2>5. ASSUME NEW p \in Q
        PROVE  Kept(vote'[p], ballots'[p], survivors'[p], elected', id, G[id], point, K)
    <3>1. p \in Node /\ matched'[n][p] >= point /\ matched'[n][p] \in Nat
      BY <2>4 DEF Moves, MatchInv, RolesInv
    <3>2. KeptUpTo(p, survivors[p], LeaderIdOf(vote[n]), matched[n][p], G, K)'
      BY <3>1 DEF KeptInv
    <3>3. point \in 1..matched'[n][p]
      BY <3>1, <2>3, <1>5
    <3> QED
      BY <3>2, <3>3, <2>1, <2>3 DEF KeptUpTo
  <2>6. Chosen(id, point, G, K)'
    BY <2>2, <2>3, <2>5 DEF Chosen
  <2>7. id.term <= MaxTerm /\ id.term \in Nat
    BY <2>2, ClusterAssumption DEF Moves, Setting
  <2>8. PICK s : s = chosen
    OBVIOUS
  <2>9. PICK l : l = log[n]
    OBVIOUS
  <2>10. PICK r : r = chosen'
    OBVIOUS
  <2>11. /\ s \in Seq(Entry) /\ l \in Seq(Entry) /\ G[id] = l /\ Len(s) \in Nat /\ Len(l) \in Nat
         /\ point <= Len(l) /\ r = IF point > Len(s) THEN SubSeq(l, 1, point) ELSE s
    BY <2>2, <2>3, <2>8, <2>9, <2>10, <1>2, <1>3
  <2>12. PICK c : c = IF point > Len(s) THEN Len(s) ELSE point
    OBVIOUS
  <2>13. c \in Nat /\ c <= Len(s) /\ c <= point
    BY <2>11, <2>12, <1>5
  <2>14. Agree(s, l, c)
    <3>1. CASE Len(s) = 0
      <4>1. c = 0
        BY <3>1, <2>13
      <4> QED
        BY <4>1 DEF Agree
    <3>2. CASE Len(s) # 0
      <4>1. PICK a \in elected : \E k \in 1..Len(F[a]) :
                   Chosen(a, k, F, H) /\ Len(s) <= k /\ Agree(s, F[a], Len(s))
        BY <3>2, <2>8 DEF KnownInv, Known
      <4>2. PICK k \in 1..Len(F[a]) :
                   Chosen(a, k, F, H) /\ Len(s) <= k /\ Agree(s, F[a], Len(s))
        BY <4>1
      <4>3. Chosen(a, k, G, K)'
        BY <4>2, ChosenKept
      <4>4. F[a] \in Seq(Entry) /\ G[a] \in Seq(Entry) /\ Begins(F[a], G[a]) /\ k \in Nat
        BY DEF Moves, Setting, Grows
      <4>5. Agree(s, F[a], c)
        BY <4>2, <2>11, <2>13, AgreeLess
      <4>6. Agree(s, G[a], c)
        BY <4>4, <4>5, <2>11, <2>13, AgreeGrows
      <4>7. c <= k
        BY <4>2, <4>4, <2>11, <2>13
      <4>8. IInv' /\ Setting(G, K)'
        BY DEF Moves
      <4>9. Agree(G[a], G[id], c)
        BY <4>3, <4>7, <4>8, <2>6, <2>13, CompatibleNext DEF Compatibility
      <4> QED
        BY <4>6, <4>9, <2>11, <2>13, AgreeTrans
    <3> QED
      BY <3>1, <3>2
  <2>15. /\ r \in Seq(Entry) /\ Begins(s, r) /\ Agree(r, l, point)
         /\ (r = s \/ Len(r) = point)
    <3>1. CASE point > Len(s)
      <4>1. r = SubSeq(l, 1, point) /\ point \in 0..Len(l)
        BY <3>1, <2>11, <1>5
      <4>2. r \in Seq(Entry) /\ Len(r) = point /\ \A j \in 1..point : r[j] = l[j]
        BY <4>1, <2>11, PrefixIs
      <4>3. Agree(r, l, point)
        <5>1. l \in Seq(Entry) /\ point <= Len(l) /\ point <= Len(r)
          BY <4>2, <2>11, <1>5
        <5> QED
          BY <4>2, <5>1, <1>5, AgreeIs
      <4>4. c = Len(s) /\ \A j \in 1..Len(s) : s[j] = l[j]
        BY <3>1, <2>11, <2>12, <2>14, AgreeIs
      <4>5. Begins(s, r)
        <5>1. Len(s) <= Len(r) /\ Len(s) \in Nat /\ point \in Nat /\ Len(s) <= point
          BY <4>2, <3>1, <2>11, <1>5
        <5>2. \A j \in 1..Len(s) : r[j] = l[j] /\ s[j] = l[j]
          BY <5>1, <4>2, <4>4
        <5> QED
          BY <5>1, <5>2 DEF Begins
      <4> QED
        BY <4>2, <4>3, <4>5
    <3>2. CASE ~(point > Len(s))
      <4>1. r = s /\ c = point
        BY <3>2, <2>11, <2>12
      <4> QED
        BY <4>1, <2>11, <2>14 DEF Begins
    <3> QED
      BY <3>1, <3>2
  <2>16. Known(id.term, point, l, G, K)'
    <3>1. Agree(l, G[id], point)
      BY <2>11, <1>5, AgreeIs
    <3>2. Agree(chosen', G[id], point)
      BY <2>10, <2>11, <2>15
    <3>3. point \in 1..Len(G[id]) /\ id.term <= id.term /\ point <= point
      BY <2>3, <2>7, <1>5 DEF Own
    <3> QED
      BY <3>1, <3>2, <3>3, <2>2, <2>6 DEF Known
  <2>17. CommitsMove(F, G, H, K)
    <3>1. ASSUME NEW p \in Node
          PROVE  \/ Known(LeaderIdOf(vote'[p]).term, commit'[p], log'[p], F, H)
                 \/ Known(LeaderIdOf(vote[p]).term, commit[p], log[p], G, K)'
      <4>1. CASE p = n
        BY <4>1, <2>1, <2>9, <2>16, <1>6
      <4>2. CASE p # n
        BY <4>2, <1>3, <1>6
      <4> QED
        BY <4>1, <4>2
    <3> QED
      BY <3>1, <1>6 DEF CommitsMove
  <2>18. chosen' = chosen \/ Known(MaxTerm, Len(chosen), chosen, G, K)'
    <3>1. CASE r = s
      BY <3>1, <2>8, <2>10
    <3>2. CASE Len(r) = point
      <4>1. Agree(chosen', G[id], point) /\ point \in 1..Len(G[id])
        BY <2>3, <2>10, <2>11, <2>15 DEF Own
      <4>2. Known(MaxTerm, point, r, G, K)'
        <5>1. Agree(r, G[id], point) /\ point <= point
          BY <4>1, <2>10, <1>5
        <5> QED
          BY <4>1, <5>1, <2>2, <2>6, <2>7 DEF Known
      <4> QED
        BY <4>2, <3>2, <2>10
    <3> QED
      BY <3>1, <3>2, <2>15
  <2>19. CommitStep
    BY <2>8, <2>10, <2>15, <1>5, <1>6 DEF CommitStep
  <2> QED
    BY <2>8, <2>10, <2>15, <2>17, <2>18, <2>19 DEF ChosenMoves
<1> QED
  BY <1>5, <1>7, <1>8

\* A leader sends where it commits to.
LEMMA SentCommit ==
  ASSUME NEW l \in Seq(Entry), \A j \in 1..Len(l) : l[j].index = j, NEW a \in Nat, a <= Len(l),
         NEW r, r.leader_commit = OptToPb(LogIdAt(l, a))
  PROVE  CommitOf(r) = a
<1>1. OptFromPb(r.leader_commit) = LogIdAt(l, a)
  BY LogIdRoundTrip
<1>2. LogIdAt(l, a) = IF a \in 1..Len(l)
                      THEN {[leader_id |-> l[a].term, index |-> l[a].index]} ELSE {}
  BY LogIdAtIs
<1>3. {0} \cup {x.index : x \in LogIdAt(l, a)} = {0, a}
  <2>1. CASE a \in 1..Len(l)
    BY <2>1, <1>2
  <2>2. CASE a \notin 1..Len(l)
    <3>1. a = 0 /\ LogIdAt(l, a) = {}
      BY <2>2, <1>2
    <3> QED
      BY <3>1
  <2> QED
    BY <2>1, <2>2
<1>4. Max({0, a}) = a
  BY MaxOfTwo
<1> QED
  BY <1>1, <1>3, <1>4 DEF CommitOf, IndexOf

LEMMA AsksLess ==
  ASSUME NEW F, NEW H, \A c \in calls' : c \in calls \/ c.kind # "append"
  PROVE  AsksMove(F, H)
BY DEF AsksMove

LEMMA HandledAsks ==
  ASSUME IInv, NEW F, NEW H, NEW c \in calls, NEW at, NEW r, Handled(c, at, r)
  PROVE  AsksMove(F, H)
<1>e. PICK e : e = [c EXCEPT !.at = at, !.reply = r]
  OBVIOUS
<1>1. e.kind = c.kind /\ e.request = c.request
  <2> DEFINE A == {c.at, at}
             R == {c.reply, r}
  <2>1. c \in [client : Node \cup {Gone}, server : Node, kind : {"vote", "append"},
               request : {c.request}, at : A, reply : R]
    BY DEF IInv, CallsInv, IsCall
  <2> QED
    BY <2>1, <1>e, RecordUpdated
<1>2. \A d \in calls' : d \in calls \/ d = e
  BY <1>e DEF Handled
<1> QED
  BY <1>1, <1>2 DEF AsksMove

LEMMA SendAppendAsks ==
  ASSUME NEW F, NEW G, NEW H, NEW K, Moves(F, G, H, K), KnownInv(F, H),
         NEW n \in Node, NEW m \in Node, NEW i \in 0..MaxIndex, SendAppend(n, m, i)
  PROVE  AsksMove(F, H)
<1>1. PICK id : id = LeaderIdOf(vote[n])
  OBVIOUS
<1>2. role[n] = "leader" /\ RoleInv(n, F)
  BY DEF SendAppend, Moves, MatchInv, RolesInv
<1>3. id \in elected /\ F[id] = log[n]
  BY <1>1, <1>2 DEF RoleInv
<1>4. PICK a : a = commit[n]
  OBVIOUS
<1>5. /\ a \in Nat /\ Known(id.term, a, log[n], F, H) /\ chosen \in Seq(Entry)
      /\ log[n] \in Seq(Entry) /\ Setting(F, H) /\ \A j \in 1..Len(log[n]) : log[n][j].index = j
  <2>1. Setting(F, H) /\ Sound(log[n], elected, F)
    BY DEF Moves, Setting
  <2> QED
    BY <2>1, <1>1, <1>4 DEF KnownInv, Sound, IsLog
<1>6. a <= Len(log[n])
  BY <1>5, KnownIs
<1> DEFINE r == AppendRequestToPb([vote |-> vote[n], prev_log_id |-> LogIdAt(log[n], i),
                  entries |-> SubSeq(log[n], i + 1, Len(log[n])),
                  leader_commit |-> LogIdAt(log[n], a)])
<1>7. r.vote = {vote[n]} /\ r.leader_commit = OptToPb(LogIdAt(log[n], a))
  BY DEF AppendRequestToPb
<1>8. \A c \in calls' : c \in calls \/ c.request = r
  BY <1>4 DEF SendAppend, Send
<1> HIDE DEF r
<1>9. CommitOf(r) = a
  BY <1>5, <1>6, <1>7, SentCommit
<1> QED
  BY <1>1, <1>3, <1>5, <1>7, <1>8, <1>9 DEF AsksMove

LEMMA AsksOfStep ==
  ASSUME NEW F, NEW G, NEW H, NEW K, Moves(F, G, H, K), KnownInv(F, H), [Next]_vars
  PROVE  AsksMove(F, H)
<1>1. ASSUME NEW n \in Node, Campaign(n) \/ LeaderAppend(n) \/ Crash(n)
      PROVE  AsksMove(F, H)
  <2>1. calls' \subseteq calls
    BY <1>1 DEF Campaign, LeaderAppend, Crash
  <2> QED
    BY <2>1, AsksLess
<1>2. ASSUME NEW n \in Node, Flush(n)
      PROVE  AsksMove(F, H)
  <2> DEFINE told == {c \in calls : c.server = n /\ c.at = "flushing"}
             p    == AppendResponseToPb(Success)
  <2>1. calls' = (calls \ told) \cup {[c EXCEPT !.at = "answered", !.reply = {p}] : c \in told}
    BY <1>2 DEF Flush
  <2> HIDE DEF p
  <2>2. ASSUME NEW d \in calls', d \notin calls
        PROVE  \E c \in calls : d.kind = c.kind /\ d.request = c.request
    <3>1. PICK c \in told : d = [c EXCEPT !.at = "answered", !.reply = {p}]
      BY <2>1, <2>2
    <3>2. d.kind = c.kind /\ d.request = c.request
      <4> DEFINE A == {c.at, "answered"}
                 R == {c.reply, {p}}
      <4>1. c \in [client : Node \cup {Gone}, server : Node, kind : {"vote", "append"},
                   request : {c.request}, at : A, reply : R]
        BY DEF Moves, IInv, CallsInv, IsCall
      <4> QED
        BY <4>1, <3>1, RecordUpdated
    <3> QED
      BY <3>2
  <2> QED
    BY <2>2 DEF AsksMove
<1>3. ASSUME NEW n \in Node, NEW m \in Node, RequestVote(n, m)
      PROVE  AsksMove(F, H)
  <2>1. PICK r : calls' = calls \cup {[client |-> n, server |-> m, kind |-> "vote",
                                       request |-> r, at |-> "sent", reply |-> {}]}
    BY <1>3 DEF RequestVote, Send
  <2>2. \A c \in calls' : c \in calls \/ c.kind # "append"
    BY <2>1
  <2> QED
    BY <2>2, AsksLess
<1>4. ASSUME NEW n \in Node, NEW m \in Node, NEW i \in 0..MaxIndex, SendAppend(n, m, i)
      PROVE  AsksMove(F, H)
  BY <1>4, SendAppendAsks
<1>5. ASSUME NEW c \in calls, VoteReply(c) \/ AppendReply(c) \/ Lose(c)
      PROVE  AsksMove(F, H)
  <2>1. calls' \subseteq calls
    BY <1>5 DEF VoteReply, AppendReply, Lose
  <2> QED
    BY <2>1, AsksLess
<1>6. ASSUME NEW c \in calls, HandleVote(c) \/ HandleAppend(c)
      PROVE  AsksMove(F, H)
  <2>1. PICK at, r : Handled(c, at, r)
    BY <1>6 DEF HandleVote, HandleAppend, Answer, Accept
  <2> QED
    BY <2>1, HandledAsks DEF Moves
<1>7. ASSUME NEW c \in calls, GiveUp(c)
      PROVE  AsksMove(F, H)
  <2>e. PICK e : e = [c EXCEPT !.client = Gone]
    OBVIOUS
  <2>1. e.kind = c.kind /\ e.request = c.request
    <3>1. IsCall(c)
      BY DEF Moves, IInv, CallsInv
    <3> QED
      BY <3>1, <2>e DEF IsCall
  <2>2. \A d \in calls' : d \in calls \/ d = e
    BY <1>7, <2>e DEF GiveUp
  <2> QED
    BY <2>1, <2>2 DEF AsksMove
<1>8. CASE UNCHANGED vars
  BY <1>8, AsksLess DEF vars
<1> QED
  BY <1>1, <1>2, <1>3, <1>4, <1>5, <1>6, <1>7, <1>8 DEF Next

-----------------------------------------------------------------------------
(* What is known to be committed, action by action.                        *)

KnownMoves(F, G, H, K) == CommitsMove(F, G, H, K) /\ ChosenMoves(G, K) /\ CommitStep

\* What a node knew it knows as long as its log at most grows.
LEMMA StillKnows ==
  ASSUME NEW F, NEW G, NEW H, NEW K, Moves(F, G, H, K), KnownInv(F, H), NEW n \in Node,
         log'[n] = log[n] \/ Begins(log[n], log'[n])
  PROVE  Known(LeaderIdOf(vote'[n]).term, commit[n], log'[n], F, H)
<1>1. PICK t : t = LeaderIdOf(vote[n]).term
  OBVIOUS
<1>2. PICK u : u = LeaderIdOf(vote'[n]).term
  OBVIOUS
<1>3. PICK c : c = commit[n]
  OBVIOUS
<1>4. PICK l : l = log[n]
  OBVIOUS
<1>5. PICK m : m = log'[n]
  OBVIOUS
<1>6. /\ t \in Nat /\ u \in Nat /\ t <= u
  BY <1>1, <1>2, VoteTerms DEF Moves
<1>7. /\ c \in Nat /\ l \in Seq(Entry) /\ m \in Seq(Entry) /\ (m = l \/ Begins(l, m))
      /\ Setting(F, H) /\ chosen \in Seq(Entry) /\ Known(t, c, l, F, H)
  BY <1>1, <1>3, <1>4, <1>5 DEF Moves, Setting, KnownInv
<1>8. c <= Len(l)
  BY <1>7, KnownIs
<1>9. Agree(m, l, c)
  <2>1. CASE m = l
    BY <2>1, <1>7, <1>8, AgreeIs
  <2>2. CASE Begins(l, m)
    BY <2>2, <1>7, <1>8, AgreeBegins
  <2> QED
    BY <2>1, <2>2, <1>7
<1>10. Known(u, c, m, F, H)
  BY <1>6, <1>7, <1>9, KnownLess
<1> QED
  BY <1>2, <1>3, <1>5, <1>10

LEMMA StillChosen ==
  ASSUME NEW F, NEW H, KnownInv(F, H), UNCHANGED chosen, NEW G, NEW K
  PROVE  ChosenMoves(G, K)
<1>1. chosen \in Seq(Entry) /\ chosen' = chosen
  BY DEF KnownInv
<1>2. Begins(chosen, chosen')
  BY <1>1 DEF Begins
<1> QED
  BY <1>1, <1>2 DEF ChosenMoves

LEMMA StillKnown ==
  ASSUME NEW F, NEW G, NEW H, NEW K, Moves(F, G, H, K), KnownInv(F, H),
         UNCHANGED <<commit, chosen>>,
         \A n \in Node : log'[n] = log[n] \/ Begins(log[n], log'[n])
  PROVE  KnownMoves(F, G, H, K)
<1>1. commit' \in [Node -> Nat] /\ \A n \in Node : commit'[n] = commit[n]
  BY DEF KnownInv
<1>2. \A n \in Node : Known(LeaderIdOf(vote'[n]).term, commit[n], log'[n], F, H)
  BY StillKnows
<1>3. CommitsMove(F, G, H, K)
  BY <1>1, <1>2 DEF CommitsMove
<1>4. ChosenMoves(G, K) /\ CommitStep
  BY StillChosen DEF CommitStep
<1> QED
  BY <1>3, <1>4 DEF KnownMoves

LEMMA CrashKnown ==
  ASSUME NEW F, NEW G, NEW H, NEW K, Moves(F, G, H, K), KnownInv(F, H),
         NEW n \in Node, Crash(n)
  PROVE  KnownMoves(F, G, H, K)
<1>1. /\ commit' = [commit EXCEPT ![n] = 0] /\ UNCHANGED chosen
      /\ \E l : log' = [log EXCEPT ![n] = l]
  BY DEF Crash, historyVars
<1>2. commit \in [Node -> Nat] /\ log \in [Node -> Seq(Entry)]
  BY DEF Moves, Setting, KnownInv
<1>3. /\ commit' \in [Node -> Nat] /\ commit'[n] = 0
      /\ \A p \in Node : p # n => commit'[p] = commit[p] /\ log'[p] = log[p]
  BY <1>1, <1>2
<1>4. ASSUME NEW p \in Node
      PROVE  Known(LeaderIdOf(vote'[p]).term, commit'[p], log'[p], F, H)
  <2>1. CASE p = n
    BY <2>1, <1>3 DEF Known
  <2>2. CASE p # n
    <3>1. Known(LeaderIdOf(vote'[p]).term, commit[p], log'[p], F, H)
      BY <2>2, <1>3, StillKnows
    <3> QED
      BY <2>2, <3>1, <1>3
  <2> QED
    BY <2>1, <2>2
<1>5. CommitsMove(F, G, H, K)
  BY <1>3, <1>4 DEF CommitsMove
<1>6. CommitStep
  BY <1>1, <1>3 DEF CommitStep
<1> QED
  BY <1>1, <1>5, <1>6, StillChosen DEF KnownMoves

\* The append handler: what the leader knew the node knows, as far as it took entries.
LEMMA TookKnown ==
  ASSUME NEW F, NEW G, NEW H, NEW K, Moves(F, G, H, K), KnownInv(F, H),
         NEW c \in calls, c.kind = "append", NEW v \in Votes, NEW q, Took(c, v, q, F), UNCHANGED chosen
  PROVE  KnownMoves(F, G, H, K)
<1>n. PICK n : n = c.server
  OBVIOUS
<1>y. PICK y : y = LeaderIdOf(v)
  OBVIOUS
<1>l. PICK l : l = log[n]
  OBVIOUS
<1>c. PICK old : old = commit[n]
  OBVIOUS
<1>t. PICK t : t = LeaderIdOf(vote[n]).term
  OBVIOUS
<1>1. /\ n \in Node /\ v \in Votes /\ y \in elected /\ q \in Seq(Entry) /\ vote[n] \in Votes
      /\ VoteGeq(v, vote[n])
      /\ \A a \in Nat : Agree(l, F[y], a) => Agree(q, F[y], a)
  BY <1>n, <1>y, <1>l, TookIs DEF Moves
<1>2. Write(n, v, q) /\ c.request.vote = {v} /\ Reports(c, v, F)
  BY <1>n DEF Took
<1>3. /\ IInv /\ Setting(F, H) /\ vote \in [Node -> Votes] /\ log \in [Node -> Seq(Entry)]
      /\ commit \in [Node -> Nat] /\ F[y] \in Seq(Entry) /\ old \in Nat
      /\ y.term \in Nat /\ Known(t, old, l, F, H)
  <2>0. IInv /\ Setting(F, H)
    BY DEF Moves
  <2>1. /\ vote \in [Node -> Votes] /\ log \in [Node -> Seq(Entry)]
        /\ F[y] \in Seq(Entry) /\ y.term \in Nat
    BY <2>0, <1>1 DEF Setting
  <2>2. commit \in [Node -> Nat] /\ Known(LeaderIdOf(vote[n]).term, commit[n], log[n], F, H)
    BY <1>1 DEF KnownInv
  <2> QED
    BY <2>0, <2>1, <2>2, <1>1, <1>l, <1>c, <1>t
<1>4. /\ vote'[n] = v /\ log'[n] = q
      /\ \A p \in Node : p # n => vote'[p] = vote[p] /\ log'[p] = log[p]
  BY <1>1, <1>2, <1>3 DEF Write
<1>5. t \in Nat /\ t <= y.term
  BY <1>1, <1>4, <1>y, <1>t, VoteTerms DEF Moves
<1>6. Known(y.term, old, q, F, H)
  BY <1>1, <1>3, <1>5, KnownFollows
<1>7. PICK new : new = commit'[n]
  OBVIOUS
<1>8. /\ commit' \in [Node -> Nat] /\ \A p \in Node : p # n => commit'[p] = commit[p]
      /\ old <= new /\ Known(y.term, new, q, F, H)
  <2>1. CASE UNCHANGED commit
    BY <2>1, <1>1, <1>3, <1>6, <1>7, <1>c
  <2>2. CASE /\ Agree(q, F[y], UpTo(c.request))
             /\ commit' = [commit EXCEPT ![n] =
                  Max({@, Min({CommitOf(c.request), UpTo(c.request)})})]
    <3>1. PICK a : a = CommitOf(c.request)
      OBVIOUS
    <3>2. PICK to : to = UpTo(c.request)
      OBVIOUS
    <3>3. a \in Nat /\ Known(y.term, a, F[y], F, H)
      BY <3>1, <1>2, <1>y DEF KnownInv
    <3>4. to \in Nat
      <4>1. IsPart(c.request, F[y])
        BY <1>2, <1>y DEF Reports
      <4> QED
        BY <4>1, <3>2, <1>3 DEF IsPart
    <3>5. PICK b : b = Min({a, to})
      OBVIOUS
    <3>6. b \in Nat /\ b <= a /\ b <= to
      BY <3>3, <3>4, <3>5, MinOfTwo
    <3>7. PICK d : d = Max({old, b})
      OBVIOUS
    <3>8. d \in Nat /\ (d = old \/ d = b) /\ old <= d
      BY <3>6, <3>7, <1>3, MaxOfTwo
    <3>9. commit' = [commit EXCEPT ![n] = d]
      BY <2>2, <3>1, <3>2, <3>5, <3>7, <1>c
    <3>10. commit' \in [Node -> Nat] /\ new = d /\ \A p \in Node : p # n => commit'[p] = commit[p]
      BY <3>8, <3>9, <1>1, <1>3, <1>7
    <3>11. Known(y.term, b, q, F, H)
      <4>1. Agree(q, F[y], b)
        BY <2>2, <3>2, <3>4, <3>6, AgreeLess
      <4> QED
        BY <4>1, <3>3, <3>6, <1>3, KnownLess
    <3> QED
      BY <3>8, <3>10, <3>11, <1>6
  <2> QED
    BY <2>1, <2>2, <1>n, <1>y DEF Took, CommitOf
<1>9. ASSUME NEW p \in Node
      PROVE  Known(LeaderIdOf(vote'[p]).term, commit'[p], log'[p], F, H)
  <2>1. CASE p = n
    BY <2>1, <1>4, <1>7, <1>8, <1>y
  <2>2. CASE p # n
    <3>1. Known(LeaderIdOf(vote'[p]).term, commit[p], log'[p], F, H)
      BY <2>2, <1>4, StillKnows
    <3> QED
      BY <2>2, <3>1, <1>8
  <2> QED
    BY <2>1, <2>2
<1>10. CommitsMove(F, G, H, K)
  BY <1>8, <1>9 DEF CommitsMove
<1>11. CommitStep
  BY <1>1, <1>3, <1>7, <1>8, <1>c DEF CommitStep
<1> QED
  BY <1>10, <1>11, StillChosen DEF KnownMoves

LEMMA HandleAppendKnown ==
  ASSUME NEW F, NEW G, NEW H, NEW K, Moves(F, G, H, K), KnownInv(F, H),
         NEW c \in calls, HandleAppend(c)
  PROVE  KnownMoves(F, G, H, K)
<1>1. c.kind = "append" /\ UNCHANGED chosen
  BY DEF HandleAppend, historyVars
<1>2. CASE Refused(c)
  <2>1. UNCHANGED <<log, commit>>
    BY <1>2 DEF Refused, nodeVars
  <2> QED
    BY <2>1, <1>1, StillKnown
<1>3. CASE \E v \in Votes : \E q : Took(c, v, q, F)
  BY <1>1, <1>3, TookKnown
<1> QED
  BY <1>2, <1>3, HandleAppendIs DEF Moves

LEMMA AppendReplyKnown ==
  ASSUME NEW F, NEW G, NEW H, NEW K, Moves(F, G, H, K), KnownInv(F, H), KeptInv(G, K)',
         NEW c \in calls, AppendReply(c)
  PROVE  KnownMoves(F, G, H, K)
<1> DEFINE n == c.client
<1>1. n \in Node /\ c.server \in Node /\ log \in [Node -> Seq(Entry)]
  <2>1. IsCall(c) /\ c.at = "answered"
    BY DEF Moves, IInv, CallsInv, AppendReply
  <2> QED
    BY <2>1 DEF IsCall, Moves, Setting
<1>2. \/ \E v : TakeOver(n, v) /\ UNCHANGED <<commit, chosen>>
      \/ \E to : /\ role[n] = "leader" /\ Progress(n, c.server, to)
                 /\ UNCHANGED <<vote, log, role>>
      \/ UNCHANGED <<nodeVars, chosen>>
  BY DEF AppendReply
<1>3. CASE \E v : TakeOver(n, v) /\ UNCHANGED <<commit, chosen>>
  <2>1. PICK w : Write(n, w, log[n])
    BY <1>3 DEF TakeOver
  <2>2. log' = log
    BY <2>1, <1>1 DEF Write
  <2> QED
    BY <2>2, <1>3, StillKnown
<1>4. CASE \E to : /\ role[n] = "leader" /\ Progress(n, c.server, to)
                   /\ UNCHANGED <<vote, log, role>>
  BY <1>1, <1>4, ProgressKnown DEF KnownMoves
<1>5. CASE UNCHANGED <<nodeVars, chosen>>
  BY <1>5, StillKnown DEF nodeVars
<1> QED
  BY <1>2, <1>3, <1>4, <1>5

LEMMA FlushKnown ==
  ASSUME NEW F, NEW G, NEW H, NEW K, Moves(F, G, H, K), KnownInv(F, H), KeptInv(G, K)',
         NEW n \in Node, Flush(n)
  PROVE  KnownMoves(F, G, H, K)
<1>1. UNCHANGED <<vote, log, role>>
  BY DEF Flush
<1>2. CASE role[n] = "leader"
  <2>1. Progress(n, n, Len(log[n]))
    BY <1>2 DEF Flush
  <2>2. PICK to : to = Len(log[n])
    OBVIOUS
  <2> QED
    BY <2>1, <2>2, <1>1, <1>2, ProgressKnown DEF KnownMoves
<1>3. CASE role[n] # "leader"
  <2>1. UNCHANGED <<commit, chosen>>
    BY <1>3 DEF Flush
  <2> QED
    BY <2>1, <1>1, StillKnown
<1> QED
  BY <1>2, <1>3

LEMMA KnownMovesOfStep ==
  ASSUME NEW F, NEW G, NEW H, NEW K, Moves(F, G, H, K), KnownInv(F, H), KeptInv(G, K)',
         [Next]_vars
  PROVE  KnownMoves(F, G, H, K)
<1>0. log \in [Node -> Seq(Entry)] /\ IInv
  BY DEF Moves, Setting
<1>1. ASSUME NEW n \in Node, Campaign(n)
      PROVE  KnownMoves(F, G, H, K)
  <2>1. UNCHANGED <<log, commit, chosen>>
    BY <1>1, <1>0 DEF Campaign, Count, Write
  <2> QED
    BY <2>1, StillKnown
<1>2. ASSUME NEW n \in Node, LeaderAppend(n)
      PROVE  KnownMoves(F, G, H, K)
  <2>1. PICK e : e = [term |-> MyLeaderId(n).term, index |-> Len(log[n]) + 1]
    OBVIOUS
  <2>2. PICK q : q = Append(log[n], e)
    OBVIOUS
  <2>3. Write(n, vote[n], q) /\ UNCHANGED <<commit, chosen>>
    BY <1>2, <2>1, <2>2 DEF LeaderAppend, historyVars
  <2>4. e \in Entry /\ log[n] \in Seq(Entry) /\ Len(log[n]) \in Nat
    <3>1. vote[n] \in Votes
      BY <1>0 DEF IInv, VotesInv
    <3>2. MyLeaderId(n).term \in Nat
      BY <3>1, LeaderIdIs DEF MyLeaderId, LeaderId
    <3> QED
      BY <3>2, <2>1, <1>0 DEF Entry
  <2>5. /\ q \in Seq(Entry) /\ Len(q) = Len(log[n]) + 1
        /\ \A j \in 1..Len(log[n]) : q[j] = log[n][j]
    BY <2>2, <2>4, AppendIs
  <2>6. Begins(log[n], q)
    BY <2>4, <2>5 DEF Begins
  <2>7. log'[n] = q /\ \A p \in Node : p # n => log'[p] = log[p]
    BY <2>3, <1>0 DEF Write
  <2>8. \A p \in Node : log'[p] = log[p] \/ Begins(log[p], log'[p])
    BY <2>6, <2>7
  <2> QED
    BY <2>3, <2>8, StillKnown
<1>3. ASSUME NEW n \in Node, NEW m \in Node,
             RequestVote(n, m) \/ \E i \in 0..MaxIndex : SendAppend(n, m, i)
      PROVE  KnownMoves(F, G, H, K)
  BY <1>3, StillKnown DEF RequestVote, SendAppend, nodeVars, historyVars
<1>4. ASSUME NEW c \in calls, HandleVote(c)
      PROVE  KnownMoves(F, G, H, K)
  <2>1. c.server \in Node
    BY <1>0 DEF IInv, CallsInv, IsCall
  <2>2. (\E v : Write(c.server, v, log[c.server])) /\ UNCHANGED <<commit, chosen>>
    BY <1>4 DEF HandleVote
  <2>3. log' = log
    BY <2>1, <2>2, <1>0 DEF Write
  <2> QED
    BY <2>2, <2>3, StillKnown
<1>5. ASSUME NEW c \in calls, VoteReply(c)
      PROVE  KnownMoves(F, G, H, K)
  <2>1. c.client \in Node
    <3>1. IsCall(c) /\ c.at = "answered"
      BY <1>0, <1>5 DEF IInv, CallsInv, VoteReply
    <3> QED
      BY <3>1 DEF IsCall
  <2>2. /\ UNCHANGED log \/ \E v : Write(c.client, v, log[c.client])
        /\ UNCHANGED <<commit, chosen>>
    BY <1>5 DEF VoteReply, Count, TakeOver
  <2>3. log' = log
    BY <2>1, <2>2, <1>0 DEF Write
  <2> QED
    BY <2>2, <2>3, StillKnown
<1>6. ASSUME NEW c \in calls, Lose(c) \/ GiveUp(c)
      PROVE  KnownMoves(F, G, H, K)
  BY <1>6, StillKnown DEF Lose, GiveUp, nodeVars, historyVars
<1>7. CASE UNCHANGED vars
  BY <1>7, StillKnown DEF vars, nodeVars, historyVars
<1>8. ASSUME NEW n \in Node, Flush(n) \/ Crash(n)
      PROVE  KnownMoves(F, G, H, K)
  BY <1>8, FlushKnown, CrashKnown
<1>9. ASSUME NEW c \in calls, HandleAppend(c) \/ AppendReply(c)
      PROVE  KnownMoves(F, G, H, K)
  BY <1>9, HandleAppendKnown, AppendReplyKnown
<1> QED
  BY <1>1, <1>2, <1>3, <1>4, <1>5, <1>6, <1>7, <1>8, <1>9 DEF Next

-----------------------------------------------------------------------------
(* The invariant holds.                                                    *)

HInv == \E F, H : MatchInv(F) /\ HistoryInv(F, H)

\* SettingIs holds of the next state too.
Settled == \A F, H : IInv /\ MatchInv(F) /\ BaseInv(F, H) => Setting(F, H)

LEMMA SettledAlways == Settled
BY SettingIs DEF Settled

LEMMA SettledNext == Settled'
BY SettledAlways, PTL

LEMMA HInvInit ==
  ASSUME Init
  PROVE  HInv
<1>1. PICK F : F = [id \in LeaderId |-> <<>>]
  OBVIOUS
<1>2. MatchInv(F)
  BY <1>1, MatchInit
<1>3. BaseInv(F, F)
  <2>1. F \in [LeaderId -> Seq(Entry)]
    BY <1>1
  <2>2. BallotLogs(F, F) /\ LeaderLogs(F, F) /\ CandidateLogs(F) /\ RequestLogs(F)
    BY DEF Init, BallotLogs, LeaderLogs, CandidateLogs, RequestLogs
  <2>3. LogTerms
    <3>1. \A n \in Node : \A l \in survivors[n] : Len(l) = 0
      BY DEF Init
    <3> QED
      BY <3>1 DEF LogTerms
  <2> QED
    BY <2>1, <2>2, <2>3 DEF BaseInv
<1>4. KeptInv(F, F)
  BY DEF Init, KeptInv
<1>5. KnownInv(F, F)
  <2>1. /\ chosen \in Seq(Entry) /\ Len(chosen) = 0 /\ calls = {}
        /\ commit \in [Node -> Nat] /\ \A n \in Node : commit[n] = 0
    BY DEF Init
  <2>2. \A t, l : Known(t, 0, l, F, F)
    BY DEF Known
  <2> QED
    BY <2>1, <2>2 DEF KnownInv
<1> QED
  BY <1>2, <1>3, <1>4, <1>5 DEF HInv, HistoryInv

\* Each step, and what it makes of the history.
LEMMA HInvStep ==
  ASSUME IInv, IInv', HInv, [Next]_vars
  PROVE  HInv' /\ Begins(chosen, chosen') /\ CommitStep
<1>1. PICK F, H : MatchInv(F) /\ BaseInv(F, H) /\ KeptInv(F, H) /\ KnownInv(F, H)
  BY DEF HInv, HistoryInv
<1>2. PICK G : Grows(F, G) /\ MatchInv(G)'
  BY <1>1, MatchStep DEF MStep
<1>3. PICK K : Effect(F, H, K)
  BY <1>1, EffectOfStep
<1>4. BaseInv(G, K)'
  BY <1>1, <1>2, <1>3, BaseStep
<1>5. Setting(F, H) /\ Setting(G, K)'
  BY <1>1, <1>2, <1>4, SettingIs, SettledNext DEF Settled
<1>6. KeepsKept(F, G, H, K)
  BY <1>2, <1>3, <1>5, KeptStep DEF Effect
<1>7. Moves(F, G, H, K)
  BY <1>1, <1>2, <1>3, <1>5, <1>6 DEF Moves, Effect
<1>8. KeptInv(G, K)'
  BY <1>1, <1>7, KeptInvPreserved
<1>9. CommitsMove(F, G, H, K) /\ ChosenMoves(G, K) /\ CommitStep
  BY <1>1, <1>7, <1>8, KnownMovesOfStep DEF KnownMoves
<1>10. AsksMove(F, H)
  BY <1>1, <1>7, AsksOfStep
<1>11. KnownInv(G, K)'
  BY <1>1, <1>7, <1>9, <1>10, KnownInvStep
<1>12. HInv'
  BY <1>2, <1>4, <1>8, <1>11 DEF HInv, HistoryInv
<1> QED
  BY <1>9, <1>12 DEF ChosenMoves

-----------------------------------------------------------------------------
(* What it says of what each node knows.                                   *)

Learned == [n \in Node |-> SubSeq(log[n], 1, commit[n])]

ChosenEntry == [term : 1..MaxTerm, index : 1..MaxIndex]

LearnedInv ==
  /\ chosen \in Seq(ChosenEntry) /\ Len(chosen) <= MaxIndex
  /\ commit \in [Node -> Nat]
  /\ \A n \in Node :
       /\ log[n] \in Seq(Entry) /\ commit[n] <= Len(log[n]) /\ commit[n] <= Len(chosen)
       /\ Agree(log[n], chosen, commit[n])

LEMMA LearnedSafe ==
  ASSUME IInv, HInv
  PROVE  LearnedInv
<1>1. PICK F, H : MatchInv(F) /\ BaseInv(F, H) /\ KeptInv(F, H) /\ KnownInv(F, H)
  BY DEF HInv, HistoryInv
<1>2. Setting(F, H)
  BY <1>1, SettingIs
<1>3. /\ chosen \in Seq(Entry) /\ Len(chosen) \in Nat /\ Known(MaxTerm, Len(chosen), chosen, F, H)
      /\ commit \in [Node -> Nat]
      /\ \A n \in Node : Known(LeaderIdOf(vote[n]).term, commit[n], log[n], F, H)
  BY <1>1 DEF KnownInv
<1>4. chosen \in Seq(ChosenEntry) /\ Len(chosen) <= MaxIndex
  <2>1. CASE Len(chosen) = 0
    <3>1. chosen = <<>>
      BY <2>1, <1>3
    <3> QED
      BY <2>1, <3>1, ClusterAssumption
  <2>2. CASE Len(chosen) # 0
    <3>1. PICK id \in elected : Agree(chosen, F[id], Len(chosen))
      BY <2>2, <1>3 DEF Known
    <3>2. Sound(F[id], elected, F)
      BY <1>2 DEF Setting
    <3>3. /\ F[id] \in Seq(Entry) /\ Len(F[id]) <= MaxIndex /\ Len(F[id]) \in Nat
          /\ \A i \in 1..Len(F[id]) : F[id][i].term \in 1..MaxTerm /\ F[id][i].index = i
      BY <1>2, <3>2, SoundIs
    <3>4. Len(chosen) <= Len(F[id]) /\ \A i \in 1..Len(chosen) : chosen[i] = F[id][i]
      BY <1>3, <3>1, <3>3, AgreeIs
    <3>5. MaxIndex \in Nat
      BY ClusterAssumption
    <3>6. ASSUME NEW i \in 1..Len(chosen)
          PROVE  chosen[i] \in ChosenEntry
      <4>1. i \in 1..Len(F[id]) /\ chosen[i] = F[id][i] /\ chosen[i] \in Entry
        BY <3>3, <3>4, <1>3
      <4>2. chosen[i].term \in 1..MaxTerm /\ chosen[i].index = i /\ i \in 1..MaxIndex
        BY <4>1, <3>3, <3>5
      <4> QED
        BY <4>1, <4>2 DEF ChosenEntry, Entry
    <3>7. chosen \in Seq(ChosenEntry)
      BY <1>3, <3>6
    <3>8. Len(chosen) <= MaxIndex
      BY <1>3, <3>3, <3>4, <3>5
    <3> QED
      BY <3>7, <3>8
  <2> QED
    BY <2>1, <2>2
<1>5. ASSUME NEW n \in Node
      PROVE  /\ log[n] \in Seq(Entry) /\ commit[n] <= Len(log[n]) /\ commit[n] <= Len(chosen)
             /\ Agree(log[n], chosen, commit[n])
  <2>1. log[n] \in Seq(Entry) /\ commit[n] \in Nat
    BY <1>2, <1>3 DEF Setting
  <2> QED
    BY <2>1, <1>2, <1>3, KnownIs
<1> QED
  BY <1>3, <1>4, <1>5 DEF LearnedInv

LEMMA TypeSafe ==
  ASSUME IInv, HInv
  PROVE  TypeOK
<1>1. PICK F, H : MatchInv(F) /\ BaseInv(F, H) /\ KeptInv(F, H)
  BY DEF HInv, HistoryInv
<1>2. Setting(F, H)
  BY <1>1, SettingIs
<1>3. LearnedInv
  BY LearnedSafe
<1>4. ASSUME NEW n \in Node
      PROVE  /\ log[n] \in survivors[n] /\ Len(log[n]) \in Nat /\ Len(log[n]) <= MaxIndex
             /\ \A l \in survivors[n] : \A i \in DOMAIN l : l[i].index = i
  <2>1. log[n] \in survivors[n] /\ \A l \in survivors[n] : Sound(l, elected, F)
    BY <1>2 DEF Setting
  <2>2. \A l \in survivors[n] : /\ l \in Seq(Entry) /\ Len(l) <= MaxIndex
                                /\ \A i \in 1..Len(l) : l[i].index = i
    BY <2>1, <1>2, SoundIs
  <2> QED
    BY <2>1, <2>2
<1>5. matched \in [Node -> [Node -> 0..MaxIndex]]
  <2>1. matched \in [Node -> [Node -> Nat]] /\ MaxIndex \in Nat
    BY <1>1, ClusterAssumption DEF MatchInv, RolesInv
  <2>2. ASSUME NEW n \in Node, NEW m \in Node
        PROVE  matched[n][m] <= MaxIndex
    <3>1. CASE role[n] = "leader"
      <4>1. matched[n][m] <= Len(log[n])
        BY <3>1, <1>1 DEF KeptInv
      <4> QED
        BY <4>1, <1>4, <2>1
    <3>2. CASE role[n] # "leader"
      <4>1. matched[n] = NoMatch
        BY <3>2, <1>1 DEF MatchInv, RolesInv, RoleInv
      <4> QED
        BY <4>1, <2>1 DEF NoMatch
    <3> QED
      BY <3>1, <3>2
  <2>3. ASSUME NEW n \in Node
        PROVE  matched[n] \in [Node -> 0..MaxIndex]
    BY <2>1, <2>2
  <2> QED
    BY <2>1, <2>3
<1>6. /\ vote \in [Node -> [leader_id : {{l} : l \in LeaderId}, committed : BOOLEAN]]
      /\ role \in [Node -> {"follower", "candidate", "leader"}] /\ granted \in [Node -> SUBSET Node]
      /\ ballots \in [Node -> SUBSET LeaderId] /\ elected \in SUBSET LeaderId
  BY DEF IInv, VotesInv, Votes
<1>7. \A c \in calls : c.client \in Node \cup {Gone} /\ c.server \in Node
  <2>1. \A c \in calls : c \in [client : Node \cup {Gone}, server : Node, kind : {"vote", "append"},
                               request : {c.request}, at : {c.at}, reply : {c.reply}]
    BY DEF IInv, CallsInv, IsCall
  <2> QED
    BY <2>1
<1>8. \A n \in Node : commit[n] <= Len(log[n])
  BY <1>3 DEF LearnedInv
<1> QED
  BY <1>4, <1>5, <1>6, <1>7, <1>8 DEF TypeOK

\* Every variable of the cluster has its type, for any nodes and any quorums that meet: no
\* node commits past the end of its log, no leader counts on entries it does not have, and
\* what a crash may leave is a log without gaps.
THEOREM ClusterTypeCorrect == Spec => []TypeOK
<1>1. Init => IInv /\ HInv
  BY IInvInit, HInvInit
<1>2. IInv /\ HInv /\ [Next]_vars => IInv' /\ HInv'
  BY IInvStep, HInvStep
<1>3. IInv /\ HInv => TypeOK
  BY TypeSafe
<1> QED
  BY <1>1, <1>2, <1>3, PTL DEF Spec

-----------------------------------------------------------------------------
(* A step learns, forgets or shows nothing.                                *)

\* Prefixes of logs that agree are the same.
LEMMA PrefixesSame ==
  ASSUME NEW l \in Seq(Entry), NEW g \in Seq(Entry), NEW a \in Nat, Agree(l, g, a)
  PROVE  SubSeq(l, 1, a) = SubSeq(g, 1, a)
<1>1. a \in 0..Len(l) /\ a \in 0..Len(g) /\ \A j \in 1..a : l[j] = g[j]
  BY AgreeIs
<1>2. /\ SubSeq(l, 1, a) \in Seq(Entry) /\ Len(SubSeq(l, 1, a)) = a
      /\ \A j \in 1..a : SubSeq(l, 1, a)[j] = l[j]
  BY <1>1, PrefixIs
<1>3. /\ SubSeq(g, 1, a) \in Seq(Entry) /\ Len(SubSeq(g, 1, a)) = a
      /\ \A j \in 1..a : SubSeq(g, 1, a)[j] = g[j]
  BY <1>1, PrefixIs
<1>4. \A j \in 1..a : SubSeq(l, 1, a)[j] = SubSeq(g, 1, a)[j]
  BY <1>1, <1>2, <1>3
<1>5. PICK s : s = SubSeq(l, 1, a)
  OBVIOUS
<1>6. PICK t : t = SubSeq(g, 1, a)
  OBVIOUS
<1>7. s \in Seq(Entry) /\ t \in Seq(Entry) /\ Len(s) = a /\ Len(t) = a /\ \A j \in 1..a : s[j] = t[j]
  BY <1>2, <1>3, <1>4, <1>5, <1>6
<1>8. s = t
  BY <1>7
<1> QED
  BY <1>5, <1>6, <1>8

LEMMA BeginsAgree ==
  ASSUME NEW g \in Seq(Entry), NEW h \in Seq(Entry), NEW a \in Nat, Begins(g, h), a <= Len(g)
  PROVE  SubSeq(g, 1, a) = SubSeq(h, 1, a)
BY AgreeBegins, PrefixesSame

\* The first a entries of a log are a prefix of its first b.
LEMMA PrefixOfPrefix ==
  ASSUME NEW S, NEW g \in Seq(S), NEW b \in 0..Len(g), NEW a \in 0..b
  PROVE  Abstract!IsPrefix(SubSeq(g, 1, a), SubSeq(g, 1, b))
<1>0. a \in 0..Len(g)
  OBVIOUS
<1>1. /\ SubSeq(g, 1, a) \in Seq(S) /\ Len(SubSeq(g, 1, a)) = a
      /\ \A j \in 1..a : SubSeq(g, 1, a)[j] = g[j]
  BY <1>0, PrefixIs
<1>2. /\ SubSeq(g, 1, b) \in Seq(S) /\ Len(SubSeq(g, 1, b)) = b
      /\ \A j \in 1..b : SubSeq(g, 1, b)[j] = g[j]
  BY PrefixIs
<1>3. PICK s : s = SubSeq(g, 1, a)
  OBVIOUS
<1>4. PICK t : t = SubSeq(g, 1, b)
  OBVIOUS
<1>5. s \in Seq(S) /\ t \in Seq(S) /\ Len(s) = a /\ Len(t) = b /\ \A j \in 1..a : s[j] = t[j]
  BY <1>1, <1>2, <1>3, <1>4
<1>6. SubSeq(s, 1, a) = s
  BY <1>5
<1>7. SubSeq(t, 1, a) = s
  <2>1. SubSeq(t, 1, a) \in Seq(S) /\ Len(SubSeq(t, 1, a)) = a /\ \A j \in 1..a : SubSeq(t, 1, a)[j] = t[j]
    BY <1>5, PrefixIs
  <2>2. PICK u : u = SubSeq(t, 1, a)
    OBVIOUS
  <2>3. u \in Seq(S) /\ Len(u) = a /\ \A j \in 1..a : u[j] = s[j]
    BY <2>1, <2>2, <1>5
  <2>4. u = s
    BY <2>3, <1>5
  <2> QED
    BY <2>2, <2>4
<1>8. Abstract!IsPrefix(s, t)
  BY <1>5, <1>6, <1>7 DEF Abstract!IsPrefix
<1> QED
  BY <1>3, <1>4, <1>8

LEMMA PrefixIsHistory ==
  ASSUME NEW g \in Seq(ChosenEntry), Len(g) <= MaxIndex, NEW a \in 0..Len(g)
  PROVE  SubSeq(g, 1, a) \in Abstract!Histories
<1>1. /\ SubSeq(g, 1, a) \in Seq(ChosenEntry) /\ DOMAIN SubSeq(g, 1, a) = 1..a
  BY PrefixIs
<1>2. SubSeq(g, 1, a) \in [1..a -> ChosenEntry]
  <2>1. PICK s : s = SubSeq(g, 1, a)
    OBVIOUS
  <2>2. s \in Seq(ChosenEntry) /\ DOMAIN s = 1..a
    BY <1>1, <2>1
  <2>3. s \in [1..a -> ChosenEntry]
    BY <2>2
  <2> QED
    BY <2>1, <2>3
<1>3. a \in 0..MaxIndex
  BY ClusterAssumption
<1> QED
  BY <1>2, <1>3 DEF Abstract!Histories, Abstract!BoundedSeq, Abstract!SeqOf, ChosenEntry

\* What each node knows is a beginning of what is chosen.
Told == LearnedInv => Learned = [n \in Node |-> SubSeq(chosen, 1, commit[n])]

LEMMA ToldAlways == Told
<1>1. SUFFICES ASSUME LearnedInv, NEW n \in Node
               PROVE  SubSeq(log[n], 1, commit[n]) = SubSeq(chosen, 1, commit[n])
  BY DEF Told, Learned
<1>2. chosen \in Seq(ChosenEntry) /\ log[n] \in Seq(Entry) /\ commit[n] \in Nat
      /\ Agree(log[n], chosen, commit[n])
  BY <1>1 DEF LearnedInv
<1>3. chosen \in Seq(Entry)
  <2>1. ChosenEntry \subseteq Entry
    BY ClusterAssumption DEF ChosenEntry, Entry
  <2> QED
    BY <2>1, <1>2
<1> QED
  BY <1>2, <1>3, PrefixesSame

LEMMA ToldNext == Told'
BY ToldAlways, PTL

LEMMA LearnedSafeNext == (IInv /\ HInv => LearnedInv)'
<1>1. IInv /\ HInv => LearnedInv
  BY LearnedSafe
<1> QED
  BY <1>1, PTL

LEMMA HistoryStep ==
  ASSUME LearnedInv, LearnedInv', Begins(chosen, chosen'), CommitStep
  PROVE  [Abstract!HistoryNext]_(Abstract!historyVars)
<1>1. PICK C : C = chosen
  OBVIOUS
<1>2. PICK D : D = chosen'
  OBVIOUS
<1>3. PICK a : a = commit
  OBVIOUS
<1>4. PICK b : b = commit'
  OBVIOUS
<1>5. /\ C \in Seq(ChosenEntry) /\ D \in Seq(ChosenEntry) /\ Len(D) <= MaxIndex /\ Begins(C, D)
      /\ a \in [Node -> Nat] /\ b \in [Node -> Nat]
      /\ \A n \in Node : a[n] \in 0..Len(C) /\ b[n] \in 0..Len(D)
  BY <1>1, <1>2, <1>3, <1>4 DEF LearnedInv
<1>6. Learned = [n \in Node |-> SubSeq(C, 1, a[n])]
  BY <1>1, <1>3, ToldAlways DEF Told
<1>7. Learned' = [n \in Node |-> SubSeq(D, 1, b[n])]
  BY <1>2, <1>4, ToldNext DEF Told
<1>8. C \in Seq(Entry) /\ D \in Seq(Entry) /\ Len(C) \in Nat /\ Len(D) \in Nat /\ Len(C) <= Len(D)
  <2>1. ChosenEntry \subseteq Entry
    BY ClusterAssumption DEF ChosenEntry, Entry
  <2> QED
    BY <2>1, <1>5 DEF Begins
<1>9. \A n \in Node : SubSeq(C, 1, a[n]) = SubSeq(D, 1, a[n])
  BY <1>5, <1>8, BeginsAgree
<1>10. CASE UNCHANGED <<commit, chosen>>
  <2>1. Learned' = Learned /\ chosen' = chosen
    BY <1>10, <1>1, <1>2, <1>3, <1>4, <1>6, <1>7
  <2> QED
    BY <2>1 DEF Abstract!historyVars, Learned
<1>11. ASSUME NEW n \in Node, \A p \in Node : p # n => b[p] = a[p],
              \/ b[n] >= a[n] /\ (D = C \/ Len(D) = b[n])
              \/ b[n] = 0 /\ D = C
       PROVE  Abstract!HistoryNext
  <2>1. PICK s : s = SubSeq(D, 1, b[n])
    OBVIOUS
  <2>2. s \in Abstract!Histories
    BY <2>1, <1>5, PrefixIsHistory
  <2>3. Learned' = [Learned EXCEPT ![n] = s]
    <3>1. \A p \in Node : p # n => SubSeq(D, 1, b[p]) = SubSeq(C, 1, a[p])
      BY <1>9, <1>11
    <3> QED
      BY <3>1, <2>1, <1>6, <1>7
  <2>4. Learned[n] = SubSeq(C, 1, a[n]) /\ Learned[n] = SubSeq(D, 1, a[n])
    BY <1>6, <1>9
  <2>5. CASE b[n] >= a[n] /\ (D = C \/ Len(D) = b[n])
    <3>1. Abstract!IsPrefix(Learned[n], s)
      <4>1. b[n] \in 0..Len(D) /\ a[n] \in 0..b[n]
        BY <2>5, <1>5
      <4>2. Abstract!IsPrefix(SubSeq(D, 1, a[n]), SubSeq(D, 1, b[n]))
        BY <4>1, <1>5, PrefixOfPrefix
      <4> QED
        BY <4>2, <2>1, <2>4
    <3>2. \A g \in Seq(Entry) : SubSeq(g, 1, Len(g)) = g
      OBVIOUS
    <3>3. CASE D = C
      <4>1. b[n] \in 0..Len(D) /\ Len(D) \in 0..Len(D)
        BY <1>5, <1>8
      <4>2. Abstract!IsPrefix(SubSeq(D, 1, b[n]), SubSeq(D, 1, Len(D)))
        BY <4>1, <1>5, PrefixOfPrefix
      <4>3. Abstract!IsPrefix(s, chosen) /\ UNCHANGED chosen
        BY <4>2, <3>2, <3>3, <2>1, <1>1, <1>2, <1>8
      <4> QED
        BY <4>3, <3>1, <2>2, <2>3 DEF Abstract!HistoryNext, Abstract!Learn, Learned
    <3>4. CASE Len(D) = b[n]
      <4>1. s = D
        BY <3>2, <3>4, <2>1, <1>8
      <4>2. Len(C) \in 0..Len(D) /\ Len(D) \in 0..Len(D)
        BY <1>8
      <4>3. Abstract!IsPrefix(SubSeq(D, 1, Len(C)), SubSeq(D, 1, Len(D)))
        BY <4>2, <1>5, PrefixOfPrefix
      <4>4. SubSeq(C, 1, Len(C)) = SubSeq(D, 1, Len(C))
        BY <1>5, <1>8, BeginsAgree
      <4>5. Abstract!IsPrefix(chosen, s) /\ chosen' = s
        BY <4>1, <4>3, <4>4, <3>2, <1>1, <1>2, <1>8
      <4> QED
        BY <4>5, <3>1, <2>2, <2>3 DEF Abstract!HistoryNext, Abstract!Learn, Learned
    <3> QED
      BY <2>5, <3>3, <3>4
  <2>6. CASE b[n] = 0 /\ D = C
    <3>1. 0 \in 0..a[n] /\ a[n] \in 0..Len(C)
      BY <1>5
    <3>2. Abstract!IsPrefix(SubSeq(C, 1, 0), SubSeq(C, 1, a[n]))
      BY <3>1, <1>5, PrefixOfPrefix
    <3>3. Abstract!IsPrefix(s, Learned[n]) /\ UNCHANGED chosen
      BY <3>2, <2>1, <2>4, <2>6, <1>1, <1>2
    <3> QED
      BY <3>3, <2>2, <2>3 DEF Abstract!HistoryNext, Abstract!Forget, Learned
  <2> QED
    BY <1>11, <2>5, <2>6
<1>12. CASE \E n \in Node :
              /\ \A p \in Node : p # n => commit'[p] = commit[p]
              /\ \/ commit'[n] >= commit[n] /\ (chosen' = chosen \/ Len(chosen') = commit'[n])
                 \/ commit'[n] = 0 /\ chosen' = chosen
  BY <1>12, <1>11, <1>1, <1>2, <1>3, <1>4
<1> QED
  BY <1>10, <1>12 DEF CommitStep

LEMMA HistoryStarts ==
  ASSUME Init
  PROVE  Abstract!HistoryInit
<1>1. chosen = <<>> /\ \A n \in Node : log[n] = <<>> /\ commit[n] = 0
  BY DEF Init
<1>2. SubSeq(<<>>, 1, 0) = <<>>
  OBVIOUS
<1> QED
  BY <1>1, <1>2 DEF Abstract!HistoryInit

\* The cluster implements History, for any nodes and any quorums that meet: whatever is lost,
\* late, refused or crashes, no node commits what another contradicts, and nothing that was
\* committed is ever replaced.
THEOREM OneHistoryHolds == Spec => OneHistory
<1>1. Init => IInv /\ HInv /\ Abstract!HistoryInit
  BY IInvInit, HInvInit, HistoryStarts
<1>2. IInv /\ HInv /\ [Next]_vars =>
        IInv' /\ HInv' /\ [Abstract!HistoryNext]_(Abstract!historyVars)
  <2>1. SUFFICES ASSUME IInv, HInv, [Next]_vars
                 PROVE  IInv' /\ HInv' /\ [Abstract!HistoryNext]_(Abstract!historyVars)
    OBVIOUS
  <2>2. IInv' /\ HInv' /\ Begins(chosen, chosen') /\ CommitStep
    BY <2>1, IInvStep, HInvStep
  <2>3. LearnedInv /\ LearnedInv'
    BY <2>1, <2>2, LearnedSafe, LearnedSafeNext
  <2> QED
    BY <2>2, <2>3, HistoryStep
<1> QED
  BY <1>1, <1>2, PTL DEF Spec, OneHistory, Abstract!HistorySpec
=============================================================================
