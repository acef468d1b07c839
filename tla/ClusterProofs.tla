--------------------------- MODULE ClusterProofs ---------------------------
(***************************************************************************)
(* OneLeaderPerTerm and MatchedIsDurable for every set of nodes and every  *)
(* quorum system.                                                          *)
(*                                                                         *)
(* The first invariant follows a leader id from a vote request through the *)
(* reply to the count, and bounds what a node may have granted by the vote *)
(* it saved.  The second follows the log of each leader that was elected,  *)
(* of which every log is made, and what a node that says that it holds a   *)
(* part of it has promised.                                                *)
(***************************************************************************)
EXTENDS Cluster, TLAPS, WellFoundedInduction

Votes == [leader_id : {{l} : l \in LeaderId}, committed : BOOLEAN]

\* The leader ids in bs were granted by a node whose vote is v: v is of a later term, or
\* the only one of its term unless a leader of that term was followed since.
Above(v, bs) ==
  \A b \in bs :
    \/ b.term < LeaderIdOf(v).term
    \/ b.term = LeaderIdOf(v).term /\ (v.committed \/ b = LeaderIdOf(v))

OnePerTerm(ids) == \A a, b \in ids : a.term = b.term => a = b

IsCall(c) ==
  /\ c \in [client : Node \cup {Gone}, server : Node, kind : {"vote", "append"},
            request : {c.request}, at : {c.at}, reply : {c.reply}]
  /\ c.client = Gone => c.at = "sent"
  /\ c.request.vote \in {{v} : v \in Votes}

\* A vote request asks for a vote that is not committed; a reply that grants it stands
\* for a ballot.
VoteCall(c, cast) ==
  c.kind = "vote" =>
    /\ c.at # "flushing"
    /\ \A v \in c.request.vote : ~v.committed
    /\ \A p \in c.reply :
         /\ p.vote \in {{v} : v \in Votes}
         /\ p.vote_granted \in BOOLEAN
         /\ p.vote_granted => \A v \in c.request.vote : v.leader_id \subseteq cast[c.server]

AppendCall(c) ==
  c.kind = "append" => \A p \in c.reply : p.rejected_by \subseteq Votes

VotesInv ==
  /\ vote \in [Node -> Votes]
  /\ role \in [Node -> {"follower", "candidate", "leader"}]
  /\ granted \in [Node -> SUBSET Node]
  /\ ballots \in [Node -> SUBSET LeaderId]
  /\ elected \subseteq LeaderId

CallsInv == \A c \in calls : IsCall(c) /\ VoteCall(c, ballots) /\ AppendCall(c)

BallotsInv == \A n \in Node : Above(vote[n], ballots[n]) /\ OnePerTerm(ballots[n])

CandidatesInv ==
  \A n \in Node : role[n] = "candidate" =>
    /\ ~vote[n].committed
    /\ \A m \in granted[n] : vote[n].leader_id \subseteq ballots[m]

ElectedInv == \A id \in elected : \E Q \in Quorum : \A m \in Q : id \in ballots[m]

IInv == VotesInv /\ CallsInv /\ BallotsInv /\ CandidatesInv /\ ElectedInv

-----------------------------------------------------------------------------
(* Votes.                                                                  *)

\* leader_id() of a vote that has a leader id gives it.
LEMMA LeaderIdIs ==
  ASSUME NEW v \in Votes
  PROVE  LeaderIdOf(v) \in LeaderId /\ v.leader_id = {LeaderIdOf(v)}
BY DEF Votes, LeaderIdOf

LEMMA FromLeaderIdIs ==
  ASSUME NEW id \in LeaderId, NEW b \in BOOLEAN
  PROVE  /\ FromLeaderId(id, b) \in Votes
         /\ LeaderIdOf(FromLeaderId(id, b)) = id
         /\ FromLeaderId(id, b).committed = b
BY DEF Votes, FromLeaderId, LeaderIdOf

\* Following a vote that is not smaller keeps what was granted below it.
LEMMA AboveGrows ==
  ASSUME NEW v \in Votes, NEW w \in Votes, NEW bs \in SUBSET LeaderId,
         Above(w, bs), VoteGeq(v, w)
  PROVE  Above(v, bs)
<1> DEFINE l == LeaderIdOf(v)
           k == LeaderIdOf(w)
<1>1. l \in LeaderId /\ k \in LeaderId
  BY LeaderIdIs
<1>2. \/ l.term > k.term
      \/ l = k /\ (v.committed \/ ~w.committed)
      \/ l.term = k.term /\ v.committed
  BY <1>1 DEF VoteGeq, LeaderIdCmp, LeaderId
<1>3. \A b \in bs : b.term \in Nat
  BY DEF LeaderId
<1> QED
  BY <1>1, <1>2, <1>3 DEF Above, Votes, LeaderId

\* A node that grants a vote granted no other leader id of its term.
LEMMA GrantIsSafe ==
  ASSUME NEW v \in Votes, NEW w \in Votes, NEW bs \in SUBSET LeaderId,
         ~v.committed, Above(w, bs), OnePerTerm(bs), VoteGeq(v, w)
  PROVE  Above(v, bs \cup v.leader_id) /\ OnePerTerm(bs \cup v.leader_id)
<1> DEFINE l == LeaderIdOf(v)
<1>1. l \in LeaderId /\ v.leader_id = {l}
  BY LeaderIdIs
<1>2. Above(v, bs)
  BY AboveGrows
<1>3. \A b \in bs : b.term \in Nat /\ (b.term < l.term \/ b = l)
  BY <1>2 DEF Above, Votes, LeaderId
<1> QED
  BY <1>1, <1>2, <1>3 DEF Above, OnePerTerm, LeaderId

-----------------------------------------------------------------------------
(* Calls.                                                                  *)

\* Handling a call changes where it is and its reply, and leaves the rest.
LEMMA RecordUpdated ==
  ASSUME NEW C, NEW S, NEW K, NEW Q, NEW A, NEW R, NEW a \in A, NEW r \in R,
         NEW c \in [client : C, server : S, kind : K, request : Q, at : A, reply : R]
  PROVE  LET d == [c EXCEPT !.at = a, !.reply = r]
         IN  /\ d \in [client : C, server : S, kind : K, request : Q, at : A, reply : R]
             /\ d.kind = c.kind /\ d.server = c.server /\ d.client = c.client
             /\ d.request = c.request /\ d.at = a /\ d.reply = r
OBVIOUS

\* Votes once cast stay: what a reply and an election stand for is never withdrawn.
LEMMA BallotsGrow ==
  ASSUME NEW bs, \A m \in Node : ballots[m] \subseteq bs[m], NEW c, IsCall(c),
         VoteCall(c, ballots)
  PROVE  VoteCall(c, bs)
BY DEF VoteCall, IsCall

\* A step that sends nothing and answers nothing new.
LEMMA CallsShrink ==
  ASSUME IInv, calls' \subseteq calls, \A m \in Node : ballots[m] \subseteq ballots'[m]
  PROVE  CallsInv'
BY BallotsGrow DEF IInv, CallsInv

\* A step of the calls alone.
LEMMA QuietStep ==
  ASSUME IInv, CallsInv', UNCHANGED <<vote, role, granted, ballots, elected>>
  PROVE  IInv'
BY DEF IInv, VotesInv, BallotsInv, CandidatesInv, ElectedInv, Above, OnePerTerm

\* A call that is handled stays a call, if its answer is one.
LEMMA HandledStep ==
  ASSUME IInv, NEW c \in calls, NEW at, NEW r, Handled(c, at, r),
         \A m \in Node : ballots[m] \subseteq ballots'[m],
         c.kind = "vote" => at # "flushing",
         c.kind = "vote" => \A p \in r :
            /\ p.vote \in {{v} : v \in Votes} /\ p.vote_granted \in BOOLEAN
            /\ p.vote_granted => \A v \in c.request.vote : v.leader_id \subseteq ballots'[c.server],
         c.kind = "append" => \A p \in r : p.rejected_by \subseteq Votes
  PROVE  CallsInv'
<1>e. PICK e : e = [c EXCEPT !.at = at, !.reply = r]
  OBVIOUS
<1>1. IsCall(c) /\ VoteCall(c, ballots) /\ AppendCall(c)
  BY DEF IInv, CallsInv
<1>2. ASSUME c.client # Gone
      PROVE  IsCall(e) /\ VoteCall(e, ballots') /\ AppendCall(e)
  <2>c. IsCall(c) /\ c.client # Gone
    BY <1>1, <1>2
  <2>1. /\ IsCall(e)
        /\ e.kind = c.kind /\ e.server = c.server /\ e.request = c.request /\ e.reply = r /\ e.at = at
    <3> DEFINE T == [client : Node \cup {Gone}, server : Node, kind : {"vote", "append"},
                     request : {c.request}, at : {c.at, at}, reply : {c.reply, r}]
    <3>1. c \in T
      BY <2>c DEF IsCall
    <3>2. /\ e \in T
          /\ e.kind = c.kind /\ e.server = c.server /\ e.client = c.client
          /\ e.request = c.request /\ e.at = at /\ e.reply = r
      BY <3>1, <1>e, RecordUpdated
    <3> QED
      BY <2>c, <3>2 DEF IsCall
  <2> QED
    BY <2>1, <1>1 DEF VoteCall, AppendCall
<1>3. ASSUME NEW d \in calls'
      PROVE  IsCall(d) /\ VoteCall(d, ballots') /\ AppendCall(d)
  <2>1. CASE d \in calls
    BY <2>1, BallotsGrow DEF IInv, CallsInv
  <2>2. CASE d \notin calls
    <3>1. c.client # Gone /\ d = e
      BY <1>3, <1>e, <2>2 DEF Handled
    <3> QED
      BY <3>1, <1>2
  <2> QED
    BY <2>1, <2>2
<1> QED
  BY <1>3 DEF CallsInv

\* A request that is sent asks in the name of its sender's vote.
LEMMA SendStep ==
  ASSUME IInv, NEW n \in Node, NEW m \in Node, NEW kind \in {"vote", "append"},
         NEW request, Send(n, m, kind, request), request.vote = {vote[n]},
         kind = "vote" => ~vote[n].committed, UNCHANGED ballots
  PROVE  CallsInv'
<1> DEFINE e == [client |-> n, server |-> m, kind |-> kind,
                 request |-> request, at |-> "sent", reply |-> {}]
<1>1. IsCall(e)
  BY ClusterAssumption DEF IsCall, IInv, VotesInv
<1>2. VoteCall(e, ballots) /\ AppendCall(e)
  BY DEF VoteCall, AppendCall
<1>3. calls' = calls \cup {e}
  BY DEF Send
<1> QED
  BY <1>1, <1>2, <1>3 DEF IInv, CallsInv, VoteCall

-----------------------------------------------------------------------------
(* Steps that change a vote.                                               *)

\* A node that takes over a vote that is not smaller.
LEMMA FollowStep ==
  ASSUME IInv, NEW n \in Node, NEW v \in Votes, NEW l, Write(n, v, l), Follow(n, v),
         v = vote[n] \/ VoteGeq(v, vote[n]), CallsInv', UNCHANGED <<ballots, elected>>
  PROVE  IInv'
<1> USE DEF IInv
<1>1. vote' = [vote EXCEPT ![n] = v]
  BY DEF Write
<1>2. CASE v = vote[n]
  <2>1. UNCHANGED <<vote, role, granted, ballots, elected>>
    BY <1>1, <1>2 DEF Follow, VotesInv
  <2> QED
    BY <2>1, QuietStep
<1>3. CASE v # vote[n]
  <2>1. /\ role' = [role EXCEPT ![n] = "follower"]
        /\ granted' = [granted EXCEPT ![n] = {}]
    BY <1>3 DEF Follow
  <2>2. VotesInv'
    BY <1>1, <2>1 DEF VotesInv
  <2>3. Above(v, ballots[n])
    BY <1>3, AboveGrows DEF VotesInv, BallotsInv
  <2>4. BallotsInv'
    BY <1>1, <2>3 DEF BallotsInv, VotesInv
  <2>5. CandidatesInv'
    BY <1>1, <2>1 DEF CandidatesInv, VotesInv
  <2>6. ElectedInv'
    BY DEF ElectedInv
  <2> QED
    BY <2>2, <2>4, <2>5, <2>6
<1> QED
  BY <1>2, <1>3

\* The vote handler: a vote that is granted is a ballot, saved before it is answered.
LEMMA HandleVoteStep ==
  ASSUME IInv, NEW c \in calls, HandleVote(c)
  PROVE  IInv'
<1> USE DEF IInv
<1>1. IsCall(c) /\ VoteCall(c, ballots) /\ c.kind = "vote"
  BY DEF CallsInv, HandleVote
<1> DEFINE n == c.server
<1>2. PICK req \in VoteRequestFromPb(c.request) :
        LET grant == Grants(n, req)
            v     == IF grant THEN req.vote ELSE vote[n]
        IN  /\ Write(n, v, log[n])
            /\ Follow(n, v)
            /\ ballots' = [ballots EXCEPT ![n] =
                             @ \cup IF grant THEN req.vote.leader_id ELSE {}]
            /\ Answer(c, VoteResponseToPb(
                 [vote |-> v, vote_granted |-> grant, last_log_id |-> LastLogId(log[n])]))
            /\ UNCHANGED <<commit, faults, elected, chosen>>
  BY DEF HandleVote
<1> DEFINE grant == Grants(n, req)
           v     == IF grant THEN req.vote ELSE vote[n]
<1>3. /\ n \in Node
      /\ c.request.vote = {req.vote} /\ req.vote \in Votes /\ ~req.vote.committed
  BY <1>1, <1>2 DEF IsCall, VoteCall, VoteRequestFromPb
<1>4. v \in Votes /\ grant \in BOOLEAN
  BY <1>3 DEF VotesInv, Grants
<1>5. /\ ballots' = [ballots EXCEPT ![n] = @ \cup IF grant THEN req.vote.leader_id ELSE {}]
      /\ vote' = [vote EXCEPT ![n] = v]
      /\ elected' = elected
  BY <1>2 DEF Write
<1>6. /\ ballots' \in [Node -> SUBSET LeaderId]
      /\ \A m \in Node : ballots[m] \subseteq ballots'[m]
      /\ grant => req.vote.leader_id \subseteq ballots'[n]
  BY <1>3, <1>5, LeaderIdIs DEF VotesInv
<1>7. CallsInv'
  <2> DEFINE p == VoteResponseToPb(
                    [vote |-> v, vote_granted |-> grant, last_log_id |-> LastLogId(log[n])])
  <2>1. p.vote = {v} /\ p.vote_granted = grant
    BY DEF VoteResponseToPb
  <2>2. Handled(c, "answered", {p})
    BY <1>2 DEF Answer
  <2> HIDE DEF p
  <2>3. \A q \in {p} :
          /\ q.vote \in {{u} : u \in Votes} /\ q.vote_granted \in BOOLEAN
          /\ q.vote_granted => \A u \in c.request.vote : u.leader_id \subseteq ballots'[n]
    BY <2>1, <1>3, <1>4, <1>6
  <2> QED
    BY <2>2, <2>3, <1>1, <1>6, HandledStep
<1>8. /\ role' \in [Node -> {"follower", "candidate", "leader"}]
      /\ granted' \in [Node -> SUBSET Node]
      /\ \A m \in Node : role'[m] = "candidate" =>
           role[m] = "candidate" /\ vote'[m] = vote[m] /\ granted'[m] = granted[m]
  <2>1. CASE v = vote[n]
    BY <2>1, <1>2, <1>3, <1>5 DEF Follow, VotesInv
  <2>2. CASE v # vote[n]
    <3>1. role' = [role EXCEPT ![n] = "follower"] /\ granted' = [granted EXCEPT ![n] = {}]
      BY <2>2, <1>2 DEF Follow
    <3> QED
      BY <3>1, <1>3, <1>5 DEF VotesInv
  <2> QED
    BY <2>1, <2>2
<1>9. VotesInv'
  BY <1>3, <1>4, <1>5, <1>6, <1>8 DEF VotesInv
<1>10. BallotsInv'
  <2>1. Above(v, ballots'[n]) /\ OnePerTerm(ballots'[n])
    <3>1. CASE grant
      <4>1. VoteGeq(req.vote, vote[n])
        BY <3>1 DEF Grants
      <4>2. ballots'[n] = ballots[n] \cup req.vote.leader_id
        BY <3>1, <1>3, <1>5 DEF VotesInv
      <4>3. /\ vote[n] \in Votes /\ ballots[n] \in SUBSET LeaderId
            /\ Above(vote[n], ballots[n]) /\ OnePerTerm(ballots[n])
        BY <1>3 DEF VotesInv, BallotsInv
      <4>4. /\ Above(req.vote, ballots[n] \cup req.vote.leader_id)
            /\ OnePerTerm(ballots[n] \cup req.vote.leader_id)
        BY <4>1, <4>3, <1>3, GrantIsSafe
      <4> QED
        BY <4>2, <4>4, <3>1
    <3>2. CASE ~grant
      BY <3>2, <1>3, <1>5 DEF VotesInv, BallotsInv
    <3> QED
      BY <3>1, <3>2
  <2> QED
    BY <2>1, <1>3, <1>5 DEF BallotsInv, VotesInv
<1>11. CandidatesInv'
  BY <1>6, <1>8 DEF CandidatesInv, VotesInv
<1>12. ElectedInv'
  BY <1>5, <1>6, ClusterAssumption DEF ElectedInv
<1> QED
  BY <1>7, <1>9, <1>10, <1>11, <1>12

\* Counting votes: who is elected has a ballot of every member of a quorum.
LEMMA CountStep ==
  ASSUME IInv, NEW n \in Node, NEW id \in LeaderId, NEW votes \in SUBSET Node,
         Count(n, id, votes), CallsInv',
         ballots' \in [Node -> SUBSET LeaderId],
         \A m \in Node : ballots[m] \subseteq ballots'[m],
         \A m \in Node : m # n => ballots'[m] = ballots[m],
         \A m \in votes : id \in ballots'[m],
         OnePerTerm(ballots'[n]),
         \A b \in BOOLEAN : Above(FromLeaderId(id, b), ballots'[n])
  PROVE  IInv'
<1> USE DEF IInv
<1> DEFINE wins == HasQuorum(votes)
           v    == FromLeaderId(id, wins)
<1>1. /\ vote' = [vote EXCEPT ![n] = v]
      /\ role' = [role EXCEPT ![n] = IF wins THEN "leader" ELSE "candidate"]
      /\ granted' = [granted EXCEPT ![n] = IF wins THEN {} ELSE votes]
      /\ elected' = elected \cup IF wins THEN {id} ELSE {}
  BY DEF Count, Write
<1>2. wins \in BOOLEAN
  BY DEF HasQuorum
<1>3. v \in Votes /\ LeaderIdOf(v) = id /\ v.leader_id = {id} /\ v.committed = wins
  BY <1>2, FromLeaderIdIs DEF FromLeaderId
<1> HIDE DEF v
<1>4. VotesInv'
  BY <1>1, <1>3 DEF VotesInv
<1>5. BallotsInv'
  <2>1. Above(v, ballots'[n])
    BY <1>2 DEF v
  <2> QED
    BY <2>1, <1>1 DEF BallotsInv, VotesInv
<1>6. CandidatesInv'
  BY <1>1, <1>3 DEF CandidatesInv, VotesInv
<1>7. ElectedInv'
  <2>1. ASSUME wins
        PROVE  \E Q \in Quorum : \A m \in Q : id \in ballots'[m]
    BY <2>1 DEF HasQuorum
  <2>2. \A i \in elected : \E Q \in Quorum : \A m \in Q : i \in ballots'[m]
    BY ClusterAssumption DEF ElectedInv
  <2> QED
    BY <2>1, <2>2, <1>1 DEF ElectedInv
<1> QED
  BY <1>4, <1>5, <1>6, <1>7

LEMMA CampaignStep ==
  ASSUME IInv, NEW n \in Node, Campaign(n)
  PROVE  IInv'
<1> DEFINE l  == LeaderIdOf(vote[n])
           id == [term |-> l.term + 1, node_id |-> n]
<1>1. l \in LeaderId
  BY LeaderIdIs DEF IInv, VotesInv
<1>2. id \in LeaderId /\ id.term = l.term + 1
  <2>1. l.term + 1 \in 0..MaxTerm
    BY <1>1, ClusterAssumption DEF LeaderId, Campaign, MyLeaderId
  <2> QED
    BY <2>1 DEF LeaderId
<1>3. ballots' = [ballots EXCEPT ![n] = @ \cup {id}] /\ calls' = calls /\ Count(n, id, {n})
  BY DEF Campaign, MyLeaderId
<1> HIDE DEF id
<1>4. \A b \in ballots[n] : b \in LeaderId /\ b.term < id.term
  BY <1>1, <1>2 DEF IInv, BallotsInv, Above, VotesInv, LeaderId
<1>5. ballots'[n] = ballots[n] \cup {id}
  BY <1>3 DEF IInv, VotesInv
<1>6. OnePerTerm(ballots'[n])
  BY <1>1, <1>2, <1>4, <1>5 DEF OnePerTerm, IInv, BallotsInv, LeaderId
<1>7. \A b \in BOOLEAN : Above(FromLeaderId(id, b), ballots'[n])
  BY <1>2, <1>4, <1>5, FromLeaderIdIs DEF Above
<1>8. /\ ballots' \in [Node -> SUBSET LeaderId]
      /\ \A m \in Node : ballots[m] \subseteq ballots'[m]
      /\ \A m \in Node : m # n => ballots'[m] = ballots[m]
  BY <1>2, <1>3 DEF IInv, VotesInv
<1>9. CallsInv'
  BY <1>3, <1>8, CallsShrink
<1>10. {n} \in SUBSET Node /\ \A m \in {n} : id \in ballots'[m]
  BY <1>5
<1>11. Count(n, id, {n}) /\ id \in LeaderId
  BY <1>2, <1>3
<1> QED
  BY <1>6, <1>7, <1>8, <1>9, <1>10, <1>11, CountStep

\* vote() of the client returns: a granted vote counts for the candidacy that asked.
LEMMA VoteReplyStep ==
  ASSUME IInv, NEW c \in calls, VoteReply(c)
  PROVE  IInv'
<1>1. /\ IsCall(c) /\ VoteCall(c, ballots) /\ c.kind = "vote" /\ c.at = "answered"
      /\ calls' = calls \ {c} /\ ballots' = ballots
  BY DEF IInv, CallsInv, VoteReply
<1> DEFINE n == c.client
<1>2. n \in Node
  BY <1>1 DEF IsCall
<1>3. CallsInv'
  BY <1>1, CallsShrink
<1> DEFINE Returns(p, resp) ==
        LET stale == role[n] # "candidate" \/ c.request.vote # {vote[n]}
        IN  \/ /\ resp.vote_granted /\ ~stale
               /\ Count(n, MyLeaderId(n), granted[n] \cup {c.server})
               /\ UNCHANGED matched
            \/ /\ resp.vote_granted /\ stale
               /\ UNCHANGED <<vote, log, survivors, role, granted, matched, elected>>
            \/ /\ ~resp.vote_granted
               /\ TakeOver(n, resp.vote)
               /\ UNCHANGED elected
<1>p. PICK p \in c.reply : \E resp \in VoteResponseFromPb(p) : Returns(p, resp)
  BY DEF VoteReply
<1>4. PICK resp \in VoteResponseFromPb(p) : Returns(p, resp)
  BY <1>p
<1>5. p.vote = {resp.vote} /\ resp.vote \in Votes /\ resp.vote_granted = p.vote_granted
  BY <1>1, <1>4 DEF VoteCall, VoteResponseFromPb
<1>6. CASE /\ resp.vote_granted
           /\ role[n] = "candidate" /\ c.request.vote = {vote[n]}
           /\ Count(n, MyLeaderId(n), granted[n] \cup {c.server})
  <2> DEFINE id    == LeaderIdOf(vote[n])
             votes == granted[n] \cup {c.server}
  <2>1. id \in LeaderId /\ vote[n].leader_id = {id}
    BY <1>2, LeaderIdIs DEF IInv, VotesInv
  <2>2. ~vote[n].committed
    BY <1>2, <1>6 DEF IInv, CandidatesInv
  <2>3. votes \in SUBSET Node
    BY <1>1, <1>2 DEF IsCall, IInv, VotesInv
  <2>4. id \in ballots[c.server]
    BY <1>1, <1>4, <1>5, <1>6, <2>1 DEF VoteCall
  <2>5. \A m \in votes : id \in ballots'[m]
    BY <1>1, <1>2, <1>6, <2>1, <2>4 DEF IInv, CandidatesInv
  <2>6. OnePerTerm(ballots'[n]) /\ Above(vote[n], ballots[n])
    BY <1>1, <1>2 DEF IInv, BallotsInv
  <2>7. \A b \in BOOLEAN : Above(FromLeaderId(id, b), ballots'[n])
    BY <2>1, <2>2, <2>6, <1>1, FromLeaderIdIs DEF Above
  <2>8. Count(n, id, votes)
    BY <1>6 DEF MyLeaderId
  <2>9. /\ ballots' \in [Node -> SUBSET LeaderId]
        /\ \A m \in Node : ballots[m] \subseteq ballots'[m]
        /\ \A m \in Node : m # n => ballots'[m] = ballots[m]
    BY <1>1 DEF IInv, VotesInv
  <2> HIDE DEF id, votes
  <2> QED
    BY <1>2, <1>3, <2>1, <2>3, <2>5, <2>6, <2>7, <2>8, <2>9, CountStep
<1>7. CASE UNCHANGED <<vote, role, granted, elected>>
  BY <1>1, <1>3, <1>7, QuietStep
<1>8. CASE TakeOver(n, resp.vote) /\ UNCHANGED elected
  <2> DEFINE w == IF VoteGeq(resp.vote, vote[n]) THEN resp.vote ELSE vote[n]
  <2>1. w \in Votes /\ (w = vote[n] \/ VoteGeq(w, vote[n]))
    BY <1>2, <1>5 DEF IInv, VotesInv
  <2>2. Write(n, w, log[n]) /\ Follow(n, w)
    BY <1>8 DEF TakeOver
  <2> HIDE DEF w
  <2> QED
    BY <1>1, <1>2, <1>3, <1>8, <2>1, <2>2, FollowStep
<1> QED
  BY <1>4, <1>6, <1>7, <1>8

\* The append handler: a vote that is not smaller is taken over.
LEMMA HandleAppendStep ==
  ASSUME IInv, NEW c \in calls, HandleAppend(c)
  PROVE  IInv'
<1>1. /\ IsCall(c) /\ c.kind = "append" /\ UNCHANGED <<ballots, elected>>
  BY DEF IInv, CallsInv, HandleAppend, historyVars
<1> DEFINE n == c.server
<1>2. PICK req \in AppendRequestFromPb(c.request) :
        \/ /\ ~VoteGeq(req.vote, vote[n])
           /\ Answer(c, AppendResponseToPb(HigherVote(vote[n])))
           /\ UNCHANGED nodeVars
        \/ /\ VoteGeq(req.vote, vote[n])
           /\ \E l : Write(n, req.vote, l)
           /\ Follow(n, req.vote)
           /\ Answer(c, AppendResponseToPb(Conflict)) \/ Accept(c)
  BY DEF HandleAppend
<1>3. n \in Node /\ req.vote \in Votes
  BY <1>1, <1>2 DEF IsCall, AppendRequestFromPb
<1>4. CASE /\ Answer(c, AppendResponseToPb(HigherVote(vote[n])))
           /\ UNCHANGED nodeVars
  <2> DEFINE p == AppendResponseToPb(HigherVote(vote[n]))
  <2>1. p.rejected_by \subseteq Votes
    BY <1>3 DEF AppendResponseToPb, HigherVote, IInv, VotesInv
  <2>2. Handled(c, "answered", {p})
    BY <1>4 DEF Answer
  <2> HIDE DEF p
  <2>3. CallsInv'
    BY <1>1, <2>1, <2>2, HandledStep
  <2> QED
    BY <1>1, <1>4, <2>3, QuietStep DEF nodeVars
<1>5. CASE /\ VoteGeq(req.vote, vote[n])
           /\ \E l : Write(n, req.vote, l)
           /\ Follow(n, req.vote)
           /\ Answer(c, AppendResponseToPb(Conflict)) \/ Accept(c)
  <2> DEFINE p == AppendResponseToPb(Conflict)
  <2>1. p.rejected_by = {}
    BY DEF AppendResponseToPb, Conflict
  <2>2. Handled(c, "answered", {p}) \/ Handled(c, "flushing", {})
    BY <1>5 DEF Answer, Accept
  <2> HIDE DEF p
  <2>3. CallsInv'
    <3>1. CASE Handled(c, "answered", {p})
      BY <3>1, <1>1, <2>1, HandledStep
    <3>2. CASE Handled(c, "flushing", {})
      BY <3>2, <1>1, HandledStep
    <3> QED
      BY <3>1, <3>2, <2>2
  <2> QED
    BY <1>1, <1>3, <1>5, <2>3, FollowStep
<1> QED
  BY <1>2, <1>4, <1>5

\* append_entries() of the client returns: a greater vote is taken over.
LEMMA AppendReplyStep ==
  ASSUME IInv, NEW c \in calls, AppendReply(c)
  PROVE  IInv'
<1>1. /\ IsCall(c) /\ AppendCall(c) /\ c.kind = "append" /\ c.at = "answered"
      /\ calls' = calls \ {c} /\ UNCHANGED <<ballots, elected>>
  BY DEF IInv, CallsInv, AppendReply
<1> DEFINE n == c.client
<1>2. n \in Node
  BY <1>1 DEF IsCall
<1>3. CallsInv'
  BY <1>1, CallsShrink
<1>4. PICK p \in c.reply :
        \/ /\ AppendResponseFromPb(p).is = "HigherVote"
           /\ TakeOver(n, AppendResponseFromPb(p).vote)
        \/ UNCHANGED <<vote, role, granted>>
  BY DEF AppendReply, nodeVars
<1> DEFINE resp == AppendResponseFromPb(p)
<1>5. CASE resp.is = "HigherVote" /\ TakeOver(n, resp.vote)
  <2>1. p.rejected_by # {}
    BY <1>5 DEF AppendResponseFromPb, HigherVote, Conflict, PartialSuccess, Success
  <2>2. resp.vote \in p.rejected_by
    BY <2>1 DEF AppendResponseFromPb, HigherVote
  <2>3. resp.vote \in Votes
    BY <2>2, <1>1, <1>4 DEF AppendCall
  <2> DEFINE w == IF VoteGeq(resp.vote, vote[n]) THEN resp.vote ELSE vote[n]
  <2> HIDE DEF resp
  <2>4. w \in Votes /\ (w = vote[n] \/ VoteGeq(w, vote[n]))
    BY <1>2, <2>3 DEF IInv, VotesInv
  <2>5. Write(n, w, log[n]) /\ Follow(n, w)
    BY <1>5 DEF TakeOver
  <2> HIDE DEF w
  <2> QED
    BY <1>1, <1>2, <1>3, <2>4, <2>5, FollowStep
<1>6. CASE UNCHANGED <<vote, role, granted>>
  BY <1>1, <1>3, <1>6, QuietStep
<1> QED
  BY <1>4, <1>5, <1>6

-----------------------------------------------------------------------------
(* Steps that leave the votes.                                             *)

LEMMA RequestStep ==
  ASSUME IInv, NEW n \in Node, NEW m \in Node,
         RequestVote(n, m) \/ \E i \in 0..MaxIndex : SendAppend(n, m, i)
  PROVE  IInv'
<1>1. UNCHANGED <<vote, role, granted, ballots, elected>>
  BY DEF RequestVote, SendAppend, nodeVars, historyVars
<1>2. CASE RequestVote(n, m)
  <2> DEFINE req == VoteRequestToPb([vote |-> vote[n], last_log_id |-> LastLogId(log[n])])
  <2>1. req.vote = {vote[n]}
    BY DEF VoteRequestToPb
  <2>2. Send(n, m, "vote", req) /\ ~vote[n].committed
    BY <1>2 DEF RequestVote, IInv, CandidatesInv
  <2> HIDE DEF req
  <2> QED
    BY <1>1, <2>1, <2>2, SendStep, QuietStep
<1>3. CASE \E i \in 0..MaxIndex : SendAppend(n, m, i)
  <2>1. PICK i \in 0..MaxIndex : SendAppend(n, m, i)
    BY <1>3
  <2> DEFINE req == AppendRequestToPb(
                      [vote |-> vote[n], prev_log_id |-> LogIdAt(log[n], i),
                       entries |-> SubSeq(log[n], i + 1, Len(log[n])),
                       leader_commit |-> LogIdAt(log[n], commit[n])])
  <2>2. req.vote = {vote[n]}
    BY DEF AppendRequestToPb
  <2>3. Send(n, m, "append", req)
    BY <2>1 DEF SendAppend
  <2> HIDE DEF req
  <2> QED
    BY <1>1, <2>2, <2>3, SendStep, QuietStep
<1> QED
  BY <1>2, <1>3

LEMMA FlushStep ==
  ASSUME IInv, NEW n \in Node, Flush(n)
  PROVE  IInv'
<1>1. UNCHANGED <<vote, role, granted, ballots, elected>>
  BY DEF Flush, Progress
<1> DEFINE told == {c \in calls : c.server = n /\ c.at = "flushing"}
           p    == AppendResponseToPb(Success)
<1>2. calls' = (calls \ told) \cup {[c EXCEPT !.at = "answered", !.reply = {p}] : c \in told}
  BY DEF Flush
<1>3. p.rejected_by = {}
  BY DEF AppendResponseToPb, Success
<1> HIDE DEF p
<1>4. ASSUME NEW c \in told, NEW e, e = [c EXCEPT !.at = "answered", !.reply = {p}]
      PROVE  IsCall(e) /\ VoteCall(e, ballots) /\ AppendCall(e)
  <2>1. IsCall(c) /\ c.kind # "vote" /\ c.at = "flushing"
    BY DEF IInv, CallsInv, VoteCall
  <2> DEFINE T == [client : Node \cup {Gone}, server : Node, kind : {"vote", "append"},
                   request : {c.request}, at : {c.at, "answered"}, reply : {c.reply, {p}}]
  <2>2. c \in T
    BY <2>1 DEF IsCall
  <2>3. /\ e \in T
        /\ e.kind = c.kind /\ e.server = c.server /\ e.client = c.client
        /\ e.request = c.request /\ e.at = "answered" /\ e.reply = {p}
    BY <2>2, <1>4, RecordUpdated
  <2>4. IsCall(e)
    BY <2>1, <2>3 DEF IsCall
  <2> QED
    BY <2>1, <2>3, <2>4, <1>3 DEF VoteCall, AppendCall
<1>5. CallsInv'
  <2>1. ASSUME NEW e \in calls'
        PROVE  IsCall(e) /\ VoteCall(e, ballots) /\ AppendCall(e)
    <3>1. CASE e \in calls
      BY <3>1 DEF IInv, CallsInv
    <3>2. CASE e \notin calls
      <4>1. PICK c \in told : e = [c EXCEPT !.at = "answered", !.reply = {p}]
        BY <1>2, <3>2
      <4> QED
        BY <4>1, <1>4
    <3> QED
      BY <3>1, <3>2
  <2> QED
    BY <2>1, <1>1 DEF CallsInv
<1> QED
  BY <1>1, <1>5, QuietStep

LEMMA CrashStep ==
  ASSUME IInv, NEW n \in Node, Crash(n)
  PROVE  IInv'
<1>1. /\ role' = [role EXCEPT ![n] = "follower"]
      /\ granted' = [granted EXCEPT ![n] = {}]
      /\ UNCHANGED <<vote, ballots, elected>>
      /\ calls' \subseteq calls
  BY DEF Crash, historyVars
<1>2. CallsInv'
  BY <1>1, CallsShrink
<1>3. VotesInv' /\ BallotsInv' /\ ElectedInv' /\ CandidatesInv'
  BY <1>1 DEF IInv, VotesInv, BallotsInv, ElectedInv, CandidatesInv, Above, OnePerTerm
<1> QED
  BY <1>2, <1>3 DEF IInv

LEMMA LostStep ==
  ASSUME IInv, NEW c \in calls, Lose(c) \/ GiveUp(c)
  PROVE  IInv'
<1>1. UNCHANGED <<vote, role, granted, ballots, elected>>
  BY DEF Lose, GiveUp, nodeVars, historyVars
<1>2. CASE Lose(c)
  BY <1>1, <1>2, CallsShrink, QuietStep DEF Lose
<1>3. CASE GiveUp(c)
  <2>e. PICK e : e = [c EXCEPT !.client = Gone]
    OBVIOUS
  <2>1. IsCall(c) /\ VoteCall(c, ballots) /\ AppendCall(c) /\ c.at = "sent"
    BY <1>3 DEF IInv, CallsInv, GiveUp
  <2>2. /\ e \in [client : Node \cup {Gone}, server : Node, kind : {"vote", "append"},
                  request : {c.request}, at : {c.at}, reply : {c.reply}]
        /\ e.kind = c.kind /\ e.server = c.server
        /\ e.request = c.request /\ e.at = c.at /\ e.reply = c.reply
    BY <2>e, <2>1 DEF IsCall
  <2>3. IsCall(e) /\ VoteCall(e, ballots) /\ AppendCall(e)
    BY <2>1, <2>2 DEF IsCall, VoteCall, AppendCall
  <2>4. calls' = (calls \ {c}) \cup {e}
    BY <1>3, <2>e DEF GiveUp
  <2>5. CallsInv'
    BY <1>1, <2>3, <2>4 DEF IInv, CallsInv
  <2> QED
    BY <1>1, <2>5, QuietStep
<1> QED
  BY <1>2, <1>3

-----------------------------------------------------------------------------
(* The invariant and what follows.                                         *)

\* Two quorums share a node, which has one ballot in a term.
LEMMA IInvSafe ==
  ASSUME IInv
  PROVE  OneLeaderPerTerm
<1>1. SUFFICES ASSUME NEW a \in elected, NEW b \in elected, a.term = b.term
               PROVE  a = b
  BY DEF OneLeaderPerTerm
<1>2. PICK Q \in Quorum : \A m \in Q : a \in ballots[m]
  BY DEF IInv, ElectedInv
<1>3. PICK R \in Quorum : \A m \in R : b \in ballots[m]
  BY DEF IInv, ElectedInv
<1>4. PICK m \in Q \cap R : m \in Node
  BY ClusterAssumption
<1> QED
  BY <1>1, <1>2, <1>3, <1>4 DEF IInv, BallotsInv, OnePerTerm

LEMMA IInvInit ==
  ASSUME Init
  PROVE  IInv
<1>1. NoLeader \in LeaderId
  BY ClusterAssumption DEF NoLeader, LeaderId
<1>2. \A n \in Node : vote[n] = FromLeaderId(NoLeader, FALSE)
  BY DEF Init
<1>3. VotesInv
  BY <1>1, FromLeaderIdIs DEF Init, VotesInv
<1> QED
  BY <1>3 DEF Init, IInv, CallsInv, BallotsInv, CandidatesInv, ElectedInv, Above, OnePerTerm

LEMMA IInvStep ==
  ASSUME IInv, [Next]_vars
  PROVE  IInv'
<1>1. ASSUME NEW n \in Node, Campaign(n) \/ LeaderAppend(n) \/ Flush(n) \/ Crash(n)
      PROVE  IInv'
  <2>1. CASE LeaderAppend(n)
    <3>1. UNCHANGED <<role, granted, calls, ballots, elected>> /\ vote' = [vote EXCEPT ![n] = vote[n]]
      BY <2>1 DEF LeaderAppend, Write, historyVars
    <3>2. vote' = vote
      BY <3>1 DEF IInv, VotesInv
    <3> QED
      BY <3>1, <3>2, CallsShrink, QuietStep
  <2> QED
    BY <1>1, <2>1, CampaignStep, FlushStep, CrashStep
<1>2. ASSUME NEW n \in Node, NEW m \in Node,
             RequestVote(n, m) \/ \E i \in 0..MaxIndex : SendAppend(n, m, i)
      PROVE  IInv'
  BY <1>2, RequestStep
<1>3. ASSUME NEW c \in calls,
             \/ HandleVote(c) \/ VoteReply(c) \/ HandleAppend(c) \/ AppendReply(c)
             \/ Lose(c) \/ GiveUp(c)
      PROVE  IInv'
  BY <1>3, HandleVoteStep, VoteReplyStep, HandleAppendStep, AppendReplyStep, LostStep
<1>4. CASE UNCHANGED vars
  BY <1>4, CallsShrink, QuietStep DEF vars, nodeVars, historyVars
<1> QED
  BY <1>1, <1>2, <1>3, <1>4 DEF Next

\* At most one node becomes leader in a term, for any nodes and any quorums that meet:
\* partial_cmp of leader_id.rs and save_vote before the answer of the vote handler.
THEOREM OneLeaderPerTermHolds == Spec => []OneLeaderPerTerm
<1>1. Init => IInv
  BY IInvInit
<1>2. IInv /\ [Next]_vars => IInv'
  BY IInvStep
<1>3. IInv => OneLeaderPerTerm
  BY IInvSafe
<1> QED
  BY <1>1, <1>2, <1>3, PTL DEF Spec

-----------------------------------------------------------------------------
(* What a leader believes of its followers' logs.                          *)

Entry == [term : Nat, index : Nat]

IsLog(l) == l \in Seq(Entry) /\ \A i \in 1..Len(l) : l[i].index = i

\* F gives each leader id that was elected (E) the log of that leader, as far as it got.  A
\* log is sound when it is that leader's log up to each entry of the leader's term.
Sound(l, E, F) ==
  /\ IsLog(l)
  /\ \A i \in 1..Len(l) : \E id \in E : id.term = l[i].term /\ Agree(l, F[id], i)

LogsInv(F) ==
  /\ F \in [LeaderId -> Seq(Entry)]
  /\ log \in [Node -> Seq(Entry)] /\ survivors \in [Node -> SUBSET Seq(Entry)]
  /\ \A id \in elected : Sound(F[id], elected, F)
  /\ \A m \in Node : log[m] \in survivors[m] /\ \A l \in survivors[m] : Sound(l, elected, F)

\* Who said, having the vote w, that it holds the first a entries of g, the log of the
\* leader with the vote v: as long as it follows that leader it does, in all of the logs L.
Held(w, v, a, L, g) ==
  \/ a = 0
  \/ VoteGeq(w, v) /\ (w = v => \A l \in L : Agree(l, g, a))

\* A leader believes of its followers' logs what they said.
RoleInv(n, F) ==
  /\ role[n] # "follower" => LeaderIdOf(vote[n]).node_id = n
  /\ role[n] = "candidate" => LeaderIdOf(vote[n]) \notin elected
  /\ role[n] # "leader" => matched[n] = NoMatch
  /\ role[n] = "leader" =>
       /\ vote[n].committed /\ LeaderIdOf(vote[n]) \in elected
       /\ F[LeaderIdOf(vote[n])] = log[n]
       /\ \A m \in Node : Held(vote[m], vote[n], matched[n][m], survivors[m], log[n])

\* A leader id is of the node that is elected under it, and is not elected again.
IdsInv ==
  \A id \in elected : id.node_id \in Node /\ id.term <= LeaderIdOf(vote[id.node_id]).term

RolesInv(F) == matched \in [Node -> [Node -> Nat]] /\ IdsInv /\ \A n \in Node : RoleInv(n, F)

PrevOf(r) == IndexOf(OptFromPb(r.prev_log_id))
UpTo(r)   == PrevOf(r) + Len(r.entries)

\* An append request carries a part of the leader's log l.
IsPart(r, l) ==
  /\ UpTo(r) \in 0..Len(l) /\ PrevOf(r) \in 0..UpTo(r)
  /\ r.prev_log_id = OptToPb(LogIdAt(l, PrevOf(r)))
  /\ r.entries = SubSeq(l, PrevOf(r) + 1, UpTo(r))

\* Success stands for entries that are synced.
Reports(c, v, F) ==
  /\ v.committed /\ LeaderIdOf(v) \in elected /\ LeaderIdOf(v).node_id # c.server
  /\ IsPart(c.request, F[LeaderIdOf(v)])
  /\ c.at = "flushing" =>
       Held(vote[c.server], v, UpTo(c.request), {log[c.server]}, F[LeaderIdOf(v)])
  /\ \A p \in c.reply :
       /\ p.last_log_id = {} /\ p.conflict \in BOOLEAN
       /\ p.rejected_by = {} /\ ~p.conflict =>
            Held(vote[c.server], v, UpTo(c.request), survivors[c.server], F[LeaderIdOf(v)])

AppendsInv(F) ==
  \A c \in calls : c.kind = "append" => \A v \in c.request.vote : Reports(c, v, F)

MatchInv(F) == LogsInv(F) /\ RolesInv(F) /\ AppendsInv(F)

-----------------------------------------------------------------------------
LEMMA VoteGeqIs ==
  ASSUME NEW v \in Votes, NEW w \in Votes
  PROVE  VoteGeq(v, w) <=>
           \/ LeaderIdOf(v).term > LeaderIdOf(w).term
           \/ LeaderIdOf(v) = LeaderIdOf(w) /\ (v.committed \/ ~w.committed)
           \/ /\ LeaderIdOf(v).term = LeaderIdOf(w).term /\ LeaderIdOf(v) # LeaderIdOf(w)
              /\ v.committed /\ ~w.committed
<1>1. LeaderIdOf(v) \in LeaderId /\ LeaderIdOf(w) \in LeaderId
  BY LeaderIdIs
<1> HIDE DEF LeaderIdOf
<1> QED
  BY <1>1 DEF VoteGeq, LeaderIdCmp, LeaderId

LEMMA VoteGeqTransitive ==
  ASSUME NEW u \in Votes, NEW v \in Votes, NEW w \in Votes, VoteGeq(u, v), VoteGeq(v, w)
  PROVE  VoteGeq(u, w)
<1>1. /\ LeaderIdOf(u) \in LeaderId /\ LeaderIdOf(v) \in LeaderId /\ LeaderIdOf(w) \in LeaderId
      /\ u.committed \in BOOLEAN /\ v.committed \in BOOLEAN /\ w.committed \in BOOLEAN
  BY LeaderIdIs DEF Votes
<1> QED
  BY <1>1, VoteGeqIs DEF LeaderId

LEMMA VoteGeqAntisymmetric ==
  ASSUME NEW v \in Votes, NEW w \in Votes, VoteGeq(v, w), VoteGeq(w, v)
  PROVE  v = w
<1>1. /\ LeaderIdOf(v) \in LeaderId /\ LeaderIdOf(w) \in LeaderId
      /\ v.committed \in BOOLEAN /\ w.committed \in BOOLEAN
      /\ v.leader_id = {LeaderIdOf(v)} /\ w.leader_id = {LeaderIdOf(w)}
  BY LeaderIdIs DEF Votes
<1>2. LeaderIdOf(v) = LeaderIdOf(w) /\ v.committed = w.committed
  BY <1>1, VoteGeqIs DEF LeaderId
<1> QED
  BY <1>1, <1>2 DEF Votes

\* Numbers below a bound have a greatest.
LEMMA MaxIs ==
  ASSUME NEW N \in Nat, NEW S \in SUBSET (0..N), S # {}
  PROVE  Max(S) \in S /\ \A x \in S : x <= Max(S)
<1> DEFINE R == OpToRel(<, Nat)
           T == {N - x : x \in S}
<1>1. IsWellFoundedOn(R, Nat)
  BY NatLessThanWellFounded
<1>2. T \subseteq Nat /\ T # {}
  <2>1. \A x \in S : N - x \in Nat
    OBVIOUS
  <2> QED
    BY <2>1, Zenon
<1>3. PICK t \in T : \A y \in T : ~(<<y, t>> \in R)
  <2> HIDE DEF R, T
  <2> QED
    BY <1>1, <1>2, WFMin, Zenon
<1>4. \A a, b \in Nat : a < b => <<a, b>> \in {ss \in Nat \X Nat : ss[1] < ss[2]}
  OBVIOUS
<1>5. \A a, b \in Nat : a < b => <<a, b>> \in R
  BY <1>4 DEF OpToRel
<1>6. \A y \in T : ~(y < t)
  BY <1>2, <1>3, <1>5, Zenon
<1>7. PICK x \in S : t = N - x
  OBVIOUS
<1>8. \A y \in S : x >= y
  <2>1. ASSUME NEW y \in S
        PROVE  x >= y
    <3>1. N - y \in T
      OBVIOUS
    <3>2. ~(N - y < N - x)
      BY <1>6, <1>7, <3>1
    <3>3. y \in Int /\ x \in Int
      OBVIOUS
    <3> QED
      BY <3>2, <3>3
  <2> QED
    BY <2>1
<1>9. \E z \in S : \A y \in S : z >= y
  BY <1>8
<1>10. Max(S) \in S /\ \A y \in S : Max(S) >= y
  BY <1>9 DEF Max
<1> QED
  BY <1>10

LEMMA MaxOfTwo ==
  ASSUME NEW a \in Nat, NEW b \in Nat
  PROVE  Max({a, b}) \in Nat /\ (Max({a, b}) = a \/ Max({a, b}) = b)
         /\ a <= Max({a, b}) /\ b <= Max({a, b})
<1>1. \E z \in {a, b} : \A y \in {a, b} : z >= y
  BY a <= b \/ b <= a
<1> QED
  BY <1>1 DEF Max

LEMMA MinOfTwo ==
  ASSUME NEW a \in Nat, NEW b \in Nat
  PROVE  (Min({a, b}) = a \/ Min({a, b}) = b) /\ Min({a, b}) <= a /\ Min({a, b}) <= b
<1>1. \E z \in {a, b} : \A y \in {a, b} : z <= y
  BY a <= b \/ b <= a
<1> QED
  BY <1>1 DEF Min

-----------------------------------------------------------------------------
LEMMA PrefixIs ==
  ASSUME NEW S, NEW l \in Seq(S), NEW i \in 0..Len(l)
  PROVE  /\ SubSeq(l, 1, i) \in Seq(S) /\ Len(SubSeq(l, 1, i)) = i
         /\ DOMAIN SubSeq(l, 1, i) = 1..i
         /\ \A j \in 1..i : SubSeq(l, 1, i)[j] = l[j]
OBVIOUS

LEMMA AgreeIs ==
  ASSUME NEW S, NEW l \in Seq(S), NEW k \in Seq(S), NEW a \in Nat
  PROVE  Agree(l, k, a) <=> (a <= Len(l) /\ a <= Len(k) /\ \A j \in 1..a : l[j] = k[j])
<1>1. DOMAIN l = 1..Len(l) /\ DOMAIN k = 1..Len(k) /\ Len(l) \in Nat /\ Len(k) \in Nat
  OBVIOUS
<1>2. ASSUME Agree(l, k, a), a # 0
      PROVE  a <= Len(l) /\ a <= Len(k)
  <2>1. a \in 1..a
    BY <1>2
  <2> QED
    BY <1>1, <1>2, <2>1 DEF Agree
<1> QED
  BY <1>1, <1>2 DEF Agree

LEMMA AgreeGives ==
  ASSUME NEW l \in Seq(Entry), NEW k \in Seq(Entry), NEW a \in Nat, Agree(l, k, a)
  PROVE  a <= Len(l) /\ a <= Len(k) /\ \A j \in 1..a : l[j] = k[j]
BY AgreeIs

\* What is on disk while one log is written over another: beginnings of the new one that
\* keep all that the two share.
LEMMA PutsAre ==
  ASSUME NEW S, NEW l \in Seq(S), NEW k \in Seq(S)
  PROVE  /\ k \in Puts(l, k)
         /\ \A p \in Puts(l, k) : \E i \in 0..Len(k) :
              /\ p = SubSeq(k, 1, i)
              /\ \A a \in Nat : Agree(l, k, a) => a <= i
<1> DEFINE agree == {i \in 0..Len(k) : Agree(l, k, i)}
<1>1. Len(k) \in Nat /\ agree \in SUBSET (0..Len(k)) /\ 0 \in agree
  BY DEF Agree
<1>2. Max(agree) \in agree /\ \A x \in agree : x <= Max(agree)
  <2> HIDE DEF agree
  <2>1. agree # {}
    BY <1>1
  <2> QED
    BY <1>1, <2>1, MaxIs
<1>3. \A a \in Nat : Agree(l, k, a) => a \in agree
  BY AgreeIs
<1>4. Puts(l, k) = {SubSeq(k, 1, i) : i \in Max(agree)..Len(k)}
  BY DEF Puts
<1> HIDE DEF agree
<1>5. Max(agree) \in Nat /\ Max(agree) <= Len(k)
  <2>1. Max(agree) \in 0..Len(k)
    BY <1>1, <1>2, Zenon
  <2> QED
    BY <2>1, <1>1
<1>6. k \in Puts(l, k)
  <2>1. Len(k) \in Max(agree)..Len(k)
    BY <1>1, <1>5
  <2>2. SubSeq(k, 1, Len(k)) = k
    OBVIOUS
  <2> QED
    BY <2>1, <2>2, <1>4
<1>7. ASSUME NEW p \in Puts(l, k)
      PROVE  \E i \in 0..Len(k) : p = SubSeq(k, 1, i) /\ \A a \in Nat : Agree(l, k, a) => a <= i
  <2>1. PICK i \in Max(agree)..Len(k) : p = SubSeq(k, 1, i)
    BY <1>4
  <2>2. i \in 0..Len(k) /\ \A a \in Nat : Agree(l, k, a) => a <= i
    <3>1. \A a \in Nat : Agree(l, k, a) => a <= Max(agree)
      BY <1>2, <1>3
    <3> QED
      BY <2>1, <3>1, <1>1, <1>5
  <2> QED
    BY <2>1, <2>2
<1> QED
  BY <1>6, <1>7

-----------------------------------------------------------------------------
Begins(g, h) == Len(g) <= Len(h) /\ \A i \in 1..Len(g) : h[i] = g[i]

LEMMA AgreeGrows ==
  ASSUME NEW l \in Seq(Entry), NEW g \in Seq(Entry), NEW h \in Seq(Entry), NEW a \in Nat,
         Begins(g, h), Agree(l, g, a)
  PROVE  Agree(l, h, a)
<1>1. a <= Len(l) /\ a <= Len(g) /\ \A j \in 1..a : l[j] = g[j]
  BY AgreeIs
<1>2. Len(g) \in Nat /\ Len(h) \in Nat
  OBVIOUS
<1>3. a <= Len(l) /\ a <= Len(h) /\ \A j \in 1..a : l[j] = h[j]
  BY <1>1, <1>2 DEF Begins
<1> QED
  BY <1>3, AgreeIs

LEMMA SoundGrows ==
  ASSUME NEW E \in SUBSET LeaderId, NEW D \in SUBSET LeaderId, E \subseteq D,
         NEW F \in [LeaderId -> Seq(Entry)], NEW G \in [LeaderId -> Seq(Entry)],
         \A id \in E : Begins(F[id], G[id]), NEW l, Sound(l, E, F)
  PROVE  Sound(l, D, G)
<1>1. l \in Seq(Entry) /\ IsLog(l)
  BY DEF Sound, IsLog
<1>2. ASSUME NEW i \in 1..Len(l)
      PROVE  \E id \in D : id.term = l[i].term /\ Agree(l, G[id], i)
  <2>1. PICK id \in E : id.term = l[i].term /\ Agree(l, F[id], i)
    BY DEF Sound
  <2>2. Agree(l, G[id], i)
    BY <2>1, <1>1, AgreeGrows
  <2> QED
    BY <2>1, <2>2
<1> QED
  BY <1>1, <1>2 DEF Sound

LEMMA SoundPrefix ==
  ASSUME NEW E \in SUBSET LeaderId, NEW F \in [LeaderId -> Seq(Entry)], NEW l, Sound(l, E, F),
         NEW k \in 0..Len(l)
  PROVE  Sound(SubSeq(l, 1, k), E, F)
<1>1. l \in Seq(Entry) /\ \A i \in 1..Len(l) : l[i].index = i
  BY DEF Sound, IsLog
<1>2. PICK p : p = SubSeq(l, 1, k)
  OBVIOUS
<1>3. p \in Seq(Entry) /\ Len(p) = k /\ \A j \in 1..k : p[j] = l[j]
  BY <1>1, <1>2
<1>4. k \in Nat /\ k <= Len(l) /\ Len(l) \in Nat
  BY <1>1
<1>5. ASSUME NEW i \in 1..Len(p)
      PROVE  \E id \in E : id.term = p[i].term /\ Agree(p, F[id], i)
  <2>1. i \in 1..Len(l) /\ i \in Nat /\ i <= k
    BY <1>3, <1>4
  <2>2. PICK id \in E : id.term = l[i].term /\ Agree(l, F[id], i)
    BY <2>1 DEF Sound
  <2>3. i <= Len(F[id]) /\ \A j \in 1..i : l[j] = F[id][j]
    BY <2>1, <2>2, <1>1, AgreeIs
  <2>4. i <= Len(p) /\ \A j \in 1..i : p[j] = F[id][j]
    BY <2>1, <2>3, <1>3, <1>4
  <2>5. Agree(p, F[id], i)
    BY <2>1, <2>3, <2>4, <1>3, AgreeIs
  <2> QED
    BY <2>1, <2>2, <2>5, <1>3
<1>6. IsLog(p)
  BY <1>1, <1>3, <1>4 DEF IsLog
<1> QED
  BY <1>2, <1>5, <1>6 DEF Sound

\* Log matching: sound logs that share an entry share what comes before it.
LEMMA SoundMatch ==
  ASSUME NEW E \in SUBSET LeaderId, OnePerTerm(E), NEW F \in [LeaderId -> Seq(Entry)],
         NEW l, Sound(l, E, F), NEW k, Sound(k, E, F),
         NEW i \in 1..Len(l), i <= Len(k), l[i].term = k[i].term
  PROVE  Agree(l, k, i)
<1>1. l \in Seq(Entry) /\ k \in Seq(Entry)
  BY DEF Sound, IsLog
<1>2. i \in Nat /\ i \in 1..Len(k) /\ i <= Len(l)
  BY <1>1
<1>3. PICK id \in E : id.term = l[i].term /\ Agree(l, F[id], i)
  BY DEF Sound
<1>4. PICK d \in E : d.term = k[i].term /\ Agree(k, F[d], i)
  BY <1>2 DEF Sound
<1>5. id = d
  BY <1>3, <1>4 DEF OnePerTerm
<1>6. \A j \in 1..i : l[j] = F[id][j] /\ k[j] = F[id][j]
  BY <1>1, <1>2, <1>3, <1>4, <1>5, AgreeIs
<1>7. \A j \in 1..i : l[j] = k[j]
  BY <1>6
<1> QED
  BY <1>1, <1>2, <1>7, AgreeIs

-----------------------------------------------------------------------------
\* What a write leaves of what was said to be held.
LEMMA PutsAgree ==
  ASSUME NEW l \in Seq(Entry), NEW k \in Seq(Entry), NEW h \in Seq(Entry), NEW a \in Nat,
         Agree(l, h, a), Agree(k, h, a), NEW p \in Puts(l, k)
  PROVE  Agree(p, h, a)
<1>1. /\ a <= Len(l) /\ a <= Len(k) /\ a <= Len(h)
      /\ \A j \in 1..a : l[j] = h[j] /\ k[j] = h[j]
  BY AgreeIs
<1>2. \A j \in 1..a : l[j] = k[j]
  BY <1>1
<1>3. Agree(l, k, a)
  BY <1>1, <1>2, AgreeIs
<1>4. PICK i \in 0..Len(k) : p = SubSeq(k, 1, i) /\ a <= i
  BY <1>3, PutsAre
<1>5. p \in Seq(Entry) /\ Len(p) = i /\ \A j \in 1..i : p[j] = k[j]
  BY <1>4
<1>6. a <= Len(p) /\ \A j \in 1..a : p[j] = h[j]
  BY <1>1, <1>4, <1>5
<1> QED
  BY <1>1, <1>5, <1>6, AgreeIs

\* A node with the vote u, the log l and perhaps L on disk comes to have w, k and M, while
\* the leader's log g grows to h.
Retains(u, w, L, M, l, k, v, a, g, h) ==
  /\ Held(u, v, a, L, g) => Held(w, v, a, M, h)
  /\ Held(u, v, a, {l}, g) => Held(w, v, a, {k}, h)

LEMMA HeldWrite ==
  ASSUME NEW u \in Votes, NEW w \in Votes, NEW v \in Votes, NEW a \in Nat,
         w = u \/ VoteGeq(w, u),
         NEW g \in Seq(Entry), NEW h \in Seq(Entry), Begins(g, h),
         NEW L \in SUBSET Seq(Entry), NEW l \in L, NEW k \in Seq(Entry),
         w = u /\ w = v /\ Agree(l, g, a) => Agree(k, h, a),
         NEW M, M = (IF w = u THEN L ELSE {l}) \cup Puts(l, k)
  PROVE  Retains(u, w, L, M, l, k, v, a, g, h)
<1>1. ASSUME a # 0, VoteGeq(u, v)
      PROVE  VoteGeq(w, v) /\ (w = v => w = u)
  BY <1>1, VoteGeqTransitive, VoteGeqAntisymmetric
<1>2. ASSUME Held(u, v, a, L, g)
      PROVE  Held(w, v, a, M, h)
  <2>1. CASE a = 0
    BY <2>1 DEF Held
  <2>2. CASE a # 0
    <3>1. VoteGeq(w, v) /\ (w = v => w = u)
      BY <2>2, <1>1, <1>2 DEF Held
    <3>2. ASSUME w = v, NEW p \in M
          PROVE  Agree(p, h, a)
      <4>1. \A q \in L : Agree(q, h, a)
        BY <2>2, <3>1, <3>2, <1>2, AgreeGrows DEF Held
      <4>2. Agree(k, h, a)
        BY <2>2, <3>1, <3>2, <1>2 DEF Held
      <4>3. CASE p \in L
        BY <4>1, <4>3
      <4>4. CASE p \in Puts(l, k)
        BY <4>1, <4>2, <4>4, PutsAgree
      <4> QED
        BY <4>3, <4>4, <3>1, <3>2
    <3> QED
      BY <3>1, <3>2 DEF Held
  <2> QED
    BY <2>1, <2>2
<1>3. ASSUME Held(u, v, a, {l}, g)
      PROVE  Held(w, v, a, {k}, h)
  <2>1. CASE a = 0
    BY <2>1 DEF Held
  <2>2. CASE a # 0
    <3>1. VoteGeq(u, v) /\ (u = v => Agree(l, g, a))
      BY <2>2, <1>3, Zenon DEF Held
    <3>2. VoteGeq(w, v) /\ (w = v => w = u)
      BY <2>2, <3>1, <1>1
    <3>3. w = v => \A q \in {k} : Agree(q, h, a)
      BY <3>1, <3>2
    <3> QED
      BY <3>2, <3>3, Zenon DEF Held
  <2> QED
    BY <2>1, <2>2
<1> QED
  BY <1>2, <1>3 DEF Retains

LEMMA LogIdAtIs ==
  ASSUME NEW l \in Seq(Entry), NEW i \in Nat
  PROVE  LogIdAt(l, i) = IF i \in 1..Len(l)
                         THEN {[leader_id |-> l[i].term, index |-> l[i].index]} ELSE {}
BY DEF LogIdAt, LogIdFromPb

LEMMA PartGrows ==
  ASSUME NEW g \in Seq(Entry), NEW h \in Seq(Entry), Begins(g, h), NEW r, IsPart(r, g)
  PROVE  IsPart(r, h)
<1> DEFINE p == PrevOf(r)
           n == UpTo(r)
<1>1. /\ n \in 0..Len(g) /\ p \in 0..n
      /\ r.prev_log_id = OptToPb(LogIdAt(g, p)) /\ r.entries = SubSeq(g, p + 1, n)
  BY DEF IsPart
<1> HIDE DEF p, n
<1>2. /\ n \in Nat /\ p \in Nat /\ p <= n /\ n <= Len(g) /\ n \in 0..Len(h)
      /\ Len(g) \in Nat /\ Len(h) \in Nat /\ Len(g) <= Len(h)
  BY <1>1 DEF Begins
<1>3. LogIdAt(g, p) = LogIdAt(h, p)
  <2>1. \A i \in 1..p : g[i] = h[i]
    BY <1>2 DEF Begins
  <2>2. p \in 1..Len(g) <=> p \in 1..Len(h)
    BY <1>2
  <2>3. p \in 1..Len(g) => g[p] = h[p]
    BY <1>2, <2>1
  <2>4. /\ LogIdAt(g, p) = IF p \in 1..Len(g)
                           THEN {[leader_id |-> g[p].term, index |-> g[p].index]} ELSE {}
        /\ LogIdAt(h, p) = IF p \in 1..Len(h)
                           THEN {[leader_id |-> h[p].term, index |-> h[p].index]} ELSE {}
    BY <1>2, LogIdAtIs
  <2> QED
    BY <2>2, <2>3, <2>4, Zenon
<1>4. SubSeq(g, p + 1, n) = SubSeq(h, p + 1, n)
  <2>1. \A i \in 1..n : g[i] = h[i]
    BY <1>2 DEF Begins
  <2> QED
    BY <1>2, <2>1
<1> QED
  BY <1>1, <1>2, <1>3, <1>4 DEF IsPart, p, n

-----------------------------------------------------------------------------
\* What was said to be held before the step is held after it; what is not on disk, by a
\* node that still has a call to answer.
Keeps(F, G) ==
  \A o \in Node, v \in Votes, a \in Nat : v.committed /\ LeaderIdOf(v) \in elected =>
    /\ Held(vote[o], v, a, survivors[o], F[LeaderIdOf(v)]) =>
         Held(vote'[o], v, a, survivors'[o], G[LeaderIdOf(v)])
    /\ Held(vote[o], v, a, {log[o]}, F[LeaderIdOf(v)]) /\ o \in {c.server : c \in calls'} =>
         Held(vote'[o], v, a, {log'[o]}, G[LeaderIdOf(v)])

\* What the leader with this id adds to its log is of its term.
OwnEntries(id, g, h) ==
  /\ \A i \in 1..Len(h) : i <= Len(g) \/ h[i].term = id.term
  /\ Len(h) <= Len(g) \/ Len(h) <= MaxIndex

Grows(F, G) ==
  /\ G \in [LeaderId -> Seq(Entry)]
  /\ elected \subseteq elected' /\ elected' \subseteq LeaderId
  /\ \A id \in elected : Begins(F[id], G[id]) /\ OwnEntries(id, F[id], G[id])
  /\ \A id \in elected' \ elected : id.node_id \in Node /\ G[id] = log[id.node_id]

LEMMA StorageKept ==
  ASSUME NEW F, LogsInv(F), UNCHANGED <<vote, log, survivors, elected>>
  PROVE  LogsInv(F)' /\ Keeps(F, F)
BY DEF LogsInv, Keeps

LEMMA GrowsSame ==
  ASSUME IInv, NEW F, LogsInv(F), UNCHANGED elected
  PROVE  Grows(F, F)
<1>1. F \in [LeaderId -> Seq(Entry)] /\ elected \subseteq LeaderId
  BY DEF LogsInv, IInv, VotesInv
<1>2. \A id \in elected : Begins(F[id], F[id]) /\ OwnEntries(id, F[id], F[id])
  BY <1>1 DEF Begins, OwnEntries
<1> QED
  BY <1>1, <1>2 DEF Grows

\* A node writes a vote that is not smaller and a sound log, which, when it keeps its vote,
\* keeps what it holds of its leader's log.
LEMMA WriteKeeps ==
  ASSUME IInv, NEW F, LogsInv(F), NEW G, Grows(F, G),
         \A id \in elected' : Sound(G[id], elected', G),
         NEW m \in Node, NEW w \in Votes, NEW k, Write(m, w, k), Sound(k, elected', G),
         w = vote[m] \/ VoteGeq(w, vote[m]),
         \A a \in Nat : /\ w = vote[m] /\ w.committed /\ LeaderIdOf(w) \in elected
                        /\ Agree(log[m], F[LeaderIdOf(w)], a)
                        => Agree(k, G[LeaderIdOf(w)], a)
  PROVE  LogsInv(G)' /\ Keeps(F, G)
<1> DEFINE u == vote[m]
           l == log[m]
           L == survivors[m]
           M == (IF w = u THEN L ELSE {l}) \cup Puts(l, k)
<1>1. vote' = [vote EXCEPT ![m] = w] /\ log' = [log EXCEPT ![m] = k]
      /\ survivors' = [survivors EXCEPT ![m] = M]
  BY DEF Write
<1>2. /\ vote \in [Node -> Votes] /\ elected \in SUBSET LeaderId /\ elected' \in SUBSET LeaderId
      /\ elected \subseteq elected'
      /\ F \in [LeaderId -> Seq(Entry)] /\ G \in [LeaderId -> Seq(Entry)]
      /\ \A id \in elected : Begins(F[id], G[id])
      /\ log \in [Node -> Seq(Entry)] /\ survivors \in [Node -> SUBSET Seq(Entry)]
      /\ \A o \in Node : log[o] \in survivors[o] /\ \A p \in survivors[o] : Sound(p, elected, F)
  BY DEF IInv, VotesInv, LogsInv, Grows
<1>3. k \in Seq(Entry) /\ l \in L /\ l \in Seq(Entry) /\ L \in SUBSET Seq(Entry)
  BY <1>2 DEF Sound, IsLog
<1>4. ASSUME NEW p \in Puts(l, k)
      PROVE  Sound(p, elected', G) /\ p \in Seq(Entry)
  <2>1. PICK i \in 0..Len(k) : p = SubSeq(k, 1, i)
    BY <1>3, PutsAre
  <2>2. Sound(p, elected', G)
    BY <2>1, <1>2, SoundPrefix
  <2> QED
    BY <2>2 DEF Sound, IsLog
<1>5. k \in M
  BY <1>3, PutsAre
<1>6. ASSUME NEW o \in Node, NEW p \in survivors[o]
      PROVE  Sound(p, elected', G)
  BY <1>2, SoundGrows
<1>7. \A p \in M : Sound(p, elected', G) /\ p \in Seq(Entry)
  BY <1>3, <1>4, <1>6
<1> HIDE DEF M
<1>8. LogsInv(G)'
  <2>1. survivors' \in [Node -> SUBSET Seq(Entry)] /\ log' \in [Node -> Seq(Entry)]
    BY <1>1, <1>2, <1>3, <1>7
  <2>2. \A o \in Node : log'[o] \in survivors'[o] /\ \A p \in survivors'[o] : Sound(p, elected', G)
    BY <1>1, <1>2, <1>5, <1>6, <1>7
  <2> QED
    BY <2>1, <2>2, <1>2 DEF LogsInv
<1>9. ASSUME NEW o \in Node, NEW v \in Votes, NEW a \in Nat,
             v.committed, LeaderIdOf(v) \in elected
      PROVE  /\ Held(vote[o], v, a, survivors[o], F[LeaderIdOf(v)]) =>
                  Held(vote'[o], v, a, survivors'[o], G[LeaderIdOf(v)])
             /\ Held(vote[o], v, a, {log[o]}, F[LeaderIdOf(v)]) =>
                  Held(vote'[o], v, a, {log'[o]}, G[LeaderIdOf(v)])
  <2> DEFINE g == F[LeaderIdOf(v)]
             h == G[LeaderIdOf(v)]
  <2>1. g \in Seq(Entry) /\ h \in Seq(Entry) /\ Begins(g, h)
    BY <1>2, <1>9
  <2>2. CASE o = m
    <3>1. w = u /\ w = v /\ Agree(l, g, a) => Agree(k, h, a)
      BY <1>9
    <3>2. u \in Votes /\ (w = u \/ VoteGeq(w, u))
      BY <1>2
    <3>3. vote'[m] = w /\ log'[m] = k /\ survivors'[m] = M
      BY <1>1, <1>2
    <3>4. M = (IF w = u THEN L ELSE {l}) \cup Puts(l, k)
      BY DEF M
    <3> HIDE DEF u, l, L, g, h
    <3>5. Retains(u, w, L, M, l, k, v, a, g, h)
      BY <3>1, <3>2, <3>4, <2>1, <1>3, HeldWrite
    <3> QED
      BY <3>3, <3>5, <2>2, Zenon DEF Retains, u, l, L, g, h
  <2>3. CASE o # m
    <3>1. vote'[o] = vote[o] /\ log'[o] = log[o] /\ survivors'[o] = survivors[o]
      BY <2>3, <1>1, <1>2
    <3>2. \A p \in survivors[o] \cup {log[o]} : p \in Seq(Entry)
      BY <1>2
    <3>3. ASSUME NEW K \in SUBSET (survivors[o] \cup {log[o]}), Held(vote[o], v, a, K, g)
          PROVE  Held(vote[o], v, a, K, h)
      BY <3>2, <3>3, <2>1, AgreeGrows DEF Held
    <3> QED
      BY <3>1, <3>3
  <2> QED
    BY <2>2, <2>3
<1> QED
  BY <1>8, <1>9 DEF Keeps

-----------------------------------------------------------------------------
LEMMA ReportsKept ==
  ASSUME IInv, NEW F, LogsInv(F), NEW G, Grows(F, G), Keeps(F, G),
         NEW c, IsCall(c), c.server \in {d.server : d \in calls'},
         NEW v \in Votes, Reports(c, v, F)
  PROVE  Reports(c, v, G)'
<1> DEFINE id == LeaderIdOf(v)
           a  == UpTo(c.request)
<1>1. /\ v.committed /\ id \in elected /\ id.node_id # c.server /\ c.server \in Node
      /\ IsPart(c.request, F[id])
  BY DEF Reports, IsCall
<1>2. id \in elected' /\ F[id] \in Seq(Entry) /\ G[id] \in Seq(Entry) /\ Begins(F[id], G[id])
  BY <1>1 DEF Grows, LogsInv
<1>3. IsPart(c.request, G[id]) /\ a \in Nat
  <2>1. IsPart(c.request, G[id])
    BY <1>1, <1>2, PartGrows
  <2> QED
    BY <2>1, <1>2 DEF IsPart
<1>4. /\ Held(vote[c.server], v, a, survivors[c.server], F[id]) =>
           Held(vote'[c.server], v, a, survivors'[c.server], G[id])
      /\ Held(vote[c.server], v, a, {log[c.server]}, F[id]) =>
           Held(vote'[c.server], v, a, {log'[c.server]}, G[id])
  BY <1>1, <1>3 DEF Keeps
<1>5. /\ c.at = "flushing" =>
           Held(vote[c.server], v, UpTo(c.request), {log[c.server]}, F[LeaderIdOf(v)])
      /\ \A p \in c.reply :
           /\ p.last_log_id = {} /\ p.conflict \in BOOLEAN
           /\ p.rejected_by = {} /\ ~p.conflict =>
                Held(vote[c.server], v, UpTo(c.request), survivors[c.server], F[LeaderIdOf(v)])
  BY DEF Reports
<1>6. /\ c.at = "flushing" =>
           Held(vote'[c.server], v, UpTo(c.request), {log'[c.server]}, G[LeaderIdOf(v)])
      /\ \A p \in c.reply :
           /\ p.last_log_id = {} /\ p.conflict \in BOOLEAN
           /\ p.rejected_by = {} /\ ~p.conflict =>
                Held(vote'[c.server], v, UpTo(c.request), survivors'[c.server], G[LeaderIdOf(v)])
  BY <1>4, <1>5
<1> QED
  BY <1>1, <1>2, <1>3, <1>6 DEF Reports

\* The calls that a step leaves, and those it changes.
LEMMA AppendsKept ==
  ASSUME IInv, NEW F, LogsInv(F), AppendsInv(F), NEW G, Grows(F, G), Keeps(F, G),
         \A c \in calls' : c \notin calls /\ c.kind = "append" =>
           \A v \in c.request.vote : Reports(c, v, G)'
  PROVE  AppendsInv(G)'
<1>1. ASSUME NEW c \in calls', c.kind = "append", NEW v \in c.request.vote, c \in calls
      PROVE  Reports(c, v, G)'
  <2>1. IsCall(c) /\ v \in Votes
    BY <1>1 DEF IInv, CallsInv, IsCall
  <2>2. Reports(c, v, F)
    BY <1>1 DEF AppendsInv
  <2> QED
    BY <2>1, <2>2, ReportsKept
<1>2. \A c \in calls' : c.kind = "append" => \A v \in c.request.vote : Reports(c, v, G)'
  BY <1>1
<1> QED
  BY <1>2 DEF AppendsInv

LEMMA AppendsShrink ==
  ASSUME IInv, NEW F, LogsInv(F), AppendsInv(F), NEW G, Grows(F, G), Keeps(F, G),
         calls' \subseteq calls
  PROVE  AppendsInv(G)'
BY AppendsKept

\* A call that is handled stands for what its answer says.
LEMMA HandledAppends ==
  ASSUME IInv, NEW F, LogsInv(F), AppendsInv(F), NEW G, Grows(F, G), Keeps(F, G),
         NEW c \in calls, NEW at, NEW r, Handled(c, at, r),
         c.kind = "append" => \A v \in c.request.vote :
           /\ at = "flushing" =>
                Held(vote'[c.server], v, UpTo(c.request), {log'[c.server]}, G[LeaderIdOf(v)])
           /\ \A p \in r :
                /\ p.last_log_id = {} /\ p.conflict \in BOOLEAN
                /\ p.rejected_by = {} /\ ~p.conflict =>
                     Held(vote'[c.server], v, UpTo(c.request), survivors'[c.server], G[LeaderIdOf(v)])
  PROVE  AppendsInv(G)'
<1>e. PICK e : e = [c EXCEPT !.at = at, !.reply = r]
  OBVIOUS
<1>1. IsCall(c)
  BY DEF IInv, CallsInv
<1>2. /\ e.kind = c.kind /\ e.server = c.server /\ e.request = c.request
      /\ e.at = at /\ e.reply = r
  <2> DEFINE A == {c.at, at}
             R == {c.reply, r}
  <2>1. c \in [client : Node \cup {Gone}, server : Node, kind : {"vote", "append"},
               request : {c.request}, at : A, reply : R]
    BY <1>1 DEF IsCall
  <2> QED
    BY <2>1, <1>e, RecordUpdated
<1>3. ASSUME NEW d \in calls', d \notin calls, d.kind = "append", NEW v \in d.request.vote
      PROVE  Reports(d, v, G)'
  <2>1. d = e
    BY <1>3, <1>e DEF Handled
  <2>2. v \in c.request.vote /\ v \in Votes /\ c.kind = "append"
    BY <2>1, <1>1, <1>2, <1>3 DEF IsCall
  <2>3. Reports(c, v, F)
    BY <2>2 DEF AppendsInv
  <2>s. c.server \in {x.server : x \in calls'}
    BY <2>1, <1>2, <1>3
  <2>4. Reports(c, v, G)'
    BY <2>s, <2>2, <2>3, <1>1, ReportsKept
  <2>5. /\ v.committed /\ LeaderIdOf(v) \in elected' /\ LeaderIdOf(v).node_id # d.server
        /\ IsPart(d.request, G[LeaderIdOf(v)])
    BY <2>1, <2>4, <1>2 DEF Reports
  <2> QED
    BY <2>1, <2>2, <2>5, <1>2 DEF Reports
<1> QED
  BY <1>3, AppendsKept

-----------------------------------------------------------------------------
\* A node that goes on in its role.
LEMMA RoleKept ==
  ASSUME IInv, NEW F, LogsInv(F), RolesInv(F), NEW G, Grows(F, G), Keeps(F, G),
         NEW n \in Node,
         role'[n] = role[n], vote'[n] = vote[n], matched'[n] = matched[n],
         role[n] = "leader" => log'[n] = G[LeaderIdOf(vote[n])],
         role[n] = "candidate" => LeaderIdOf(vote[n]) \notin elected'
  PROVE  RoleInv(n, G)'
<1>1. RoleInv(n, F) /\ matched \in [Node -> [Node -> Nat]] /\ vote[n] \in Votes
  BY DEF RolesInv, IInv, VotesInv
<1>2. ASSUME role[n] = "leader", NEW m \in Node
      PROVE  Held(vote'[m], vote'[n], matched'[n][m], survivors'[m], log'[n])
  <2>1. /\ vote[n].committed /\ LeaderIdOf(vote[n]) \in elected
        /\ F[LeaderIdOf(vote[n])] = log[n] /\ log'[n] = G[LeaderIdOf(vote[n])]
        /\ Held(vote[m], vote[n], matched[n][m], survivors[m], log[n])
    BY <1>1, <1>2 DEF RoleInv
  <2>2. matched[n][m] \in Nat
    BY <1>1
  <2>3. Held(vote'[m], vote[n], matched[n][m], survivors'[m], G[LeaderIdOf(vote[n])])
    BY <2>1, <2>2, <1>1 DEF Keeps
  <2> QED
    BY <2>1, <2>3
<1>3. role[n] = "leader" => LeaderIdOf(vote[n]) \in elected'
  BY <1>1 DEF RoleInv, Grows
<1> QED
  BY <1>1, <1>2, <1>3 DEF RoleInv

\* A node that follows.
LEMMA RoleFollower ==
  ASSUME NEW G, NEW n \in Node, role'[n] = "follower", matched'[n] = NoMatch
  PROVE  RoleInv(n, G)'
BY DEF RoleInv

LEMMA NoMatchIs ==
  NoMatch \in [Node -> Nat] /\ \A m \in Node : NoMatch[m] = 0
BY DEF NoMatch

LEMMA IdsKept ==
  ASSUME IInv, IdsInv, vote' \in [Node -> Votes],
         \A id \in elected' : id \in elected \/
           (id.node_id \in Node /\ id.term <= LeaderIdOf(vote'[id.node_id]).term),
         \A n \in Node : vote'[n] = vote[n] \/ VoteGeq(vote'[n], vote[n])
  PROVE  IdsInv'
<1>1. ASSUME NEW n \in Node
      PROVE  LeaderIdOf(vote[n]).term <= LeaderIdOf(vote'[n]).term
  <2>1. LeaderIdOf(vote[n]) \in LeaderId /\ LeaderIdOf(vote'[n]) \in LeaderId
    BY LeaderIdIs DEF IInv, VotesInv
  <2>2. vote[n] \in Votes /\ vote'[n] \in Votes
    BY DEF IInv, VotesInv
  <2> QED
    BY <2>1, <2>2, VoteGeqIs DEF LeaderId
<1>2. ASSUME NEW id \in elected
      PROVE  id.node_id \in Node /\ id.term <= LeaderIdOf(vote'[id.node_id]).term
  <2>1. id.node_id \in Node /\ id.term <= LeaderIdOf(vote[id.node_id]).term
    BY DEF IdsInv
  <2>2. /\ id.term \in Nat /\ LeaderIdOf(vote[id.node_id]).term \in Nat
        /\ LeaderIdOf(vote'[id.node_id]).term \in Nat
    BY <2>1, LeaderIdIs DEF IInv, VotesInv, LeaderId
  <2> QED
    BY <2>1, <2>2, <1>1
<1> QED
  BY <1>2 DEF IdsInv

\* A node that takes over a vote stops leading, and otherwise leaves its log.
LEMMA RolesFollow ==
  ASSUME IInv, IInv', NEW F, LogsInv(F), RolesInv(F), Keeps(F, F), UNCHANGED elected,
         NEW m \in Node, NEW w \in Votes, NEW k, Write(m, w, k), Follow(m, w),
         w = vote[m] \/ VoteGeq(w, vote[m]),
         w = vote[m] /\ role[m] = "leader" => k = log[m]
  PROVE  RolesInv(F)'
<1>1. /\ vote' = [vote EXCEPT ![m] = w] /\ log' = [log EXCEPT ![m] = k]
  BY DEF Write
<1>2. /\ vote \in [Node -> Votes] /\ log \in [Node -> Seq(Entry)]
      /\ matched \in [Node -> [Node -> Nat]] /\ IdsInv
      /\ role \in [Node -> {"follower", "candidate", "leader"}]
      /\ \A n \in Node : RoleInv(n, F)
  BY DEF IInv, VotesInv, LogsInv, RolesInv
<1>3. Grows(F, F)
  BY GrowsSame
<1>4. \/ UNCHANGED <<role, matched>> /\ w = vote[m]
      \/ /\ role' = [role EXCEPT ![m] = "follower"] /\ matched' = [matched EXCEPT ![m] = NoMatch]
         /\ w # vote[m]
  BY DEF Follow
<1>5. matched' \in [Node -> [Node -> Nat]]
  BY <1>2, <1>4, NoMatchIs
<1>6. IdsInv'
  <2>1. vote' \in [Node -> Votes] /\ \A n \in Node : vote'[n] = vote[n] \/ VoteGeq(vote'[n], vote[n])
    BY <1>1, <1>2
  <2> QED
    BY <2>1, <1>2, IdsKept
<1>7. ASSUME NEW n \in Node
      PROVE  RoleInv(n, F)'
  <2>1. CASE n = m /\ w # vote[m]
    <3>1. role'[n] = "follower" /\ matched'[n] = NoMatch
      BY <2>1, <1>2, <1>4
    <3> QED
      BY <3>1, RoleFollower
  <2>2. CASE n # m \/ w = vote[m]
    <3>1. role'[n] = role[n] /\ vote'[n] = vote[n] /\ matched'[n] = matched[n]
      BY <2>2, <1>1, <1>2, <1>4
    <3>2. role[n] = "leader" => log'[n] = log[n]
      BY <2>2, <1>1, <1>2
    <3>3. /\ role[n] = "leader" => log'[n] = F[LeaderIdOf(vote[n])]
          /\ role[n] = "candidate" => LeaderIdOf(vote[n]) \notin elected'
      BY <3>2, <1>2 DEF RoleInv
    <3> QED
      BY <3>1, <3>3, <1>3, RoleKept
  <2> QED
    BY <2>1, <2>2
<1> QED
  BY <1>5, <1>6, <1>7 DEF RolesInv

-----------------------------------------------------------------------------
MInv == \E F : MatchInv(F)

\* What a step makes of the logs F of the leaders.
MStep(F) == \E G : Grows(F, G) /\ MatchInv(G)'

\* Who is elected begins with the log it has, and knows nothing of its followers'.
LEMMA CountMatch ==
  ASSUME IInv, IInv', NEW F, MatchInv(F), NEW n \in Node, NEW id \in LeaderId, NEW votes,
         Count(n, id, votes), UNCHANGED matched, calls' \subseteq calls,
         role[n] # "leader", id.node_id = n, id \notin elected,
         \A b \in BOOLEAN : VoteGeq(FromLeaderId(id, b), vote[n])
  PROVE  MStep(F)
<1> DEFINE wins == HasQuorum(votes)
<1>g. PICK G : G = [F EXCEPT ![id] = log[n]]
  OBVIOUS
<1>w. PICK w \in {FromLeaderId(id, wins)} : TRUE
  OBVIOUS
<1>1. /\ Write(n, w, log[n])
      /\ role' = [role EXCEPT ![n] = IF wins THEN "leader" ELSE "candidate"]
      /\ elected' = elected \cup IF wins THEN {id} ELSE {}
  BY <1>w DEF Count
<1>2. /\ vote \in [Node -> Votes] /\ vote' \in [Node -> Votes] /\ elected \in SUBSET LeaderId
      /\ F \in [LeaderId -> Seq(Entry)] /\ log \in [Node -> Seq(Entry)]
      /\ matched \in [Node -> [Node -> Nat]] /\ IdsInv
      /\ role \in [Node -> {"follower", "candidate", "leader"}]
      /\ \A o \in Node : RoleInv(o, F)
      /\ LogsInv(F) /\ RolesInv(F) /\ AppendsInv(F)
      /\ \A o \in Node : log[o] \in survivors[o] /\ \A p \in survivors[o] : Sound(p, elected, F)
      /\ \A x \in elected : Sound(F[x], elected, F)
  BY DEF IInv, VotesInv, MatchInv, LogsInv, RolesInv
<1>3. /\ w \in Votes /\ LeaderIdOf(w) = id /\ w.committed = wins /\ wins \in BOOLEAN
      /\ VoteGeq(w, vote[n])
  <2>1. wins \in BOOLEAN
    BY DEF HasQuorum
  <2> QED
    BY <2>1, <1>w, FromLeaderIdIs
<1>4. /\ G \in [LeaderId -> Seq(Entry)] /\ G[id] = log[n]
      /\ \A x \in elected : G[x] = F[x]
  BY <1>2, <1>g
<1>5. /\ elected' \in SUBSET LeaderId /\ elected \subseteq elected'
      /\ \A x \in elected' : x \in elected \/ (x = id /\ wins)
  BY <1>1, <1>2
<1>6. vote'[n] = w /\ log'[n] = log[n] /\ \A o \in Node \ {n} : vote'[o] = vote[o] /\ log'[o] = log[o]
  BY <1>1, <1>2 DEF Write
<1> HIDE DEF wins
<1>7. \A x \in elected : Begins(F[x], G[x]) /\ OwnEntries(x, F[x], G[x])
  BY <1>2, <1>4 DEF Begins, OwnEntries
<1>8. Grows(F, G)
  BY <1>4, <1>5, <1>7 DEF Grows
<1>9. \A l : Sound(l, elected, F) => Sound(l, elected', G)
  BY <1>2, <1>4, <1>5, <1>7, SoundGrows
<1>10. Sound(log[n], elected', G) /\ \A x \in elected' : Sound(G[x], elected', G)
  <2>1. Sound(log[n], elected', G)
    BY <1>2, <1>9
  <2> QED
    BY <2>1, <1>2, <1>4, <1>5, <1>9
<1>11. LogsInv(G)' /\ Keeps(F, G)
  <2>1. ~(LeaderIdOf(w) \in elected)
    BY <1>3
  <2> QED
    BY <2>1, <1>1, <1>2, <1>3, <1>8, <1>10, WriteKeeps
<1>12. AppendsInv(G)'
  BY <1>2, <1>8, <1>11, AppendsShrink
<1>13. IdsInv'
  <2>1. id.node_id \in Node /\ id.term <= LeaderIdOf(vote'[id.node_id]).term
    BY <1>3, <1>6 DEF LeaderId
  <2>2. \A o \in Node : vote'[o] = vote[o] \/ VoteGeq(vote'[o], vote[o])
    BY <1>3, <1>6
  <2> QED
    BY <2>1, <2>2, <1>2, <1>5, IdsKept
<1>14. RoleInv(n, G)'
  <2>1. matched'[n] = NoMatch
    BY <1>2 DEF RoleInv
  <2>2. role'[n] = "leader" => wins
    BY <1>1, <1>2
  <2>3. role'[n] # "leader" => ~wins
    BY <1>1, <1>2
  <2>4. role'[n] = "candidate" => LeaderIdOf(vote'[n]) \notin elected'
    BY <2>3, <1>1, <1>3, <1>6
  <2>5. role'[n] = "leader" =>
          /\ vote'[n].committed /\ LeaderIdOf(vote'[n]) \in elected'
          /\ G[LeaderIdOf(vote'[n])] = log'[n]
    BY <2>2, <1>1, <1>3, <1>4, <1>6
  <2>6. \A m \in Node : Held(vote'[m], vote'[n], matched'[n][m], survivors'[m], log'[n])
    BY <2>1, NoMatchIs DEF Held
  <2> QED
    BY <2>1, <2>4, <2>5, <2>6, <1>3, <1>6 DEF RoleInv
<1>15. ASSUME NEW o \in Node, o # n
       PROVE  RoleInv(o, G)'
  <2>1. role'[o] = role[o] /\ vote'[o] = vote[o] /\ matched'[o] = matched[o] /\ log'[o] = log[o]
    BY <1>1, <1>2, <1>6, <1>15
  <2>2. RoleInv(o, F)
    BY <1>2
  <2>3. role[o] = "leader" => log'[o] = G[LeaderIdOf(vote[o])]
    BY <2>1, <2>2, <1>4 DEF RoleInv
  <2>4. role[o] = "candidate" => LeaderIdOf(vote[o]) \notin elected'
    BY <2>2, <1>5, <1>15 DEF RoleInv
  <2> QED
    BY <2>1, <2>3, <2>4, <1>2, <1>8, <1>11, RoleKept
<1>16. RolesInv(G)'
  BY <1>2, <1>13, <1>14, <1>15 DEF RolesInv
<1> QED
  BY <1>8, <1>11, <1>12, <1>16 DEF MStep, MatchInv

LEMMA CampaignMatch ==
  ASSUME IInv, IInv', NEW F, MatchInv(F), NEW n \in Node, Campaign(n)
  PROVE  MStep(F)
<1> DEFINE l == LeaderIdOf(vote[n])
<1>1. l \in LeaderId /\ vote[n] \in Votes
  BY LeaderIdIs DEF IInv, VotesInv
<1>2. PICK id : id = [term |-> l.term + 1, node_id |-> n]
  OBVIOUS
<1>3. id \in LeaderId /\ id.node_id = n /\ id.term > l.term
  <2>1. l.term + 1 \in 0..MaxTerm /\ l.term \in Nat
    BY <1>1, ClusterAssumption DEF LeaderId, Campaign, MyLeaderId
  <2> QED
    BY <2>1, <1>2 DEF LeaderId
<1>4. Count(n, id, {n}) /\ role[n] # "leader" /\ UNCHANGED <<matched, calls>>
  BY <1>2 DEF Campaign, MyLeaderId
<1>5. id \notin elected
  BY <1>1, <1>3 DEF MatchInv, RolesInv, IdsInv, LeaderId
<1>6. \A b \in BOOLEAN : VoteGeq(FromLeaderId(id, b), vote[n])
  BY <1>1, <1>3, FromLeaderIdIs, VoteGeqIs
<1> QED
  BY <1>3, <1>4, <1>5, <1>6, CountMatch

\* A step that changes no log and no vote.
LEMMA QuietMatch ==
  ASSUME IInv, NEW F, MatchInv(F), UNCHANGED <<vote, log, survivors, role, matched, elected>>,
         \A c \in calls' : c \notin calls /\ c.kind = "append" =>
           \A v \in c.request.vote : Reports(c, v, F)'
  PROVE  MStep(F)
<1>1. LogsInv(F) /\ RolesInv(F) /\ AppendsInv(F)
  BY DEF MatchInv
<1>2. LogsInv(F)' /\ Keeps(F, F) /\ Grows(F, F)
  BY <1>1, StorageKept, GrowsSame
<1>3. AppendsInv(F)'
  BY <1>1, <1>2, AppendsKept
<1>4. RolesInv(F)'
  BY <1>1 DEF RolesInv, RoleInv, IdsInv
<1> QED
  BY <1>2, <1>3, <1>4 DEF MStep, MatchInv

LEMMA RequestVoteMatch ==
  ASSUME IInv, NEW F, MatchInv(F), NEW n \in Node, NEW m \in Node, RequestVote(n, m)
  PROVE  MStep(F)
<1>1. \A c \in calls' : c \in calls \/ c.kind = "vote"
  BY DEF RequestVote, Send
<1>2. UNCHANGED <<vote, log, survivors, role, matched, elected>>
  BY DEF RequestVote, nodeVars, historyVars
<1> QED
  BY <1>1, <1>2, QuietMatch

\* A log id comes back from protobuf as it was.
LEMMA LogIdRoundTrip ==
  ASSUME NEW l \in Seq(Entry), NEW i \in Nat
  PROVE  OptFromPb(OptToPb(LogIdAt(l, i))) = LogIdAt(l, i)
<1> DEFINE x == [leader_id |-> l[i].term, index |-> l[i].index]
<1>1. LogIdAt(l, i) = {x} \/ LogIdAt(l, i) = {}
  BY LogIdAtIs
<1>2. LogIdFromPb(LogIdToPb(x)) = x
  BY DEF LogIdFromPb, LogIdToPb
<1> HIDE DEF x
<1>3. OptFromPb(OptToPb({x})) = {x}
  <2>1. OptToPb({x}) = {LogIdToPb(x)}
    BY Zenon DEF OptToPb
  <2>2. OptFromPb({LogIdToPb(x)}) = {LogIdFromPb(LogIdToPb(x))}
    BY Zenon DEF OptFromPb
  <2> QED
    BY <2>1, <2>2, <1>2
<1>4. OptFromPb(OptToPb({})) = {}
  BY Zenon DEF OptFromPb, OptToPb
<1> QED
  BY <1>1, <1>3, <1>4

\* A leader sends a part of its log.
LEMMA SendAppendMatch ==
  ASSUME IInv, NEW F, MatchInv(F), NEW n \in Node, NEW m \in Node,
         NEW i \in 0..MaxIndex, SendAppend(n, m, i)
  PROVE  MStep(F)
<1>1. UNCHANGED <<vote, log, survivors, role, matched, elected>>
  BY DEF SendAppend, nodeVars, historyVars
<1> DEFINE l == log[n]
           r == AppendRequestToPb([vote |-> vote[n], prev_log_id |-> LogIdAt(l, i),
                  entries |-> SubSeq(l, i + 1, Len(l)),
                  leader_commit |-> LogIdAt(l, commit[n])])
<1>2. /\ role[n] = "leader" /\ m # n
      /\ calls' = calls \cup {[client |-> n, server |-> m, kind |-> "append",
                               request |-> r, at |-> "sent", reply |-> {}]}
  BY DEF SendAppend, Send
<1>3. /\ vote[n].committed /\ LeaderIdOf(vote[n]) \in elected
      /\ F[LeaderIdOf(vote[n])] = l /\ LeaderIdOf(vote[n]).node_id = n
      /\ l \in Seq(Entry) /\ \A j \in 1..Len(l) : l[j].index = j
  <2>1. RoleInv(n, F) /\ log \in [Node -> Seq(Entry)]
    BY DEF MatchInv, RolesInv, LogsInv
  <2>2. F[LeaderIdOf(vote[n])] = l /\ LeaderIdOf(vote[n]) \in elected
    BY <2>1, <1>2 DEF RoleInv
  <2>3. IsLog(l)
    BY <2>2 DEF MatchInv, LogsInv, Sound
  <2> QED
    BY <2>1, <2>2, <2>3, <1>2 DEF RoleInv, IsLog
<1>4. i \in Nat /\ i <= Len(l)
  <2>1. matched[n][m] \in Nat
    BY DEF MatchInv, RolesInv
  <2>2. i \in matched[n][m]..Len(l)
    BY DEF SendAppend
  <2>3. Len(l) \in Nat
    BY <1>3
  <2> QED
    BY <2>1, <2>2, <2>3
<1>5. r.vote = {vote[n]} /\ r.prev_log_id = OptToPb(LogIdAt(l, i)) /\ r.entries = SubSeq(l, i + 1, Len(l))
  BY DEF AppendRequestToPb
<1> HIDE DEF r, l
<1>6. OptFromPb(r.prev_log_id) = LogIdAt(l, i) /\ IndexOf(LogIdAt(l, i)) = i
  <2>1. LogIdAt(l, i) = IF i \in 1..Len(l)
                        THEN {[leader_id |-> l[i].term, index |-> l[i].index]} ELSE {}
    BY <1>3, <1>4, LogIdAtIs
  <2>2. OptFromPb(OptToPb(LogIdAt(l, i))) = LogIdAt(l, i)
    BY <1>3, <1>4, LogIdRoundTrip
  <2>3. CASE i \in 1..Len(l)
    <3>1. {0} \cup {x.index : x \in LogIdAt(l, i)} = {0, i}
      BY <2>1, <2>3, <1>3
    <3>2. Max({0, i}) = i
      BY <1>4, MaxOfTwo
    <3> QED
      BY <3>1, <3>2, <2>2, <1>5 DEF IndexOf
  <2>4. CASE i \notin 1..Len(l)
    <3>1. LogIdAt(l, i) = {} /\ i = 0
      BY <2>1, <2>4, <1>4
    <3>2. {0} \cup {x.index : x \in LogIdAt(l, i)} = {0, 0}
      BY <3>1
    <3>3. Max({0, 0}) = 0
      BY MaxOfTwo
    <3> QED
      BY <3>1, <3>2, <3>3, <2>2, <1>5 DEF IndexOf
  <2> QED
    BY <2>3, <2>4
<1>7. PrevOf(r) = i /\ UpTo(r) = Len(l)
  <2>1. Len(SubSeq(l, i + 1, Len(l))) = Len(l) - i
    BY <1>3, <1>4
  <2> QED
    BY <2>1, <1>3, <1>4, <1>5, <1>6 DEF PrevOf, UpTo
<1>8. IsPart(r, l)
  BY <1>3, <1>4, <1>5, <1>7 DEF IsPart
<1>9. ASSUME NEW c \in calls', c \notin calls, NEW v \in c.request.vote
      PROVE  Reports(c, v, F)'
  <2>1. c = [client |-> n, server |-> m, kind |-> "append", request |-> r, at |-> "sent", reply |-> {}]
    BY <1>2, <1>9
  <2>2. c.server = m /\ c.request = r /\ c.at # "flushing" /\ c.reply = {}
    BY <2>1
  <2>3. v = vote[n]
    BY <2>2, <1>5, <1>9
  <2>4. /\ v.committed /\ LeaderIdOf(v) \in elected /\ LeaderIdOf(v).node_id # c.server
        /\ IsPart(c.request, F[LeaderIdOf(v)])
    BY <2>2, <2>3, <1>2, <1>3, <1>8
  <2>5. elected' = elected
    BY <1>1
  <2> QED
    BY <2>2, <2>4, <2>5 DEF Reports
<1> QED
  BY <1>1, <1>9, QuietMatch

LEMMA LostMatch ==
  ASSUME IInv, NEW F, MatchInv(F), NEW c \in calls, Lose(c) \/ GiveUp(c)
  PROVE  MStep(F)
<1>1. UNCHANGED <<vote, log, survivors, role, matched, elected>>
  BY DEF Lose, GiveUp, nodeVars, historyVars
<1>2. CASE Lose(c)
  BY <1>1, <1>2, QuietMatch DEF Lose
<1>3. CASE GiveUp(c)
  <2>e. PICK e : e = [c EXCEPT !.client = Gone]
    OBVIOUS
  <2>1. IsCall(c)
    BY DEF IInv, CallsInv
  <2>2. /\ e.kind = c.kind /\ e.server = c.server
        /\ e.request = c.request /\ e.at = c.at /\ e.reply = c.reply
    BY <2>e, <2>1 DEF IsCall
  <2>3. \A d \in calls' : d \in calls \/ d = e
    BY <1>3, <2>e DEF GiveUp
  <2>4. c.kind = "append" => \A v \in c.request.vote : Reports(c, v, F)
    BY DEF MatchInv, AppendsInv
  <2>5. ASSUME e.kind = "append", NEW v \in e.request.vote
        PROVE  Reports(e, v, F)'
    <3>1. Reports(c, v, F)
      BY <2>2, <2>4, <2>5
    <3> QED
      BY <3>1, <2>2, <1>1 DEF Reports
  <2> QED
    BY <1>1, <2>3, <2>5, QuietMatch
<1> QED
  BY <1>2, <1>3

\* A node writes another vote, and may leave its log.
LEMMA TakeOverMatch ==
  ASSUME IInv, IInv', NEW F, MatchInv(F), NEW m \in Node, NEW w \in Votes,
         Write(m, w, log[m]), Follow(m, w), w = vote[m] \/ VoteGeq(w, vote[m]),
         UNCHANGED elected, \A c \in calls' : c \in calls \/ c.kind # "append"
  PROVE  MStep(F)
<1>1. LogsInv(F) /\ RolesInv(F) /\ AppendsInv(F) /\ Grows(F, F)
  BY GrowsSame DEF MatchInv
<1>2. Sound(log[m], elected', F) /\ \A id \in elected' : Sound(F[id], elected', F)
  BY <1>1 DEF LogsInv
<1>3. LogsInv(F)' /\ Keeps(F, F)
  BY <1>1, <1>2, WriteKeeps
<1>4. RolesInv(F)'
  BY <1>1, <1>3, RolesFollow
<1>5. AppendsInv(F)'
  BY <1>1, <1>3, AppendsKept
<1> QED
  BY <1>1, <1>3, <1>4, <1>5 DEF MStep, MatchInv

LEMMA HandleVoteMatch ==
  ASSUME IInv, IInv', NEW F, MatchInv(F), NEW c \in calls, HandleVote(c)
  PROVE  MStep(F)
<1>1. IsCall(c) /\ c.kind = "vote"
  BY DEF IInv, CallsInv, HandleVote
<1> DEFINE n == c.server
<1>2. PICK req \in VoteRequestFromPb(c.request) :
        LET grant == Grants(n, req)
            v     == IF grant THEN req.vote ELSE vote[n]
        IN  /\ Write(n, v, log[n])
            /\ Follow(n, v)
            /\ ballots' = [ballots EXCEPT ![n] =
                             @ \cup IF grant THEN req.vote.leader_id ELSE {}]
            /\ Answer(c, VoteResponseToPb(
                 [vote |-> v, vote_granted |-> grant, last_log_id |-> LastLogId(log[n])]))
            /\ UNCHANGED <<commit, faults, elected, chosen>>
  BY DEF HandleVote
<1> DEFINE v == IF Grants(n, req) THEN req.vote ELSE vote[n]
<1>3. n \in Node /\ req.vote \in Votes
  BY <1>1, <1>2 DEF IsCall, VoteRequestFromPb
<1>4. v \in Votes /\ (v = vote[n] \/ VoteGeq(v, vote[n]))
  BY <1>3 DEF Grants, IInv, VotesInv
<1>5. Write(n, v, log[n]) /\ Follow(n, v) /\ UNCHANGED elected
  BY <1>2
<1>6. \A d \in calls' : d \in calls \/ d.kind # "append"
  <2>1. PICK r : Handled(c, "answered", r)
    BY <1>2 DEF Answer
  <2>2. PICK e : e = [c EXCEPT !.at = "answered", !.reply = r]
    OBVIOUS
  <2>3. e.kind = c.kind
    BY <1>1, <2>2 DEF IsCall
  <2> QED
    BY <1>1, <2>1, <2>2, <2>3 DEF Handled
<1> HIDE DEF v
<1> QED
  BY <1>3, <1>4, <1>5, <1>6, TakeOverMatch

LEMMA VoteReplyMatch ==
  ASSUME IInv, IInv', NEW F, MatchInv(F), NEW c \in calls, VoteReply(c)
  PROVE  MStep(F)
<1>1. IsCall(c) /\ VoteCall(c, ballots) /\ c.kind = "vote" /\ c.at = "answered" /\ calls' = calls \ {c}
  BY DEF IInv, CallsInv, VoteReply
<1> DEFINE n == c.client
<1>2. n \in Node
  BY <1>1 DEF IsCall
<1>3. PICK p \in c.reply : \E resp \in VoteResponseFromPb(p) :
        LET stale == role[n] # "candidate" \/ c.request.vote # {vote[n]}
        IN  \/ /\ resp.vote_granted /\ ~stale
               /\ Count(n, MyLeaderId(n), granted[n] \cup {c.server})
               /\ UNCHANGED matched
            \/ /\ resp.vote_granted /\ stale
               /\ UNCHANGED <<vote, log, survivors, role, granted, matched, elected>>
            \/ /\ ~resp.vote_granted
               /\ TakeOver(n, resp.vote)
               /\ UNCHANGED elected
  BY DEF VoteReply
<1>4. PICK resp \in VoteResponseFromPb(p) :
        \/ /\ role[n] = "candidate"
           /\ Count(n, MyLeaderId(n), granted[n] \cup {c.server})
           /\ UNCHANGED matched
        \/ UNCHANGED <<vote, log, survivors, role, granted, matched, elected>>
        \/ TakeOver(n, resp.vote) /\ UNCHANGED elected
  BY <1>3
<1>5. CASE /\ role[n] = "candidate"
           /\ Count(n, MyLeaderId(n), granted[n] \cup {c.server})
           /\ UNCHANGED matched
  <2>1. PICK id : id = LeaderIdOf(vote[n])
    OBVIOUS
  <2>2. vote[n] \in Votes /\ id \in LeaderId /\ ~vote[n].committed
    BY <2>1, <1>2, <1>5, LeaderIdIs DEF IInv, VotesInv, CandidatesInv
  <2>3. RoleInv(n, F)
    BY <1>2 DEF MatchInv, RolesInv
  <2>4. id.node_id = n /\ id \notin elected /\ role[n] # "leader"
    BY <2>1, <2>3, <1>5 DEF RoleInv
  <2>5. \A b \in BOOLEAN : VoteGeq(FromLeaderId(id, b), vote[n])
    BY <2>1, <2>2, FromLeaderIdIs, VoteGeqIs
  <2>6. Count(n, id, granted[n] \cup {c.server})
    BY <2>1, <1>5 DEF MyLeaderId
  <2> QED
    BY <2>2, <2>4, <2>5, <2>6, <1>1, <1>2, <1>5, CountMatch
<1>6. CASE UNCHANGED <<vote, log, survivors, role, granted, matched, elected>>
  BY <1>1, <1>6, QuietMatch
<1>7. CASE TakeOver(n, resp.vote) /\ UNCHANGED elected
  <2> DEFINE w == IF VoteGeq(resp.vote, vote[n]) THEN resp.vote ELSE vote[n]
  <2>1. resp.vote \in Votes
    BY <1>1, <1>3, <1>4 DEF VoteCall, VoteResponseFromPb
  <2>2. w \in Votes /\ (w = vote[n] \/ VoteGeq(w, vote[n]))
    BY <2>1, <1>2 DEF IInv, VotesInv
  <2>3. Write(n, w, log[n]) /\ Follow(n, w)
    BY <1>7 DEF TakeOver
  <2>4. \A d \in calls' : d \in calls
    BY <1>1
  <2> HIDE DEF w
  <2> QED
    BY <2>2, <2>3, <2>4, <1>2, <1>7, TakeOverMatch
<1> QED
  BY <1>4, <1>5, <1>6, <1>7

LEMMA CrashMatch ==
  ASSUME IInv, IInv', NEW F, MatchInv(F), NEW n \in Node, Crash(n)
  PROVE  MStep(F)
<1>1. LogsInv(F) /\ RolesInv(F) /\ AppendsInv(F) /\ Grows(F, F)
  BY GrowsSame DEF MatchInv, Crash, historyVars
<1>2. PICK l \in survivors[n] :
        log' = [log EXCEPT ![n] = l] /\ survivors' = [survivors EXCEPT ![n] = {l}]
  BY DEF Crash
<1>3. /\ role' = [role EXCEPT ![n] = "follower"]
      /\ matched' = [matched EXCEPT ![n] = NoMatch]
      /\ UNCHANGED <<vote, elected>> /\ calls' \subseteq calls
      /\ \A c \in calls' : c.server # n
  BY DEF Crash, historyVars
<1>4. /\ log \in [Node -> Seq(Entry)] /\ survivors \in [Node -> SUBSET Seq(Entry)]
      /\ \A m \in Node : log[m] \in survivors[m] /\ \A k \in survivors[m] : Sound(k, elected, F)
      /\ role \in [Node -> {"follower", "candidate", "leader"}]
      /\ matched \in [Node -> [Node -> Nat]]
  BY <1>1 DEF LogsInv, RolesInv, IInv, VotesInv
<1>5. LogsInv(F)'
  <2>1. log' \in [Node -> Seq(Entry)] /\ survivors' \in [Node -> SUBSET Seq(Entry)]
    BY <1>2, <1>4
  <2>2. \A m \in Node : log'[m] \in survivors'[m] /\ \A k \in survivors'[m] : Sound(k, elected, F)
    BY <1>2, <1>4
  <2> QED
    BY <2>1, <2>2, <1>1, <1>3 DEF LogsInv
<1>6. Keeps(F, F)
  <2>1. \A o \in Node : survivors'[o] \subseteq survivors[o]
    BY <1>2, <1>4
  <2>2. \A o \in Node : o \in {c.server : c \in calls'} => log'[o] = log[o]
    BY <1>2, <1>3, <1>4
  <2> QED
    BY <2>1, <2>2, <1>3 DEF Keeps, Held
<1>7. AppendsInv(F)'
  BY <1>1, <1>3, <1>6, AppendsShrink
<1>8. IdsInv'
  BY <1>1, <1>3 DEF RolesInv, IdsInv
<1>9. ASSUME NEW m \in Node
      PROVE  RoleInv(m, F)'
  <2>1. CASE m = n
    BY <2>1, <1>3, <1>4, RoleFollower
  <2>2. CASE m # n
    <3>1. role'[m] = role[m] /\ vote'[m] = vote[m] /\ matched'[m] = matched[m] /\ log'[m] = log[m]
      BY <2>2, <1>2, <1>3, <1>4
    <3>2. RoleInv(m, F)
      BY <1>1 DEF RolesInv
    <3>3. /\ role[m] = "leader" => log'[m] = F[LeaderIdOf(vote[m])]
          /\ role[m] = "candidate" => LeaderIdOf(vote[m]) \notin elected'
      BY <3>1, <3>2, <1>3 DEF RoleInv
    <3> QED
      BY <3>1, <3>3, <1>1, <1>6, RoleKept
  <2> QED
    BY <2>1, <2>2
<1>10. RolesInv(F)'
  BY <1>3, <1>4, <1>8, <1>9, NoMatchIs DEF RolesInv
<1> QED
  BY <1>1, <1>5, <1>7, <1>10 DEF MStep, MatchInv

-----------------------------------------------------------------------------
LEMMA AppendIs ==
  ASSUME NEW S, NEW l \in Seq(S), NEW e \in S, NEW k, k = Append(l, e)
  PROVE  /\ k \in Seq(S) /\ Len(k) = Len(l) + 1 /\ k[Len(l) + 1] = e
         /\ \A j \in 1..Len(l) : k[j] = l[j]
OBVIOUS

\* A leader's log stays sound when it appends an entry of its term.
LEMMA AppendSound ==
  ASSUME NEW E \in SUBSET LeaderId, NEW F \in [LeaderId -> Seq(Entry)], NEW G \in [LeaderId -> Seq(Entry)],
         NEW id \in E, NEW l \in Seq(Entry), F[id] = l,
         NEW e \in Entry, e.term = id.term, e.index = Len(l) + 1,
         NEW k, k = Append(l, e), G = [F EXCEPT ![id] = k], Sound(l, E, F)
  PROVE  Begins(l, k) /\ Sound(k, E, G)
<1>1. Len(l) \in Nat
  OBVIOUS
<1>2. \A i \in 1..Len(l) : l[i].index = i
  BY DEF Sound, IsLog
<1>f. \A i \in 1..Len(l) : \E x \in E : x.term = l[i].term /\ Agree(l, F[x], i)
  BY DEF Sound
<1>g. G[id] = k /\ \A x \in E : x # id => G[x] = F[x]
  OBVIOUS
<1>3. /\ k \in Seq(Entry) /\ Len(k) = Len(l) + 1 /\ k[Len(l) + 1] = e
      /\ \A j \in 1..Len(l) : k[j] = l[j]
  BY AppendIs
<1>4. Begins(l, k)
  BY <1>1, <1>3 DEF Begins
<1>5. IsLog(k)
  <2>1. ASSUME NEW i \in 1..Len(k)
        PROVE  k[i].index = i
    <3>1. CASE i \in 1..Len(l)
      BY <3>1, <1>2, <1>3
    <3>2. CASE i \notin 1..Len(l)
      <4>1. i = Len(l) + 1
        BY <3>2, <1>1, <1>3
      <4> QED
        BY <4>1, <1>3
    <3> QED
      BY <3>1, <3>2
  <2> QED
    BY <2>1, <1>3 DEF IsLog
<1>6. ASSUME NEW i \in 1..Len(k)
      PROVE  \E x \in E : x.term = k[i].term /\ Agree(k, G[x], i)
  <2>1. CASE i \in 1..Len(l)
    <3>1. PICK x \in E : x.term = l[i].term /\ Agree(l, F[x], i)
      BY <2>1, <1>f
    <3>2. F[x] \in Seq(Entry) /\ G[x] \in Seq(Entry) /\ i \in Nat
      BY <2>1
    <3>3. i <= Len(l) /\ i <= Len(F[x]) /\ \A j \in 1..i : l[j] = F[x][j]
      BY <3>1, <3>2, <1>1, AgreeIs
    <3>4. CASE x = id
      <4>1. i <= Len(k) /\ \A j \in 1..i : k[j] = k[j]
        BY <1>1, <1>3, <3>3, <3>2
      <4>2. Agree(k, k, i)
        BY <4>1, <1>3, <3>2, AgreeIs
      <4>3. k[i] = l[i]
        BY <2>1, <1>3
      <4> QED
        BY <4>2, <4>3, <3>1, <3>4, <1>g
    <3>5. CASE x # id
      <4>1. i <= Len(k) /\ \A j \in 1..i : k[j] = F[x][j]
        BY <1>1, <1>3, <3>3, <3>2
      <4>2. Agree(k, F[x], i)
        BY <4>1, <3>2, <3>3, <1>3, AgreeIs
      <4>3. k[i] = l[i]
        BY <2>1, <1>3
      <4> QED
        BY <4>2, <4>3, <3>1, <3>5, <1>g
    <3> QED
      BY <3>4, <3>5
  <2>2. CASE i \notin 1..Len(l)
    <3>1. i = Len(l) + 1 /\ i \in Nat /\ i <= Len(k)
      BY <2>2, <1>1, <1>3
    <3>2. Agree(k, k, i)
      BY <3>1, <1>3, AgreeIs
    <3> QED
      BY <3>1, <3>2, <1>3, <1>g
  <2> QED
    BY <2>1, <2>2
<1> QED
  BY <1>4, <1>5, <1>6 DEF Sound

LEMMA LeaderAppendMatch ==
  ASSUME IInv, IInv', NEW F, MatchInv(F), NEW n \in Node, LeaderAppend(n)
  PROVE  MStep(F)
<1>1. LogsInv(F) /\ RolesInv(F) /\ AppendsInv(F) /\ RoleInv(n, F) /\ role[n] = "leader"
  BY DEF MatchInv, RolesInv, LeaderAppend
<1>2. PICK id : id = LeaderIdOf(vote[n])
  OBVIOUS
<1>3. id \in elected /\ F[id] = log[n] /\ id.node_id = n
  BY <1>1, <1>2 DEF RoleInv
<1>e. PICK e : e = [term |-> id.term, index |-> Len(log[n]) + 1]
  OBVIOUS
<1>4. PICK k : k = Append(log[n], e)
  OBVIOUS
<1>5. PICK G : G = [F EXCEPT ![id] = k]
  OBVIOUS
<1>6. /\ Write(n, vote[n], k)
      /\ UNCHANGED <<role, matched, calls, elected>>
  BY <1>2, <1>e, <1>4 DEF LeaderAppend, MyLeaderId, historyVars
<1>7. /\ F \in [LeaderId -> Seq(Entry)] /\ elected \in SUBSET LeaderId /\ Sound(F[id], elected, F)
      /\ vote \in [Node -> Votes] /\ log \in [Node -> Seq(Entry)]
      /\ \A x \in elected : Sound(F[x], elected, F)
  BY <1>1, <1>3 DEF LogsInv, IInv, VotesInv
<1>k. /\ e \in Entry /\ e.term = id.term /\ e.index = Len(log[n]) + 1
      /\ log[n] \in Seq(Entry) /\ k \in Seq(Entry)
  BY <1>3, <1>4, <1>7, <1>e DEF LeaderId, Entry
<1>g. G \in [LeaderId -> Seq(Entry)] /\ G[id] = k /\ \A x \in elected : x # id => G[x] = F[x]
  BY <1>k, <1>3, <1>5, <1>7
<1>8. Begins(F[id], k) /\ Sound(k, elected, G)
  <2>1. PICK E : E = elected
    OBVIOUS
  <2>2. PICK l : l = log[n]
    OBVIOUS
  <2>3. /\ E \in SUBSET LeaderId /\ id \in E /\ l \in Seq(Entry) /\ F[id] = l /\ Sound(l, E, F)
        /\ k = Append(l, e) /\ e.index = Len(l) + 1
    BY <2>1, <2>2, <1>3, <1>4, <1>7, <1>k
  <2>5. /\ F \in [LeaderId -> Seq(Entry)] /\ G \in [LeaderId -> Seq(Entry)]
        /\ e \in Entry /\ e.term = id.term
    BY <1>7, <1>g, <1>k
  <2>4. Begins(l, k) /\ Sound(k, E, G)
    BY <2>3, <2>5, <1>5, AppendSound, Zenon
  <2> QED
    BY <2>1, <2>2, <2>4, <1>3
<1>9. \A x \in elected : Begins(F[x], G[x]) /\ OwnEntries(x, F[x], G[x])
  <2>1. \A x \in elected : x # id => Begins(F[x], F[x]) /\ OwnEntries(x, F[x], F[x])
    BY <1>7 DEF Begins, OwnEntries
  <2>2. OwnEntries(id, F[id], k)
    <3>1. Len(k) = Len(log[n]) + 1 /\ k[Len(log[n]) + 1] = e /\ Len(log[n]) < MaxIndex
      BY <1>4, <1>k, AppendIs DEF LeaderAppend
    <3>2. Len(log[n]) \in Nat /\ MaxIndex \in Nat
      BY <1>k, ClusterAssumption
    <3> QED
      BY <3>1, <3>2, <1>3, <1>k DEF OwnEntries
  <2> QED
    BY <2>1, <2>2, <1>8, <1>g
<1>10. Grows(F, G)
  BY <1>6, <1>7, <1>9, <1>g DEF Grows
<1>11. \A x \in elected : Sound(G[x], elected, G)
  <2>1. ASSUME NEW x \in elected, x # id
        PROVE  Sound(G[x], elected, G)
    <3>1. Sound(F[x], elected, G)
      BY <1>7, <1>9, <1>g, SoundGrows
    <3> QED
      BY <3>1, <2>1, <1>g
  <2> QED
    BY <2>1, <1>8, <1>g
<1>12. ASSUME NEW a \in Nat, Agree(log[n], F[id], a)
       PROVE  Agree(k, G[id], a)
  <2>1. Agree(k, k, a)
    <3>1. a <= Len(F[id])
      BY <1>7, <1>12, <1>3, AgreeIs
    <3>2. Len(F[id]) <= Len(k)
      BY <1>8 DEF Begins
    <3>3. Len(F[id]) \in Nat /\ Len(k) \in Nat
      BY <1>k, <1>3, <1>7
    <3> QED
      BY <3>1, <3>2, <3>3, <1>k, AgreeIs
  <2> QED
    BY <2>1, <1>g
<1>13. LogsInv(G)' /\ Keeps(F, G)
  <2>1. elected' = elected /\ vote[n] \in Votes
    BY <1>6, <1>7
  <2> QED
    BY <2>1, <1>1, <1>2, <1>6, <1>8, <1>10, <1>11, <1>12, WriteKeeps
<1>14. AppendsInv(G)'
  BY <1>1, <1>6, <1>10, <1>13, AppendsShrink
<1>15. vote' = vote /\ log' = [log EXCEPT ![n] = k]
  BY <1>6, <1>7 DEF Write
<1>16. ASSUME NEW o \in Node
       PROVE  RoleInv(o, G)'
  <2>1. RoleInv(o, F)
    BY <1>1 DEF RolesInv
  <2>2. role[o] = "leader" => log'[o] = G[LeaderIdOf(vote[o])]
    <3>1. CASE o = n
      BY <3>1, <1>2, <1>7, <1>15, <1>g
    <3>2. CASE o # n
      BY <3>2, <2>1, <1>3, <1>7, <1>15, <1>g DEF RoleInv
    <3> QED
      BY <3>1, <3>2
  <2>3. role[o] = "candidate" => LeaderIdOf(vote[o]) \notin elected'
    BY <2>1, <1>6 DEF RoleInv
  <2>4. role'[o] = role[o] /\ vote'[o] = vote[o] /\ matched'[o] = matched[o]
    BY <1>6, <1>15
  <2> QED
    BY <2>2, <2>3, <2>4, <1>1, <1>10, <1>13, RoleKept
<1>17. RolesInv(G)'
  BY <1>1, <1>6, <1>15, <1>16 DEF RolesInv, IdsInv
<1> QED
  BY <1>10, <1>13, <1>14, <1>17 DEF MStep, MatchInv

-----------------------------------------------------------------------------
\* A leader believes what was said.
LEMMA ProgressMatch ==
  ASSUME IInv, NEW F, MatchInv(F), LogsInv(F)', Keeps(F, F), AppendsInv(F)',
         UNCHANGED <<vote, log, role, elected>>,
         NEW n \in Node, NEW m \in Node, NEW to \in Nat, role[n] = "leader",
         matched' = [matched EXCEPT ![n][m] = Max({@, to})],
         Held(vote'[m], vote[n], to, survivors'[m], log[n])
  PROVE  MStep(F)
<1>1. LogsInv(F) /\ RolesInv(F) /\ Grows(F, F) /\ matched \in [Node -> [Node -> Nat]]
  BY GrowsSame DEF MatchInv, RolesInv
<1>2. PICK a \in Nat : a = matched[n][m]
  BY <1>1
<1>3. Max({a, to}) \in Nat /\ Max({a, to}) \in {a, to}
  BY MaxOfTwo
<1>4. /\ matched' \in [Node -> [Node -> Nat]]
      /\ matched'[n][m] \in {a, to}
      /\ \A o, p \in Node : o # n \/ p # m => matched'[o][p] = matched[o][p]
  BY <1>1, <1>2, <1>3
<1>5. ASSUME NEW o \in Node, o # n
      PROVE  RoleInv(o, F)'
  <2>1. RoleInv(o, F)
    BY <1>1 DEF RolesInv
  <2>2. /\ role[o] = "leader" => log'[o] = F[LeaderIdOf(vote[o])]
        /\ role[o] = "candidate" => LeaderIdOf(vote[o]) \notin elected'
    BY <2>1 DEF RoleInv
  <2>3. matched'[o] = matched[o]
    BY <1>1, <1>5
  <2> QED
    BY <2>2, <2>3, <1>1, RoleKept
<1>6. RoleInv(n, F)'
  <2>1. /\ vote[n].committed /\ LeaderIdOf(vote[n]) \in elected /\ vote[n] \in Votes
        /\ F[LeaderIdOf(vote[n])] = log[n] /\ LeaderIdOf(vote[n]).node_id = n
        /\ \A p \in Node : Held(vote[p], vote[n], matched[n][p], survivors[p], log[n])
    BY <1>1 DEF RolesInv, RoleInv, IInv, VotesInv
  <2>2. ASSUME NEW p \in Node
        PROVE  Held(vote'[p], vote[n], matched[n][p], survivors'[p], log[n])
    <3>1. matched[n][p] \in Nat
      BY <1>1
    <3>2. Held(vote[p], vote[n], matched[n][p], survivors[p], F[LeaderIdOf(vote[n])])
      BY <2>1
    <3>3. Held(vote'[p], vote[n], matched[n][p], survivors'[p], F[LeaderIdOf(vote[n])])
      BY <3>1, <3>2, <2>1 DEF Keeps
    <3> QED
      BY <3>3, <2>1
  <2>3. ASSUME NEW p \in Node
        PROVE  Held(vote'[p], vote[n], matched'[n][p], survivors'[p], log[n])
    <3>1. CASE p = m
      BY <3>1, <2>2, <1>2, <1>4
    <3>2. CASE p # m
      BY <3>2, <2>2, <1>4
    <3> QED
      BY <3>1, <3>2
  <2> QED
    BY <2>1, <2>3 DEF RoleInv
<1>7. RolesInv(F)'
  <2>1. IdsInv'
    BY <1>1 DEF RolesInv, IdsInv
  <2> QED
    BY <2>1, <1>4, <1>5, <1>6 DEF RolesInv
<1> QED
  BY <1>1, <1>7 DEF MStep, MatchInv

\* A step that at most makes what is read what is on disk, and answers calls.
LEMMA StillMatch ==
  ASSUME IInv, NEW F, MatchInv(F), LogsInv(F)', Keeps(F, F), AppendsInv(F)',
         UNCHANGED <<vote, log, role, matched, elected>>
  PROVE  MStep(F)
<1>1. LogsInv(F) /\ RolesInv(F) /\ Grows(F, F)
  BY GrowsSame DEF MatchInv
<1>2. ASSUME NEW o \in Node
      PROVE  RoleInv(o, F)'
  <2>1. RoleInv(o, F)
    BY <1>1 DEF RolesInv
  <2>2. /\ role[o] = "leader" => log'[o] = F[LeaderIdOf(vote[o])]
        /\ role[o] = "candidate" => LeaderIdOf(vote[o]) \notin elected'
    BY <2>1 DEF RoleInv
  <2> QED
    BY <2>2, <1>1, RoleKept
<1>3. RolesInv(F)'
  BY <1>1, <1>2 DEF RolesInv, IdsInv
<1> QED
  BY <1>1, <1>3 DEF MStep, MatchInv

LEMMA HeldByItself ==
  ASSUME NEW v \in Votes, NEW l \in Seq(Entry)
  PROVE  VoteGeq(v, v) /\ Held(v, v, Len(l), {l}, l)
<1>1. VoteGeq(v, v)
  BY VoteGeqIs DEF Votes
<1>2. Agree(l, l, Len(l))
  BY DEF Agree
<1> QED
  BY <1>1, <1>2 DEF Held

LEMMA FlushMatch ==
  ASSUME IInv, IInv', NEW F, MatchInv(F), NEW n \in Node, Flush(n)
  PROVE  MStep(F)
<1>1. LogsInv(F) /\ RolesInv(F) /\ AppendsInv(F) /\ RoleInv(n, F)
  BY DEF MatchInv, RolesInv
<1> DEFINE told == {c \in calls : c.server = n /\ c.at = "flushing"}
           p    == AppendResponseToPb(Success)
<1>2. /\ calls' = (calls \ told) \cup {[c EXCEPT !.at = "answered", !.reply = {p}] : c \in told}
      /\ survivors' = [survivors EXCEPT ![n] = {log[n]}]
      /\ UNCHANGED <<vote, log, role, elected>>
  BY DEF Flush
<1>3. p.last_log_id = {} /\ p.conflict = FALSE
  BY DEF AppendResponseToPb, Success
<1> HIDE DEF p
<1>4. /\ log \in [Node -> Seq(Entry)] /\ survivors \in [Node -> SUBSET Seq(Entry)]
      /\ \A m \in Node : log[m] \in survivors[m] /\ \A k \in survivors[m] : Sound(k, elected, F)
      /\ vote \in [Node -> Votes]
  BY <1>1 DEF LogsInv, IInv, VotesInv
<1>5. /\ survivors' \in [Node -> SUBSET Seq(Entry)] /\ survivors'[n] = {log[n]}
      /\ \A m \in Node : log[m] \in survivors'[m] /\ survivors'[m] \subseteq survivors[m]
  BY <1>2, <1>4
<1>6. LogsInv(F)'
  BY <1>1, <1>2, <1>4, <1>5 DEF LogsInv
<1>7. Keeps(F, F)
  BY <1>2, <1>5 DEF Keeps, Held
<1>8. Grows(F, F)
  BY <1>1, <1>2, GrowsSame
<1>9. ASSUME NEW d \in calls', d \notin calls, d.kind = "append", NEW v \in d.request.vote
      PROVE  Reports(d, v, F)'
  <2>1. PICK c \in told : d = [c EXCEPT !.at = "answered", !.reply = {p}]
    BY <1>2, <1>9
  <2>2. IsCall(c) /\ c.server = n /\ c.at = "flushing"
    BY DEF IInv, CallsInv
  <2>3. /\ d.kind = c.kind /\ d.server = c.server /\ d.request = c.request
        /\ d.at = "answered" /\ d.reply = {p}
    <3> DEFINE A == {c.at, "answered"}
               R == {c.reply, {p}}
    <3>1. c \in [client : Node \cup {Gone}, server : Node, kind : {"vote", "append"},
                 request : {c.request}, at : A, reply : R]
      BY <2>2 DEF IsCall
    <3> QED
      BY <3>1, <2>1, RecordUpdated
  <2>4. Reports(c, v, F)
    BY <2>3, <1>1, <1>9 DEF AppendsInv
  <2>5. /\ v.committed /\ LeaderIdOf(v) \in elected' /\ LeaderIdOf(v).node_id # d.server
        /\ IsPart(d.request, F[LeaderIdOf(v)])
    BY <2>3, <2>4, <1>2 DEF Reports
  <2>6. Held(vote'[n], v, UpTo(d.request), survivors'[n], F[LeaderIdOf(v)])
    BY <2>2, <2>3, <2>4, <1>2, <1>5 DEF Reports
  <2> QED
    BY <2>2, <2>3, <2>5, <2>6, <1>3 DEF Reports
<1>10. AppendsInv(F)'
  BY <1>1, <1>7, <1>8, <1>9, AppendsKept
<1>11. CASE role[n] = "leader"
  <2>1. matched' = [matched EXCEPT ![n][n] = Max({@, Len(log[n])})]
    BY <1>11 DEF Flush, Progress
  <2>2. Len(log[n]) \in Nat /\ Held(vote'[n], vote[n], Len(log[n]), survivors'[n], log[n])
    <3>1. vote[n] \in Votes /\ log[n] \in Seq(Entry)
      BY <1>4
    <3>2. Held(vote[n], vote[n], Len(log[n]), {log[n]}, log[n]) /\ Len(log[n]) \in Nat
      BY <3>1, HeldByItself
    <3>3. vote'[n] = vote[n] /\ survivors'[n] = {log[n]}
      BY <1>2, <1>5
    <3> QED
      BY <3>2, <3>3
  <2> QED
    BY <2>1, <2>2, <1>2, <1>6, <1>7, <1>10, <1>11, ProgressMatch
<1>12. CASE role[n] # "leader"
  <2>1. UNCHANGED matched
    BY <1>12 DEF Flush
  <2> QED
    BY <2>1, <1>2, <1>6, <1>7, <1>10, StillMatch
<1> QED
  BY <1>11, <1>12

LEMMA AppendReplyMatch ==
  ASSUME IInv, IInv', NEW F, MatchInv(F), NEW c \in calls, AppendReply(c)
  PROVE  MStep(F)
<1>1. /\ IsCall(c) /\ AppendCall(c) /\ c.kind = "append" /\ c.at = "answered"
      /\ calls' = calls \ {c} /\ UNCHANGED elected
  BY DEF IInv, CallsInv, AppendReply
<1> DEFINE n == c.client
<1>2. n \in Node /\ c.server \in Node
  BY <1>1 DEF IsCall
<1>3. PICK p \in c.reply, req \in AppendRequestFromPb(c.request) :
        LET resp  == AppendResponseFromPb(p)
            stale == role[n] # "leader" \/ req.vote # vote[n]
        IN  \/ /\ resp.is = "HigherVote"
               /\ TakeOver(n, resp.vote)
               /\ UNCHANGED <<commit, chosen>>
            \/ /\ resp.is # "HigherVote" /\ ~stale
               /\ Progress(n, c.server, Matching(resp, req))
               /\ UNCHANGED <<vote, log, survivors, role, granted>>
            \/ /\ resp.is # "HigherVote" /\ stale
               /\ UNCHANGED <<nodeVars, chosen>>
  BY DEF AppendReply
<1> DEFINE resp == AppendResponseFromPb(p)
<1>4. CASE resp.is = "HigherVote" /\ TakeOver(n, resp.vote)
  <2>1. p.rejected_by # {}
    BY <1>4 DEF AppendResponseFromPb, HigherVote, Conflict, PartialSuccess, Success
  <2>2. resp.vote \in p.rejected_by
    BY <2>1 DEF AppendResponseFromPb, HigherVote
  <2>3. resp.vote \in Votes
    BY <2>2, <1>1, <1>3 DEF AppendCall
  <2> DEFINE w == IF VoteGeq(resp.vote, vote[n]) THEN resp.vote ELSE vote[n]
  <2> HIDE DEF resp
  <2>4. w \in Votes /\ (w = vote[n] \/ VoteGeq(w, vote[n]))
    BY <1>2, <2>3 DEF IInv, VotesInv
  <2>5. Write(n, w, log[n]) /\ Follow(n, w)
    BY <1>4 DEF TakeOver
  <2>6. \A d \in calls' : d \in calls
    BY <1>1
  <2> HIDE DEF w
  <2> QED
    BY <2>4, <2>5, <2>6, <1>1, <1>2, TakeOverMatch
<1>5. CASE /\ resp.is # "HigherVote" /\ role[n] = "leader" /\ req.vote = vote[n]
           /\ Progress(n, c.server, Matching(resp, req))
           /\ UNCHANGED <<vote, log, survivors, role>>
  <2> DEFINE to == Matching(resp, req)
             r  == c.request
  <2>1. /\ req.vote \in r.vote /\ req.prev_log_id = OptFromPb(r.prev_log_id)
        /\ req.entries = r.entries
    BY DEF AppendRequestFromPb
  <2>2. Reports(c, vote[n], F)
    BY <2>1, <1>1, <1>5 DEF MatchInv, AppendsInv
  <2>3. RoleInv(n, F) /\ vote[n] \in Votes /\ F \in [LeaderId -> Seq(Entry)] /\ log \in [Node -> Seq(Entry)]
    BY <1>2 DEF MatchInv, RolesInv, LogsInv, IInv, VotesInv
  <2>4. F[LeaderIdOf(vote[n])] = log[n]
    BY <2>3, <1>5 DEF RoleInv
  <2>5. LastIndex(req) = UpTo(r) /\ UpTo(r) \in Nat
    <3>1. LastIndex(req) = UpTo(r)
      BY <2>1 DEF LastIndex, UpTo, PrevOf
    <3>2. IsPart(r, log[n])
      BY <2>2, <2>4 DEF Reports
    <3>3. log[n] \in Seq(Entry)
      BY <2>3, <1>2
    <3> QED
      BY <3>1, <3>2, <3>3 DEF IsPart
  <2>6. p.last_log_id = {} /\ p.conflict \in BOOLEAN
    BY <2>2 DEF Reports
  <2>7. p.rejected_by = {}
    BY <1>5 DEF AppendResponseFromPb, HigherVote
  <2>8. to \in Nat /\ Held(vote[c.server], vote[n], to, survivors[c.server], log[n])
    <3>1. CASE p.conflict
      <4>1. to = 0
        BY <3>1, <2>7 DEF AppendResponseFromPb, Matching, Conflict, Success
      <4> QED
        BY <4>1 DEF Held
    <3>2. CASE ~p.conflict
      <4>1. to = LastIndex(req)
        BY <3>2, <2>6, <2>7 DEF AppendResponseFromPb, Matching
      <4>2. Held(vote[c.server], vote[n], UpTo(r), survivors[c.server], F[LeaderIdOf(vote[n])])
        BY <3>2, <2>2, <2>7 DEF Reports
      <4> QED
        BY <4>1, <4>2, <2>4, <2>5
    <3> QED
      BY <3>1, <3>2, <2>6
  <2>9. matched' = [matched EXCEPT ![n][c.server] = Max({@, to})]
    BY <1>5 DEF Progress
  <2>10. LogsInv(F)' /\ Keeps(F, F) /\ Grows(F, F)
    BY <1>1, <1>5, StorageKept, GrowsSame DEF MatchInv
  <2>11. AppendsInv(F)'
    BY <2>10, <1>1, AppendsShrink DEF MatchInv
  <2> HIDE DEF to
  <2> QED
    BY <2>8, <2>9, <2>10, <2>11, <1>1, <1>2, <1>5, ProgressMatch
<1>6. CASE UNCHANGED nodeVars
  <2>1. UNCHANGED <<vote, log, survivors, role, matched, elected>>
    BY <1>1, <1>6 DEF nodeVars
  <2> QED
    BY <2>1, <1>1, QuietMatch
<1> QED
  BY <1>3, <1>4, <1>5, <1>6

-----------------------------------------------------------------------------
\* A log is cut at an entry that is not the leader's: what it shares with the leader's is
\* before that.
LEMMA ConflictCut ==
  ASSUME NEW l \in Seq(Entry), NEW g \in Seq(Entry), NEW prev \in Nat,
         LogIdAt(l, prev) # LogIdAt(g, prev), prev <= Len(g)
  PROVE  \E i \in 0..Len(l) :
           /\ Min({Len(l), prev - 1}) = i
           /\ \A a \in Nat : Agree(l, g, a) => a <= i
<1>1. Len(l) \in Nat /\ Len(g) \in Nat
  OBVIOUS
<1>2. /\ LogIdAt(l, prev) = IF prev \in 1..Len(l)
                            THEN {[leader_id |-> l[prev].term, index |-> l[prev].index]} ELSE {}
      /\ LogIdAt(g, prev) = IF prev \in 1..Len(g)
                            THEN {[leader_id |-> g[prev].term, index |-> g[prev].index]} ELSE {}
  BY LogIdAtIs
<1>3. prev - 1 \in Nat
  <2>1. CASE prev = 0
    <3>1. prev \notin 1..Len(l) /\ prev \notin 1..Len(g)
      BY <2>1
    <3> QED
      BY <3>1, <1>2
  <2> QED
    BY <2>1
<1>4. PICK i : i = Min({Len(l), prev - 1})
  OBVIOUS
<1>5. (i = Len(l) \/ i = prev - 1) /\ i <= Len(l) /\ i <= prev - 1
  BY <1>1, <1>3, <1>4, MinOfTwo
<1>6. ASSUME NEW a \in Nat, Agree(l, g, a)
      PROVE  a <= i
  <2>1. a <= Len(l) /\ \A j \in 1..a : l[j] = g[j]
    BY <1>6, AgreeIs
  <2>2. ~(prev <= a)
    <3>1. ASSUME prev <= a
          PROVE  FALSE
      <4>1. prev \in 1..Len(l) /\ prev \in 1..Len(g) /\ prev \in 1..a
        BY <3>1, <2>1, <1>1, <1>3
      <4>2. l[prev] = g[prev]
        BY <4>1, <2>1
      <4> QED
        BY <4>1, <4>2, <1>2
    <3> QED
      BY <3>1
  <2> QED
    BY <2>1, <2>2, <1>1, <1>3, <1>5
<1>7. i \in 0..Len(l)
  BY <1>1, <1>3, <1>5
<1> QED
  BY <1>4, <1>6, <1>7

LEMMA ConcatIs ==
  ASSUME NEW S, NEW p \in Seq(S), NEW q \in Seq(S), NEW new, new = p \o q
  PROVE  /\ new \in Seq(S) /\ Len(new) = Len(p) + Len(q)
         /\ \A j \in 1..Len(p) : new[j] = p[j]
         /\ \A j \in 1..Len(q) : new[Len(p) + j] = q[j]
OBVIOUS

LEMMA SpliceIs ==
  ASSUME NEW S, NEW g \in Seq(S), NEW prev \in Nat, NEW to \in Nat,
         prev <= to, to <= Len(g),
         NEW p \in Seq(S), Len(p) = prev, \A j \in 1..prev : p[j] = g[j],
         NEW q \in Seq(S), Len(q) = to - prev, \A j \in 1..(to - prev) : q[j] = g[prev + j],
         NEW new \in Seq(S), Len(new) = Len(p) + Len(q),
         \A j \in 1..Len(p) : new[j] = p[j],
         \A j \in 1..Len(q) : new[Len(p) + j] = q[j]
  PROVE  Len(new) = to /\ \A j \in 1..to : new[j] = g[j]
<1>1. ASSUME NEW j \in 1..to
      PROVE  new[j] = g[j]
  <2>1. CASE j \in 1..prev
    BY <2>1
  <2>2. CASE j \notin 1..prev
    <3>1. PICK i \in 1..(to - prev) : j = prev + i
      <4>1. j - prev \in 1..(to - prev) /\ j = prev + (j - prev)
        BY <2>2
      <4> QED
        BY <4>1
    <3> QED
      BY <3>1
  <2> QED
    BY <2>1, <2>2
<1> QED
  BY <1>1

\* A log that takes a part of the leader's comes to hold it, and keeps what it held.
LEMMA AppendedIs ==
  ASSUME NEW E \in SUBSET LeaderId, OnePerTerm(E), NEW F \in [LeaderId -> Seq(Entry)],
         NEW l, Sound(l, E, F), NEW g, Sound(g, E, F),
         NEW prev \in Nat, NEW to \in Nat, prev <= to, to <= Len(g),
         LogIdAt(l, prev) = LogIdAt(g, prev),
         NEW req, IndexOf(req.prev_log_id) = prev, LastIndex(req) = to,
         req.entries = SubSeq(g, prev + 1, to)
  PROVE  /\ Sound(Appended(l, req), E, F)
         /\ Agree(Appended(l, req), g, to)
         /\ \A a \in Nat : Agree(l, g, a) => Agree(Appended(l, req), g, a)
         /\ Appended(l, req) = l \/ Len(Appended(l, req)) = to
<1>1. l \in Seq(Entry) /\ g \in Seq(Entry) /\ Len(l) \in Nat /\ Len(g) \in Nat
  BY DEF Sound, IsLog
<1>2. prev <= Len(l) /\ \A j \in 1..prev : l[j] = g[j]
  <2>1. CASE prev = 0
    BY <2>1, <1>1
  <2>2. CASE prev # 0
    <3>1. prev \in 1..Len(g)
      BY <2>2, <1>1
    <3>2. LogIdAt(g, prev) = {[leader_id |-> g[prev].term, index |-> g[prev].index]}
      BY <3>1, <1>1, LogIdAtIs
    <3>3. /\ prev \in 1..Len(l)
          /\ LogIdAt(l, prev) = {[leader_id |-> l[prev].term, index |-> l[prev].index]}
      BY <3>2, <1>1, LogIdAtIs
    <3>4. l[prev].term = g[prev].term
      <4> DEFINE x == [leader_id |-> l[prev].term, index |-> l[prev].index]
                 y == [leader_id |-> g[prev].term, index |-> g[prev].index]
      <4>1. x = y
        BY <3>2, <3>3
      <4>2. x.leader_id = l[prev].term /\ y.leader_id = g[prev].term
        OBVIOUS
      <4> HIDE DEF x, y
      <4> QED
        BY <4>1, <4>2
    <3>5. prev <= Len(g)
      BY <3>1
    <3>6. Agree(l, g, prev)
      BY <3>3, <3>4, <3>5, SoundMatch
    <3> QED
      BY <3>6, <1>1, AgreeIs
  <2> QED
    BY <2>1, <2>2
<1>p. PICK p : p = SubSeq(l, 1, prev)
  OBVIOUS
<1>q. PICK q : q = SubSeq(g, prev + 1, to)
  OBVIOUS
<1>3. PICK new : new = p \o q
  OBVIOUS
<1>4. /\ new \in Seq(Entry) /\ Len(new) = to
      /\ \A j \in 1..to : new[j] = g[j]
  <2>1. p \in Seq(Entry) /\ Len(p) = prev /\ \A j \in 1..prev : p[j] = g[j]
    BY <1>1, <1>2, <1>p
  <2>2. q \in Seq(Entry) /\ Len(q) = to - prev /\ \A j \in 1..(to - prev) : q[j] = g[prev + j]
    BY <1>1, <1>q
  <2>3. /\ new \in Seq(Entry) /\ Len(new) = Len(p) + Len(q)
        /\ \A j \in 1..Len(p) : new[j] = p[j]
        /\ \A j \in 1..Len(q) : new[Len(p) + j] = q[j]
    BY <2>1, <2>2, <1>3, ConcatIs
  <2> QED
    BY <2>1, <2>2, <2>3, <1>1, SpliceIs
<1>5. new = SubSeq(g, 1, to)
  <2>1. PICK h : h = SubSeq(g, 1, to)
    OBVIOUS
  <2>2. h \in Seq(Entry) /\ Len(h) = to /\ \A j \in 1..to : h[j] = g[j]
    BY <2>1, <1>1
  <2> QED
    BY <2>1, <2>2, <1>4
<1>6. Sound(new, E, F)
  BY <1>1, <1>5, SoundPrefix
<1>7. Appended(l, req) = IF Agree(l, new, to) THEN l ELSE new
  BY <1>p, <1>q, <1>3 DEF Appended
<1>8. Agree(new, g, to)
  BY <1>1, <1>4, AgreeIs
<1>9. CASE Agree(l, new, to)
  <2>1. to <= Len(l) /\ \A j \in 1..to : l[j] = new[j]
    <3>1. l \in Seq(Entry) /\ new \in Seq(Entry)
      BY <1>1, <1>4
    <3> QED
      BY <3>1, <1>9, AgreeGives, Zenon
  <2>2. \A j \in 1..to : l[j] = g[j]
    BY <2>1, <1>4
  <2>3. Agree(l, g, to)
    BY <2>1, <2>2, <1>1, AgreeIs
  <2> QED
    BY <2>3, <1>7, <1>9
<1>10. CASE ~Agree(l, new, to)
  <2>1. ASSUME NEW a \in Nat, Agree(l, g, a)
        PROVE  Agree(new, g, a)
    <3>1. a <= Len(l) /\ a <= Len(g) /\ \A j \in 1..a : l[j] = g[j]
      BY <2>1, <1>1, AgreeIs
    <3>2. ~(to <= a)
      <4>1. ASSUME to <= a
            PROVE  Agree(l, new, to)
        <5>1. to <= Len(l) /\ \A j \in 1..to : l[j] = new[j]
          <6>1. to <= Len(l) /\ \A j \in 1..to : j \in 1..a
            BY <4>1, <3>1, <1>1
          <6> QED
            BY <6>1, <3>1, <1>4
        <5>2. to <= Len(new)
          BY <1>4
        <5> QED
          BY <5>1, <5>2, <1>1, <1>4, AgreeIs, Zenon
      <4> QED
        BY <4>1, <1>10
    <3>3. a <= Len(new) /\ \A j \in 1..a : new[j] = g[j]
      BY <3>2, <1>4
    <3> QED
      BY <3>1, <3>3, <1>1, <1>4, AgreeIs
  <2> QED
    BY <2>1, <1>4, <1>6, <1>7, <1>8, <1>10
<1> QED
  BY <1>9, <1>10

\* The append handler follows the leader of the request and answers.
LEMMA FollowMatch ==
  ASSUME IInv, IInv', NEW F, MatchInv(F), NEW c \in calls, c.kind = "append",
         NEW n, n = c.server, NEW v, c.request.vote = {v},
         NEW g, g = F[LeaderIdOf(v)], NEW k, Sound(k, elected, F),
         Write(n, v, k), Follow(n, v), VoteGeq(v, vote[n]), UNCHANGED elected,
         \A a \in Nat : Agree(log[n], g, a) => Agree(k, g, a),
         NEW at, NEW r, Handled(c, at, r), at = "flushing" => Agree(k, g, UpTo(c.request)),
         r = {} \/ r = {AppendResponseToPb(Conflict)}
  PROVE  MStep(F)
<1>1. IsCall(c) /\ Reports(c, v, F)
  BY DEF IInv, CallsInv, MatchInv, AppendsInv
<1>2. n \in Node /\ v \in Votes /\ LeaderIdOf(v).node_id # n
  BY <1>1 DEF IsCall, Reports
<1>3. LogsInv(F) /\ RolesInv(F) /\ AppendsInv(F) /\ Grows(F, F)
  BY GrowsSame DEF MatchInv
<1>4. \A id \in elected' : Sound(F[id], elected', F)
  BY <1>3 DEF LogsInv
<1>5. LogsInv(F)' /\ Keeps(F, F)
  BY <1>2, <1>3, <1>4, WriteKeeps
<1>6. ~(v = vote[n] /\ role[n] = "leader")
  BY <1>2, <1>3 DEF RolesInv, RoleInv
<1>7. RolesInv(F)'
  BY <1>2, <1>3, <1>5, <1>6, RolesFollow
<1>8. vote'[n] = v /\ log'[n] = k
  BY <1>2, <1>3 DEF Write, LogsInv, IInv, VotesInv
<1>9. VoteGeq(v, v)
  BY <1>2, VoteGeqIs DEF Votes
<1>10. at = "flushing" =>
         Held(vote'[n], v, UpTo(c.request), {log'[n]}, F[LeaderIdOf(v)])
  BY <1>8, <1>9 DEF Held
<1>c. \A p \in r : p.last_log_id = {} /\ p.conflict = TRUE
  <2>1. /\ AppendResponseToPb(Conflict).last_log_id = {}
        /\ AppendResponseToPb(Conflict).conflict = TRUE
    BY DEF AppendResponseToPb, Conflict
  <2> QED
    BY <2>1
<1>11. AppendsInv(F)'
  BY <1>3, <1>5, <1>10, <1>c, HandledAppends
<1> QED
  BY <1>3, <1>5, <1>7, <1>11 DEF MStep, MatchInv

\* The append handler refuses the request,
Refused(c) ==
  /\ UNCHANGED nodeVars
  /\ \E v : Answer(c, AppendResponseToPb(HigherVote(v)))

\* or follows the leader with the vote v and makes q of its log: it keeps what that shares
\* with the leader's and is cut there, or takes the entries sent.
Took(c, v, q, F) ==
  LET n  == c.server
      g  == F[LeaderIdOf(v)]
      to == UpTo(c.request) IN
  /\ c.request.vote = {v} /\ Reports(c, v, F) /\ VoteGeq(v, vote[n])
  /\ Write(n, v, q) /\ Follow(n, v)
  /\ Sound(q, elected, F) /\ \A a \in Nat : Agree(log[n], g, a) => Agree(q, g, a)
  /\ \/ /\ \E i \in 0..Len(log[n]) : q = SubSeq(log[n], 1, i)
        /\ Handled(c, "answered", {AppendResponseToPb(Conflict)})
        /\ UNCHANGED commit
     \/ /\ Agree(q, g, to) /\ (q = log[n] \/ Len(q) = to)
        /\ Handled(c, "flushing", {})
        /\ commit' = [commit EXCEPT ![n] =
             Max({@, Min({IndexOf(OptFromPb(c.request.leader_commit)), to})})]

LEMMA HandleAppendIs ==
  ASSUME IInv, NEW F, MatchInv(F), NEW c \in calls, HandleAppend(c)
  PROVE  Refused(c) \/ \E v \in Votes : \E q : Took(c, v, q, F)
<1> DEFINE n == c.server
           l == log[n]
           r == c.request
<1>1. IsCall(c) /\ c.kind = "append"
  BY DEF IInv, CallsInv, HandleAppend
<1>2. PICK req \in AppendRequestFromPb(r) :
        LET prev == IndexOf(req.prev_log_id)
            to   == Max({commit[n], Min({IndexOf(req.leader_commit), LastIndex(req)})})
        IN  \/ /\ ~VoteGeq(req.vote, vote[n])
               /\ Answer(c, AppendResponseToPb(HigherVote(vote[n])))
               /\ UNCHANGED nodeVars
            \/ /\ VoteGeq(req.vote, vote[n])
               /\ LogIdAt(l, prev) # req.prev_log_id
               /\ Write(n, req.vote, SubSeq(l, 1, Min({Len(l), prev - 1})))
               /\ Follow(n, req.vote)
               /\ Answer(c, AppendResponseToPb(Conflict))
               /\ UNCHANGED commit
            \/ /\ VoteGeq(req.vote, vote[n])
               /\ LogIdAt(l, prev) = req.prev_log_id
               /\ Write(n, req.vote, Appended(l, req))
               /\ Follow(n, req.vote)
               /\ commit' = [commit EXCEPT ![n] = to]
               /\ Accept(c)
  BY DEF HandleAppend
<1>3. PICK v : v = req.vote
  OBVIOUS
<1>4. /\ r.vote = {v} /\ v \in Votes /\ n \in Node
      /\ req.prev_log_id = OptFromPb(r.prev_log_id) /\ req.entries = r.entries
      /\ req.leader_commit = OptFromPb(r.leader_commit)
  BY <1>1, <1>2, <1>3 DEF IsCall, AppendRequestFromPb
<1>5. PICK g : g = F[LeaderIdOf(v)]
  OBVIOUS
<1>6. PICK prev : prev = PrevOf(r)
  OBVIOUS
<1>7. PICK to : to = UpTo(r)
  OBVIOUS
<1>8. LogsInv(F) /\ Reports(c, v, F)
  BY <1>1, <1>4 DEF MatchInv, AppendsInv
<1>9. /\ F \in [LeaderId -> Seq(Entry)] /\ elected \in SUBSET LeaderId
      /\ Sound(l, elected, F) /\ l \in Seq(Entry) /\ Sound(g, elected, F) /\ g \in Seq(Entry)
      /\ vote[n] \in Votes
  <2>1. LeaderIdOf(v) \in elected /\ elected \in SUBSET LeaderId
    BY <1>8 DEF Reports, IInv, VotesInv
  <2> QED
    BY <2>1, <1>4, <1>5, <1>8 DEF LogsInv, IInv, VotesInv
<1>10. OnePerTerm(elected)
  BY IInvSafe DEF OneLeaderPerTerm, OnePerTerm
<1>11. /\ prev \in Nat /\ to \in Nat /\ prev <= to /\ to <= Len(g) /\ prev <= Len(g)
       /\ r.prev_log_id = OptToPb(LogIdAt(g, prev)) /\ r.entries = SubSeq(g, prev + 1, to)
  <2>1. IsPart(r, g)
    BY <1>5, <1>8 DEF Reports
  <2>2. Len(g) \in Nat
    BY <1>9
  <2> QED
    BY <2>1, <2>2, <1>6, <1>7 DEF IsPart
<1>12. /\ req.prev_log_id = LogIdAt(g, prev) /\ req.entries = SubSeq(g, prev + 1, to)
       /\ IndexOf(req.prev_log_id) = prev /\ LastIndex(req) = to
  <2>1. req.prev_log_id = LogIdAt(g, prev)
    BY <1>4, <1>9, <1>11, LogIdRoundTrip
  <2>2. IndexOf(req.prev_log_id) = prev
    BY <1>4, <1>6 DEF PrevOf
  <2>3. LastIndex(req) = to
    BY <1>4, <1>7 DEF LastIndex, UpTo, PrevOf
  <2> QED
    BY <2>1, <2>2, <2>3, <1>4, <1>11
<1>13. CASE Answer(c, AppendResponseToPb(HigherVote(vote[n]))) /\ UNCHANGED nodeVars
  BY <1>13 DEF Refused
<1>14. CASE /\ VoteGeq(v, vote[n])
            /\ LogIdAt(l, prev) # LogIdAt(g, prev)
            /\ Write(n, v, SubSeq(l, 1, Min({Len(l), prev - 1})))
            /\ Follow(n, v)
            /\ Answer(c, AppendResponseToPb(Conflict))
            /\ UNCHANGED commit
  <2>1. Handled(c, "answered", {AppendResponseToPb(Conflict)})
    BY <1>14 DEF Answer
  <2>2. PICK i \in 0..Len(l) :
          /\ Min({Len(l), prev - 1}) = i
          /\ \A a \in Nat : Agree(l, g, a) => a <= i
    BY <1>9, <1>11, <1>14, ConflictCut
  <2>3. PICK k : k = SubSeq(l, 1, i)
    OBVIOUS
  <2>4. Sound(k, elected, F)
    BY <2>3, <1>9, SoundPrefix
  <2>5. ASSUME NEW a \in Nat, Agree(l, g, a)
        PROVE  Agree(k, g, a)
    <3>1. a <= i /\ a <= Len(g) /\ \A j \in 1..a : l[j] = g[j]
      BY <2>2, <2>5, <1>9, AgreeIs
    <3>2. k \in Seq(Entry) /\ Len(k) = i /\ \A j \in 1..i : k[j] = l[j]
      BY <2>3, <1>9, PrefixIs
    <3>3. a <= Len(k) /\ \A j \in 1..a : k[j] = g[j]
      BY <3>1, <3>2
    <3> QED
      BY <3>1, <3>2, <3>3, <1>9, AgreeIs
  <2>6. Write(n, v, k) /\ Follow(n, v) /\ VoteGeq(v, vote[n])
    BY <2>2, <2>3, <1>14
  <2>7. Took(c, v, k, F)
    BY <2>1, <2>2, <2>3, <2>4, <2>5, <2>6, <1>4, <1>5, <1>8, <1>14 DEF Took
  <2> QED
    BY <2>7, <1>4
<1>15. CASE /\ VoteGeq(v, vote[n])
            /\ LogIdAt(l, prev) = LogIdAt(g, prev)
            /\ Write(n, v, Appended(l, req))
            /\ Follow(n, v)
            /\ commit' = [commit EXCEPT ![n] =
                 Max({commit[n], Min({IndexOf(req.leader_commit), to})})]
            /\ Accept(c)
  <2>1. PICK k : k = Appended(l, req)
    OBVIOUS
  <2>s. PICK s : s = l
    OBVIOUS
  <2>0. /\ Sound(Appended(s, req), elected, F) /\ Agree(Appended(s, req), g, to)
        /\ \A a \in Nat : Agree(s, g, a) => Agree(Appended(s, req), g, a)
        /\ Appended(s, req) = s \/ Len(Appended(s, req)) = to
    <3>E. PICK E : E = elected
      OBVIOUS
    <3>1. E \in SUBSET LeaderId /\ OnePerTerm(E) /\ Sound(s, E, F) /\ Sound(g, E, F)
      BY <3>E, <2>s, <1>9, <1>10
    <3>2. /\ LogIdAt(s, prev) = LogIdAt(g, prev)
          /\ prev \in Nat /\ to \in Nat /\ prev <= to /\ to <= Len(g)
          /\ IndexOf(req.prev_log_id) = prev /\ LastIndex(req) = to
          /\ req.entries = SubSeq(g, prev + 1, to)
          /\ F \in [LeaderId -> Seq(Entry)]
      BY <2>s, <1>9, <1>11, <1>12, <1>15
    <3>3. /\ Sound(Appended(s, req), E, F)
          /\ Agree(Appended(s, req), g, to)
          /\ \A a \in Nat : Agree(s, g, a) => Agree(Appended(s, req), g, a)
          /\ Appended(s, req) = s \/ Len(Appended(s, req)) = to
      BY <3>1, <3>2, AppendedIs, SMTT(60)
    <3> QED
      BY <3>3, <3>E
  <2>2. /\ Sound(k, elected, F) /\ Agree(k, g, to)
        /\ \A a \in Nat : Agree(l, g, a) => Agree(k, g, a)
        /\ k = l \/ Len(k) = to
    BY <2>s, <2>0, <2>1, Zenon
  <2>3. Handled(c, "flushing", {})
    BY <1>15 DEF Accept
  <2>4. Write(n, v, k) /\ Follow(n, v) /\ VoteGeq(v, vote[n])
    BY <2>1, <1>15
  <2>5. commit' = [commit EXCEPT ![n] =
             Max({@, Min({IndexOf(OptFromPb(r.leader_commit)), to})})]
    BY <1>4, <1>15
  <2>6. Took(c, v, k, F)
    BY <2>2, <2>3, <2>4, <2>5, <1>4, <1>5, <1>7, <1>8 DEF Took
  <2> QED
    BY <2>6, <1>4
<1> QED
  BY <1>2, <1>3, <1>12, <1>13, <1>14, <1>15

LEMMA HandleAppendMatch ==
  ASSUME IInv, IInv', NEW F, MatchInv(F), NEW c \in calls, HandleAppend(c)
  PROVE  MStep(F)
<1>1. c.kind = "append" /\ UNCHANGED elected
  BY DEF HandleAppend, historyVars
<1>2. CASE Refused(c)
  <2>1. PICK v : Answer(c, AppendResponseToPb(HigherVote(v)))
    BY <1>2 DEF Refused
  <2> DEFINE p == AppendResponseToPb(HigherVote(v))
  <2>2. p.rejected_by # {} /\ p.last_log_id = {} /\ p.conflict = FALSE
    BY DEF AppendResponseToPb, HigherVote
  <2>3. Handled(c, "answered", {p})
    BY <2>1 DEF Answer
  <2>4. UNCHANGED <<vote, log, survivors, role, matched>>
    BY <1>2 DEF Refused, nodeVars
  <2>5. LogsInv(F) /\ AppendsInv(F) /\ LogsInv(F)' /\ Keeps(F, F) /\ Grows(F, F)
    BY <2>4, <1>1, StorageKept, GrowsSame DEF MatchInv
  <2> HIDE DEF p
  <2>6. AppendsInv(F)'
    BY <2>2, <2>3, <2>5, HandledAppends
  <2> QED
    BY <2>4, <2>5, <2>6, <1>1, StillMatch
<1>3. ASSUME NEW v \in Votes, NEW q, Took(c, v, q, F)
      PROVE  MStep(F)
  <2>1. PICK n : n = c.server
    OBVIOUS
  <2>2. PICK g : g = F[LeaderIdOf(v)]
    OBVIOUS
  <2>3. /\ c.request.vote = {v} /\ Sound(q, elected, F) /\ Write(n, v, q) /\ Follow(n, v)
        /\ VoteGeq(v, vote[n]) /\ \A a \in Nat : Agree(log[n], g, a) => Agree(q, g, a)
        /\ \/ Handled(c, "answered", {AppendResponseToPb(Conflict)})
           \/ Handled(c, "flushing", {}) /\ Agree(q, g, UpTo(c.request))
    BY <2>1, <2>2, <1>3 DEF Took
  <2>4. "answered" # "flushing"
    OBVIOUS
  <2>5. CASE Handled(c, "answered", {AppendResponseToPb(Conflict)})
    BY <2>1, <2>2, <2>3, <2>4, <2>5, <1>1, FollowMatch, Zenon
  <2>6. CASE Handled(c, "flushing", {}) /\ Agree(q, g, UpTo(c.request))
    BY <2>1, <2>2, <2>3, <2>6, <1>1, FollowMatch, Zenon
  <2> QED
    BY <2>3, <2>5, <2>6
<1> QED
  BY <1>2, <1>3, HandleAppendIs

-----------------------------------------------------------------------------
LEMMA MatchInit ==
  ASSUME Init, NEW F, F = [id \in LeaderId |-> <<>>]
  PROVE  MatchInv(F)
<1>1. <<>> \in Seq(Entry) /\ \A E : Sound(<<>>, E, F)
  BY DEF Sound, IsLog
<1>2. LogsInv(F)
  <2>1. /\ log \in [Node -> Seq(Entry)] /\ survivors \in [Node -> SUBSET Seq(Entry)]
        /\ elected = {} /\ \A m \in Node : log[m] = <<>> /\ survivors[m] = {<<>>}
    BY <1>1 DEF Init
  <2> QED
    BY <2>1, <1>1 DEF LogsInv
<1>3. RolesInv(F)
  BY NoMatchIs DEF Init, RolesInv, RoleInv, IdsInv
<1>4. AppendsInv(F)
  BY DEF Init, AppendsInv
<1> QED
  BY <1>2, <1>3, <1>4 DEF MatchInv

LEMMA MInvInit ==
  ASSUME Init
  PROVE  MInv
<1>1. PICK F : F = [id \in LeaderId |-> <<>>]
  OBVIOUS
<1> QED
  BY <1>1, MatchInit DEF MInv

\* Each step, and what it makes of the leaders' logs.
LEMMA MatchStep ==
  ASSUME IInv, IInv', NEW F, MatchInv(F), [Next]_vars
  PROVE  MStep(F)
<1>1. ASSUME NEW n \in Node, Campaign(n) \/ LeaderAppend(n) \/ Flush(n) \/ Crash(n)
      PROVE  MStep(F)
  BY <1>1, CampaignMatch, LeaderAppendMatch, FlushMatch, CrashMatch
<1>2. ASSUME NEW n \in Node, NEW m \in Node,
             RequestVote(n, m) \/ \E i \in 0..MaxIndex : SendAppend(n, m, i)
      PROVE  MStep(F)
  BY <1>2, RequestVoteMatch, SendAppendMatch
<1>3. ASSUME NEW c \in calls,
             \/ HandleVote(c) \/ VoteReply(c) \/ HandleAppend(c) \/ AppendReply(c)
             \/ Lose(c) \/ GiveUp(c)
      PROVE  MStep(F)
  BY <1>3, HandleVoteMatch, VoteReplyMatch, HandleAppendMatch, AppendReplyMatch, LostMatch
<1>4. CASE UNCHANGED vars
  BY <1>4, QuietMatch DEF vars, nodeVars, historyVars
<1> QED
  BY <1>1, <1>2, <1>3, <1>4 DEF Next

LEMMA MInvStep ==
  ASSUME IInv, IInv', MInv, [Next]_vars
  PROVE  MInv'
BY MatchStep DEF MInv, MStep

LEMMA MInvSafe ==
  ASSUME IInv, MInv
  PROVE  MatchedIsDurable
<1>1. PICK F : MatchInv(F)
  BY DEF MInv
<1>2. SUFFICES ASSUME NEW n \in Node, NEW m \in Node, role[n] = "leader", vote[m] = vote[n],
                      NEW l \in survivors[m]
               PROVE  Agree(l, log[n], matched[n][m])
  BY DEF MatchedIsDurable
<1>3. Held(vote[m], vote[n], matched[n][m], survivors[m], log[n])
  BY <1>1, <1>2 DEF MatchInv, RolesInv, RoleInv
<1> QED
  BY <1>2, <1>3 DEF Held, Agree

\* What a leader believes its follower holds is on the follower's disk while it follows,
\* for any nodes and any quorums that meet, whatever is lost, late or crashes.
THEOREM MatchedIsDurableHolds == Spec => []MatchedIsDurable
<1>1. Init => IInv /\ MInv
  BY IInvInit, MInvInit
<1>2. IInv /\ MInv /\ [Next]_vars => IInv' /\ MInv'
  BY IInvStep, MInvStep
<1>3. IInv /\ MInv => MatchedIsDurable
  BY MInvSafe
<1> QED
  BY <1>1, <1>2, <1>3, PTL DEF Spec
=============================================================================
