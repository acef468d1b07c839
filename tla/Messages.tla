----------------------------- MODULE Messages -----------------------------
(***************************************************************************)
(* The conversions between protobuf messages and openraft's types          *)
(* (raft/pb_impl) and the order of leader ids.                             *)
(*                                                                         *)
(* An Option is the set of its value, if any.  A conversion that unwraps   *)
(* gives the set of what it returns, which is empty when it panics.  Votes,*)
(* leader ids and entries are protobuf messages on both sides: openraft is *)
(* configured to use them as they are.                                     *)
(***************************************************************************)
EXTENDS Integers, SequencesExt

Empty == "empty"      \* google.protobuf.Empty

-----------------------------------------------------------------------------
(* Leader ids and votes.                                                   *)

\* Mutant: leader ids of one term are equal.
LeaderIdCmpByTerm(a, b) ==
  IF a.term < b.term THEN "Less" ELSE IF a.term > b.term THEN "Greater" ELSE "Equal"

\* partial_cmp: two nodes in one term do not compare.
LeaderIdCmp(a, b) ==
  IF a.term < b.term THEN "Less"
  ELSE IF a.term > b.term THEN "Greater"
  ELSE IF a.node_id = b.node_id THEN "Equal" ELSE "None"

FromLeaderId(leader_id, committed) ==
  [leader_id |-> {leader_id}, committed |-> committed]

\* leader_id() unwraps.
LeaderIdOf(vote) == CHOOSE l \in vote.leader_id : TRUE

\* openraft's order of votes: of incomparable leader ids a committed one is greater.
VoteGeq(v, w) ==
  LET order == LeaderIdCmp(LeaderIdOf(v), LeaderIdOf(w))
  IN  \/ order = "Greater"
      \/ order = "Equal" /\ (v.committed \/ ~w.committed)
      \/ order = "None" /\ v.committed /\ ~w.committed

-----------------------------------------------------------------------------
(* Log ids.                                                                *)

LogIdToPb(l)   == [term |-> l.leader_id, index |-> l.index]
LogIdFromPb(p) == [leader_id |-> p.term, index |-> p.index]

\* .map(Into::into)
OptToPb(o)   == {LogIdToPb(l) : l \in o}
OptFromPb(o) == {LogIdFromPb(p) : p \in o}

-----------------------------------------------------------------------------
(* Vote and append RPCs.                                                   *)

VoteRequestToPb(r) ==
  [vote |-> {r.vote}, last_log_id |-> OptToPb(r.last_log_id)]

VoteRequestFromPb(p) ==
  {[vote |-> v, last_log_id |-> OptFromPb(p.last_log_id)] : v \in p.vote}

VoteResponseToPb(r) ==
  [vote |-> {r.vote}, vote_granted |-> r.vote_granted,
   last_log_id |-> OptToPb(r.last_log_id)]

VoteResponseFromPb(p) ==
  {[vote |-> v, last_log_id |-> OptFromPb(p.last_log_id), vote_granted |-> p.vote_granted] :
     v \in p.vote}

AppendRequestToPb(r) ==
  [vote |-> {r.vote}, prev_log_id |-> OptToPb(r.prev_log_id),
   entries |-> r.entries, leader_commit |-> OptToPb(r.leader_commit)]

AppendRequestFromPb(p) ==
  {[vote |-> v, prev_log_id |-> OptFromPb(p.prev_log_id),
    entries |-> p.entries, leader_commit |-> OptFromPb(p.leader_commit)] : v \in p.vote}

Success            == [is |-> "Success"]
PartialSuccess(o)  == [is |-> "PartialSuccess", log_id |-> o]
Conflict           == [is |-> "Conflict"]
HigherVote(v)      == [is |-> "HigherVote", vote |-> v]

AppendResponseToPb(r) ==
  [rejected_by |-> IF r.is = "HigherVote" THEN {r.vote} ELSE {},
   conflict    |-> r.is = "Conflict",
   last_log_id |-> IF r.is = "PartialSuccess" THEN OptToPb(r.log_id) ELSE {}]

\* Mutant: the conflict flag is not looked at.
AppendResponseIgnoresConflict(p) ==
  IF p.rejected_by # {} THEN HigherVote(CHOOSE v \in p.rejected_by : TRUE)
  ELSE IF p.last_log_id # {} THEN PartialSuccess(OptFromPb(p.last_log_id))
  ELSE Success

AppendResponseFromPb(p) ==
  IF p.rejected_by # {} THEN HigherVote(CHOOSE v \in p.rejected_by : TRUE)
  ELSE IF p.conflict THEN Conflict
  ELSE IF p.last_log_id # {} THEN PartialSuccess(OptFromPb(p.last_log_id))
  ELSE Success

-----------------------------------------------------------------------------
(* Memberships and entries.                                                *)

\* Mutant: the voters as one set.
MembershipToPbFlat(m) ==
  [configs |-> <<[id \in UNION Range(m.configs) |-> Empty]>>,
   nodes   |-> m.nodes]

\* The voter sets of a joint configuration, each a map whose values say nothing.
MembershipToPb(m) ==
  [configs |-> [i \in DOMAIN m.configs |-> [id \in m.configs[i] |-> Empty]],
   nodes   |-> m.nodes]

\* Membership::new(..).unwrap(): panics for a voter set that is empty or names a node
\* that is not in nodes.
MembershipFromPb(p) ==
  IF \A i \in DOMAIN p.configs :
       DOMAIN p.configs[i] # {} /\ DOMAIN p.configs[i] \subseteq DOMAIN p.nodes
  THEN {[configs |-> [i \in DOMAIN p.configs |-> DOMAIN p.configs[i]], nodes |-> p.nodes]}
  ELSE {}

\* An entry carries a request, a membership or, when blank, neither.
EntryNew(log_id, app_data, membership) ==
  [term |-> log_id.leader_id, index |-> log_id.index,
   app_data |-> app_data, membership |-> {MembershipToPb(m) : m \in membership}]

GetMembership(entry) == UNION {MembershipFromPb(p) : p \in entry.membership}

\* The nodes of an InitRequest by id: of two with one id the last stays.
NodesById(nodes) ==
  [id \in {nodes[i].node_id : i \in DOMAIN nodes} |->
     nodes[SelectLastInSeq(nodes, LAMBDA node : node.node_id = id)]]
=============================================================================
