------------------------------ MODULE Cluster ------------------------------
(***************************************************************************)
(* Nodes that elect a leader and replicate its log over the vote and       *)
(* append RPCs: the client of network/grpc/v2.rs, the handlers of          *)
(* grpc/internal_service.rs and the conversions between them, over storage *)
(* that saves a vote before it returns and a log entry some time after.    *)
(*                                                                         *)
(* What openraft decides (whom to vote for, what to append, when to commit)*)
(* is external and is stated in operators of its own.                      *)
(***************************************************************************)
EXTENDS Messages, FiniteSetsExt, SequencesExt

CONSTANTS
  Node,
  Quorum,      \* the sets of nodes that suffice for a vote or a commit
  MaxTerm, MaxIndex, MaxCampaigns, MaxCalls, MaxFaults   \* bounds

Gone == "gone"     \* the client of a call that nobody waits for any more

ASSUME ClusterAssumption ==
  /\ Gone \notin Node
  /\ Quorum \subseteq SUBSET Node
  /\ \A P, Q \in Quorum : P \cap Q # {}
  /\ {MaxTerm, MaxIndex, MaxCampaigns, MaxCalls, MaxFaults} \subseteq Nat

VARIABLES
  vote,       \* the vote saved by each node
  log,        \* the log each node reads, of entries [term, index]
  survivors,  \* the logs a crash of the node may leave
  role,       \* "follower", "candidate" or "leader"
  granted,    \* to a candidate: the nodes that granted it their vote
  matched,    \* to a leader: up to where each node's log is known to match
  commit,     \* up to where each node knows its log to be committed
  calls,      \* the RPCs in flight
  faults,     \* crashes and calls given up so far
  ballots,    \* history: the leader ids each node granted its vote
  elected,    \* history: the leader ids that became leader
  chosen      \* history: the entries that were committed

nodeVars    == <<vote, log, survivors, role, granted, matched, commit>>
historyVars == <<ballots, elected, chosen>>
vars        == <<nodeVars, calls, faults, historyVars>>

LeaderId == [term : 0..MaxTerm, node_id : Node \cup {Gone}]
NoLeader == [term |-> 0, node_id |-> Gone]
NoMatch  == [m \in Node |-> 0]

MyLeaderId(n) == LeaderIdOf(vote[n])

HasQuorum(S) == \E Q \in Quorum : Q \subseteq S

\* The log id of the entry at index i, if there is one.
LogIdAt(l, i) == {LogIdFromPb(e) : e \in {l[j] : j \in {i} \cap DOMAIN l}}

LastLogId(l) == LogIdAt(l, Len(l))

LogIdGeq(o, p) ==
  \A b \in p : \E a \in o :
    \/ a.leader_id > b.leader_id
    \/ a.leader_id = b.leader_id /\ a.index >= b.index

Agree(l, k, i) == \A j \in 1..i : j \in DOMAIN l \cap DOMAIN k /\ l[j] = k[j]

IndexOf(o) == Max({0} \cup {l.index : l \in o})

Init ==
  /\ vote = [n \in Node |-> FromLeaderId(NoLeader, FALSE)]
  /\ log = [n \in Node |-> <<>>]
  /\ survivors = [n \in Node |-> {<<>>}]
  /\ role = [n \in Node |-> "follower"]
  /\ granted = [n \in Node |-> {}]
  /\ matched = [n \in Node |-> NoMatch]
  /\ commit = [n \in Node |-> 0]
  /\ calls = {}
  /\ faults = 0
  /\ ballots = [n \in Node |-> {}]
  /\ elected = {}
  /\ chosen = <<>>

-----------------------------------------------------------------------------
(* Storage, as LogStore has it.                                            *)

\* The logs that are on disk one after the other while l becomes k: what does not
\* agree is truncated, then each entry is put.
Puts(l, k) ==
  LET agree == {i \in 0..Len(k) : Agree(l, k, i)}
  IN  {SubSeq(k, 1, i) : i \in Max(agree)..Len(k)}

\* save_vote returns when the vote, and with it all that was written before, is on
\* disk; writes to the log are synced later, by Flush.
Write(n, v, l) ==
  /\ vote' = [vote EXCEPT ![n] = v]
  /\ log' = [log EXCEPT ![n] = l]
  /\ survivors' = [survivors EXCEPT ![n] =
       (IF v = vote[n] THEN @ ELSE {log[n]}) \cup Puts(log[n], l)]

\* A node that takes over another vote follows the node it names.
Follow(n, v) ==
  IF v = vote[n]
  THEN UNCHANGED <<role, granted, matched>>
  ELSE /\ role' = [role EXCEPT ![n] = "follower"]
       /\ granted' = [granted EXCEPT ![n] = {}]
       /\ matched' = [matched EXCEPT ![n] = NoMatch]

-----------------------------------------------------------------------------
(* RPCs.  A call whose client stopped waiting may still be handled.        *)

Handled(c, at, reply) ==
  calls' = (calls \ {c}) \cup
    IF c.client = Gone THEN {} ELSE {[c EXCEPT !.at = at, !.reply = reply]}

Answer(c, reply) == Handled(c, "answered", {reply})

\* The client connects and sends: a connection per call, one call per target.
Send(n, m, kind, request) ==
  /\ Cardinality({c \in calls : c.client # Gone}) < MaxCalls
  /\ ~\E c \in calls : c.client = n /\ c.server = m /\ c.kind = kind
  /\ calls' = calls \cup {[client |-> n, server |-> m, kind |-> kind,
                           request |-> request, at |-> "sent", reply |-> {}]}

\* Unreachable or Network error: request or reply are lost, or the request arrives
\* after its client gave up.
Lose(c) ==
  /\ calls' = calls \ {c}
  /\ UNCHANGED <<nodeVars, faults, historyVars>>

GiveUp(c) ==
  /\ c.client # Gone
  /\ c.at = "sent"
  /\ faults < MaxFaults /\ faults' = faults + 1
  /\ calls' = (calls \ {c}) \cup {[c EXCEPT !.client = Gone]}
  /\ UNCHANGED <<nodeVars, historyVars>>

-----------------------------------------------------------------------------
(* Elections.                                                              *)

\* openraft: with the votes of a quorum the vote is saved as committed.
Count(n, id, votes) ==
  LET wins == HasQuorum(votes)
  IN  /\ Write(n, FromLeaderId(id, wins), log[n])
      /\ role' = [role EXCEPT ![n] = IF wins THEN "leader" ELSE "candidate"]
      /\ granted' = [granted EXCEPT ![n] = IF wins THEN {} ELSE votes]
      /\ elected' = elected \cup IF wins THEN {id} ELSE {}

\* openraft: no leader was heard of for a while.
Campaign(n) ==
  LET id == [term |-> MyLeaderId(n).term + 1, node_id |-> n]
  IN  /\ role[n] # "leader"
      /\ id.term <= MaxTerm
      /\ Cardinality(UNION {ballots[m] : m \in Node}) < MaxCampaigns
      /\ Count(n, id, {n})
      /\ ballots' = [ballots EXCEPT ![n] = @ \cup {id}]
      /\ UNCHANGED <<matched, commit, calls, faults, chosen>>

RequestVote(n, m) ==
  /\ role[n] = "candidate"
  /\ m \notin granted[n]
  /\ Send(n, m, "vote",
          VoteRequestToPb([vote |-> vote[n], last_log_id |-> LastLogId(log[n])]))
  /\ UNCHANGED <<nodeVars, faults, historyVars>>

\* openraft: the candidate's log is not behind, its vote is not smaller.
Grants(n, req) ==
  /\ LogIdGeq(req.last_log_id, LastLogId(log[n]))
  /\ VoteGeq(req.vote, vote[n])

\* The vote handler.
HandleVote(c) ==
  /\ c.kind = "vote" /\ c.at = "sent"
  /\ \E req \in VoteRequestFromPb(c.request) :
       LET n     == c.server
           grant == Grants(n, req)
           v     == IF grant THEN req.vote ELSE vote[n]
       IN  /\ Write(n, v, log[n])
           /\ Follow(n, v)
           /\ ballots' = [ballots EXCEPT ![n] =
                            @ \cup IF grant THEN req.vote.leader_id ELSE {}]
           /\ Answer(c, VoteResponseToPb(
                [vote |-> v, vote_granted |-> grant, last_log_id |-> LastLogId(log[n])]))
           /\ UNCHANGED <<commit, faults, elected, chosen>>

\* A greater vote in an answer is taken over.
TakeOver(n, v) ==
  LET w == IF VoteGeq(v, vote[n]) THEN v ELSE vote[n]
  IN  Write(n, w, log[n]) /\ Follow(n, w)

\* vote() of the client returns to openraft: a vote for the present candidacy counts.
VoteReply(c) ==
  /\ c.kind = "vote" /\ c.at = "answered"
  /\ calls' = calls \ {c}
  /\ \E p \in c.reply : \E resp \in VoteResponseFromPb(p) :
       LET n     == c.client
           stale == role[n] # "candidate" \/ c.request.vote # {vote[n]}
       IN  \/ /\ resp.vote_granted /\ ~stale
              /\ Count(n, MyLeaderId(n), granted[n] \cup {c.server})
              /\ UNCHANGED matched
           \/ /\ resp.vote_granted /\ stale
              /\ UNCHANGED <<vote, log, survivors, role, granted, matched, elected>>
           \/ /\ ~resp.vote_granted
              /\ TakeOver(n, resp.vote)
              /\ UNCHANGED elected
  /\ UNCHANGED <<commit, faults, ballots, chosen>>

-----------------------------------------------------------------------------
(* Replication.                                                            *)

\* openraft: the leader appends an entry, the blank one of its term or a request.
LeaderAppend(n) ==
  /\ role[n] = "leader"
  /\ Len(log[n]) < MaxIndex
  /\ Write(n, vote[n],
           Append(log[n], [term |-> MyLeaderId(n).term, index |-> Len(log[n]) + 1]))
  /\ UNCHANGED <<role, granted, matched, commit, calls, faults, historyVars>>

\* openraft sends what follows some entry that may match; nothing is a heartbeat.
SendAppend(n, m, prev) ==
  /\ role[n] = "leader"
  /\ m # n
  /\ prev \in matched[n][m]..Len(log[n])
  /\ Send(n, m, "append", AppendRequestToPb(
       [vote |-> vote[n], prev_log_id |-> LogIdAt(log[n], prev),
        entries |-> SubSeq(log[n], prev + 1, Len(log[n])),
        leader_commit |-> LogIdAt(log[n], commit[n])]))
  /\ UNCHANGED <<nodeVars, faults, historyVars>>

LastIndex(req) == IndexOf(req.prev_log_id) + Len(req.entries)

\* openraft: what the node's log becomes; entries it holds already stay, and with
\* them what follows.
Appended(l, req) ==
  LET new == SubSeq(l, 1, IndexOf(req.prev_log_id)) \o req.entries
  IN  IF Agree(l, new, LastIndex(req)) THEN l ELSE new

\* Mutant: success is answered although the entries are not synced.
AcceptUnsynced(c) == Answer(c, AppendResponseToPb(Success))

\* Success is answered after the entries are synced, by Flush.
Accept(c) == Handled(c, "flushing", {})

\* The append handler: a smaller vote, a log that conflicts at prev_log_id, or entries
\* taken.
HandleAppend(c) ==
  /\ c.kind = "append" /\ c.at = "sent"
  /\ \E req \in AppendRequestFromPb(c.request) :
       LET n    == c.server
           l    == log[n]
           prev == IndexOf(req.prev_log_id)
           to   == Max({commit[n], Min({IndexOf(req.leader_commit), LastIndex(req)})})
       IN  \/ /\ ~VoteGeq(req.vote, vote[n])
              /\ Answer(c, AppendResponseToPb(HigherVote(vote[n])))
              /\ UNCHANGED nodeVars
           \/ /\ VoteGeq(req.vote, vote[n])
              /\ LogIdAt(l, prev) # req.prev_log_id
              /\ Write(n, req.vote, SubSeq(l, 1, Min({Len(l), prev - 1})))
              /\ Follow(n, req.vote)
              /\ Answer(c, AppendResponseToPb(Conflict))
              /\ UNCHANGED commit
           \/ /\ VoteGeq(req.vote, vote[n])
              /\ LogIdAt(l, prev) = req.prev_log_id
              /\ Write(n, req.vote, Appended(l, req))
              /\ Follow(n, req.vote)
              /\ commit' = [commit EXCEPT ![n] = to]
              /\ Accept(c)
  /\ UNCHANGED <<faults, historyVars>>

\* openraft: a leader commits what a quorum holds, up to an entry of its own term.
Progress(n, m, to) ==
  LET held(k) == {p \in Node : matched'[n][p] >= k}
      own     == {k \in DOMAIN log[n] : log[n][k].term = MyLeaderId(n).term}
      point   == Max({commit[n]} \cup {k \in own : HasQuorum(held(k))})
  IN  /\ matched' = [matched EXCEPT ![n][m] = Max({@, to})]
      /\ commit' = [commit EXCEPT ![n] = point]
      /\ chosen' = IF point > Len(chosen) THEN SubSeq(log[n], 1, point) ELSE chosen

\* A flush task of append: what was written is on disk, and who waits for it is told.
Flush(n) ==
  LET told == {c \in calls : c.server = n /\ c.at = "flushing"}
  IN  /\ \/ survivors[n] # {log[n]}
         \/ told # {}
         \/ role[n] = "leader" /\ matched[n][n] < Len(log[n])
      /\ survivors' = [survivors EXCEPT ![n] = {log[n]}]
      /\ calls' = (calls \ told) \cup
           {[c EXCEPT !.at = "answered", !.reply = {AppendResponseToPb(Success)}] : c \in told}
      /\ IF role[n] = "leader"
         THEN Progress(n, n, Len(log[n]))
         ELSE UNCHANGED <<matched, commit, chosen>>
      /\ UNCHANGED <<vote, log, role, granted, faults, ballots, elected>>

\* Mutant: counts the entries from one.
MatchingOffByOne(resp, req) == IF resp = Success THEN LastIndex(req) + 1 ELSE 0

\* Up to where an answer says that the follower's log matches.
Matching(resp, req) ==
  IF resp = Success THEN LastIndex(req)
  ELSE IF resp.is = "PartialSuccess" THEN IndexOf(resp.log_id) ELSE 0

\* append_entries() of the client returns to openraft.
AppendReply(c) ==
  /\ c.kind = "append" /\ c.at = "answered"
  /\ calls' = calls \ {c}
  /\ \E p \in c.reply, req \in AppendRequestFromPb(c.request) :
       LET n     == c.client
           resp  == AppendResponseFromPb(p)
           stale == role[n] # "leader" \/ req.vote # vote[n]
       IN  \/ /\ resp.is = "HigherVote"
              /\ TakeOver(n, resp.vote)
              /\ UNCHANGED <<commit, chosen>>
           \/ /\ resp.is # "HigherVote" /\ ~stale
              /\ Progress(n, c.server, Matching(resp, req))
              /\ UNCHANGED <<vote, log, survivors, role, granted>>
           \/ /\ resp.is # "HigherVote" /\ stale
              /\ UNCHANGED <<nodeVars, chosen>>
  /\ UNCHANGED <<faults, ballots, elected>>

-----------------------------------------------------------------------------
\* A node stops and starts again with what is on disk; its connections break.
Crash(n) ==
  /\ faults < MaxFaults /\ faults' = faults + 1
  /\ \E l \in survivors[n] :
       /\ log' = [log EXCEPT ![n] = l]
       /\ survivors' = [survivors EXCEPT ![n] = {l}]
  /\ role' = [role EXCEPT ![n] = "follower"]
  /\ granted' = [granted EXCEPT ![n] = {}]
  /\ matched' = [matched EXCEPT ![n] = NoMatch]
  /\ commit' = [commit EXCEPT ![n] = 0]
  /\ calls' = {c \in calls : n \notin {c.client, c.server}}
  /\ UNCHANGED <<vote, historyVars>>

Next ==
  \/ \E n \in Node :
       \/ Campaign(n) \/ LeaderAppend(n) \/ Flush(n) \/ Crash(n)
       \/ \E m \in Node : RequestVote(n, m)
       \/ \E m \in Node, i \in 0..MaxIndex : SendAppend(n, m, i)
  \/ \E c \in calls :
       \/ HandleVote(c) \/ VoteReply(c) \/ HandleAppend(c) \/ AppendReply(c)
       \/ Lose(c) \/ GiveUp(c)

Spec == Init /\ [][Next]_vars

-----------------------------------------------------------------------------
(* Properties.                                                             *)

\* Every variable has its type.
TypeOK ==
  /\ vote \in [Node -> [leader_id : {{l} : l \in LeaderId}, committed : BOOLEAN]]
  /\ role \in [Node -> {"follower", "candidate", "leader"}]
  /\ granted \in [Node -> SUBSET Node]
  /\ matched \in [Node -> [Node -> 0..MaxIndex]]
  /\ \A n \in Node :
       /\ log[n] \in survivors[n]
       /\ commit[n] <= Len(log[n])
       /\ \A l \in survivors[n] : \A i \in DOMAIN l : l[i].index = i
  /\ ballots \in [Node -> SUBSET LeaderId]
  /\ elected \in SUBSET LeaderId
  /\ \A c \in calls : c.client \in Node \cup {Gone} /\ c.server \in Node

\* Two nodes never become leader in one term, whatever is lost, late or crashes: the
\* partial order of leader ids (leader_id.rs partial_cmp) makes the vote handler refuse
\* the second, and save_vote makes the refusal outlive a restart.
OneLeaderPerTerm == \A a, b \in elected : a.term = b.term => a = b

\* What a leader believes its follower holds is on the follower's disk as long as it
\* follows that leader: the append handler's Success is sent after the sync, and an
\* answer that is not a full success is not read as one (append_entries_response.rs).
MatchedIsDurable ==
  \A n, m \in Node :
    role[n] = "leader" /\ vote[m] = vote[n] =>
      \A l \in survivors[m] : Agree(l, log[n], matched[n][m])

\* Conversions, handlers and storage together give one history: no node commits what
\* another contradicts, and nothing committed is ever replaced, by crashes included.
Abstract ==
  INSTANCE History WITH
    Entry     <- [term : 1..MaxTerm, index : 1..MaxIndex],
    MaxLength <- MaxIndex,
    learned   <- [n \in Node |-> SubSeq(log[n], 1, commit[n])]

OneHistory == Abstract!HistorySpec
=============================================================================
