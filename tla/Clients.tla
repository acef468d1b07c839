------------------------------ MODULE Clients ------------------------------
(***************************************************************************)
(* RaftDataClient, RaftControlClient (server.rs) and the controller        *)
(* handlers (grpc/controller_service.rs) on top of a Raft cluster, down to *)
(* the answers that the state machine's apply gives or does not give.      *)
(*                                                                         *)
(* The cluster is one history of chosen entries, of which the nodes apply  *)
(* a beginning (see History, which module Cluster implements), and a       *)
(* leader with the entries it proposed.  A call is made once; the request  *)
(* of a write is the call itself.  A call that openraft refuses before it  *)
(* does anything (ForwardToLeader) is one that was not made.               *)
(***************************************************************************)
EXTENDS Messages, FiniteSets

CONSTANTS
  Node, First,                \* the nodes, and the one the cluster begins with
  Writes, SafeReads,          \* calls of the data client
  Inits, Changes,             \* calls that initialize or change the membership
  MaxLength, MaxTerm, MaxStops   \* bounds

Call == Writes \cup SafeReads \cup Inits \cup Changes

ASSUME ClientsAssumption ==
  /\ Writes \cap (SafeReads \cup Inits \cup Changes) = {}
  /\ SafeReads \cap (Inits \cup Changes) = {}
  /\ Inits \cap Changes = {}
  /\ "other" \notin Writes
  /\ IsFiniteSet(Node) /\ First \in Node
  /\ {MaxLength, MaxTerm, MaxStops} \subseteq Nat

VARIABLES
  chosen,     \* the entries that are committed, in order
  leader,     \* the set of the leader, if there is one
  term,       \* the term of the last leader
  tail,       \* what the leader's log holds after chosen
  running,    \* the nodes whose Raft was not shut down
  waiting,    \* on each node the calls that wait for an entry, by its log id
  applied,    \* up to where the application data of each node is applied
  boots,      \* how often each node was started
  stops,      \* shutdowns and restarts so far
  call,       \* what each call is at
  future,     \* what its future holds
  seen        \* what a read returned

clusterVars == <<chosen, leader, term, tail, running>>
nodeVars    == <<waiting, applied, boots, stops>>
callVars    == <<call, future, seen>>
vars        == <<clusterVars, nodeVars, callVars>>

\* The node a call is made on and which start of it, how long chosen was (history) and
\* the read index of a safe read.
NoFuture == [on |-> First, boot |-> 0, since |-> 0, index |-> 0]

Init ==
  /\ chosen = <<>> /\ leader = {} /\ term = 0 /\ tail = <<>>
  /\ running = Node
  /\ waiting = [n \in Node |-> {}]
  /\ applied = [n \in Node |-> 0]
  /\ boots = [n \in Node |-> 0]
  /\ stops = 0
  /\ call = [c \in Call |-> "idle"]
  /\ future = [c \in Call |-> NoFuture]
  /\ seen = [c \in Call |-> 0]

Goto(c, at) == call' = [call EXCEPT ![c] = at]

Fail(C) ==
  /\ call' = [c \in Call |-> IF c \in C THEN "failed" ELSE call[c]]
  /\ future' = [c \in Call |-> IF c \in C THEN NoFuture ELSE future[c]]

Pending == {"checked", "waiting", "awaiting", "reading"}

\* Mutant: calls of other nodes with them.
PendingOnAny(n) == {c \in Call : call[c] \in Pending}

PendingOn(n) == {c \in Call : call[c] \in Pending /\ future[c].on = n}

\* The log a new entry is appended to, and the log id it gets.
LeaderLog == chosen \o tail
NextLogId == [leader_id |-> term, index |-> Len(LeaderLog) + 1]

IsInitialized == chosen # <<>>

\* The configuration openraft goes by: the last membership in the log.
Memberships(log) == {i \in DOMAIN log : log[i].membership # {}}
Effective(log) ==
  LET last == CHOOSE i \in Memberships(log) : \A j \in Memberships(log) : j <= i
  IN  CHOOSE m \in GetMembership(log[last]) : TRUE

Voters(m) == UNION {m.configs[i] : i \in DOMAIN m.configs}

QuorumRuns ==
  IsInitialized /\
  LET m == Effective(LeaderLog)
  IN  \A i \in DOMAIN m.configs :
        2 * Cardinality(m.configs[i] \cap running) > Cardinality(m.configs[i])

-----------------------------------------------------------------------------
(* The cluster (openraft).                                                 *)

\* n is elected, with a part of what was proposed in its log, and appends a blank entry.
Elect(n) ==
  /\ leader = {} /\ n \in running /\ QuorumRuns
  /\ \E k \in 0..Len(tail) :
       LET kept == SubSeq(tail, 1, k)
           id   == [leader_id |-> term + 1, index |-> Len(chosen \o kept) + 1]
       IN  /\ n \in Voters(Effective(chosen \o kept))
           /\ tail' = Append(kept, EntryNew(id, {}, {}))
  /\ leader' = {n}
  /\ term' = term + 1
  /\ UNCHANGED <<chosen, running, nodeVars, callVars>>

\* The bound on terms.
MayLose(n) == n \in leader => term < MaxTerm

StepDown ==
  /\ \E n \in leader : MayLose(n)
  /\ leader' = {}
  /\ UNCHANGED <<chosen, term, tail, running, nodeVars, callVars>>

\* The leader commits the first entry that is not.
CommitNext ==
  /\ leader # {} /\ tail # <<>> /\ QuorumRuns
  /\ chosen' = Append(chosen, Head(tail))
  /\ tail' = Tail(tail)
  /\ UNCHANGED <<leader, term, running, nodeVars, callVars>>

\* An entry that a new leader does not have is truncated; who waits for it is told.
Truncated(n, w) ==
  /\ n \in running /\ leader # {}
  /\ \A i \in DOMAIN LeaderLog : LogIdFromPb(LeaderLog[i]) # w.log_id
  /\ waiting' = [waiting EXCEPT ![n] = @ \ {w}]
  /\ Fail({w.call})
  /\ UNCHANGED <<clusterVars, applied, boots, stops, seen>>

-----------------------------------------------------------------------------
(* Calls that propose an entry.                                            *)

Propose(c, n, app_data, membership) ==
  /\ call[c] = "idle" /\ n \in leader
  /\ Len(LeaderLog) < MaxLength
  /\ Goto(c, "waiting")
  /\ future' = [future EXCEPT ![c] = [NoFuture EXCEPT !.on = n, !.boot = boots[n]]]
  /\ tail' = Append(tail, EntryNew(NextLogId, app_data, membership))
  /\ waiting' = [waiting EXCEPT ![n] = @ \cup {[log_id |-> NextLogId, call |-> c]}]
  /\ UNCHANGED <<chosen, leader, term, running, applied, boots, stops, seen>>

Write(c, n) == Propose(c, n, {c}, {})

\* openraft: the voters become goal at once or over a joint configuration; nodes that
\* are no longer voters are kept as learners if retain says so.
NextMembership(m, goal, nodes, retain) ==
  LET configs == IF \E i \in DOMAIN m.configs : m.configs[i] = goal
                 THEN <<goal>> ELSE <<Last(m.configs), goal>>
      out     == Voters(m) \ UNION {configs[i] : i \in DOMAIN configs}
      keep    == IF retain THEN DOMAIN nodes ELSE DOMAIN nodes \ out
  IN  [configs |-> configs, nodes |-> [id \in keep |-> nodes[id]]]

Joined(m, id) == [k \in DOMAIN m.nodes \cup {id} |-> k]

AddLearner(m, id) == [m EXCEPT !.nodes = Joined(m, id)]
AddVoter(m, id)   == NextMembership(m, Last(m.configs) \cup {id}, Joined(m, id), FALSE)

ChangeMembership(m, members, retain) == NextMembership(m, members, m.nodes, retain)

\* A change is refused until the membership before it is committed, and members must be
\* nodes already.
Change(c, n) ==
  /\ Memberships(tail) = {} /\ n \in leader
  /\ LET m == Effective(chosen)
     IN  \/ \E id \in Node :
              \/ Propose(c, n, {}, {AddLearner(m, id)})
              \/ Propose(c, n, {}, {AddVoter(m, id)})
         \/ \E members \in (SUBSET DOMAIN m.nodes) \ {{}}, retain \in BOOLEAN :
              Propose(c, n, {}, {ChangeMembership(m, members, retain)})

-----------------------------------------------------------------------------
(* Initializing: the caller asks, and then acts on the answer.             *)

CheckInitialized(c) ==
  /\ call[c] = "idle"
  /\ Goto(c, IF IsInitialized THEN "answered" ELSE "checked")
  /\ UNCHANGED <<clusterVars, nodeVars, future, seen>>

\* The controller's init does not ask.  openraft refuses a node that has a log.
Initialize(c, nodes) ==
  /\ call[c] \in {"idle", "checked"}
  /\ \/ /\ ~IsInitialized /\ First \in running
        /\ LET m == [configs |-> <<DOMAIN nodes>>, nodes |-> nodes]
           IN  chosen' = <<EntryNew([leader_id |-> 0, index |-> 1], {}, {m})>>
        /\ Goto(c, "answered")
     \/ /\ IsInitialized \/ First \notin running
        /\ Goto(c, "failed")
        /\ UNCHANGED chosen
  /\ UNCHANGED <<leader, term, tail, running, nodeVars, future, seen>>

NodesOf(ids) == NodesById(SetToSeq({[node_id |-> id, rpc_addr |-> id] : id \in ids}))

-----------------------------------------------------------------------------
(* Reads.                                                                  *)

\* What read passes to its argument: whatever the node has applied.
ReadAt(n) == applied[n]

\* openraft: a quorum confirms the leader, which must have applied the first entry of
\* its term and with it what earlier leaders committed.
ReadIndex ==
  LET own == {i \in DOMAIN LeaderLog : LeaderLog[i].term = term}
  IN  Max({Len(chosen)} \cup {i \in own : \A j \in own : i <= j})

\* read_safe: get_read_linearizer, await_ready, and then the lock.
ReadSafe(c, n) ==
  /\ call[c] = "idle" /\ n \in leader
  /\ Goto(c, "awaiting")
  /\ future' = [future EXCEPT ![c] =
       [NoFuture EXCEPT !.on = n, !.since = Len(chosen), !.index = ReadIndex]]
  /\ UNCHANGED <<clusterVars, nodeVars, seen>>

\* Mutant: waits for an entry more.
AwaitReadyStrictly(c) ==
  /\ call[c] = "awaiting"
  /\ \/ /\ applied[future[c].on] > future[c].index
        /\ Goto(c, "reading")
        /\ UNCHANGED future
     \/ /\ future[c].on \notin running
        /\ Fail({c})
  /\ UNCHANGED <<clusterVars, nodeVars, seen>>

\* Mutant: does not wait.
AwaitNothing(c) ==
  /\ call[c] = "awaiting"
  /\ Goto(c, "reading")
  /\ UNCHANGED <<clusterVars, nodeVars, future, seen>>

\* await_ready().unwrap() panics when Raft is shut down.
AwaitReady(c) ==
  /\ call[c] = "awaiting"
  /\ \/ /\ applied[future[c].on] >= future[c].index
        /\ Goto(c, "reading")
        /\ UNCHANGED future
     \/ /\ future[c].on \notin running
        /\ Fail({c})
  /\ UNCHANGED <<clusterVars, nodeVars, seen>>

ReadLocked(c) ==
  /\ call[c] = "reading"
  /\ seen' = [seen EXCEPT ![c] = ReadAt(future[c].on)]
  /\ Goto(c, "answered")
  /\ future' = [future EXCEPT ![c] = NoFuture]
  /\ UNCHANGED <<clusterVars, nodeVars>>

-----------------------------------------------------------------------------
(* The state machine's apply, entry by entry.                              *)

Waiting(n, e) == {w \in waiting[n] : w.log_id = LogIdFromPb(e)}

\* Only a request gives apply something to send: the responder of any other entry is
\* dropped.
Responds(e) == e.app_data # {}

\* Mutant: callers are answered as soon as their entry is chosen.
ApplyAnswersEarly(n) ==
  /\ n \in running
  /\ applied[n] < Len(chosen)
  /\ LET done == {w \in waiting[n] : \E i \in DOMAIN chosen : w.log_id = LogIdFromPb(chosen[i])}
     IN  /\ waiting' = [waiting EXCEPT ![n] = @ \ done]
         /\ call' = [c \in Call |-> IF \E w \in done : w.call = c THEN "answered" ELSE call[c]]
  /\ applied' = [applied EXCEPT ![n] = @ + 1]
  /\ UNCHANGED <<clusterVars, boots, stops, future, seen>>

\* A membership that does not decode stops the worker.
Apply(n) ==
  /\ n \in running
  /\ applied[n] < Len(chosen)
  /\ LET e    == chosen[applied[n] + 1]
         done == Waiting(n, e)
         sent == IF Responds(e) THEN "answered" ELSE "dropped"
     IN  /\ e.membership # {} => GetMembership(e) # {}
         /\ waiting' = [waiting EXCEPT ![n] = @ \ done]
         /\ call' = [c \in Call |-> IF \E w \in done : w.call = c THEN sent ELSE call[c]]
  /\ applied' = [applied EXCEPT ![n] = @ + 1]
  /\ UNCHANGED <<clusterVars, boots, stops, future, seen>>

-----------------------------------------------------------------------------
(* A node stops.                                                           *)

MayStop(n) ==
  /\ MayLose(n)
  /\ stops < MaxStops /\ stops' = stops + 1

\* raft.shutdown(): what waits for Raft gets an error.
Shutdown(n) ==
  /\ n \in running /\ MayStop(n)
  /\ running' = running \ {n}
  /\ leader' = leader \ {n}
  /\ waiting' = [waiting EXCEPT ![n] = {}]
  /\ Fail({c \in PendingOn(n) : call[c] \in {"checked", "waiting"}})
  /\ UNCHANGED <<chosen, term, tail, applied, boots, seen>>

\* The process ends, its calls with it, and starts again from its last snapshot.
Restart(n) ==
  /\ MayStop(n)
  /\ boots' = [boots EXCEPT ![n] = @ + 1]
  /\ running' = running \cup {n}
  /\ leader' = leader \ {n}
  /\ waiting' = [waiting EXCEPT ![n] = {}]
  /\ \E k \in 0..applied[n] : applied' = [applied EXCEPT ![n] = k]
  /\ Fail(PendingOn(n))
  /\ UNCHANGED <<chosen, term, tail, seen>>

-----------------------------------------------------------------------------
DataCall ==
  \/ \E n \in Node :
       \/ \E c \in Writes : Write(c, n)
       \/ \E c \in SafeReads : ReadSafe(c, n)
  \/ \E c \in SafeReads : AwaitReady(c) \/ ReadLocked(c)

ControlCall ==
  \/ \E n \in Node, c \in Changes : Change(c, n)
  \/ \E c \in Inits :
       \/ CheckInitialized(c)
       \/ \E ids \in SUBSET Node : First \in ids /\ Initialize(c, NodesOf(ids))

NodeStep(n) ==
  \/ Elect(n) \/ Apply(n) \/ Shutdown(n) \/ Restart(n)
  \/ \E w \in waiting[n] : Truncated(n, w)

Next ==
  \/ \E n \in Node : NodeStep(n)
  \/ StepDown \/ CommitNext
  \/ DataCall \/ ControlCall

Spec == Init /\ [][Next]_vars

-----------------------------------------------------------------------------
(* Properties.                                                             *)

\* Every variable has its type, and a call that waits for an entry is pending.
TypeOK ==
  /\ \A i \in DOMAIN chosen : chosen[i].index = i
  /\ leader \subseteq running /\ running \subseteq Node /\ Cardinality(leader) <= 1
  /\ term \in Nat /\ stops \in 0..MaxStops /\ boots \in [Node -> 0..MaxStops]
  /\ applied \in [Node -> 0..Len(chosen)]
  /\ \A n \in Node : \A w \in waiting[n] : call[w.call] = "waiting" /\ future[w.call].on = n
  /\ call \in [Call -> Pending \cup {"idle", "answered", "dropped", "failed"}]
  /\ future \in [Call -> [on : Node, boot : 0..MaxStops, since : Nat, index : Nat]]
  /\ seen \in [Call -> Nat]

DataCalls == Writes \cup SafeReads

Requested(e) == IF e.app_data = {} THEN "other" ELSE CHOOSE c \in e.app_data : TRUE

Stage(c) ==
  IF call[c] \in Pending THEN "begun" ELSE IF call[c] = "dropped" THEN "failed" ELSE call[c]

Store == INSTANCE LinearizableStore WITH
  history <- [i \in DOMAIN chosen |-> Requested(chosen[i])],
  call    <- [c \in DataCalls |-> Stage(c)],
  since   <- [c \in DataCalls |-> future[c].since],
  seen    <- [c \in DataCalls |-> seen[c]]

\* What a client sees of write and read_safe is what one store would show it: a write
\* takes effect once and before it is answered, and a safe read sees every write that
\* was committed when it was called, through elections, restarts and shutdowns.
Linearizable == Store!StoreSpec

\* Who was answered a write and reads on the same node, without a restart between, finds
\* it there: apply answers after the application has it.
ReadsOwnWrites ==
  \A w \in Writes :
    LET n == future[w].on
    IN  call[w] = "answered" /\ future[w].boot = boots[n] =>
          \E i \in 1..ReadAt(n) : chosen[i].app_data = {w}

\* Memberships that follow each other in the log share a set of voters, as the entries
\* give them back, so that their quorums meet: a joint configuration goes through
\* protobuf as it is.
JointConfigsSurvive ==
  \A i, j \in Memberships(LeaderLog) :
    i < j /\ (\A k \in Memberships(LeaderLog) : k <= i \/ k >= j) =>
      \A m \in GetMembership(LeaderLog[i]), l \in GetMembership(LeaderLog[j]) :
        Range(m.configs) \cap Range(l.configs) # {}

\* What openraft and the runtime do by themselves while a quorum runs: elect, commit, apply,
\* truncate and poll the readers.  It comes to rest unless a leader steps down, a node stops
\* or a client calls.
GoesOn ==
  \/ CommitNext
  \/ \E n \in Node : Elect(n) \/ Apply(n) \/ \E w \in waiting[n] : Truncated(n, w)
  \/ \E c \in SafeReads : AwaitReady(c) \/ ReadLocked(c)

\* While a quorum runs, the system does not come to rest with a write or a read_safe that
\* still waits, unless the read index of a deposed leader was truncated: its blank entry was
\* not committed, and read_safe waits until the log has grown to that index again.
NoCallIsStuck ==
  QuorumRuns /\ ~ENABLED GoesOn =>
    \A c \in Writes \cup SafeReads :
      call[c] \in Pending => future[c].index > Len(LeaderLog)

\* "Returns Success response with membership change details" (controller_service.rs):
\* the caller of a membership change that is applied is answered.
MembershipChangesAnswered == \A c \in Changes : call[c] # "dropped"
=============================================================================
