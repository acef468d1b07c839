---------------------------- MODULE Orchestrator ----------------------------
(***************************************************************************)
(* RaftOrchestrator::run (orchestrator.rs): the task that starts a node's  *)
(* services, waits for the shutdown token and stops everything, and the    *)
(* two callbacks it registers with openraft's on_leader_change.            *)
(*                                                                         *)
(* openraft runs the callbacks in one watcher task, one after the other:   *)
(* stop for the leadership that ended, then start for the one that began.  *)
(* Both sides share `slot', an Arc<Mutex<Option<(token, handles)>>>.       *)
(* leader_services_shutdown takes the slot in the scrutinee of an `if let',*)
(* so the mutex stays locked while the handles are joined.                 *)
(***************************************************************************)
EXTENDS Naturals

CONSTANTS
  NumServices,     \* leader lifecycle services, numbered in the order of their names
  MaxGenerations   \* bound on the leaderships this node wins

ASSUME OrchestratorAssumption == NumServices \in Nat /\ MaxGenerations \in Nat

NoGen       == 0
Generations == 1..MaxGenerations
Services    == 1..NumServices

VARIABLES
  leader,      \* the leadership this node holds now, by its metrics
  wins,        \* leaderships won so far
  watcher,     \* where the watcher task is
  handled,     \* the leadership the last callback was called for
  starting,    \* the leadership the start callback runs for
  closing,     \* handle.close() was called, or the handle was dropped
  lock,        \* holder of the mutex
  slot,        \* generation whose token and handles are in the slot
  taken,       \* generation that leader_services_shutdown took and joins
  cancelled,   \* generations whose token was cancelled
  service,     \* [Generations -> [Services -> state of the spawned task]]
  shutdown,    \* the orchestrator's shutdown token
  main,        \* where run() is
  statics,     \* are the static lifecycle services running?
  server,      \* the gRPC server task
  late         \* history: leaderships whose services run() could not find in the slot

vars == <<leader, wins, watcher, handled, starting, closing, lock, slot, taken,
          cancelled, service, shutdown, main, statics, server, late>>

raftVars    == <<leader, wins>>
watcherVars == <<watcher, handled, starting>>
slotVars    == <<lock, slot, taken, cancelled>>
mainVars    == <<closing, shutdown, main, statics, server>>

Init ==
  /\ leader = NoGen
  /\ wins = 0
  /\ watcher = "watch"
  /\ handled = NoGen
  /\ starting = NoGen
  /\ closing = FALSE
  /\ lock = "free"
  /\ slot = NoGen
  /\ taken = NoGen
  /\ cancelled = {}
  /\ service = [g \in Generations |-> [s \in Services |-> "none"]]
  /\ shutdown = FALSE
  /\ main = "starting"
  /\ statics = TRUE
  /\ server = "none"
  /\ late = {}

RunningServices(g) == {s \in Services : service[g][s] = "running"}

-----------------------------------------------------------------------------
(* The environment: elections, the shutdown token, the services.           *)

\* Raft lives until raft.shutdown().
WinElection ==
  /\ main # "done"
  /\ wins < MaxGenerations
  /\ wins' = wins + 1
  /\ leader' = wins + 1
  /\ UNCHANGED <<watcherVars, slotVars, service, mainVars, late>>

LoseLeadership ==
  /\ leader # NoGen
  /\ leader' = NoGen
  /\ UNCHANGED <<wins, watcherVars, slotVars, service, mainVars, late>>

RequestShutdown ==
  /\ ~shutdown
  /\ shutdown' = TRUE
  /\ UNCHANGED <<raftVars, watcherVars, slotVars, service, closing, main, statics, server, late>>

\* A service may return at any time; it should once its token is cancelled.
ServiceStops(g, s) ==
  /\ service[g][s] = "running"
  /\ service' = [service EXCEPT ![g][s] = "stopped"]
  /\ UNCHANGED <<raftVars, watcherVars, slotVars, mainVars, late>>

\* It may also panic, at any time.
ServicePanics(g, s) ==
  /\ service[g][s] = "running"
  /\ service' = [service EXCEPT ![g][s] = "panicked"]
  /\ UNCHANGED <<raftVars, watcherVars, slotVars, mainVars, late>>

StaticsStop ==
  /\ statics
  /\ statics' = FALSE
  /\ UNCHANGED <<raftVars, watcherVars, slotVars, service, closing, shutdown, main, server, late>>

\* serve_with_shutdown drains and returns; or the server cannot bind or serve.
ServerStops ==
  /\ server = "serving"
  /\ shutdown
  /\ server' = "stopped"
  /\ UNCHANGED <<raftVars, watcherVars, slotVars, service, closing, shutdown, main, statics, late>>

ServerFails ==
  /\ server = "serving"
  /\ server' = "failed"
  /\ UNCHANGED <<raftVars, watcherVars, slotVars, service, closing, shutdown, main, statics, late>>

-----------------------------------------------------------------------------
(* leader_services_shutdown, by whoever calls it.                          *)

\* Mutant: the slot is taken and its token forgotten.
TakeSlotNoCancel(who) ==
  /\ lock = "free"
  /\ lock' = who
  /\ taken' = slot
  /\ slot' = NoGen
  /\ UNCHANGED cancelled

\* Mutant: the token is cancelled without looking whether there is one.
TakeSlotBlindly(who) ==
  /\ lock = "free"
  /\ lock' = who
  /\ taken' = slot
  /\ slot' = NoGen
  /\ cancelled' = cancelled \cup {slot}

\* lock().await.take(), then cancel the token if there was one.
TakeSlot(who) ==
  /\ lock = "free"
  /\ lock' = who
  /\ taken' = slot
  /\ slot' = NoGen
  /\ cancelled' = IF slot = NoGen THEN cancelled ELSE cancelled \cup {slot}

\* Every handle of the taken generation was joined.
Joined ==
  taken # NoGen => \A s \in Services : service[taken][s] = "stopped"

\* The handles are joined in the order of the names, and handle.await.unwrap()
\* meets a service that panicked.
JoinPanics ==
  taken # NoGen /\ \E s \in Services :
    /\ service[taken][s] = "panicked"
    /\ \A t \in Services : t < s => service[taken][t] = "stopped"

Unlock ==
  /\ lock' = "free"
  /\ taken' = NoGen
  /\ UNCHANGED <<slot, cancelled>>

-----------------------------------------------------------------------------
(* The watcher task.                                                       *)

\* The leader has changed: stop for the old leadership, if it was ours.
CallStop ==
  /\ watcher = "watch"
  /\ leader # handled
  /\ handled # NoGen
  /\ watcher' = "stop"
  /\ handled' = NoGen
  /\ UNCHANGED <<raftVars, starting, slotVars, service, mainVars, late>>

StopTakes ==
  /\ watcher = "stop"
  /\ TakeSlot("watcher")
  /\ watcher' = "stopping"
  /\ UNCHANGED <<raftVars, handled, starting, service, mainVars, late>>

\* Mutant: the stop callback cancels the services and does not join them.
StopWithoutJoin ==
  /\ watcher = "stopping"
  /\ Unlock
  /\ watcher' = "watch"
  /\ UNCHANGED <<raftVars, handled, starting, service, mainVars, late>>

StopReturns ==
  /\ watcher = "stopping"
  /\ Joined
  /\ Unlock
  /\ watcher' = "watch"
  /\ UNCHANGED <<raftVars, handled, starting, service, mainVars, late>>

\* The panic ends the watcher task: no callback is called any more.
StopPanics ==
  /\ watcher = "stopping"
  /\ JoinPanics
  /\ Unlock
  /\ watcher' = "panicked"
  /\ UNCHANGED <<raftVars, handled, starting, service, mainVars, late>>

\* start for the new leadership, if it is ours: the services are spawned ...
CallStart ==
  /\ watcher = "watch"
  /\ handled = NoGen
  /\ leader # NoGen
  /\ handled' = leader
  /\ starting' = leader
  /\ service' = [service EXCEPT ![leader] = [s \in Services |-> "running"]]
  /\ watcher' = "start"
  /\ late' = IF main \in {"starting", "running"} THEN late ELSE late \cup {leader}
  /\ UNCHANGED <<raftVars, slotVars, mainVars>>

\* ... and then the slot is locked and overwritten.
StartStores ==
  /\ watcher = "start"
  /\ lock = "free"
  /\ slot' = starting
  /\ starting' = NoGen
  /\ watcher' = "watch"
  /\ UNCHANGED <<raftVars, handled, lock, taken, cancelled, service, mainVars, late>>

\* The watcher leaves its loop between two callbacks; stop is not called.
WatcherEnds ==
  /\ watcher = "watch"
  /\ closing
  /\ watcher' = "ended"
  /\ UNCHANGED <<raftVars, handled, starting, slotVars, service, mainVars, late>>

-----------------------------------------------------------------------------
(* run().                                                                  *)

\* rpc_url is parsed after the callbacks were registered; an error returns, which
\* drops the handle and aborts the static services.
ParseFails ==
  /\ main = "starting"
  /\ main' = "error"
  /\ closing' = TRUE
  /\ statics' = FALSE
  /\ UNCHANGED <<raftVars, watcherVars, slotVars, service, shutdown, server, late>>

StartServer ==
  /\ main = "starting"
  /\ main' = "running"
  /\ server' = "serving"
  /\ UNCHANGED <<raftVars, watcherVars, slotVars, service, closing, shutdown, statics, late>>

MainTakes ==
  /\ main = "running"
  /\ shutdown
  /\ TakeSlot("main")
  /\ main' = "joining"
  /\ late' = IF starting = NoGen THEN late ELSE late \cup {starting}
  /\ UNCHANGED <<raftVars, watcherVars, service, closing, shutdown, statics, server>>

\* Mutant: the guard of the mutex lives on through handle.close().
MainJoinsLocked ==
  /\ main = "joining"
  /\ Joined
  /\ taken' = NoGen
  /\ main' = "close"
  /\ UNCHANGED <<raftVars, watcherVars, lock, slot, cancelled, service, closing,
                 shutdown, statics, server, late>>

\* Mutant: run() cancels the services and does not join them.
MainCancelsOnly ==
  /\ main = "joining"
  /\ Unlock
  /\ main' = "close"
  /\ UNCHANGED <<raftVars, watcherVars, service, closing, shutdown, statics, server, late>>

MainJoins ==
  /\ main = "joining"
  /\ Joined
  /\ Unlock
  /\ main' = "close"
  /\ UNCHANGED <<raftVars, watcherVars, service, closing, shutdown, statics, server, late>>

\* run() panics: its locals are dropped, the handle among them.
MainPanics ==
  /\ main = "joining"
  /\ JoinPanics
  /\ Unlock
  /\ main' = "panicked"
  /\ closing' = TRUE
  /\ statics' = FALSE
  /\ UNCHANGED <<raftVars, watcherVars, service, shutdown, server, late>>

\* handle.close().await: ask the watcher to end and wait for it.
Close ==
  /\ main = "close"
  /\ ~closing
  /\ closing' = TRUE
  /\ UNCHANGED <<raftVars, watcherVars, slotVars, service, shutdown, main, statics, server, late>>

Closed ==
  /\ main = "close"
  /\ closing
  /\ watcher \in {"ended", "panicked"}
  /\ main' = "statics"
  /\ UNCHANGED <<raftVars, watcherVars, slotVars, service, closing, shutdown, statics, server, late>>

JoinStatics ==
  /\ main = "statics"
  /\ ~statics
  /\ main' = "application"
  /\ UNCHANGED <<raftVars, watcherVars, slotVars, service, closing, shutdown, statics, server, late>>

\* application.shutdown(): an error returns at once, and Raft is not shut down.
ApplicationShutdown ==
  /\ main = "application"
  /\ main' \in {"server", "error"}
  /\ UNCHANGED <<raftVars, watcherVars, slotVars, service, closing, shutdown, statics, server, late>>

AwaitServer ==
  /\ main = "server"
  /\ \/ server = "stopped" /\ main' = "raft"
     \/ server = "failed" /\ main' = "error"
  /\ UNCHANGED <<raftVars, watcherVars, slotVars, service, closing, shutdown, statics, server, late>>

\* raft.shutdown() stops Raft, or its error is returned.
RaftShutdown ==
  /\ main = "raft"
  /\ \/ main' = "done" /\ leader' = NoGen
     \/ main' = "error" /\ UNCHANGED leader
  /\ UNCHANGED <<wins, watcherVars, slotVars, service, closing, shutdown, statics, server, late>>

-----------------------------------------------------------------------------
WatcherStep ==
  \/ CallStop \/ StopTakes \/ StopReturns \/ StopPanics
  \/ CallStart \/ StartStores \/ WatcherEnds

MainStep ==
  \/ ParseFails \/ StartServer \/ MainTakes \/ MainJoins \/ MainPanics \/ Close
  \/ Closed \/ JoinStatics \/ ApplicationShutdown \/ AwaitServer \/ RaftShutdown

Next ==
  \/ WinElection
  \/ LoseLeadership
  \/ RequestShutdown
  \/ \E g \in Generations, s \in Services : ServiceStops(g, s)
  \/ \E g \in Generations, s \in Services : ServicePanics(g, s)
  \/ StaticsStop
  \/ ServerStops
  \/ ServerFails
  \/ WatcherStep
  \/ MainStep

Spec == Init /\ [][Next]_vars

\* Tasks that can go on are polled, and services honour the token they were given.
Fairness ==
  /\ WF_vars(WatcherStep)
  /\ WF_vars(MainStep)
  /\ WF_vars(ServerStops)
  /\ WF_vars(shutdown /\ StaticsStop)
  /\ \A g \in Generations, s \in Services :
       WF_vars(g \in cancelled /\ ServiceStops(g, s))

FairSpec == Spec /\ Fairness

-----------------------------------------------------------------------------
(* Properties.                                                             *)

\* The type of every variable.
TypeOK ==
  /\ leader \in {NoGen} \cup Generations
  /\ wins \in 0..MaxGenerations
  /\ watcher \in {"watch", "stop", "stopping", "start", "ended", "panicked"}
  /\ handled \in {NoGen} \cup Generations
  /\ starting \in {NoGen} \cup Generations
  /\ closing \in BOOLEAN
  /\ lock \in {"free", "watcher", "main"}
  /\ slot \in {NoGen} \cup Generations
  /\ taken \in {NoGen} \cup Generations
  /\ cancelled \subseteq Generations
  /\ service \in [Generations -> [Services -> {"none", "running", "stopped", "panicked"}]]
  /\ shutdown \in BOOLEAN
  /\ main \in {"starting", "running", "joining", "close", "statics", "application",
               "server", "raft", "done", "error", "panicked"}
  /\ statics \in BOOLEAN
  /\ server \in {"none", "serving", "failed", "stopped"}
  /\ late \subseteq Generations

\* The services of two leaderships never run side by side, although the callbacks
\* and run() may both be stopping services and elections go on meanwhile; only a
\* panic, which abandons the join, can break this.
OneGenerationAtATime ==
  main # "panicked" =>
    \A g, h \in Generations :
      RunningServices(g) # {} /\ RunningServices(h) # {} => g = h

\* Once the watcher has dealt with the end of a leadership and waits for the next
\* change, no leader service is running on this node.
NoServiceAfterStepDown ==
  watcher = "watch" /\ handled = NoGen /\ main # "panicked" =>
    \A g \in Generations : RunningServices(g) = {}

\* run() has emptied the slot (a bad address makes it return before the server starts).
Emptied == server # "none" /\ main # "running"

\* run() has waited for the watcher, too.
PastClose ==
  server # "none" /\ main \in {"statics", "application", "server", "raft", "done", "error"}

\* The services that run() leaves behind.  Once it has emptied the slot, every service
\* that runs has been told to stop or was started too late for run() to find it; and
\* once it has closed the watcher, only the late ones run, whether it then ends well or
\* in an error.  A panic of a service abandons the join of the others, not the order to
\* stop.
OnlyLateServicesOutliveRun ==
  \A g \in Generations : RunningServices(g) # {} =>
    /\ Emptied => g \in late \cup cancelled
    /\ PastClose /\ watcher # "panicked" => g \in late

\* The services of a leadership that ended are stopped, however leadership flaps, until
\* run() takes over at shutdown: the callback gets the mutex, finds the services in the
\* slot and tells them to stop.
DeposedServicesStop ==
  \A g \in Generations :
    RunningServices(g) # {} /\ leader # g ~>
      \/ RunningServices(g) = {}
      \/ shutdown
      \/ main = "error"
      \/ watcher = "panicked"

\* run() comes to an end once shutdown is requested: the mutex held across a join,
\* the callback waiting for it and the close waiting for the callback never block
\* one another for good.
RunReturns == shutdown ~> main \in {"done", "error", "panicked"}

\* orchestrator.rs:178 says that shutdown stops the leader services: none runs when
\* the application is shut down and after.
NoServiceOutlivesRun ==
  main \in {"application", "server", "raft", "done"} =>
    \A g \in Generations : RunningServices(g) = {}
=============================================================================
