------------------------- MODULE OrchestratorProofs -------------------------
(***************************************************************************)
(* Proofs about Orchestrator: for every number of services and             *)
(* leaderships, in every order of elections, panics and shutdown, the      *)
(* services of two leaderships never overlap, none is left running once    *)
(* the end of its leadership was dealt with, and run() leaves behind only  *)
(* services that were started too late for it to find them.                *)
(***************************************************************************)
EXTENDS Orchestrator, TLAPS

-----------------------------------------------------------------------------
(* The inductive invariant.                                                *)

\* Who holds the mutex, and that nothing is being joined without it.
LockInv ==
  /\ lock = "watcher" <=> watcher = "stopping"
  /\ lock = "main" <=> main = "joining"
  /\ lock = "free" => taken = NoGen

\* A generation is in one place at a time: being stored, in the slot, or taken
\* out of it and joined.
PlaceInv ==
  /\ lock # "free" => slot = NoGen
  /\ starting # NoGen => slot = NoGen /\ taken = NoGen
  /\ starting # NoGen <=> watcher = "start"
  /\ starting # NoGen => handled = starting

\* Between two callbacks, with no leadership handled, there is nothing to stop.
IdleInv == watcher = "watch" /\ handled = NoGen => slot = NoGen /\ taken = NoGen

\* The handles of a service that runs are never lost: they are being stored, in the
\* slot, or being joined.  Only a panic drops them, after the token was cancelled.
OwnerInv ==
  /\ \A g \in Generations : RunningServices(g) # {} =>
       g \in {slot, starting, taken} \cup cancelled
  /\ watcher # "panicked" /\ main # "panicked" =>
       \A g \in Generations : RunningServices(g) # {} => g \in {slot, starting, taken}
  /\ taken # NoGen => taken \in cancelled

\* Once run() has emptied the slot, what is stored in it is late; once it has closed
\* the watcher, that has ended.
LateInv ==
  /\ main = "starting" => server = "none"
  /\ Emptied => /\ slot # NoGen => slot \in late
                /\ starting # NoGen => starting \in late
  /\ PastClose => watcher \in {"ended", "panicked"}

CoreInv ==
  /\ TypeOK
  /\ LockInv
  /\ PlaceInv
  /\ IdleInv
  /\ OwnerInv
  /\ OneGenerationAtATime

IInv == CoreInv /\ LateInv

-----------------------------------------------------------------------------
\* From the invariant, what the start of a leadership relies on.
LEMMA NothingRunsWhenIdle ==
  ASSUME IInv, watcher = "watch", handled = NoGen, main # "panicked"
  PROVE  \A g \in Generations : RunningServices(g) = {}
BY DEF IInv, CoreInv, PlaceInv, IdleInv, OwnerInv, Generations, NoGen

LEMMA IInvInit == Init => IInv
<1> SUFFICES ASSUME Init PROVE IInv
  OBVIOUS
<1> USE OrchestratorAssumption
<1>1. TypeOK
  <2>1. service \in [Generations -> [Services -> {"none", "running", "stopped", "panicked"}]]
    BY DEF Init
  <2>2. wins \in 0..MaxGenerations /\ cancelled \subseteq Generations /\ late \subseteq Generations
    BY DEF Init
  <2>3. /\ leader = NoGen /\ handled = NoGen /\ starting = NoGen
        /\ slot = NoGen /\ taken = NoGen
        /\ watcher = "watch" /\ lock = "free" /\ main = "starting" /\ server = "none"
    BY DEF Init
  <2>4. closing \in BOOLEAN /\ shutdown \in BOOLEAN /\ statics \in BOOLEAN
    BY DEF Init
  <2>5. QED
    BY <2>1, <2>2, <2>3, <2>4 DEF TypeOK
<1>2. LockInv /\ PlaceInv /\ IdleInv
  BY DEF Init, LockInv, PlaceInv, IdleInv
<1>3. \A g \in Generations : RunningServices(g) = {}
  BY DEF Init, RunningServices
<1>4. OwnerInv /\ OneGenerationAtATime
  BY <1>3 DEF Init, OwnerInv, OneGenerationAtATime
<1>5. LateInv
  BY DEF Init, LateInv, Emptied, PastClose
<1>6. QED
  BY <1>1, <1>2, <1>4, <1>5 DEF IInv, CoreInv

\* Steps of the environment, but for the services.
LEMMA EnvironmentSteps ==
  ASSUME IInv,
         \/ WinElection \/ LoseLeadership \/ RequestShutdown
         \/ StaticsStop \/ ServerStops \/ ServerFails
  PROVE  CoreInv'
<1> USE OrchestratorAssumption DEF IInv, CoreInv
<1>1. UNCHANGED <<watcherVars, slotVars, service, main, late>>
  BY DEF WinElection, LoseLeadership, RequestShutdown, StaticsStop, ServerStops,
         ServerFails, mainVars
<1>2. TypeOK'
  <2>1. leader' \in {NoGen} \cup Generations /\ wins' \in 0..MaxGenerations
    BY DEF WinElection, LoseLeadership, RequestShutdown, StaticsStop, ServerStops,
           ServerFails, raftVars, TypeOK, NoGen, Generations
  <2>2. /\ closing' \in BOOLEAN /\ shutdown' \in BOOLEAN /\ statics' \in BOOLEAN
        /\ server' \in {"none", "serving", "failed", "stopped"}
    BY DEF WinElection, LoseLeadership, RequestShutdown, StaticsStop, ServerStops,
           ServerFails, mainVars, TypeOK
  <2>3. QED
    BY <1>1, <2>1, <2>2 DEF TypeOK, watcherVars, slotVars
<1>3. LockInv' /\ PlaceInv' /\ IdleInv'
  BY <1>1 DEF watcherVars, slotVars, LockInv, PlaceInv, IdleInv
<1>4. OwnerInv' /\ OneGenerationAtATime'
  BY <1>1 DEF watcherVars, slotVars, OwnerInv, OneGenerationAtATime,
              RunningServices
<1>5. QED
  BY <1>2, <1>3, <1>4

\* A service ends, by itself or in a panic.
LEMMA ServiceSteps ==
  ASSUME IInv, NEW g \in Generations, NEW s \in Services,
         ServiceStops(g, s) \/ ServicePanics(g, s)
  PROVE  CoreInv'
<1> USE DEF IInv, CoreInv
<1>1. /\ UNCHANGED <<raftVars, watcherVars, slotVars, mainVars, late>>
      /\ \E end \in {"stopped", "panicked"} :
           service' = [service EXCEPT ![g][s] = end]
  BY DEF ServiceStops, ServicePanics
<1>2. PICK end \in {"stopped", "panicked"} : service' = [service EXCEPT ![g][s] = end]
  BY <1>1
<1>3. TypeOK'
  BY <1>1, <1>2 DEF TypeOK, raftVars, watcherVars, slotVars, mainVars
<1>4. LockInv' /\ PlaceInv' /\ IdleInv'
  BY <1>1 DEF watcherVars, slotVars, mainVars, LockInv, PlaceInv, IdleInv
<1>5. \A h \in Generations : RunningServices(h)' \subseteq RunningServices(h)
  BY <1>2 DEF TypeOK, RunningServices
<1>6. OwnerInv' /\ OneGenerationAtATime'
  BY <1>1, <1>5 DEF watcherVars, slotVars, mainVars, OwnerInv,
                    OneGenerationAtATime
<1>7. QED
  BY <1>3, <1>4, <1>6

-----------------------------------------------------------------------------
(* Callbacks of the watcher.                                               *)

LEMMA CallStopStep ==
  ASSUME IInv, CallStop
  PROVE  CoreInv'
<1> USE DEF IInv, CoreInv
<1>1. /\ UNCHANGED <<raftVars, starting, slotVars, service, mainVars, late>>
      /\ watcher = "watch" /\ watcher' = "stop" /\ handled' = NoGen
  BY DEF CallStop
<1>2. TypeOK'
  BY <1>1 DEF TypeOK, raftVars, slotVars, mainVars
<1>3. LockInv' /\ PlaceInv' /\ IdleInv'
  BY <1>1 DEF slotVars, mainVars, LockInv, PlaceInv, IdleInv
<1>4. OwnerInv' /\ OneGenerationAtATime'
  BY <1>1 DEF slotVars, mainVars, OwnerInv, OneGenerationAtATime,
              RunningServices
<1>5. QED
  BY <1>2, <1>3, <1>4

\* The slot is taken, by the stop callback or by run().
LEMMA TakeSteps ==
  ASSUME IInv, StopTakes \/ MainTakes
  PROVE  CoreInv'
<1> USE DEF IInv, CoreInv
<1>1. /\ UNCHANGED <<raftVars, handled, starting, service, closing, shutdown, statics, server>>
      /\ lock = "free" /\ taken' = slot /\ slot' = NoGen
      /\ cancelled' = IF slot = NoGen THEN cancelled ELSE cancelled \cup {slot}
  BY DEF StopTakes, MainTakes, TakeSlot, watcherVars, mainVars
<1>2. \/ /\ watcher = "stop" /\ watcher' = "stopping" /\ main' = main
         /\ lock' = "watcher"
      \/ /\ main = "running" /\ main' = "joining" /\ watcher' = watcher
         /\ lock' = "main"
  BY DEF StopTakes, MainTakes, TakeSlot, watcherVars, mainVars
<1>3. TypeOK'
  <2>1. cancelled' \subseteq Generations /\ late' \subseteq Generations
    BY <1>1 DEF TypeOK, StopTakes, MainTakes, Generations, NoGen
  <2>2. QED
    BY <1>1, <1>2, <2>1 DEF TypeOK, raftVars
<1>4. LockInv'
  BY <1>1, <1>2 DEF LockInv
<1>5. PlaceInv' /\ IdleInv'
  BY <1>1, <1>2 DEF LockInv, PlaceInv, IdleInv
<1>6. OwnerInv' /\ OneGenerationAtATime'
  BY <1>1, <1>2 DEF LockInv, OwnerInv, OneGenerationAtATime, RunningServices,
                    Generations, NoGen
<1>7. QED
  BY <1>3, <1>4, <1>5, <1>6

\* What was taken is joined, so nothing of it runs any more.
LEMMA JoinSteps ==
  ASSUME IInv, StopReturns \/ MainJoins
  PROVE  CoreInv'
<1> USE DEF IInv, CoreInv
<1>1. /\ UNCHANGED <<raftVars, handled, starting, service, closing, shutdown, statics, server>>
      /\ lock # "free" /\ lock' = "free" /\ taken' = NoGen
      /\ UNCHANGED <<slot, cancelled, late>>
      /\ Joined
  BY DEF StopReturns, MainJoins, Unlock, watcherVars, mainVars, LockInv
<1>2. \/ watcher = "stopping" /\ watcher' = "watch" /\ main' = main
      \/ main = "joining" /\ main' = "close" /\ watcher' = watcher
  <2>1. CASE StopReturns
    BY <2>1 DEF StopReturns, mainVars
  <2>2. CASE MainJoins
    BY <2>2 DEF MainJoins, watcherVars
  <2>3. QED
    BY <2>1, <2>2
<1>3. TypeOK'
  <2>1. main' \in {"starting", "running", "joining", "close", "statics", "application",
                   "server", "raft", "done", "error", "panicked"}
    BY <1>2 DEF TypeOK
  <2>2. watcher' \in {"watch", "stop", "stopping", "start", "ended", "panicked"}
    BY <1>2 DEF TypeOK
  <2>3. QED
    BY <1>1, <2>1, <2>2 DEF TypeOK, raftVars
<1>4. LockInv' /\ PlaceInv' /\ IdleInv'
  BY <1>1, <1>2 DEF LockInv, PlaceInv, IdleInv, TypeOK
<1>5. \A g \in Generations : RunningServices(g) # {} => g # taken
  BY <1>1 DEF Joined, RunningServices, Generations, NoGen
<1>6. OwnerInv' /\ OneGenerationAtATime'
  BY <1>1, <1>2, <1>5 DEF OwnerInv, OneGenerationAtATime, RunningServices
<1>7. QED
  BY <1>3, <1>4, <1>6

\* A panic met while joining: the watcher, or run(), ends there.
LEMMA PanicSteps ==
  ASSUME IInv, StopPanics \/ MainPanics
  PROVE  CoreInv'
<1> USE DEF IInv, CoreInv
<1>1. /\ UNCHANGED <<raftVars, handled, starting, slot, cancelled, service, shutdown, server, late>>
      /\ lock # "free" /\ lock' = "free" /\ taken' = NoGen
      /\ closing' \in BOOLEAN /\ statics' \in BOOLEAN
  BY DEF StopPanics, MainPanics, Unlock, watcherVars, mainVars, LockInv, TypeOK
<1>2. \/ watcher = "stopping" /\ watcher' = "panicked" /\ main' = main
      \/ main = "joining" /\ main' = "panicked" /\ watcher' = watcher
  <2>1. CASE StopPanics
    BY <2>1 DEF StopPanics, mainVars
  <2>2. CASE MainPanics
    BY <2>2 DEF MainPanics, watcherVars
  <2>3. QED
    BY <2>1, <2>2
<1>3. TypeOK'
  BY <1>1, <1>2 DEF TypeOK, raftVars
<1>4. LockInv' /\ PlaceInv' /\ IdleInv'
  BY <1>1, <1>2 DEF LockInv, PlaceInv, IdleInv, TypeOK
<1>5. OwnerInv' /\ OneGenerationAtATime'
  BY <1>1, <1>2 DEF OwnerInv, OneGenerationAtATime, RunningServices
<1>6. QED
  BY <1>3, <1>4, <1>5

LEMMA CallStartStep ==
  ASSUME IInv, CallStart
  PROVE  CoreInv'
<1> USE DEF IInv, CoreInv
<1>1. /\ UNCHANGED <<raftVars, slotVars, mainVars>>
      /\ watcher = "watch" /\ handled = NoGen
      /\ leader \in Generations /\ leader # NoGen
      /\ watcher' = "start" /\ handled' = leader /\ starting' = leader
      /\ service' = [service EXCEPT ![leader] = [s \in Services |-> "running"]]
  BY DEF CallStart, TypeOK
<1>2. TypeOK'
  <2>1. service' \in [Generations -> [Services -> {"none", "running", "stopped", "panicked"}]]
    <3>1. [s \in Services |-> "running"]
            \in [Services -> {"none", "running", "stopped", "panicked"}]
      OBVIOUS
    <3>2. QED
      BY <1>1, <3>1 DEF TypeOK
  <2>2. late' \subseteq Generations
    BY <1>1 DEF CallStart, TypeOK
  <2>3. QED
    BY <1>1, <2>1, <2>2 DEF TypeOK, raftVars, slotVars, mainVars
<1>3. LockInv' /\ PlaceInv' /\ IdleInv'
  BY <1>1 DEF slotVars, mainVars, LockInv, PlaceInv, IdleInv
<1>4. ASSUME main # "panicked", NEW g \in Generations, g # leader
      PROVE  RunningServices(g)' = {}
  <2>1. RunningServices(g) = {}
    BY <1>1, <1>4, NothingRunsWhenIdle
  <2>2. service'[g] = service[g]
    BY <1>1, <1>4 DEF TypeOK
  <2>3. QED
    BY <2>1, <2>2 DEF RunningServices
<1>5. OneGenerationAtATime'
  BY <1>1, <1>4 DEF mainVars, OneGenerationAtATime
<1>6. OwnerInv'
  <2>1. ASSUME NEW g \in Generations, g # leader, RunningServices(g)' # {}
        PROVE  g \in {slot, taken} \cup cancelled
    <3>1. RunningServices(g) # {}
      BY <1>1, <2>1 DEF TypeOK, RunningServices
    <3>2. starting = NoGen
      BY <1>1 DEF PlaceInv
    <3>3. QED
      BY <3>1, <3>2 DEF OwnerInv, Generations, NoGen
  <2>2. QED
    BY <1>1, <1>4, <2>1 DEF OwnerInv, slotVars, mainVars
<1>7. QED
  BY <1>2, <1>3, <1>5, <1>6

LEMMA StartStoresStep ==
  ASSUME IInv, StartStores
  PROVE  CoreInv'
<1> USE DEF IInv, CoreInv
<1>1. /\ UNCHANGED <<raftVars, handled, lock, taken, cancelled, service, mainVars, late>>
      /\ watcher = "start" /\ watcher' = "watch" /\ lock = "free"
      /\ slot' = starting /\ starting' = NoGen
  BY DEF StartStores
<1>2. TypeOK'
  BY <1>1 DEF TypeOK, raftVars, mainVars
<1>3. LockInv' /\ PlaceInv'
  BY <1>1 DEF mainVars, LockInv, PlaceInv
<1>4. IdleInv'
  BY <1>1 DEF LockInv, IdleInv, PlaceInv
<1>5. OwnerInv' /\ OneGenerationAtATime'
  BY <1>1 DEF mainVars, LockInv, PlaceInv, OwnerInv,
              OneGenerationAtATime, RunningServices, Generations, NoGen
<1>6. QED
  BY <1>2, <1>3, <1>4, <1>5

LEMMA WatcherEndsStep ==
  ASSUME IInv, WatcherEnds
  PROVE  CoreInv'
<1> USE DEF IInv, CoreInv
<1>1. /\ UNCHANGED <<raftVars, handled, starting, slotVars, service, mainVars, late>>
      /\ watcher = "watch" /\ watcher' = "ended"
  BY DEF WatcherEnds
<1>2. TypeOK'
  BY <1>1 DEF TypeOK, raftVars, slotVars, mainVars
<1>3. LockInv' /\ PlaceInv' /\ IdleInv'
  BY <1>1 DEF slotVars, mainVars, LockInv, PlaceInv, IdleInv
<1>4. OwnerInv' /\ OneGenerationAtATime'
  BY <1>1 DEF slotVars, mainVars, OwnerInv, OneGenerationAtATime,
              RunningServices
<1>5. QED
  BY <1>2, <1>3, <1>4

\* run() before it takes the slot and after it has joined: it touches none of what
\* it shares with the watcher.
LEMMA MainSteps ==
  ASSUME IInv,
         \/ ParseFails \/ StartServer \/ Close \/ Closed \/ JoinStatics
         \/ ApplicationShutdown \/ AwaitServer \/ RaftShutdown
  PROVE  CoreInv'
<1> USE DEF IInv, CoreInv
<1>1. /\ UNCHANGED <<wins, watcherVars, slotVars, service, shutdown, late>>
      /\ main # "joining" /\ main' \notin {"joining", "panicked"}
      /\ main # "panicked"
  BY DEF ParseFails, StartServer, Close, Closed, JoinStatics, ApplicationShutdown,
         AwaitServer, RaftShutdown, raftVars
<1>2. /\ leader' \in {NoGen, leader}
      /\ main' \in {"running", "close", "statics", "application", "server", "raft",
                    "done", "error"}
      /\ server' \in {server, "serving"}
  <2>1. CASE ParseFails \/ StartServer
    BY <2>1 DEF ParseFails, StartServer, raftVars
  <2>2. CASE Close \/ Closed \/ JoinStatics
    BY <2>2 DEF Close, Closed, JoinStatics, raftVars
  <2>3. CASE ApplicationShutdown \/ AwaitServer \/ RaftShutdown
    BY <2>3 DEF ApplicationShutdown, AwaitServer, RaftShutdown, raftVars
  <2>4. QED
    BY <2>1, <2>2, <2>3
<1>3. closing' \in BOOLEAN /\ statics' \in BOOLEAN
  <2>1. closing \in BOOLEAN /\ statics \in BOOLEAN
    BY DEF TypeOK
  <2>2. (closing' = TRUE \/ closing' = closing) /\ (statics' = FALSE \/ statics' = statics)
    BY Zenon DEF ParseFails, StartServer, Close, Closed, JoinStatics,
                 ApplicationShutdown, AwaitServer, RaftShutdown
  <2>3. QED
    BY <2>1, <2>2
<1>4. TypeOK'
  BY <1>1, <1>2, <1>3 DEF TypeOK, watcherVars, slotVars
<1>5. LockInv' /\ PlaceInv' /\ IdleInv'
  BY <1>1 DEF watcherVars, slotVars, LockInv, PlaceInv, IdleInv
<1>6. OwnerInv' /\ OneGenerationAtATime'
  BY <1>1 DEF watcherVars, slotVars, OwnerInv, OneGenerationAtATime,
              RunningServices
<1>7. QED
  BY <1>4, <1>5, <1>6

\* What may outlive run() is late: the slot is emptied once and for all, but for what
\* is stored by a callback that run() did not wait for.
LEMMA LateStep ==
  ASSUME IInv, Next
  PROVE  LateInv'
<1> USE DEF IInv, CoreInv
<1>1. CASE /\ UNCHANGED <<main, server, slot, starting, late>>
           /\ watcher' = watcher \/ watcher' \in {"ended", "panicked"}
                \/ watcher \notin {"ended", "panicked"}
  BY <1>1 DEF LateInv, Emptied, PastClose
<1>2. CASE \/ WinElection \/ LoseLeadership \/ RequestShutdown \/ StaticsStop
           \/ CallStop \/ StopReturns \/ StopPanics \/ WatcherEnds \/ Close
           \/ \E g \in Generations, s \in Services : ServiceStops(g, s) \/ ServicePanics(g, s)
  BY <1>1, <1>2 DEF WinElection, LoseLeadership, RequestShutdown, StaticsStop,
     CallStop, StopReturns, StopPanics, WatcherEnds, Close, ServiceStops, ServicePanics,
     Unlock, watcherVars, slotVars, mainVars
<1>3. CASE ServerStops \/ ServerFails
  <2>1. /\ UNCHANGED <<main, slot, starting, late, watcher>>
        /\ server = "serving" /\ server' \in {"stopped", "failed"}
    BY <1>3 DEF ServerStops, ServerFails, watcherVars, slotVars
  <2>2. QED
    BY <2>1 DEF LateInv, Emptied, PastClose
<1>4. CASE StopTakes
  <2>1. /\ UNCHANGED <<main, server, starting, late>> /\ slot' = NoGen
        /\ watcher = "stop"
    BY <1>4 DEF StopTakes, TakeSlot, mainVars
  <2>2. QED
    BY <2>1 DEF LateInv, Emptied, PastClose
<1>5. CASE CallStart
  <2>1. /\ UNCHANGED <<main, server, slot>> /\ watcher = "watch" /\ starting' = leader
        /\ late' = IF main \in {"starting", "running"} THEN late ELSE late \cup {leader}
    BY <1>5 DEF CallStart, slotVars, mainVars
  <2>2. QED
    BY <2>1 DEF LateInv, Emptied, PastClose
<1>6. CASE StartStores
  <2>1. /\ UNCHANGED <<main, server, late>> /\ watcher = "start"
        /\ slot' = starting /\ starting' = NoGen
    BY <1>6 DEF StartStores, mainVars
  <2>2. QED
    BY <2>1 DEF LateInv, Emptied, PastClose
<1>7. CASE ParseFails \/ StartServer
  <2>1. /\ main = "starting"
        /\ \/ main' = "error" /\ server' = server
           \/ main' = "running"
    BY <1>7 DEF ParseFails, StartServer
  <2>2. QED
    BY <2>1 DEF LateInv, Emptied, PastClose
<1>8. CASE MainTakes
  <2>1. /\ UNCHANGED <<server, starting>> /\ slot' = NoGen
        /\ main = "running" /\ main' = "joining"
        /\ late' = IF starting = NoGen THEN late ELSE late \cup {starting}
    BY <1>8 DEF MainTakes, TakeSlot, watcherVars
  <2>2. QED
    BY <2>1 DEF LateInv, Emptied, PastClose
<1>9. CASE MainJoins \/ MainPanics \/ Closed
  <2>1. /\ UNCHANGED <<server, slot, starting, late, watcher>>
        /\ \/ main = "joining" /\ main' \in {"close", "panicked"}
           \/ main = "close" /\ main' = "statics" /\ watcher \in {"ended", "panicked"}
    BY <1>9 DEF MainJoins, MainPanics, Closed, Unlock, watcherVars, slotVars
  <2>2. QED
    BY <2>1 DEF LateInv, Emptied, PastClose
<1>10. CASE JoinStatics \/ ApplicationShutdown \/ AwaitServer \/ RaftShutdown
  <2>1. /\ UNCHANGED <<server, slot, starting, late, watcher>>
        /\ main \in {"statics", "application", "server", "raft"}
        /\ main' \in {"application", "server", "raft", "done", "error"}
    BY <1>10 DEF JoinStatics, ApplicationShutdown, AwaitServer, RaftShutdown,
       watcherVars, slotVars
  <2>2. QED
    BY <2>1 DEF LateInv, Emptied, PastClose
<1>11. QED
  BY <1>2, <1>3, <1>4, <1>5, <1>6, <1>7, <1>8, <1>9, <1>10
  DEF Next, WatcherStep, MainStep

LEMMA CoreStep ==
  ASSUME IInv, Next
  PROVE  CoreInv'
<1>1. CASE WinElection \/ LoseLeadership \/ RequestShutdown
           \/ StaticsStop \/ ServerStops \/ ServerFails
  BY <1>1, EnvironmentSteps
<1>2. CASE \E g \in Generations, s \in Services : ServiceStops(g, s) \/ ServicePanics(g, s)
  BY <1>2, ServiceSteps
<1>3. CASE WatcherStep
  BY <1>3, CallStopStep, TakeSteps, JoinSteps, PanicSteps, CallStartStep,
     StartStoresStep, WatcherEndsStep
  DEF WatcherStep
<1>4. CASE MainStep
  BY <1>4, TakeSteps, JoinSteps, PanicSteps, MainSteps DEF MainStep
<1>5. QED
  BY <1>1, <1>2, <1>3, <1>4 DEF Next

LEMMA IInvStep == IInv /\ [Next]_vars => IInv'
<1> SUFFICES ASSUME IInv, [Next]_vars PROVE IInv'
  OBVIOUS
<1>1. CASE UNCHANGED vars
  <2>1. TypeOK'
    BY <1>1 DEF IInv, CoreInv, TypeOK, vars
  <2>2. LockInv' /\ PlaceInv' /\ IdleInv' /\ LateInv'
    BY <1>1 DEF IInv, CoreInv, LockInv, PlaceInv, IdleInv, LateInv, Emptied, PastClose, vars
  <2>3. OwnerInv' /\ OneGenerationAtATime'
    BY <1>1 DEF IInv, CoreInv, OwnerInv, OneGenerationAtATime, RunningServices, vars
  <2>4. QED
    BY <2>1, <2>2, <2>3 DEF IInv, CoreInv
<1>2. CASE Next
  BY <1>2, CoreStep, LateStep DEF IInv
<1>3. QED
  BY <1>1, <1>2

-----------------------------------------------------------------------------
\* Every variable keeps its type.
THEOREM OrchestratorTypeCorrect == Spec => []TypeOK
<1>1. IInv => TypeOK
  BY DEF IInv, CoreInv
<1>2. QED
  BY <1>1, IInvInit, IInvStep, PTL DEF Spec

\* Leader services of two leaderships never run side by side.
THEOREM GenerationsNeverOverlap == Spec => []OneGenerationAtATime
<1>1. IInv => OneGenerationAtATime
  BY DEF IInv, CoreInv
<1>2. QED
  BY <1>1, IInvInit, IInvStep, PTL DEF Spec

\* Once run() has emptied the slot, every service that runs was told to stop or was
\* started too late for run() to find it; past the close of the watcher, only late
\* services run.
THEOREM OnlyLateServicesRemain == Spec => []OnlyLateServicesOutliveRun
<1>1. IInv => OnlyLateServicesOutliveRun
  <2> SUFFICES ASSUME IInv, NEW g \in Generations, RunningServices(g) # {}
               PROVE  /\ Emptied => g \in late \cup cancelled
                      /\ PastClose /\ watcher # "panicked" => g \in late
    BY DEF OnlyLateServicesOutliveRun
  <2> USE DEF IInv, CoreInv
  <2>1. g # NoGen
    BY DEF Generations, NoGen
  <2>2. ASSUME Emptied PROVE g \in late \cup cancelled
    BY <2>1, <2>2 DEF OwnerInv, LateInv
  <2>3. ASSUME PastClose, watcher # "panicked" PROVE g \in late
    <3>1. Emptied /\ main \notin {"joining", "panicked"} /\ watcher = "ended"
      BY <2>3 DEF PastClose, Emptied, LateInv
    <3>2. starting = NoGen /\ taken = NoGen
      BY <3>1 DEF PlaceInv, LockInv, TypeOK
    <3>3. g = slot
      BY <2>1, <3>1, <3>2 DEF OwnerInv
    <3>4. QED
      BY <2>1, <3>1, <3>3 DEF LateInv
  <2>4. QED
    BY <2>2, <2>3
<1>2. QED
  BY <1>1, IInvInit, IInvStep, PTL DEF Spec

\* Once the end of a leadership was dealt with, none of its services runs.
THEOREM StepDownStopsServices == Spec => []NoServiceAfterStepDown
<1>1. IInv => NoServiceAfterStepDown
  BY NothingRunsWhenIdle DEF NoServiceAfterStepDown
<1>2. QED
  BY <1>1, IInvInit, IInvStep, PTL DEF Spec
=============================================================================
