--------------------------- MODULE LifecycleProofs ---------------------------
(***************************************************************************)
(* Proofs about Lifecycle, for every set of jobs and storage providers and *)
(* any number of faults up to MaxFaults.                                   *)
(*                                                                         *)
(* The process keeps the invariant of its queue, whose proof is that of    *)
(* JobQueueProofs: every step of the process is a step of the queue, its   *)
(* end, or a fault outside it.                                             *)
(***************************************************************************)
EXTENDS Lifecycle, TLAPS

Q == INSTANCE JobQueueProofs

\* The queue of Lifecycle and that of the proofs have the same definitions; these
\* are expanded everywhere.
USE DEF Queue!Deliveries, Q!Deliveries, Queue!InFlight, Q!InFlight,
        Queue!InFlightStates, Q!InFlightStates, Queue!Unreported, Q!Unreported,
        Queue!Stopped, Q!Stopped, Queue!Fault, Q!Fault, Queue!ProcessEnds,
        Q!ProcessEnds, Queue!flags, Q!flags, Queue!process, Q!process,
        Queue!slots, Q!slots, Queue!worker, Q!worker, Queue!table, Q!table,
        Queue!past, Q!past, Queue!history, Q!history, Queue!vars, Q!vars

\* The assumption of the proofs of the queue, as Lifecycle states it.
LEMMA QueueLemmas ==
  /\ Q!Init => Q!IInv
  /\ Q!IInv /\ [Q!Next]_(Q!vars) => Q!IInv'
  /\ Q!IInv /\ Q!ProcessEnds /\ faults' \in Nat => Q!IInv'
  /\ Q!IInv /\ faults' \in Nat
     /\ UNCHANGED <<Q!process, Q!worker, Q!table, Q!past>> => Q!IInv'
<1>1. Q!Init => Q!IInv
  BY Q!InitIInv, LifecycleAssumption
     DEF LifecycleAssumption, Q!IsFiniteSet, IsFiniteSet
<1>2. Q!IInv /\ [Q!Next]_(Q!vars) => Q!IInv'
  BY Q!NextIInv, LifecycleAssumption
     DEF LifecycleAssumption, Q!IsFiniteSet, IsFiniteSet
<1>3. Q!IInv /\ Q!ProcessEnds /\ faults' \in Nat => Q!IInv'
  BY Q!ProcessEndsIInv, LifecycleAssumption
     DEF LifecycleAssumption, Q!IsFiniteSet, IsFiniteSet
<1>4. Q!IInv /\ faults' \in Nat
      /\ UNCHANGED <<Q!process, Q!worker, Q!table, Q!past>> => Q!IInv'
  BY Q!FaultIInv, LifecycleAssumption
     DEF LifecycleAssumption, Q!IsFiniteSet, IsFiniteSet
<1>. QED
  BY <1>1, <1>2, <1>3, <1>4

\* A step of the queue of Lifecycle is one of the queue of the proofs.
LEMMA SameTableNext == Queue!TableNext => Q!Next
BY DEF Queue!TableNext, Q!TableNext, Queue!Send, Q!Send, Queue!Expire, Q!Expire,
   Queue!RowFailed, Q!RowFailed, Queue!FailedState, Q!FailedState, Q!Next

LEMMA SameConsumerNext == Queue!ConsumerNext => Q!Next
BY DEF Queue!ConsumerNext, Q!ConsumerNext, Queue!StartQueue, Q!StartQueue,
   Queue!ConsumeQueue, Q!ConsumeQueue, Queue!BossStartRejects,
   Q!BossStartRejects, Queue!WaitForQueueToEmpty, Q!WaitForQueueToEmpty,
   Queue!ConsumerMoves, Q!ConsumerMoves, Queue!IteratorBreaks, Q!IteratorBreaks,
   Queue!IteratorFetches, Q!IteratorFetches, Queue!Available, Q!Available,
   Queue!NextDelivery, Q!NextDelivery, Queue!RowFetched, Q!RowFetched,
   Queue!FetchReturnsJob, Q!FetchReturnsJob, Queue!FetchReturnsNone,
   Q!FetchReturnsNone, Queue!WakeUp, Q!WakeUp, Queue!FetchRejects,
   Q!FetchRejects, Queue!DropJob, Q!DropJob, Q!Next

LEMMA SameFunctionNext == Queue!FunctionNext => Q!Next
BY DEF Queue!FunctionNext, Q!FunctionNext, Queue!TakeJob, Q!TakeJob, Queue!Full,
   Q!Full, Queue!FnResolves, Q!FnResolves, Queue!FnRejects, Q!FnRejects,
   Queue!CatchError, Q!CatchError, Q!Next

LEMMA SameHandlerNext == Queue!HandlerNext => Q!Next
BY DEF Queue!HandlerNext, Q!HandlerNext, Queue!EmitJobFinished,
   Q!EmitJobFinished, Queue!WakeConsumer, Q!WakeConsumer, Queue!WakeStop,
   Q!WakeStop, Queue!Full, Q!Full, Queue!CompleteResolves, Q!CompleteResolves,
   Queue!CompleteRejects, Q!CompleteRejects, Queue!FailResolves, Q!FailResolves,
   Queue!RowCompletes, Q!RowCompletes, Queue!RowFails, Q!RowFails,
   Queue!RowCompleted, Q!RowCompleted, Queue!RowFailed, Q!RowFailed,
   Queue!FailedState, Q!FailedState, Queue!JobFinished, Q!JobFinished,
   Queue!CatchError, Q!CatchError, Q!Next

LEMMA SameStopNext == Queue!StopNext => Q!Next
BY DEF Queue!StopNext, Q!StopNext, Queue!Signal, Q!Signal, Queue!ShutDown,
   Q!ShutDown, Queue!StopQueue, Q!StopQueue, Queue!WaitForQueueToEmpty,
   Q!WaitForQueueToEmpty, Queue!BossStops, Q!BossStops, Queue!BossStopRejects,
   Q!BossStopRejects, Q!Next

LEMMA SameEndNext == Queue!EndNext \/ Queue!Restart => Q!Next
BY DEF Queue!EndNext, Q!EndNext, Queue!Exit, Q!Exit, Queue!Crash, Q!Crash,
   Queue!FailRejects, Q!FailRejects, Queue!Restart, Q!Restart, Q!Next

----------------------------------------------------------------------------
(* The invariant of the queue.                                             *)

LEMMA QueueInit == Init => Q!IInv
<1>1. Queue!Init => Q!Init
  BY DEF Queue!Init, Q!Init
<1>. QED
  BY <1>1, QueueLemmas DEF Init

\* A step of the process is a step of the queue, its end, or a fault outside it.
LEMMA QueueMoves ==
  ASSUME [Next]_vars
  PROVE  \/ Q!Next \/ UNCHANGED Q!vars
         \/ Q!ProcessEnds /\ faults' = faults
         \/ Queue!Fault /\ UNCHANGED <<Q!process, Q!worker, Q!table, Q!past>>
<1>1. CASE BootFails
  BY <1>1 DEF BootFails
<1>2. CASE StartQueue \/ StartRejects \/ Serve \/ ServeFails
  <2>1. Queue!ConsumerNext
    BY <1>2 DEF StartQueue, StartRejects, Serve, ServeFails, Queue!ConsumerNext
  <2>. QED
    BY <2>1, SameConsumerNext
<1>3. CASE Signal \/ Catch \/ BossNext
  <2>1. Queue!StopNext
    BY <1>3 DEF Signal, Catch, BossNext, Queue!StopNext
  <2>. QED
    BY <2>1, SameStopNext
<1>4. CASE Dies \/ Restart
  <2>1. Queue!EndNext \/ Queue!Restart
    BY <1>4 DEF Dies, Restart, Queue!EndNext
  <2>. QED
    BY <2>1, SameEndNext
<1>5. CASE TakeJob \/ HandlerNext
  <2>1. Queue!FunctionNext \/ Queue!HandlerNext
    BY <1>5 DEF TakeJob, HandlerNext, Queue!FunctionNext
  <2>. QED
    BY <2>1, SameFunctionNext, SameHandlerNext
<1>6. CASE ConsumerNext
  BY <1>6, SameConsumerNext, SameTableNext DEF ConsumerNext
<1>7. ASSUME NEW t \in Triggers, Exit(t) PROVE Q!ProcessEnds /\ faults' = faults
  BY <1>7 DEF Exit
<1>8. CASE UNCHANGED queueVars
  BY <1>8 DEF queueVars
<1>. QED
  BY <1>1, <1>2, <1>3, <1>4, <1>5, <1>6, <1>7, <1>8
     DEF Next, vars, SignalAgain, CatchAgain, QueueSettles, ItemSettles

\* So every step of the process keeps it.
LEMMA QueueStep ==
  ASSUME Q!IInv, [Next]_vars
  PROVE  Q!IInv'
<1>1. faults \in Nat /\ (Queue!Fault => faults' \in Nat)
  BY DEF Q!IInv, Q!TypeOK
<1>2. CASE Q!Next
  BY <1>2, QueueLemmas
<1>3. CASE UNCHANGED Q!vars
  BY <1>3, QueueLemmas
<1>4. CASE Q!ProcessEnds /\ faults' = faults
  BY <1>1, <1>4, QueueLemmas
<1>5. CASE Queue!Fault /\ UNCHANGED <<Q!process, Q!worker, Q!table, Q!past>>
  BY <1>1, <1>5, QueueLemmas
<1>. QED
  BY <1>2, <1>3, <1>4, <1>5, QueueMoves

----------------------------------------------------------------------------
(* The invariant of the cleanup.                                           *)

\* Once the cleanup is triggered the queue is stopped or stopping, and a queue
\* only stops because it was triggered.
StopInv ==
  /\ triggered # {} => Queue!Stopped
  /\ up /\ stopping # "idle" => triggered # {}

\* What a process has opened it has registered, once it starts its queue.
BootInv ==
  /\ up /\ boss = "off" => opened = {"tracer"} /\ registered = {}
  /\ boss # "off" => "queue" \in registered /\ opened = registered

\* What a sole trigger has not released it still waits for, but for a queue that
\* did not stop; it waits for the queue as long as that stops.
Unreleased == IF stopping = "rejected" THEN {"queue"} ELSE {}
CleanupInv ==
  \A t \in Triggers : up /\ triggered = {t} =>
    /\ registered \ (released \cup unsettled[t]) \subseteq Unreleased
    /\ boss # "off" => "queue" \in unsettled[t] \/ stopping \in {"done", "rejected"}

IInv == Q!IInv /\ TypeOK /\ StopInv /\ BootInv /\ CleanupInv

\* What the queue's own invariant says of its flags.
ControlFacts ==
  /\ boss \in {"off", "starting", "on", "stopped"}
  /\ boss = "off" => ~isRunning /\ stopping = "idle"
  /\ boss = "starting" => ~Queue!Stopped /\ stopping = "idle"
  /\ boss \in {"off", "starting"} => consumer = "idle"
  /\ boss \in {"on", "stopped"} /\ Queue!Stopped => stopping # "idle"
  /\ stopping # "idle" => boss \in {"on", "stopped"}
  /\ stopping = "closing" => boss = "on"
  /\ ~up => boss = "off"

LEMMA QueueControl == Q!IInv => ControlFacts
BY DEF Q!IInv, Q!TypeOK, Q!ControlInv, ControlFacts

\* Steps that leave the flags alone; a drain may find the last handler settled.
Quiet ==
  /\ UNCHANGED <<up, isRunning, isDraining, boss>>
  /\ stopping' = stopping \/ (stopping = "awaiting" /\ stopping' = "closing")

LEMMA QuietSteps ==
  TakeJob \/ HandlerNext \/ ConsumerNext => Quiet /\ UNCHANGED registry
<1>1. TakeJob => Quiet
  BY DEF TakeJob, Queue!TakeJob, Quiet
<1>2. HandlerNext => Quiet
  BY DEF HandlerNext, Queue!HandlerNext, Queue!EmitJobFinished, Queue!WakeStop,
     Queue!RowCompletes, Queue!CompleteResolves, Queue!CompleteRejects,
     Queue!RowFails, Queue!FailResolves,
     Queue!FnResolves, Queue!FnRejects, Quiet
<1>3. ConsumerNext => Quiet
  BY DEF ConsumerNext, Queue!ConsumerNext, Queue!StartQueue, Queue!ConsumeQueue,
     Queue!BossStartRejects, Queue!IteratorBreaks, Queue!IteratorFetches,
     Queue!ConsumerMoves, Queue!FetchReturnsNone, Queue!FetchRejects,
     Queue!WakeUp, Queue!FetchReturnsJob, Queue!DropJob, Queue!TableNext,
     Queue!Send, Queue!Expire, Quiet
<1>. QED
  BY <1>1, <1>2, <1>3 DEF TakeJob, HandlerNext, ConsumerNext

\* stopQueue past its early return.
LEMMA StopQueueFlags ==
  Queue!StopQueue =>
    /\ ~Queue!Stopped /\ isDraining' = TRUE
    /\ stopping' \in {"awaiting", "closing"}
    /\ UNCHANGED <<up, isRunning, boss>>
BY DEF Queue!StopQueue, Queue!WaitForQueueToEmpty

LEMMA StartRejectsFlags ==
  Queue!BossStartRejects =>
    /\ boss = "starting" /\ boss' = "on"
    /\ isDraining' = TRUE /\ stopping' = "closing"
    /\ UNCHANGED <<up, isRunning>>
BY DEF Queue!BossStartRejects

\* The type invariant: only what was registered is waited for or released.
LEMMA TypeStep ==
  ASSUME TypeOK, [Next]_vars
  PROVE  TypeOK'
<1>. USE DEF TypeOK, registry, Items, Services, Triggers, Opens, Trigger
<1>1. CASE BootFails
  BY <1>1 DEF BootFails
<1>2. CASE StartQueue
  BY <1>2 DEF StartQueue
<1>3. CASE StartRejects \/ Signal \/ SignalAgain \/ Catch \/ CatchAgain
  BY <1>3 DEF StartRejects, Signal, SignalAgain, Catch, CatchAgain
<1>4. CASE Serve
  BY <1>4 DEF Serve
<1>5. CASE ServeFails
  BY <1>5 DEF ServeFails
<1>6. CASE Restart
  BY <1>6 DEF Restart
<1>7. ASSUME NEW t \in Triggers, QueueSettles(t) PROVE TypeOK'
  BY <1>7 DEF QueueSettles
<1>8. ASSUME NEW t \in Triggers, NEW i \in Items, ItemSettles(t, i) PROVE TypeOK'
  BY <1>8 DEF ItemSettles
<1>9. CASE UNCHANGED registry
  BY <1>9
<1>. QED
  BY <1>1, <1>2, <1>3, <1>4, <1>5, <1>6, <1>7, <1>8, <1>9, QuietSteps
     DEF Next, vars, Dies, BossNext, Exit

\* Nothing starts the queue again under a cleanup.
LEMMA StopStep ==
  ASSUME ControlFacts, StopInv, [Next]_vars
  PROVE  StopInv'
<1>. USE DEF ControlFacts, StopInv, registry, Trigger
<1>1. CASE BootFails
  BY <1>1 DEF BootFails
<1>2. CASE StartQueue
  BY <1>2 DEF StartQueue, Queue!StartQueue
<1>3. CASE StartRejects \/ ServeFails
  BY <1>3, StartRejectsFlags DEF StartRejects, ServeFails
<1>4. CASE Signal \/ Catch
  BY <1>4, StopQueueFlags DEF Signal, Catch, Queue!Signal, Queue!ShutDown
<1>5. CASE SignalAgain \/ CatchAgain
  BY <1>5 DEF SignalAgain, CatchAgain, queueVars
<1>6. CASE Serve
  BY <1>6 DEF Serve, Queue!ConsumeQueue
<1>7. CASE TakeJob \/ HandlerNext \/ ConsumerNext
  BY <1>7, QuietSteps DEF Quiet
<1>8. CASE BossNext
  BY <1>8 DEF BossNext, Queue!BossStops, Queue!BossStopRejects
<1>9. CASE Dies \/ \E t \in Triggers : Exit(t)
  BY <1>9 DEF Dies, Exit, Queue!Crash, Queue!FailRejects
<1>10. CASE Restart
  BY <1>10 DEF Restart, Queue!Restart
<1>11. CASE UNCHANGED <<queueVars, triggered>>
  BY <1>11 DEF queueVars
<1>. QED
  BY <1>1, <1>2, <1>3, <1>4, <1>5, <1>6, <1>7, <1>8, <1>9, <1>10, <1>11
     DEF Next, vars, QueueSettles, ItemSettles

\* Whatever the process opens it registers at once.
LEMMA BootStep ==
  ASSUME ControlFacts, BootInv, [Next]_vars
  PROVE  BootInv'
<1>. USE DEF ControlFacts, BootInv, registry, Opens
<1>1. CASE BootFails
  BY <1>1 DEF BootFails
<1>2. CASE StartQueue
  BY <1>2 DEF StartQueue, Queue!StartQueue
<1>3. CASE StartRejects \/ ServeFails
  BY <1>3, StartRejectsFlags DEF StartRejects, ServeFails
<1>4. CASE Signal \/ Catch
  BY <1>4, StopQueueFlags DEF Signal, Catch, Queue!Signal, Queue!ShutDown
<1>5. CASE Serve
  BY <1>5 DEF Serve, Queue!ConsumeQueue
<1>6. CASE TakeJob \/ HandlerNext \/ ConsumerNext
  BY <1>6, QuietSteps DEF Quiet
<1>7. CASE BossNext
  BY <1>7 DEF BossNext, Queue!BossStops, Queue!BossStopRejects
<1>8. CASE Dies \/ \E t \in Triggers : Exit(t)
  BY <1>8 DEF Dies, Exit, Queue!Crash, Queue!FailRejects
<1>9. CASE Restart
  BY <1>9 DEF Restart, Queue!Restart
<1>10. CASE UNCHANGED <<queueVars, registered, opened>>
  BY <1>10 DEF queueVars
<1>. QED
  BY <1>1, <1>2, <1>3, <1>4, <1>5, <1>6, <1>7, <1>8, <1>9, <1>10
     DEF Next, vars, QueueSettles, ItemSettles, SignalAgain, CatchAgain

\* The first trigger has every item settled or waited for, the queue included; a
\* second one is no sole trigger.
LEMMA CleanupStep ==
  ASSUME TypeOK, ControlFacts, StopInv, BootInv, CleanupInv, [Next]_vars
  PROVE  CleanupInv'
<1>. USE DEF TypeOK, ControlFacts, CleanupInv, Unreleased, registry, Triggers,
             Items, Services
<1>0. \A p \in Endpoints : p \notin Services
  BY LifecycleAssumption DEF LifecycleAssumption, Endpoints
<1>1. CASE BootFails
  BY <1>1 DEF BootFails, Trigger, BootInv
<1>2. CASE StartQueue
  BY <1>2 DEF StartQueue, Queue!StartQueue
<1>3. CASE StartRejects \/ ServeFails
  <2>1. triggered' = {"main"} /\ boss' = "on" /\ "queue" \in registered
    BY <1>3, StartRejectsFlags DEF StartRejects, ServeFails, Trigger, StopInv,
       BootInv
  <2>2. /\ registered' \ (released' \cup unsettled'["main"]) = {}
        /\ "queue" \in unsettled'["main"]
    BY <1>0, <1>3, <2>1 DEF StartRejects, ServeFails, Trigger, Opens
  <2>. QED
    BY <2>1, <2>2
<1>4. CASE Signal \/ Catch
  <2>1. triggered = {} /\ "queue" \in registered
    BY <1>4, StopQueueFlags
       DEF Signal, Catch, Queue!Signal, Queue!ShutDown, StopInv, BootInv
  <2>2. PICK t \in Triggers : Trigger(t, registered, FALSE) /\ UNCHANGED registered
    BY <1>4 DEF Signal, Catch
  <2>3. /\ triggered' = {t} /\ "queue" \in unsettled'[t]
        /\ registered' \ (released' \cup unsettled'[t]) = {}
    BY <1>0, <2>1, <2>2 DEF Trigger
  <2>. QED
    BY <2>3
<1>5. CASE SignalAgain
  BY <1>5 DEF SignalAgain, Trigger
<1>6. CASE CatchAgain
  <2>1. triggered # {}
    BY <1>6 DEF CatchAgain, StopInv
  <2>2. "main" \notin triggered /\ triggered' = triggered \cup {"main"}
    BY <1>6 DEF CatchAgain, Trigger
  <2>. QED
    BY <2>1, <2>2
<1>7. CASE Serve
  <2>1. triggered' = {}
    BY <1>7 DEF Serve, Queue!ConsumeQueue, StopInv
  <2>. QED
    BY <2>1
<1>8. CASE TakeJob \/ HandlerNext \/ ConsumerNext
  BY <1>8, QuietSteps DEF Quiet
<1>9. CASE BossNext
  BY <1>9 DEF BossNext, Queue!BossStops, Queue!BossStopRejects
<1>10. CASE Dies \/ \E t \in Triggers : Exit(t)
  BY <1>10 DEF Dies, Exit, Queue!Crash, Queue!FailRejects
<1>11. CASE Restart
  BY <1>11 DEF Restart
<1>12. ASSUME NEW t \in Triggers, QueueSettles(t) PROVE CleanupInv'
  BY <1>12 DEF QueueSettles, queueVars
<1>13. ASSUME NEW t \in Triggers, NEW i \in Items, ItemSettles(t, i)
       PROVE  CleanupInv'
  BY <1>13 DEF ItemSettles, queueVars
<1>14. CASE UNCHANGED vars
  BY <1>14 DEF vars, queueVars
<1>. QED
  BY <1>1, <1>2, <1>3, <1>4, <1>5, <1>6, <1>7, <1>8, <1>9, <1>10, <1>11, <1>12,
     <1>13, <1>14 DEF Next

----------------------------------------------------------------------------
(* The theorems.                                                           *)

LEMMA InitIInv == Init => IInv
<1>. SUFFICES ASSUME Init PROVE IInv
  OBVIOUS
<1>1. Q!IInv
  BY QueueInit
<1>2. TypeOK /\ StopInv /\ BootInv /\ CleanupInv
  BY DEF Init, Queue!Init, TypeOK, StopInv, BootInv, CleanupInv, Items,
     Services, Triggers
<1>. QED
  BY <1>1, <1>2 DEF IInv

LEMMA NextIInv == IInv /\ [Next]_vars => IInv'
BY QueueStep, QueueControl, TypeStep, StopStep, BootStep, CleanupStep DEF IInv

THEOREM Invariance == Spec => []IInv
BY InitIInv, NextIInv, PTL DEF Spec

\* The cleanup waits for and releases only what was registered.
THEOREM TypeCorrect == Spec => []TypeOK
<1>1. IInv => TypeOK
  BY DEF IInv
<1>. QED
  BY <1>1, Invariance, PTL

\* No job is handed to processTile once the cleanup was triggered, whoever did.
THEOREM NoJobBegins == Spec => NoJobAfterCleanup
<1>1. IInv /\ [Next]_vars => [TakeJob => triggered = {}]_vars
  BY DEF IInv, StopInv, TakeJob, Queue!TakeJob
<1>. QED
  BY <1>1, Invariance, PTL DEF Spec, NoJobAfterCleanup

\* However the boot, the jobs and the stop went, a process whose cleanup was
\* triggered once exits idle, with everything it opened released but for the
\* queue that failed to stop and the tracing of a boot that had not got far.
THEOREM ExitsClean == Spec => CleanExit
<1>1. ASSUME IInv, NEW t \in Triggers, Exit(t), triggered = {t}
      PROVE  /\ Queue!InFlight = {}
             /\ opened \ released \subseteq
                  Unreleased \cup (IF boss = "off" THEN {"tracer"} ELSE {})
  <2>1. up /\ unsettled[t] = {}
    BY <1>1 DEF Exit
  <2>2. boss = "off" \/ stopping \in {"done", "rejected"}
    BY <1>1, <2>1 DEF IInv, CleanupInv
  <2>3. runningJobs = 0 /\ Q!RunningJobsCounts
    BY <1>1, <2>2 DEF IInv, Q!IInv, Q!LoadInv, Q!ControlInv
  <2>4. Queue!InFlight = {}
    BY <2>3, Q!IdleWhenNoneRuns, LifecycleAssumption
       DEF LifecycleAssumption, Q!IsFiniteSet, IsFiniteSet
  <2>5. opened \ released \subseteq
          Unreleased \cup (IF boss = "off" THEN {"tracer"} ELSE {})
    BY <1>1, <2>1 DEF IInv, BootInv, CleanupInv
  <2>. QED
    BY <2>4, <2>5
<1>2. IInv /\ [Next]_vars =>
        [\A t \in Triggers : Exit(t) /\ triggered = {t} =>
           /\ Queue!InFlight = {}
           /\ opened \ released \subseteq
                (IF stopping = "rejected" THEN {"queue"} ELSE {}) \cup
                (IF boss = "off" THEN {"tracer"} ELSE {})]_vars
  BY <1>1 DEF Unreleased
<1>. QED
  BY <1>2, Invariance, PTL DEF Spec, CleanExit

\* Within its process, from boot to exit, the queue implements the worker of
\* GracefulWorker: only the end of the process takes work away.
THEOREM LifecycleIsGraceful == Spec => Queue!ImplementsWorker
<1>. USE DEF Q!Phase, Queue!Phase
<1>1. ASSUME IInv, [Next]_vars PROVE Q!WorkerStep
  <2>1. Q!TypeOK /\ Q!ControlInv /\ Q!DeliveryInv /\ Q!LoadInv /\ Q!RunningJobsCounts
    BY <1>1 DEF IInv, Q!IInv
  <2>2. CASE Q!Next \/ UNCHANGED Q!vars
    BY <2>1, <2>2, Q!NextWorker, LifecycleAssumption
       DEF LifecycleAssumption, Q!IsFiniteSet, IsFiniteSet
  <2>3. CASE Q!ProcessEnds
    BY <2>1, <2>3, Q!ProcessEndsWorker, LifecycleAssumption
       DEF LifecycleAssumption, Q!IsFiniteSet, IsFiniteSet
  <2>4. CASE UNCHANGED <<Q!process, Q!worker, Q!table, Q!past>>
    BY <2>4 DEF Q!WorkerStep
  <2>. QED
    BY <1>1, <2>2, <2>3, <2>4, QueueMoves
<1>2. Q!WorkerStep =>
        [Queue!Worker!Next]_<<Queue!Phase, Queue!InFlight, runningJobs>>
  BY DEF Q!WorkerStep, Q!Worker!Next, Queue!Worker!Next, Q!Worker!Open,
     Queue!Worker!Open, Q!Worker!Begin, Queue!Worker!Begin, Q!Worker!End,
     Queue!Worker!End, Q!Worker!Close, Queue!Worker!Close, Q!Worker!Shut,
     Queue!Worker!Shut, Q!Worker!Die, Queue!Worker!Die
<1>3. Init => Queue!Worker!Init
  BY DEF Init, Queue!Init, Queue!Worker!Init
<1>4. IInv /\ [Next]_vars =>
        [Queue!Worker!Next]_<<Queue!Phase, Queue!InFlight, runningJobs>>
  BY <1>1, <1>2
<1>. QED
  BY <1>3, <1>4, Invariance, PTL DEF Spec, Queue!ImplementsWorker,
     Queue!Worker!Spec
=============================================================================
