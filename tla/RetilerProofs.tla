---------------------------- MODULE RetilerProofs ----------------------------
(***************************************************************************)
(* Proofs about Retiler: with app.parallelism 1 the queue keeps the        *)
(* attempts of a metatile apart, so that what TileProcessorProofs shows of *)
(* attempts that do not overlap holds of them, and a job that the queue    *)
(* records as completed is rendered.  They hold for every set of jobs,     *)
(* retry limit, expiry, number of faults, metatile and sequence of maps.   *)
(*                                                                         *)
(* With any parallelism the retiler is a JobQueue and a TileProcessor whose*)
(* attempts may overlap.  So what holds of those in any configuration holds*)
(* of it, and while the source does not change a completed job is stored.  *)
(***************************************************************************)
EXTENDS Retiler, TLAPS

Q == INSTANCE JobQueueProofs
T == INSTANCE TileProcessorProofs
       WITH Attempts <- Queue!Deliveries, Overlap <- FALSE
O == INSTANCE TileSteadyProofs
       WITH Attempts <- Queue!Deliveries, Overlap <- TRUE

\* The queue of Retiler and that of the proofs have the same definitions; these
\* are expanded everywhere.
USE DEF Queue!Deliveries, Q!Deliveries, Queue!InFlight, Q!InFlight,
        Queue!InFlightStates, Q!InFlightStates, Queue!Unreported, Q!Unreported,
        Queue!Stopped, Q!Stopped, Queue!Fault, Q!Fault, Queue!ProcessEnds,
        Q!ProcessEnds, Queue!flags, Q!flags, Queue!process, Q!process,
        Queue!slots, Q!slots, Queue!worker, Q!worker, Queue!table, Q!table,
        Queue!past, Q!past, Queue!history, Q!history, Queue!vars, Q!vars

\* The assumption of the proofs of the queue, as Retiler states it.
LEMMA QueueLemmas ==
  /\ Q!Init => Q!IInv
  /\ Q!IInv /\ [Q!Next]_(Q!vars) => Q!IInv'
  /\ Q!IInv /\ Q!ProcessEnds /\ faults' \in Nat => Q!IInv'
  /\ Q!IInv /\ faults' \in Nat
     /\ UNCHANGED <<Q!process, Q!worker, Q!table, Q!past>> => Q!IInv'
<1>1. Q!Init => Q!IInv
  BY Q!InitIInv, RetilerAssumption
     DEF RetilerAssumption, Q!IsFiniteSet, IsFiniteSet
<1>2. Q!IInv /\ [Q!Next]_(Q!vars) => Q!IInv'
  BY Q!NextIInv, RetilerAssumption
     DEF RetilerAssumption, Q!IsFiniteSet, IsFiniteSet
<1>3. Q!IInv /\ Q!ProcessEnds /\ faults' \in Nat => Q!IInv'
  BY Q!ProcessEndsIInv, RetilerAssumption
     DEF RetilerAssumption, Q!IsFiniteSet, IsFiniteSet
<1>4. Q!IInv /\ faults' \in Nat
      /\ UNCHANGED <<Q!process, Q!worker, Q!table, Q!past>> => Q!IInv'
  BY Q!FaultIInv, RetilerAssumption
     DEF RetilerAssumption, Q!IsFiniteSet, IsFiniteSet
<1>. QED
  BY <1>1, <1>2, <1>3, <1>4

\* A step of the queue of Retiler is one of the queue of the proofs.
LEMMA SameTableNext == Queue!TableNext => Q!Next
BY DEF Queue!TableNext, Q!TableNext, Queue!Send, Q!Send, Queue!Expire, Q!Expire,
   Queue!RowFailed, Q!RowFailed, Queue!FailedState, Q!FailedState, Q!Next

LEMMA SameConsumerNext == Queue!ConsumerNext => Q!Next
BY DEF Queue!ConsumerNext, Q!ConsumerNext, Queue!StartQueue, Q!StartQueue,
   Queue!ConsumeQueue, Q!ConsumeQueue, Queue!BossStartRejects,
   Q!BossStartRejects, Queue!WaitForQueueToEmpty, Q!WaitForQueueToEmpty,
   Queue!ConsumerMoves, Q!ConsumerMoves, Queue!IteratorBreaks, Q!IteratorBreaks,
   Queue!IteratorFetches, Q!IteratorFetches, Queue!Available, Q!Available,
   Queue!NextDelivery, Q!NextDelivery, Queue!RowFetched, Q!RowFetched,
   Queue!FetchReturnsJob, Q!FetchReturnsJob, Queue!FetchReturnsNone,
   Q!FetchReturnsNone, Queue!WakeUp, Q!WakeUp, Queue!FetchRejects,
   Q!FetchRejects, Queue!DropJob, Q!DropJob, Q!Next

LEMMA SameFunctionNext == Queue!FunctionNext => Q!Next
BY DEF Queue!FunctionNext, Q!FunctionNext, Queue!TakeJob, Q!TakeJob, Queue!Full,
   Q!Full, Queue!FnResolves, Q!FnResolves, Queue!FnRejects, Q!FnRejects,
   Queue!CatchError, Q!CatchError, Q!Next

LEMMA SameHandlerNext == Queue!HandlerNext => Q!Next
BY DEF Queue!HandlerNext, Q!HandlerNext, Queue!EmitJobFinished,
   Q!EmitJobFinished, Queue!WakeConsumer, Q!WakeConsumer, Queue!WakeStop,
   Q!WakeStop, Queue!Full, Q!Full, Queue!CompleteResolves, Q!CompleteResolves,
   Queue!CompleteRejects, Q!CompleteRejects, Queue!FailResolves, Q!FailResolves,
   Queue!RowCompletes, Q!RowCompletes, Queue!RowFails, Q!RowFails,
   Queue!RowCompleted, Q!RowCompleted, Queue!RowFailed, Q!RowFailed,
   Queue!FailedState, Q!FailedState, Queue!JobFinished, Q!JobFinished,
   Queue!CatchError, Q!CatchError, Q!Next

LEMMA SameStopNext == Queue!StopNext => Q!Next
BY DEF Queue!StopNext, Q!StopNext, Queue!Signal, Q!Signal, Queue!ShutDown,
   Q!ShutDown, Queue!StopQueue, Q!StopQueue, Queue!WaitForQueueToEmpty,
   Q!WaitForQueueToEmpty, Queue!BossStops, Q!BossStops, Queue!BossStopRejects,
   Q!BossStopRejects, Q!Next

LEMMA SameEndNext == Queue!EndNext \/ Queue!Restart => Q!Next
BY DEF Queue!EndNext, Q!EndNext, Queue!Exit, Q!Exit, Queue!Crash, Q!Crash,
   Queue!FailRejects, Q!FailRejects, Queue!Restart, Q!Restart, Q!Next

\* So the invariant of the queue holds of the retiler.
LEMMA QueueStep ==
  ASSUME Q!IInv, [Next]_vars
  PROVE  Q!IInv'
<1>1. Q!Next \/ UNCHANGED Q!vars => Q!IInv'
  BY QueueLemmas
<1>2. CASE Environment
  BY <1>1, <1>2 DEF Environment, queueVars
<1>3. CASE QueueNext
  <2>1. Queue!TableNext \/ Queue!ConsumerNext \/ Queue!HandlerNext \/ Queue!StopNext
        \/ Queue!EndNext \/ Queue!Restart
    BY <1>3 DEF QueueNext, Queue!TableNext
  <2>. QED
    BY <1>1, <2>1, SameTableNext, SameConsumerNext, SameHandlerNext,
       SameStopNext, SameEndNext
<1>4. CASE ProcessEnds
  BY <1>1, <1>4, SameEndNext DEF ProcessEnds
<1>5. ASSUME NEW j \in Jobs, Send(j) PROVE Q!IInv'
  <2>1. Queue!TableNext
    BY <1>5 DEF Send, Queue!TableNext
  <2>. QED
    BY <1>1, <2>1, SameTableNext
<1>6. ASSUME NEW d \in Deliveries, TakeJob(d) \/ ProcessTileSettles(d) PROVE Q!IInv'
  <2>1. Queue!FunctionNext
    BY <1>6 DEF TakeJob, ProcessTileSettles, Queue!FunctionNext, Deliveries
  <2>. QED
    BY <1>1, <2>1, SameFunctionNext
<1>7. ASSUME NEW d \in Deliveries, ProcessTile(d) PROVE Q!IInv'
  BY <1>1, <1>7 DEF ProcessTile, queueVars
<1>8. CASE UNCHANGED vars
  BY <1>1, <1>8 DEF vars, queueVars
<1>. QED
  BY <1>2, <1>3, <1>4, <1>5, <1>6, <1>7, <1>8 DEF Next

----------------------------------------------------------------------------
(* The attempts of TileProcessor, without overlap.                         *)

\* A turn of an attempt is a step of TileProcessor that does not depend on whether
\* attempts may overlap.
LEMMA SameTurn ==
  ASSUME NEW d \in Deliveries, ProcessTile(d)
  PROVE  T!PreProcess(d) \/ T!Process(d)
<1>. USE DEF Tile!Moves, T!Moves, Tile!Blank, T!Blank, Tile!Active, T!Active,
             Tile!Fails, T!Fails, Tile!Put, T!Put, Tile!Key, T!Key, Tile!FlippedY,
             T!FlippedY, Tile!source, T!source, Tile!attempt, T!attempt,
             Tile!loops, T!loops, Tile!NothingLeft, T!NothingLeft
<1>1. ~Tile!Start(d)
  BY DEF ProcessTile, Tile!Start
<1>2. Tile!PreProcess(d) => T!PreProcess(d)
  BY <1>1 DEF Tile!PreProcess, T!PreProcess, Tile!ProcessAnyway,
     T!ProcessAnyway, Tile!GetTileDetails, T!GetTileDetails,
     Tile!PreProcessFails, T!PreProcessFails, Tile!UpToDate, T!UpToDate,
     Tile!Cooling, T!Cooling, Tile!SkipUpToDate, T!SkipUpToDate,
     Tile!SkipCooling, T!SkipCooling, Tile!ProjectUpdated, T!ProjectUpdated,
     Tile!NoDetails, T!NoDetails
<1>3. Tile!FetchAndSplit(d) \/ Tile!FetchOrSplitFails(d) \/ Tile!AllStored(d)
      \/ Tile!AllDeleted(d) => T!Process(d)
  BY DEF Tile!FetchAndSplit, T!FetchAndSplit, Tile!FetchOrSplitFails,
     T!FetchOrSplitFails, Tile!AllStored, T!AllStored, Tile!AllDeleted,
     T!AllDeleted, Tile!AllDone, T!AllDone, T!Process
<1>4. ASSUME NEW p \in Providers, Tile!StoreSubTile(d, p) \/ Tile!StoreRejects(d, p)
      PROVE  T!Process(d)
  BY <1>4 DEF Tile!StoreSubTile, T!StoreSubTile, Tile!StoreRejects,
     T!StoreRejects, Tile!FirstOf, T!FirstOf, Tile!Torn, T!Torn, T!Process
<1>5. ASSUME NEW p \in Providers, Tile!DeleteSubTile(d, p) \/ Tile!DeleteRejects(d, p)
      PROVE  T!Process(d)
  BY <1>5 DEF Tile!DeleteSubTile, T!DeleteSubTile, Tile!DeleteRejects,
     T!DeleteRejects, Tile!DetermineKey, T!DetermineKey, T!Process
<1>6. Tile!PostProcess(d) \/ Tile!PostProcessFails(d) => T!Process(d)
  BY DEF Tile!PostProcess, T!PostProcess, Tile!PostProcessFails,
     T!PostProcessFails, Tile!SetTileDetails, T!SetTileDetails, T!Process
<1>. QED
  BY <1>2, <1>3, <1>4, <1>5, <1>6 DEF ProcessTile, Tile!Process

LEMMA SameCrash ==
  ASSUME NEW S, Tile!Crash(S)
  PROVE  T!Crash(S)
<1>1. Tile!BeingWritten(S) = T!BeingWritten(S)
  BY DEF Tile!Ys, T!Ys, Tile!BeingWritten, T!BeingWritten, Tile!FirstOf,
     T!FirstOf, Tile!Key, T!Key, Tile!FlippedY, T!FlippedY
<1>. QED
  BY <1>1 DEF Tile!Crash, T!Crash, Tile!Active, T!Active, Tile!NothingLeft,
     T!NothingLeft, Tile!Torn, T!Torn, Tile!Ys, T!Ys, Tile!source, T!source,
     Tile!attempt, T!attempt

\* Where the attempts of the process stand: an active one is in a handler.
Phases == T!Active \cup {"waiting", "skipped", "cooled", "failed", "succeeded", "lost"}
AttemptInv ==
  /\ phase \in [Deliveries -> Phases]
  /\ \A d \in Deliveries : phase[d] \in T!Active => handler[d] = "processing"

\* A turn begins no attempt and does not undo one that was served.
LEMMA TurnPhases ==
  ASSUME phase \in [Deliveries -> Phases], NEW d \in Deliveries, ProcessTile(d)
  PROVE  /\ phase' \in [Deliveries -> Phases]
         /\ \A e \in Deliveries : /\ phase'[e] \in T!Active => phase[e] \in T!Active
                                  /\ phase[e] \in Served => phase'[e] = phase[e]
<1>. USE DEF Phases, Served, T!Active, T!Moves, T!Fails
<1>1. T!PreProcess(d) \/ T!Process(d)
  BY SameTurn
<1>2. phase[d] # "waiting"
  BY DEF ProcessTile
<1>3. CASE T!PreProcess(d)
  BY <1>2, <1>3 DEF T!PreProcess, T!Start, T!ProcessAnyway, T!GetTileDetails,
     T!PreProcessFails, T!SkipUpToDate, T!SkipCooling, T!ProjectUpdated
<1>4. CASE T!FetchAndSplit(d) \/ T!FetchOrSplitFails(d) \/ T!AllStored(d)
           \/ T!AllDeleted(d) \/ T!PostProcess(d) \/ T!PostProcessFails(d)
  BY <1>4 DEF T!FetchAndSplit, T!FetchOrSplitFails, T!AllStored, T!AllDeleted,
     T!PostProcess, T!PostProcessFails
<1>5. ASSUME NEW p \in Providers, T!StoreSubTile(d, p) \/ T!StoreRejects(d, p)
                                  \/ T!DeleteSubTile(d, p) \/ T!DeleteRejects(d, p)
      PROVE  /\ phase' \in [Deliveries -> Phases]
             /\ \A e \in Deliveries :
                  /\ phase'[e] \in T!Active => phase[e] \in T!Active
                  /\ phase[e] \in Served => phase'[e] = phase[e]
  BY <1>5 DEF T!StoreSubTile, T!StoreRejects, T!DeleteSubTile, T!DeleteRejects
<1>. QED
  BY <1>1, <1>3, <1>4, <1>5 DEF T!Process

\* The end of the process ends every attempt that is active.
LEMMA EndPhases ==
  ASSUME phase \in [Deliveries -> Phases], ProcessEnds
  PROVE  /\ phase' \in [Deliveries -> Phases]
         /\ \A e \in Deliveries : /\ phase'[e] \notin T!Active
                                  /\ phase[e] \in Served => phase'[e] = phase[e]
<1>. USE DEF ProcessEnds, Alive, Deliveries, Phases, Served, T!Active, Tile!Active
<1>1. CASE Alive = {}
  BY <1>1 DEF tileVars
<1>2. CASE Alive # {}
  BY <1>2 DEF Tile!Crash
<1>. QED
  BY <1>1, <1>2

\* A handler that reports that its function resolved.
Completing == {"completing", "completed"}

\* The steps of the queue neither end the function of a handler nor resolve it.
HandlerKept(d) ==
  /\ handler[d] = "processing" => handler'[d] = "processing"
  /\ handler'[d] \in Completing => handler[d] \in Completing
  /\ handler[d] # "none" => handler'[d] # "none"

LEMMA HandlersKept ==
  ASSUME Q!IInv, QueueNext, NEW d \in Deliveries
  PROVE  HandlerKept(d)
<1>. USE DEF Q!IInv, Q!TypeOK, Deliveries, Completing
<1>1. CASE \E j \in Jobs : Queue!Expire(j)
  BY <1>1 DEF HandlerKept, Queue!Expire
<1>2. CASE Queue!FetchRejects
  <2>1. CASE UNCHANGED handler
    BY <2>1 DEF HandlerKept
  <2>2. ASSUME NEW j \in Queue!Available,
               handler' = [handler EXCEPT ![Queue!NextDelivery(j)] = "dropped"]
        PROVE  HandlerKept(d)
    <3>1. j \in Jobs /\ fetched[j] + 1 \in 1 .. RetryLimit + 1
      BY <2>2, RetilerAssumption DEF RetilerAssumption, Queue!Available,
         Q!DeliveryInv
    <3>2. handler[Queue!NextDelivery(j)] = "none"
      BY <3>1 DEF Queue!NextDelivery, Q!DeliveryInv
    <3>3. CASE d = Queue!NextDelivery(j)
      BY <2>2, <3>2, <3>3 DEF HandlerKept
    <3>4. CASE d # Queue!NextDelivery(j)
      BY <2>2, <3>4 DEF HandlerKept
    <3>. QED
      BY <3>3, <3>4
  <2>. QED
    BY <1>2, <2>1, <2>2 DEF Queue!FetchRejects
<1>3. ASSUME NEW e \in Deliveries, Queue!DropJob(e)
      PROVE  HandlerKept(d)
  BY <1>3 DEF HandlerKept, Queue!DropJob, Q!DeliveryInv
<1>4. CASE Queue!HandlerNext
  BY <1>4 DEF HandlerKept, Queue!HandlerNext, Queue!EmitJobFinished,
     Queue!RowCompletes, Queue!CompleteResolves, Queue!CompleteRejects,
     Queue!RowFails, Queue!FailResolves, Queue!JobFinished, Queue!CatchError
<1>5. CASE Queue!StopNext \/ Queue!Restart
  BY <1>5 DEF HandlerKept, Queue!StopNext, Queue!Signal, Queue!ShutDown,
     Queue!StopQueue, Queue!BossStops, Queue!BossStopRejects, Queue!Restart
<1>6. Queue!ConsumerNext =>
        \/ Queue!FetchRejects \/ UNCHANGED handler
        \/ \E e \in Deliveries : Queue!DropJob(e)
  BY DEF Queue!ConsumerNext, Queue!StartQueue, Queue!ConsumeQueue,
     Queue!BossStartRejects, Queue!IteratorBreaks, Queue!IteratorFetches,
     Queue!ConsumerMoves, Queue!FetchReturnsNone, Queue!WakeUp,
     Queue!FetchReturnsJob
<1>7. CASE UNCHANGED handler
  BY <1>7 DEF HandlerKept
<1>. QED
  BY <1>1, <1>2, <1>3, <1>4, <1>5, <1>6, <1>7 DEF QueueNext

\* While a handler is free to take a job, with parallelism 1, no attempt is active.
LEMMA NoneActive ==
  ASSUME Parallelism = 1, Q!IInv, AttemptInv, NEW d \in Deliveries, Queue!TakeJob(d)
  PROVE  \A e \in Deliveries : phase[e] \notin T!Active
<1>1. runningJobs = 0 /\ Q!RunningJobsCounts
  BY DEF Queue!TakeJob, Q!IInv, Q!LoadInv, Q!TypeOK
<1>2. Q!InFlight = {}
  BY <1>1, Q!IdleWhenNoneRuns, RetilerAssumption
     DEF RetilerAssumption, Q!IsFiniteSet, IsFiniteSet
<1>. QED
  BY <1>2 DEF AttemptInv, Deliveries

\* Every step of the retiler is a step of its attempts without overlap, or none.
LEMMA TileStep ==
  ASSUME Parallelism = 1, Q!IInv, AttemptInv, [Next]_vars
  PROVE  T!Next \/ UNCHANGED tileVars
<1>1. CASE Environment
  BY <1>1 DEF Environment, Tile!Tick, T!Tick, Tile!UpdateSource, T!UpdateSource,
     Tile!source, T!source, Tile!attempt, T!attempt, Tile!loops, T!loops, T!Next
<1>2. ASSUME NEW d \in Deliveries, TakeJob(d) PROVE T!Next
  <2>1. T!Start(d)
    BY <1>2, NoneActive DEF TakeJob, Tile!Start, T!Start, Tile!Moves, T!Moves,
       Tile!source, T!source, Tile!loops, T!loops, Deliveries
  <2>. QED
    BY <2>1 DEF T!Next, T!PreProcess, Deliveries
<1>3. ASSUME NEW d \in Deliveries, ProcessTile(d) PROVE T!Next
  BY <1>3, SameTurn DEF T!Next, Deliveries
<1>4. CASE ProcessEnds
  <2>1. CASE Alive = {}
    BY <1>4, <2>1 DEF ProcessEnds
  <2>2. CASE Alive # {}
    <3>1. T!Crash(Alive)
      BY <1>4, <2>2, SameCrash DEF ProcessEnds
    <3>2. Alive \in SUBSET Queue!Deliveries
      BY DEF Alive, Deliveries
    <3>. QED
      BY <3>1, <3>2 DEF T!Next
  <2>. QED
    BY <2>1, <2>2
<1>. QED
  BY <1>1, <1>2, <1>3, <1>4 DEF Next, QueueNext, Send, ProcessTileSettles, vars

\* An attempt becomes active with its handler and is over when the handler goes on.
LEMMA AttemptStep ==
  ASSUME Q!IInv, AttemptInv, [Next]_vars
  PROVE  AttemptInv'
<1>. USE DEF AttemptInv
<1>1. CASE Environment
  BY <1>1 DEF Environment, queueVars, Tile!Tick, Tile!UpdateSource
<1>2. CASE QueueNext
  BY <1>2, HandlersKept DEF QueueNext, tileVars, HandlerKept
<1>3. CASE ProcessEnds
  BY <1>3, EndPhases
<1>4. ASSUME NEW j \in Jobs, Send(j) PROVE AttemptInv'
  BY <1>4 DEF Send, Queue!Send, tileVars
<1>5. ASSUME NEW d \in Deliveries, TakeJob(d) PROVE AttemptInv'
  <2>1. phase' = [phase EXCEPT ![d] = "started"]
    BY <1>5 DEF TakeJob, Tile!Start, Tile!Moves
  <2>2. handler' = [handler EXCEPT ![d] = "processing"]
    BY <1>5 DEF TakeJob, Queue!TakeJob
  <2>3. handler \in [Deliveries -> Queue!InFlightStates
                                    \cup {"none", "settled", "dropped", "lost"}]
    BY DEF Q!IInv, Q!TypeOK, Deliveries
  <2>. QED
    BY <2>1, <2>2, <2>3 DEF Phases, T!Active
<1>6. ASSUME NEW d \in Deliveries, ProcessTile(d) PROVE AttemptInv'
  BY <1>6, TurnPhases DEF ProcessTile, queueVars
<1>7. ASSUME NEW d \in Deliveries, ProcessTileSettles(d) PROVE AttemptInv'
  <2>1. phase' = phase /\ phase[d] \notin T!Active
    BY <1>7 DEF ProcessTileSettles, tileVars, Served, T!Active
  <2>2. \A e \in Deliveries : e # d => handler'[e] = handler[e]
    BY <1>7 DEF ProcessTileSettles, Queue!FnResolves, Queue!FnRejects,
       Queue!CatchError, Q!IInv, Q!TypeOK, Deliveries
  <2>. QED
    BY <2>1, <2>2
<1>8. CASE UNCHANGED vars
  BY <1>8 DEF vars, queueVars, tileVars
<1>. QED
  BY <1>1, <1>2, <1>3, <1>4, <1>5, <1>6, <1>7, <1>8 DEF Next

\* The two invariants together.
SequentialInv == Q!IInv /\ AttemptInv

LEMMA InitFacts == Init => SequentialInv /\ T!Init
<1>. SUFFICES ASSUME Init PROVE SequentialInv /\ T!Init
  OBVIOUS
<1>1. Queue!Init => Q!Init
  BY DEF Queue!Init, Q!Init
<1>2. Q!IInv
  BY <1>1, QueueLemmas DEF Init
<1>3. Tile!Init => T!Init
  BY DEF Tile!Init, T!Init, Tile!Versions, T!Versions, Tile!Ys, T!Ys,
     Tile!OwnKeys, T!OwnKeys, Tile!Key, T!Key, Tile!FlippedY, T!FlippedY,
     Tile!NoDetails, T!NoDetails, Tile!NothingLeft, T!NothingLeft
<1>4. AttemptInv
  BY DEF Init, Tile!Init, AttemptInv, Deliveries, Phases, T!Active
<1>. QED
  BY <1>2, <1>3, <1>4 DEF Init, SequentialInv

LEMMA AttemptsAreSequential ==
  ASSUME Parallelism = 1
  PROVE  Spec => [](SequentialInv) /\ T!Spec
<1>1. SequentialInv /\ [Next]_vars => SequentialInv'
  BY QueueStep, AttemptStep DEF SequentialInv
<1>2. SequentialInv /\ [Next]_vars => [T!Next]_(T!vars)
  BY TileStep DEF SequentialInv, tileVars, T!vars, T!source, T!attempt, T!loops
<1>. QED
  BY <1>1, <1>2, InitFacts, PTL DEF Spec, T!Spec

\* The attempts without overlap, as Retiler names them.
LEMMA SameSpec == T!Spec => ImplementsTiles
<1>. USE DEF T!Moves, Sequential!Moves, T!Blank, Sequential!Blank, T!Active,
             Sequential!Active, T!Fails, Sequential!Fails, T!Put, Sequential!Put,
             T!Key, Sequential!Key, T!FlippedY, Sequential!FlippedY, T!source,
             Sequential!source, T!attempt, Sequential!attempt, T!loops,
             Sequential!loops, T!NothingLeft, Sequential!NothingLeft, T!NoDetails,
             Sequential!NoDetails, T!Torn, Sequential!Torn, T!Ys, Sequential!Ys,
             T!FirstOf, Sequential!FirstOf
<1>1. T!Init => Sequential!Init
  BY DEF T!Init, Sequential!Init, T!Versions, Sequential!Versions, T!OwnKeys,
     Sequential!OwnKeys
<1>2. T!Tick \/ T!UpdateSource => Sequential!Next
  BY DEF T!Tick, Sequential!Tick, T!UpdateSource, Sequential!UpdateSource,
     Sequential!Next
<1>3. ASSUME NEW a \in Queue!Deliveries, T!PreProcess(a)
      PROVE  Sequential!PreProcess(a)
  BY <1>3 DEF T!PreProcess, Sequential!PreProcess, T!Start, Sequential!Start,
     T!ProcessAnyway, Sequential!ProcessAnyway, T!GetTileDetails,
     Sequential!GetTileDetails, T!PreProcessFails, Sequential!PreProcessFails,
     T!UpToDate, Sequential!UpToDate, T!Cooling, Sequential!Cooling,
     T!SkipUpToDate, Sequential!SkipUpToDate, T!SkipCooling,
     Sequential!SkipCooling, T!ProjectUpdated, Sequential!ProjectUpdated
<1>4. ASSUME NEW a \in Queue!Deliveries, T!Process(a)
      PROVE  Sequential!Process(a)
  <2>1. T!FetchAndSplit(a) \/ T!FetchOrSplitFails(a) \/ T!AllStored(a)
        \/ T!AllDeleted(a) \/ T!PostProcess(a) \/ T!PostProcessFails(a)
        => Sequential!Process(a)
    BY DEF T!FetchAndSplit, Sequential!FetchAndSplit, T!FetchOrSplitFails,
       Sequential!FetchOrSplitFails, T!AllStored, Sequential!AllStored,
       T!AllDeleted, Sequential!AllDeleted, T!AllDone, Sequential!AllDone,
       T!PostProcess, Sequential!PostProcess, T!PostProcessFails,
       Sequential!PostProcessFails, T!SetTileDetails, Sequential!SetTileDetails,
       Sequential!Process
  <2>2. ASSUME NEW p \in Providers, T!StoreSubTile(a, p) \/ T!StoreRejects(a, p)
        PROVE  Sequential!Process(a)
    BY <2>2 DEF T!StoreSubTile, Sequential!StoreSubTile, T!StoreRejects,
       Sequential!StoreRejects, Sequential!Process
  <2>3. ASSUME NEW p \in Providers, T!DeleteSubTile(a, p) \/ T!DeleteRejects(a, p)
        PROVE  Sequential!Process(a)
    BY <2>3 DEF T!DeleteSubTile, Sequential!DeleteSubTile, T!DeleteRejects,
       Sequential!DeleteRejects, T!DetermineKey, Sequential!DetermineKey,
       Sequential!Process
  <2>. QED
    BY <1>4, <2>1, <2>2, <2>3 DEF T!Process
<1>5. ASSUME NEW S, T!Crash(S) PROVE Sequential!Crash(S)
  <2>1. T!BeingWritten(S) = Sequential!BeingWritten(S)
    BY DEF T!BeingWritten, Sequential!BeingWritten
  <2>. QED
    BY <1>5, <2>1 DEF T!Crash, Sequential!Crash
<1>6. T!Next => Sequential!Next
  BY <1>2, <1>3, <1>4, <1>5 DEF T!Next, Sequential!Next
<1>7. [T!Next]_(T!vars) => [Sequential!Next]_(Sequential!vars)
  BY <1>6 DEF T!vars, Sequential!vars
<1>. QED
  BY <1>1, <1>7, PTL DEF T!Spec, Sequential!Spec, ImplementsTiles

\* A worker that takes one job at a time runs the attempts of a metatile one after
\* the other, whichever jobs ask for it and whatever expires, fails or crashes.
THEOREM KeepsAttemptsApart ==
  ASSUME Parallelism = 1
  PROVE  Spec => ImplementsTiles
BY AttemptsAreSequential, SameSpec, PTL

----------------------------------------------------------------------------
(* A completed job is rendered.                                            *)

\* The lemmas about attempts that do not overlap, under the assumption of Retiler.
LEMMA TileLemmas ==
  ASSUME T!WellConfigured
  PROVE  /\ T!Init => T!IInv
         /\ T!IInv /\ [T!Next]_(T!vars) => T!IInv'
<1>. USE RetilerAssumption
     DEF RetilerAssumption, T!Versions, T!Ys, Deliveries, Queue!Deliveries
<1>1. T!Init => T!IInv
  BY T!InitIInv
<1>2. T!IInv /\ [T!Next]_(T!vars) => T!IInv'
  BY T!NextIInv
<1>. QED
  BY <1>1, <1>2

LEMMA SourceGoesOn ==
  T!IInv /\ [T!Next]_(T!vars) =>
    /\ clock' \in Nat /\ clock' >= clock /\ version' >= version
    /\ \A v \in 1 .. version : updatedAt'[v] = updatedAt[v]
BY T!SourceFrame, RetilerAssumption
   DEF RetilerAssumption, T!Versions, T!Ys, Deliveries, Queue!Deliveries, T!IInv

LEMMA AttemptsGoOn ==
  T!IInv /\ [T!Next]_(T!vars) => \A a \in Deliveries : T!AttemptFrame(a)
BY T!AttemptFrames, RetilerAssumption
   DEF RetilerAssumption, T!Versions, T!Ys, Deliveries, Queue!Deliveries, T!IInv

\* A handler only completes its job when its attempt was served.
OutcomeInv ==
  /\ \A d \in Deliveries : handler[d] \in Completing => phase[d] \in Served
  /\ \A j \in Jobs : jobState[j] = "completed" =>
       \E d \in Deliveries : d[1] = j /\ phase[d] \in Served

\* An attempt starts after its job was sent.
SentInv ==
  /\ sentAt \in [Jobs -> Nat]
  /\ \A j \in Jobs : /\ sentAt[j] <= clock
                     /\ jobState[j] = "absent" => fetched[j] = 0
  /\ \A d \in Deliveries : phase[d] # "waiting" =>
       handler[d] # "none" /\ sentAt[d[1]] <= timestamp[d]

\* What an attempt has shown stays, and an attempt that is active now fetches its
\* map after the job of that one was sent.
Rendered(d) == phase[d] \in {"succeeded", "skipped"} /\ ~Excused(d)
ShownInv ==
  \A d \in Deliveries : Rendered(d) =>
    /\ T!ShowsSince(sentAt[d[1]])
    /\ \A a \in Deliveries : phase[a] \in T!Active => sentAt[d[1]] <= timestamp[a]

\* What a step does to a row of the job table: it is completed by a handler that
\* is completing its job.
RowKept(j) ==
  /\ jobState'[j] = "completed" =>
       \/ jobState[j] = "completed"
       \/ \E d \in Deliveries : d[1] = j /\ handler[d] = "completing"
  /\ jobState'[j] = "absent" => jobState[j] = "absent" /\ fetched'[j] = fetched[j]

LEMMA RowsKept ==
  ASSUME Q!IInv, [Next]_vars, NEW j \in Jobs
  PROVE  RowKept(j)
<1>. USE DEF Q!IInv, Q!TypeOK, RowKept
<1>1. ASSUME NEW i \in Jobs, Queue!Expire(i) PROVE RowKept(j)
  BY <1>1 DEF Queue!Expire, Queue!RowFailed, Queue!FailedState
<1>2. ASSUME NEW i \in Jobs, Queue!RowFetched(i) PROVE RowKept(j)
  BY <1>2 DEF Queue!RowFetched
<1>3. ASSUME NEW d \in Deliveries, Queue!RowCompletes(d) PROVE RowKept(j)
  BY <1>3 DEF Queue!RowCompletes, Queue!RowCompleted, Deliveries
<1>4. ASSUME NEW d \in Deliveries, Queue!RowFails(d) PROVE RowKept(j)
  BY <1>4 DEF Queue!RowFails, Queue!RowFailed, Queue!FailedState
<1>5. ASSUME NEW i \in Jobs, Send(i) PROVE RowKept(j)
  BY <1>5 DEF Send, Queue!Send
<1>6. CASE UNCHANGED <<jobState, fetched>>
  BY <1>6
<1>7. Queue!ConsumerNext =>
        UNCHANGED <<jobState, fetched>> \/ \E i \in Jobs : Queue!RowFetched(i)
  BY DEF Queue!ConsumerNext, Queue!StartQueue, Queue!ConsumeQueue,
     Queue!BossStartRejects, Queue!IteratorBreaks, Queue!IteratorFetches,
     Queue!ConsumerMoves, Queue!FetchReturnsNone, Queue!WakeUp,
     Queue!FetchReturnsJob, Queue!FetchRejects, Queue!Available, Queue!DropJob
<1>8. Queue!StopNext \/ Queue!Restart \/ Queue!EmitJobFinished =>
        UNCHANGED <<jobState, fetched>>
  BY DEF Queue!StopNext, Queue!Signal, Queue!ShutDown, Queue!StopQueue,
     Queue!BossStops, Queue!BossStopRejects, Queue!Restart,
     Queue!EmitJobFinished
<1>9. ASSUME NEW d \in Deliveries,
              \/ Queue!CompleteResolves(d) \/ Queue!CompleteRejects(d)
              \/ Queue!FailResolves(d)
       PROVE  UNCHANGED <<jobState, fetched>>
  BY <1>9 DEF Queue!CompleteResolves, Queue!CompleteRejects, Queue!FailResolves
<1>10. CASE QueueNext
  BY <1>1, <1>2, <1>3, <1>4, <1>6, <1>7, <1>8, <1>9, <1>10
     DEF QueueNext, Queue!HandlerNext, Deliveries
<1>11. Environment \/ ProcessEnds => UNCHANGED <<jobState, fetched>>
  BY DEF Environment, queueVars, ProcessEnds, Queue!EndNext, Queue!Exit,
     Queue!Crash, Queue!FailRejects
<1>12. ASSUME NEW d \in Deliveries,
              TakeJob(d) \/ ProcessTile(d) \/ ProcessTileSettles(d)
       PROVE  UNCHANGED <<jobState, fetched>>
  BY <1>12 DEF TakeJob, Queue!TakeJob, ProcessTile, queueVars,
     ProcessTileSettles, Queue!FnResolves, Queue!FnRejects
<1>13. UNCHANGED vars => UNCHANGED <<jobState, fetched>>
  BY DEF vars, queueVars
<1>. QED
  BY <1>5, <1>6, <1>10, <1>11, <1>12, <1>13 DEF Next

\* What a step does to a handler and to the attempt it runs.
DeliveryKept(d) ==
  /\ handler'[d] \in Completing =>
       handler[d] \in Completing \/ (phase[d] \in Served /\ phase'[d] = phase[d])
  /\ handler[d] # "none" => handler'[d] # "none"
  /\ phase[d] \in Served => phase'[d] = phase[d]
  /\ phase[d] = "waiting" /\ phase'[d] # "waiting" => TakeJob(d)
  /\ TakeJob(d) => handler'[d] = "processing"

LEMMA DeliveriesKept ==
  ASSUME Q!IInv, AttemptInv, [Next]_vars, NEW d \in Deliveries
  PROVE  DeliveryKept(d)
<1>. USE DEF DeliveryKept, Completing
<1>0. /\ handler \in [Deliveries -> Queue!InFlightStates
                                     \cup {"none", "settled", "dropped", "lost"}]
      /\ phase \in [Deliveries -> Phases]
  BY DEF Q!IInv, Q!TypeOK, AttemptInv, Deliveries
<1>1. TakeJob(d) => handler'[d] = "processing" /\ phase[d] = "waiting"
  BY <1>0 DEF TakeJob, Queue!TakeJob, Tile!Start, Tile!Moves
<1>2. CASE Environment
  BY <1>1, <1>2 DEF Environment, queueVars, Tile!Tick, Tile!UpdateSource
<1>3. CASE QueueNext
  BY <1>1, <1>3, HandlersKept DEF QueueNext, tileVars, HandlerKept
<1>4. CASE ProcessEnds
  <2>1. handler'[d] \in {"lost", handler[d]}
    BY <1>4 DEF ProcessEnds, Queue!EndNext, Queue!Exit, Queue!Crash,
       Queue!FailRejects, Deliveries
  <2>2. phase[d] = "waiting" => phase'[d] = "waiting"
    BY <1>4 DEF ProcessEnds, Alive, tileVars, Tile!Crash, Tile!Active,
       Deliveries
  <2>. QED
    BY <1>1, <1>4, <2>1, <2>2, EndPhases, <1>0
<1>5. ASSUME NEW j \in Jobs, Send(j) PROVE DeliveryKept(d)
  BY <1>1, <1>5 DEF Send, Queue!Send, tileVars
<1>6. ASSUME NEW e \in Deliveries, TakeJob(e) PROVE DeliveryKept(d)
  BY <1>0, <1>1, <1>6 DEF TakeJob, Queue!TakeJob, Tile!Start, Tile!Moves, Served
<1>7. ASSUME NEW e \in Deliveries, ProcessTile(e) PROVE DeliveryKept(d)
  <2>1. handler' = handler /\ phase[e] # "waiting"
    BY <1>7 DEF ProcessTile, queueVars
  <2>2. e # d => phase'[d] = phase[d]
    BY <1>0, <1>7, SameTurn
       DEF T!PreProcess, T!Process, T!Start, T!ProcessAnyway, T!GetTileDetails,
           T!PreProcessFails, T!SkipUpToDate, T!SkipCooling, T!ProjectUpdated,
           T!FetchAndSplit, T!FetchOrSplitFails, T!StoreSubTile, T!StoreRejects,
           T!AllStored, T!DeleteSubTile, T!DeleteRejects, T!AllDeleted,
           T!PostProcess, T!PostProcessFails, T!Moves, T!Fails
  <2>. QED
    BY <1>0, <1>1, <1>7, <2>1, <2>2, TurnPhases
<1>8. ASSUME NEW e \in Deliveries, ProcessTileSettles(e) PROVE DeliveryKept(d)
  BY <1>0, <1>1, <1>8
     DEF ProcessTileSettles, tileVars, Queue!FnResolves, Queue!FnRejects,
         Queue!CatchError
<1>9. CASE UNCHANGED vars
  BY <1>1, <1>9 DEF vars, queueVars, tileVars
<1>. QED
  BY <1>2, <1>3, <1>4, <1>5, <1>6, <1>7, <1>8, <1>9 DEF Next

LEMMA OutcomeStep ==
  ASSUME Q!IInv, AttemptInv, OutcomeInv, [Next]_vars
  PROVE  OutcomeInv'
<1>1. ASSUME NEW d \in Deliveries, handler'[d] \in Completing
      PROVE  phase'[d] \in Served
  BY <1>1, DeliveriesKept DEF DeliveryKept, OutcomeInv
<1>2. ASSUME NEW j \in Jobs, jobState'[j] = "completed"
      PROVE  \E d \in Deliveries : d[1] = j /\ phase'[d] \in Served
  <2>1. PICK d \in Deliveries : d[1] = j /\ phase[d] \in Served
    BY <1>2, RowsKept DEF RowKept, OutcomeInv, Completing
  <2>. QED
    BY <2>1, DeliveriesKept DEF DeliveryKept
<1>. QED
  BY <1>1, <1>2 DEF OutcomeInv, Served, Deliveries

\* A job is sent once, before any of its deliveries begins.
LEMMA SentOnce ==
  ASSUME Q!IInv, T!IInv, SentInv, [Next]_vars
  PROVE  /\ sentAt' \in [Jobs -> Nat]
         /\ \A j \in Jobs : sentAt'[j] \in {sentAt[j], clock}
         /\ \A d \in Deliveries : phase[d] # "waiting" => sentAt'[d[1]] = sentAt[d[1]]
<1>. USE DEF T!IInv, T!TypeOK
<1>1. ASSUME NEW d \in Deliveries, phase[d] # "waiting"
      PROVE  jobState[d[1]] # "absent"
  <2>1. PICK j \in Jobs, n \in 1 .. RetryLimit + 1 : d = <<j, n>>
    BY DEF Deliveries
  <2>2. handler[d] # "none"
    BY <1>1 DEF SentInv
  <2>3. n <= fetched[j]
    <3>1. n > fetched[j] => handler[<<j, n>>] = "none"
      BY DEF Q!IInv, Q!DeliveryInv
    <3>2. fetched[j] \in Nat /\ n \in Nat
      BY RetilerAssumption DEF RetilerAssumption, Q!IInv, Q!TypeOK
    <3>. QED
      BY <2>1, <2>2, <3>1, <3>2
  <2>. QED
    BY <2>1, <2>3 DEF SentInv
<1>2. \A d \in Deliveries : d[1] \in Jobs
  BY DEF Deliveries
<1>3. ASSUME NEW i \in Jobs, Send(i)
      PROVE  /\ sentAt' \in [Jobs -> Nat]
             /\ \A j \in Jobs : sentAt'[j] \in {sentAt[j], clock}
             /\ \A d \in Deliveries :
                  phase[d] # "waiting" => sentAt'[d[1]] = sentAt[d[1]]
  <2>1. jobState[i] = "absent" /\ sentAt' = [sentAt EXCEPT ![i] = clock]
    BY <1>3 DEF Send, Queue!Send
  <2>2. sentAt \in [Jobs -> Nat] /\ clock \in Nat
    BY DEF SentInv
  <2>. QED
    BY <1>1, <1>2, <2>1, <2>2
<1>4. CASE UNCHANGED sentAt
  BY <1>2, <1>4 DEF SentInv
<1>. QED
  BY <1>3, <1>4 DEF Next, Environment, QueueNext, ProcessEnds, TakeJob,
     ProcessTile, ProcessTileSettles, vars

\* So an attempt starts after its job was sent.
LEMMA SentStep ==
  ASSUME Q!IInv, AttemptInv, T!IInv, SentInv, [Next]_vars, [T!Next]_(T!vars)
  PROVE  SentInv'
<1>1. clock' >= clock /\ clock' \in Nat
  BY SourceGoesOn
<1>2. ASSUME NEW j \in Jobs
      PROVE  sentAt'[j] <= clock' /\ (jobState'[j] = "absent" => fetched'[j] = 0)
  <2>1. clock \in Nat /\ sentAt[j] \in Nat /\ sentAt[j] <= clock
    BY DEF SentInv, T!IInv, T!TypeOK
  <2>2. sentAt'[j] \in {sentAt[j], clock}
    BY SentOnce
  <2>3. jobState'[j] = "absent" => fetched'[j] = 0
    BY RowsKept DEF SentInv, RowKept
  <2>. QED
    BY <1>1, <2>1, <2>2, <2>3
<1>3. ASSUME NEW d \in Deliveries, phase'[d] # "waiting"
      PROVE  handler'[d] # "none" /\ sentAt'[d[1]] <= timestamp'[d]
  <2>1. CASE phase[d] = "waiting"
    <3>1. TakeJob(d)
      BY <1>3, <2>1, DeliveriesKept DEF DeliveryKept
    <3>2. timestamp'[d] = clock /\ UNCHANGED sentAt
      BY <3>1 DEF TakeJob, Tile!Start, Deliveries, T!IInv, T!TypeOK
    <3>. QED
      BY <3>1, <3>2, DeliveriesKept DEF DeliveryKept, SentInv, Deliveries
  <2>2. CASE phase[d] # "waiting"
    <3>1. timestamp'[d] = timestamp[d]
      BY <2>2, AttemptsGoOn DEF T!AttemptFrame, T!Start, T!Moves
    <3>. QED
      BY <2>2, <3>1, SentOnce, DeliveriesKept DEF DeliveryKept, SentInv
  <2>. QED
    BY <2>1, <2>2
<1>. QED
  BY <1>2, <1>3, SentOnce DEF SentInv, Deliveries

\* What covers a later second covers an earlier one.
LEMMA EarlierIsShown ==
  ASSUME T!IInv, NEW t \in Nat, NEW u \in Nat, u <= t
  PROVE  /\ \A w \in 0 .. MaxVersion : T!Covers(w, t) => T!Covers(w, u)
         /\ T!ShowsSince(t) => T!ShowsSince(u)
<1>1. \A v \in 1 .. version : updatedAt[v] \in Nat
  BY RetilerAssumption DEF RetilerAssumption, T!IInv, T!TypeOK, T!Versions
<1>2. \A w \in 0 .. MaxVersion : T!Covers(w, t) => T!Covers(w, u)
  BY <1>1 DEF T!Covers
<1>3. 1 .. version \subseteq 0 .. MaxVersion
  BY RetilerAssumption DEF RetilerAssumption, T!IInv, T!TypeOK, T!Versions
<1>. QED
  BY <1>2, <1>3 DEF T!ShowsSince, T!Shows

\* What is shown stays shown, where every active attempt fetches its map later.
LEMMA StaysShown ==
  ASSUME T!IInv, AtomicWrites, [T!Next]_(T!vars),
         NEW t \in Nat, t <= clock, T!ShowsSince(t),
         \A a \in Deliveries : phase[a] \in T!Active => t <= timestamp[a]
  PROVE  T!ShowsSince(t)'
<1>1. ASSUME NEW a \in Deliveries, phase[a] \in T!Writing
      PROVE  T!Covers(rendered[a], t)
  <2>1. T!Covers(rendered[a], timestamp[a])
    BY <1>1 DEF T!IInv, T!RenderInv, T!Renders, Deliveries
  <2>2. t <= timestamp[a] /\ timestamp[a] \in Nat /\ rendered[a] \in 0 .. MaxVersion
    BY <1>1 DEF T!Writing, T!Active, T!IInv, T!TypeOK, Deliveries
  <2>. QED
    BY <2>1, <2>2, EarlierIsShown
<1>. QED
  BY <1>1, T!ShownStep, RetilerAssumption
     DEF RetilerAssumption, T!Versions, T!Ys, Deliveries, T!IInv

\* An attempt that is served, unless it is excused, shows what was updated before
\* it started.
LEMMA ServedShows ==
  ASSUME T!IInv, NEW d \in Deliveries, NEW t \in Nat, t <= timestamp[d],
         \/ T!PostProcess(d) \/ T!PostProcessFails(d)
         \/ T!SkipUpToDate(d) /\ seen[d] > updatedAt[version]
  PROVE  T!ShowsSince(t)'
<1>1. T!ShowsSince(t)
  <2>1. CASE T!PostProcess(d) \/ T!PostProcessFails(d)
    <3>1. T!ShowsSince(timestamp[d])
      BY <2>1, T!PostingShows, RetilerAssumption DEF RetilerAssumption,
         T!Versions, T!Ys, Deliveries, T!IInv, T!PostProcess,
         T!PostProcessFails, T!Moves
    <3>2. timestamp[d] \in Nat
      BY DEF T!IInv, T!TypeOK, Deliveries
    <3>. QED
      BY <3>1, <3>2, EarlierIsShown
  <2>2. CASE T!SkipUpToDate(d) /\ seen[d] > updatedAt[version]
    <3>1. T!Current
      BY <2>2, T!SkipIsCurrent, RetilerAssumption
         DEF RetilerAssumption, T!Versions, T!Ys, Deliveries
    <3>2. version \in 1 .. version /\ T!Covers(version, t)
      BY DEF T!IInv, T!TypeOK, T!Versions, T!Covers
    <3>. QED
      BY <3>1, <3>2 DEF T!Current, T!ShowsSince, T!Shows
  <2>. QED
    BY <2>1, <2>2
<1>2. UNCHANGED <<version, updatedAt, image>>
  BY DEF T!PostProcess, T!PostProcessFails, T!SkipUpToDate, T!source
<1>. QED
  BY <1>1, <1>2 DEF T!ShowsSince, T!Shows, T!Covers, T!Rendering, T!Blank

\* Every step keeps what the served attempts have shown.
LEMMA RenderedStep ==
  ASSUME AtomicWrites, Q!IInv, AttemptInv, T!IInv, SentInv, ShownInv,
         [Next]_vars, [T!Next]_(T!vars), T!IInv'
  PROVE  ShownInv'
<1>. SUFFICES ASSUME NEW d \in Deliveries, Rendered(d)'
              PROVE  /\ T!ShowsSince(sentAt[d[1]])'
                     /\ \A a \in Deliveries :
                          phase'[a] \in T!Active => sentAt'[d[1]] <= timestamp'[a]
  BY DEF ShownInv, Deliveries, T!Active
<1>0. T!AttemptFrame(d) /\ \A a \in Deliveries : T!AttemptFrame(a)
  BY AttemptsGoOn
<1>1. /\ phase'[d] \in {"succeeded", "skipped"}
      /\ phase'[d] = "skipped" =>
           \A v \in 1 .. version' : updatedAt'[v] # seen'[d]
  BY DEF Rendered, Excused
<1>2. phase[d] = phase'[d] \/ T!PostProcess(d) \/ T!PostProcessFails(d)
      \/ T!SkipUpToDate(d)
  BY <1>0, <1>1 DEF T!AttemptFrame
<1>3. phase[d] \notin {"waiting", "started"}
  BY <1>1, <1>2 DEF T!PostProcess, T!PostProcessFails, T!SkipUpToDate, T!Moves
<1>4. PICK t \in Nat : t = sentAt[d[1]] /\ t <= timestamp[d] /\ t <= clock
  <2>1. sentAt[d[1]] \in Nat /\ sentAt[d[1]] <= clock
    BY DEF SentInv, Deliveries
  <2>. QED
    BY <1>3, <2>1 DEF SentInv
<1>5. sentAt'[d[1]] = t
  BY <1>3, <1>4, SentOnce
<1>6. phase[d] = "skipped" \/ T!SkipUpToDate(d) =>
        \A v \in 1 .. version : updatedAt[v] # seen[d]
  <2>0. phase \in [Deliveries -> Phases]
    BY DEF AttemptInv
  <2>1. phase[d] = "skipped" \/ T!SkipUpToDate(d) => phase'[d] = "skipped"
    <3>1. T!PostProcess(d) \/ T!PostProcessFails(d) => phase[d] = "posting"
      BY DEF T!PostProcess, T!PostProcessFails, T!Moves
    <3>2. T!SkipUpToDate(d) => phase'[d] = "skipped"
      BY <2>0 DEF T!SkipUpToDate, T!Moves
    <3>. QED
      BY <1>2, <3>1, <3>2
  <2>2. seen'[d] = seen[d]
    BY <1>0, <1>3 DEF T!AttemptFrame
  <2>3. \A v \in 1 .. version : v \in 1 .. version' /\ updatedAt'[v] = updatedAt[v]
    <3>1. version \in Nat /\ version' \in Nat
      BY RetilerAssumption DEF RetilerAssumption, T!IInv, T!TypeOK, T!Versions
    <3>. QED
      BY <3>1, SourceGoesOn
  <2>. QED
    BY <1>1, <2>1, <2>2, <2>3
<1>7. CASE phase[d] = phase'[d]
  <2>1. Rendered(d)
    BY <1>1, <1>6, <1>7 DEF Rendered, Excused
  <2>2. /\ T!ShowsSince(t)
        /\ \A a \in Deliveries : phase[a] \in T!Active => t <= timestamp[a]
    BY <1>4, <2>1 DEF ShownInv
  <2>3. T!ShowsSince(t)'
    BY <1>4, <2>2, StaysShown
  <2>4. ASSUME NEW a \in Deliveries, phase'[a] \in T!Active PROVE t <= timestamp'[a]
    <3>1. T!Start(a) => timestamp'[a] = clock
      BY DEF T!Start, T!IInv, T!TypeOK, Deliveries
    <3>2. ~T!Start(a) => phase[a] \in T!Active /\ timestamp'[a] = timestamp[a]
      BY <1>0, <2>4 DEF T!AttemptFrame
    <3>. QED
      BY <1>4, <2>2, <3>1, <3>2
  <2>. QED
    BY <1>5, <2>3, <2>4 DEF T!ShowsSince, T!Shows, T!Covers, T!Rendering,
       T!Blank
<1>8. CASE phase[d] # phase'[d]
  <2>1. phase[d] \in T!Active /\ phase'[d] \notin T!Active
    BY <1>1, <1>2, <1>8 DEF T!PostProcess, T!PostProcessFails, T!SkipUpToDate,
       T!Moves, T!Active
  <2>2. T!SkipUpToDate(d) => seen[d] > updatedAt[version]
    <3>1. /\ version \in 1 .. version /\ updatedAt[version] \in Nat
          /\ seen[d] \in Nat \cup {-1}
      BY RetilerAssumption DEF RetilerAssumption, T!IInv, T!TypeOK, T!Versions,
         T!NoDetails, Deliveries
    <3>2. T!SkipUpToDate(d) => seen[d] >= updatedAt[version]
      BY DEF T!SkipUpToDate, T!UpToDate
    <3>. QED
      BY <1>6, <3>1, <3>2
  <2>3. T!ShowsSince(t)'
    BY <1>2, <1>4, <1>8, <2>2, ServedShows
  <2>4. ASSUME NEW a \in Deliveries, phase'[a] \in T!Active PROVE t <= timestamp'[a]
    <3>1. phase[a] \notin T!Active \/ a = d
      BY <2>1 DEF T!IInv, T!ExclusionInv, Deliveries
    <3>2. T!Start(a)
      BY <1>0, <2>1, <2>4, <3>1 DEF T!AttemptFrame
    <3>. QED
      BY <1>4, <3>2 DEF T!Start, T!IInv, T!TypeOK, Deliveries
  <2>. QED
    BY <1>5, <2>3, <2>4 DEF T!ShowsSince, T!Shows, T!Covers, T!Rendering,
       T!Blank
<1>. QED
  BY <1>7, <1>8

\* All that the retiler keeps, where its attempts are sequential and its tiles are
\* well configured.
IInv == SequentialInv /\ T!IInv /\ OutcomeInv /\ SentInv /\ ShownInv

LEMMA InitIInv ==
  ASSUME T!WellConfigured
  PROVE  Init => IInv
<1>. SUFFICES ASSUME Init PROVE IInv
  OBVIOUS
<1>1. SequentialInv /\ T!IInv
  BY InitFacts, TileLemmas
<1>2. OutcomeInv
  BY DEF Init, Queue!Init, OutcomeInv, Completing, Deliveries
<1>3. SentInv
  BY DEF Init, Queue!Init, Tile!Init, SentInv, Deliveries
<1>4. ShownInv
  BY DEF Init, Tile!Init, ShownInv, Rendered, Deliveries
<1>. QED
  BY <1>1, <1>2, <1>3, <1>4 DEF IInv

LEMMA NextIInv ==
  ASSUME Parallelism = 1, T!WellConfigured, IInv, [Next]_vars
  PROVE  IInv'
<1>. USE DEF IInv, SequentialInv
<1>1. [T!Next]_(T!vars)
  BY TileStep DEF tileVars, T!vars, T!source, T!attempt, T!loops
<1>2. SequentialInv' /\ T!IInv'
  BY <1>1, QueueStep, AttemptStep, TileLemmas
<1>3. OutcomeInv' /\ SentInv'
  BY <1>1, OutcomeStep, SentStep
<1>4. ShownInv'
  BY <1>1, <1>2, RenderedStep DEF T!WellConfigured
<1>. QED
  BY <1>2, <1>3, <1>4

\* The updates that were imported before a job was sent are shown by every provider
\* as soon as the queue records the job as completed, and from then on, unless one
\* of its deliveries was excused: whatever expires, crashes, fails or is retried.
THEOREM CompletedMeansFresh ==
  ASSUME Parallelism = 1, Sequential!WellConfigured
  PROVE  Spec => []CompletedIsFresh
<1>1. T!WellConfigured
  BY DEF T!WellConfigured, Sequential!WellConfigured, T!WritersApart,
     Sequential!WritersApart, T!BlanksUnshared, Sequential!BlanksUnshared,
     T!SoleProvider, Sequential!SoleProvider
<1>2. Init => IInv
  BY <1>1, InitIInv
<1>3. IInv /\ [Next]_vars => IInv'
  BY <1>1, NextIInv
<1>4. IInv => CompletedIsFresh
  <2>. SUFFICES ASSUME IInv, NEW j \in Jobs, jobState[j] = "completed",
                       \A d \in Deliveries : d[1] = j => ~Excused(d),
                       NEW p \in Providers, NEW y \in Rows
                PROVE  Tile!Shows(p, y, sentAt[j])
    BY DEF CompletedIsFresh
  <2>1. PICK d \in Deliveries : d[1] = j /\ phase[d] \in Served
    BY DEF IInv, OutcomeInv
  <2>2. Rendered(d)
    BY <2>1 DEF Rendered, Served, Excused
  <2>3. T!Shows(p, y, sentAt[j])
    BY <2>1, <2>2 DEF IInv, ShownInv, T!ShowsSince
  <2>. QED
    BY <2>3 DEF T!Shows, Tile!Shows, T!Covers, Tile!Covers, T!Key, Tile!Key,
       T!FlippedY, Tile!FlippedY, T!Rendering, Tile!Rendering, T!Blank,
       Tile!Blank
<1>. QED
  BY <1>2, <1>3, <1>4, PTL DEF Spec

\* An older rendering never replaces a newer one, whichever job of the metatile and
\* whichever delivery of it rendered them.
THEOREM NewerIsNeverReplaced ==
  ASSUME Parallelism = 1, Sequential!WellConfigured
  PROVE  Spec => []Tile!NewerIsKept
<1>1. T!WellConfigured
  BY DEF T!WellConfigured, Sequential!WellConfigured, T!WritersApart,
     Sequential!WritersApart, T!BlanksUnshared, Sequential!BlanksUnshared,
     T!SoleProvider, Sequential!SoleProvider
<1>2. T!Spec => []T!NewerIsKept
  BY <1>1, T!NewerIsNeverReplaced, RetilerAssumption
     DEF RetilerAssumption, T!Versions, T!Ys, Deliveries
<1>3. T!NewerIsKept => Tile!NewerIsKept
  BY DEF T!NewerIsKept, Tile!NewerIsKept, T!Key, Tile!Key, T!FlippedY,
     Tile!FlippedY
<1>. QED
  BY <1>2, <1>3, AttemptsAreSequential, PTL

\* The detiler is only told of whole renderings, also where files may be torn.
THEOREM DetilerHearsOfWhole ==
  ASSUME Parallelism = 1, Sequential!WritersApart, Tile!BlanksUnshared
  PROVE  Spec => []Tile!RenderedIsStored
<1>1. T!WritersApart /\ T!BlanksUnshared
  BY DEF T!WritersApart, Sequential!WritersApart, T!BlanksUnshared,
     Tile!BlanksUnshared, T!SoleProvider, Sequential!SoleProvider,
     Tile!SoleProvider
<1>2. T!Spec => []T!RenderedIsStored
  BY <1>1, T!DetilerHearsOfWhole, RetilerAssumption
     DEF RetilerAssumption, T!Versions, T!Ys, Deliveries
<1>3. T!RenderedIsStored => Tile!RenderedIsStored
  BY DEF T!RenderedIsStored, Tile!RenderedIsStored, T!Key, Tile!Key, T!FlippedY,
     Tile!FlippedY, T!Rendering, Tile!Rendering, T!Blank, Tile!Blank
<1>. QED
  BY <1>2, <1>3, AttemptsAreSequential, PTL

----------------------------------------------------------------------------
(* Attempts that may overlap: any parallelism.                             *)

\* A step of the retiler is one of its attempts, or none of theirs.
LEMMA AnyTileStep == ASSUME [Next]_vars PROVE Tile!Next \/ UNCHANGED tileVars
<1>1. CASE Environment
  BY <1>1 DEF Environment, Tile!Next
<1>2. ASSUME NEW d \in Deliveries, TakeJob(d) \/ ProcessTile(d) PROVE Tile!Next
  BY <1>2 DEF TakeJob, ProcessTile, Tile!PreProcess, Tile!Next, Deliveries
<1>3. CASE ProcessEnds
  <2>1. Alive \in SUBSET Queue!Deliveries
    BY DEF Alive, Deliveries
  <2>. QED
    BY <1>3, <2>1 DEF ProcessEnds, Tile!Next
<1>. QED
  BY <1>1, <1>2, <1>3 DEF Next, QueueNext, Send, ProcessTileSettles, vars

\* The attempts that the queue runs are attempts of TileProcessor that may overlap.
THEOREM RunsAttempts == Spec => Tile!Spec
<1>1. [Next]_vars => [Tile!Next]_(Tile!vars)
  BY AnyTileStep DEF tileVars, Tile!vars, Tile!source, Tile!attempt, Tile!loops
<1>2. Init => Tile!Init
  BY DEF Init
<1>. QED
  BY <1>1, <1>2, PTL DEF Spec, Tile!Spec

\* The tiles of a retiler do not disturb its queue.
THEOREM KeepsQueue == Spec => Queue!Spec
<1>1. ASSUME [Next]_vars PROVE Queue!Next \/ UNCHANGED queueVars
  <2>. USE DEF Deliveries
  <2>1. CASE QueueNext
    BY <2>1 DEF QueueNext, Queue!Next, Queue!TableNext
  <2>2. CASE ProcessEnds
    BY <2>2 DEF ProcessEnds, Queue!Next
  <2>3. ASSUME NEW j \in Jobs, Send(j) PROVE Queue!Next
    BY <2>3 DEF Send, Queue!Next, Queue!TableNext
  <2>4. ASSUME NEW d \in Deliveries, TakeJob(d) \/ ProcessTileSettles(d)
        PROVE  Queue!Next
    BY <2>4 DEF TakeJob, ProcessTileSettles, Queue!Next, Queue!FunctionNext
  <2>5. ASSUME NEW d \in Deliveries, ProcessTile(d) PROVE UNCHANGED queueVars
    BY <2>5 DEF ProcessTile
  <2>. QED
    BY <1>1, <2>1, <2>2, <2>3, <2>4, <2>5 DEF Next, Environment, vars
<1>2. Init => Queue!Init
  BY DEF Init
<1>3. Queue!Next \/ UNCHANGED queueVars => [Queue!Next]_(Queue!vars)
  BY DEF queueVars
<1>. QED
  BY <1>1, <1>2, <1>3, PTL DEF Spec, Queue!Spec

\* So with its tiles too the queue implements the worker of GracefulWorker.
THEOREM RetilerIsGraceful == Spec => Queue!ImplementsWorker
<1>1. Q!Init /\ [][Q!Next]_(Q!vars) => Q!ImplementsWorker
  BY Q!QueueImplementsWorker, RetilerAssumption
     DEF RetilerAssumption, Q!IsFiniteSet, IsFiniteSet, Q!Spec
<1>2. Queue!Init => Q!Init
  BY DEF Queue!Init, Q!Init
<1>3. Queue!Next => Q!Next
  BY SameTableNext, SameConsumerNext, SameFunctionNext, SameHandlerNext,
     SameStopNext, SameEndNext DEF Queue!Next
<1>. USE DEF Q!Phase, Queue!Phase
<1>4. Q!Worker!Init => Queue!Worker!Init
  BY DEF Q!Worker!Init, Queue!Worker!Init
<1>5. Q!Worker!Next => Queue!Worker!Next
  BY DEF Q!Worker!Next, Queue!Worker!Next, Q!Worker!Open, Queue!Worker!Open,
     Q!Worker!Begin, Queue!Worker!Begin, Q!Worker!End, Queue!Worker!End,
     Q!Worker!Close, Queue!Worker!Close, Q!Worker!Shut, Queue!Worker!Shut,
     Q!Worker!Die, Queue!Worker!Die
<1>6. Q!Worker!Spec => Queue!Worker!Spec
  BY <1>4, <1>5, PTL DEF Q!Worker!Spec, Queue!Worker!Spec
<1>. QED
  BY <1>1, <1>2, <1>3, <1>6, KeepsQueue, PTL
     DEF Queue!Spec, Queue!ImplementsWorker, Q!ImplementsWorker

\* And those of TileSteadyProofs.
LEMMA SameTiles == Tile!Spec => O!Spec
<1>. USE DEF Tile!Moves, O!Moves, Tile!Blank, O!Blank, Tile!Active,
             O!Active, Tile!Fails, O!Fails, Tile!Put, O!Put,
             Tile!Key, O!Key, Tile!FlippedY, O!FlippedY, Tile!source,
             O!source, Tile!attempt, O!attempt, Tile!loops,
             O!loops, Tile!NothingLeft, O!NothingLeft, Tile!NoDetails,
             O!NoDetails, Tile!Torn, O!Torn, Tile!Ys, O!Ys,
             Tile!FirstOf, O!FirstOf
<1>1. Tile!Init => O!Init
  BY DEF Tile!Init, O!Init, Tile!Versions, O!Versions, Tile!OwnKeys,
     O!OwnKeys
<1>2. Tile!Tick \/ Tile!UpdateSource => O!Next
  BY DEF Tile!Tick, O!Tick, Tile!UpdateSource, O!UpdateSource,
     O!Next
<1>3. ASSUME NEW a \in Queue!Deliveries, Tile!PreProcess(a)
      PROVE  O!PreProcess(a)
  BY <1>3 DEF Tile!PreProcess, O!PreProcess, Tile!Start, O!Start,
     Tile!ProcessAnyway, O!ProcessAnyway, Tile!GetTileDetails,
     O!GetTileDetails, Tile!PreProcessFails, O!PreProcessFails,
     Tile!UpToDate, O!UpToDate, Tile!Cooling, O!Cooling,
     Tile!SkipUpToDate, O!SkipUpToDate, Tile!SkipCooling,
     O!SkipCooling, Tile!ProjectUpdated, O!ProjectUpdated
<1>4. ASSUME NEW a \in Queue!Deliveries, Tile!Process(a)
      PROVE  O!Process(a)
  <2>1. Tile!FetchAndSplit(a) \/ Tile!FetchOrSplitFails(a) \/ Tile!AllStored(a)
        \/ Tile!AllDeleted(a) \/ Tile!PostProcess(a) \/ Tile!PostProcessFails(a)
        => O!Process(a)
    BY DEF Tile!FetchAndSplit, O!FetchAndSplit, Tile!FetchOrSplitFails,
       O!FetchOrSplitFails, Tile!AllStored, O!AllStored,
       Tile!AllDeleted, O!AllDeleted, Tile!AllDone, O!AllDone,
       Tile!PostProcess, O!PostProcess, Tile!PostProcessFails,
       O!PostProcessFails, Tile!SetTileDetails, O!SetTileDetails,
       O!Process
  <2>2. ASSUME NEW p \in Providers, Tile!StoreSubTile(a, p) \/ Tile!StoreRejects(a, p)
        PROVE  O!Process(a)
    BY <2>2 DEF Tile!StoreSubTile, O!StoreSubTile, Tile!StoreRejects,
       O!StoreRejects, O!Process
  <2>3. ASSUME NEW p \in Providers, Tile!DeleteSubTile(a, p) \/ Tile!DeleteRejects(a, p)
        PROVE  O!Process(a)
    BY <2>3 DEF Tile!DeleteSubTile, O!DeleteSubTile, Tile!DeleteRejects,
       O!DeleteRejects, Tile!DetermineKey, O!DetermineKey,
       O!Process
  <2>. QED
    BY <1>4, <2>1, <2>2, <2>3 DEF Tile!Process
<1>5. ASSUME NEW S, Tile!Crash(S) PROVE O!Crash(S)
  <2>1. Tile!BeingWritten(S) = O!BeingWritten(S)
    BY DEF Tile!BeingWritten, O!BeingWritten
  <2>. QED
    BY <1>5, <2>1 DEF Tile!Crash, O!Crash
<1>6. Tile!Next => O!Next
  BY <1>2, <1>3, <1>4, <1>5 DEF Tile!Next, O!Next
<1>7. [Tile!Next]_(Tile!vars) => [O!Next]_(O!vars)
  BY <1>6 DEF Tile!vars, O!vars
<1>. QED
  BY <1>1, <1>7, PTL DEF Tile!Spec, O!Spec

\* With any number of jobs at a time, no key of another metatile is ever written, torn
\* or deleted, unless provider loops share the blank tile objects they flip.
THEOREM NeighboursAreSafe ==
  ASSUME Tile!BlanksUnshared
  PROVE  Spec => []Tile!NeighboursUntouched
<1>1. O!BlanksUnshared
  BY DEF Tile!BlanksUnshared, O!BlanksUnshared, Tile!SoleProvider,
     O!SoleProvider
<1>2. O!Spec => []O!NeighboursUntouched
  BY <1>1, O!NeighboursAreSafe, RetilerAssumption
     DEF RetilerAssumption, O!Versions, O!Ys, Deliveries
<1>3. O!NeighboursUntouched => Tile!NeighboursUntouched
  BY DEF O!NeighboursUntouched, Tile!NeighboursUntouched, O!Ys, Tile!Ys,
     O!OwnKeys, Tile!OwnKeys, O!Key, Tile!Key, O!FlippedY, Tile!FlippedY
<1>. QED
  BY <1>2, <1>3, RunsAttempts, SameTiles, PTL

\* A handler that completes its job has served it, with any parallelism.
LEMMA ServedInvariance == Spec => [](SequentialInv /\ OutcomeInv)
<1>1. SequentialInv /\ OutcomeInv /\ [Next]_vars => SequentialInv' /\ OutcomeInv'
  BY QueueStep, AttemptStep, OutcomeStep DEF SequentialInv
<1>2. Init => OutcomeInv
  BY DEF Init, Queue!Init, OutcomeInv, Completing, Deliveries
<1>. QED
  BY <1>1, <1>2, InitFacts, PTL DEF Spec

\* While the source does not change, the attempts of a metatile may overlap, their
\* storage may fail and their loops outlive them: once a job is recorded as completed
\* the metatile is stored at every provider, also if its delivery was excused.
THEOREM SteadyCompletedIsStored ==
  ASSUME AtomicWrites, Tile!BlanksUnshared
  PROVE  Spec => [](version = 1 =>
                      \A j \in Jobs : jobState[j] = "completed" => Tile!Current)
<1>1. O!BlanksUnshared
  BY DEF Tile!BlanksUnshared, O!BlanksUnshared, Tile!SoleProvider,
     O!SoleProvider
<1>2. O!Spec => [](version = 1 => O!SteadyInv)
  BY <1>1, O!SteadyInvariance, RetilerAssumption
     DEF RetilerAssumption, O!Versions, O!Ys, Deliveries
<1>3. ASSUME OutcomeInv, O!SteadyInv, NEW j \in Jobs, jobState[j] = "completed"
      PROVE  Tile!Current
  <2>1. \E d \in Queue!Deliveries : phase[d] \in {"skipped", "cooled", "succeeded"}
    BY <1>3 DEF OutcomeInv, Served, Deliveries
  <2>2. O!Current
    BY <1>3, <2>1 DEF O!SteadyInv
  <2>. QED
    BY <2>2 DEF O!Current, Tile!Current, O!Key, Tile!Key, O!FlippedY,
       Tile!FlippedY, O!Rendering, Tile!Rendering, O!Blank, Tile!Blank
<1>4. (version = 1 => O!SteadyInv) /\ SequentialInv /\ OutcomeInv =>
        (version = 1 => \A j \in Jobs : jobState[j] = "completed" => Tile!Current)
  BY <1>3
<1>. QED
  BY <1>2, <1>4, RunsAttempts, SameTiles, ServedInvariance, PTL

\* So with a source that never changes completed means fresh with any parallelism.
THEOREM SteadyCompletedMeansFresh ==
  ASSUME MaxVersion = 1, AtomicWrites, Tile!BlanksUnshared
  PROVE  Spec => []CompletedIsFresh
<1>1. O!Spec => []O!TypeOK
  BY O!TypeCorrect, RetilerAssumption
     DEF RetilerAssumption, O!Versions, O!Ys, Deliveries
<1>2. ASSUME O!TypeOK,
             version = 1 => \A j \in Jobs : jobState[j] = "completed" => Tile!Current
      PROVE  CompletedIsFresh
  <2>1. version = 1
    BY <1>2 DEF O!TypeOK, O!Versions
  <2>2. Tile!Current => \A j \in Jobs, p \in Providers, y \in Rows :
                          Tile!Shows(p, y, sentAt[j])
    BY <2>1 DEF Tile!Current, Tile!Shows, Tile!Covers
  <2>. QED
    BY <1>2, <2>1, <2>2 DEF CompletedIsFresh
<1>. QED
  BY <1>1, <1>2, RunsAttempts, SameTiles, SteadyCompletedIsStored, PTL

----------------------------------------------------------------------------
\* A job that asks for force, or any job without a detiler, has no excuse: once it is
\* completed the metatile shows every update from before the job was sent.
THEOREM ForcedMeansFresh ==
  ASSUME Parallelism = 1, Sequential!WellConfigured
  PROVE  Spec => [](\A j \in Jobs :
                      /\ jobState[j] = "completed"
                      /\ \A d \in Deliveries : d[1] = j => d \in Forced \/ ~DetilerEnabled
                      => \A p \in Providers, y \in Rows : Tile!Shows(p, y, sentAt[j]))
<1>1. O!Spec => []O!NeverSkipped
  BY O!ForcedIsNeverSkipped, RetilerAssumption
     DEF RetilerAssumption, O!Versions, O!Ys, Deliveries
<1>2. ASSUME O!NeverSkipped, CompletedIsFresh,
             NEW j \in Jobs, jobState[j] = "completed",
             \A d \in Deliveries : d[1] = j => d \in Forced \/ ~DetilerEnabled
      PROVE  \A p \in Providers, y \in Rows : Tile!Shows(p, y, sentAt[j])
  <2>1. \A d \in Deliveries : d[1] = j => ~Excused(d)
    BY <1>2 DEF O!NeverSkipped, O!ProcessedAnyway, Excused, Deliveries
  <2>. QED
    BY <1>2, <2>1 DEF CompletedIsFresh
<1>3. O!NeverSkipped /\ CompletedIsFresh =>
        \A j \in Jobs :
          /\ jobState[j] = "completed"
          /\ \A d \in Deliveries : d[1] = j => d \in Forced \/ ~DetilerEnabled
          => \A p \in Providers, y \in Rows : Tile!Shows(p, y, sentAt[j])
  BY <1>2
<1>. QED
  BY <1>1, <1>3, RunsAttempts, SameTiles, CompletedMeansFresh, PTL
=============================================================================
