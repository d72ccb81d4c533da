--------------------------- MODULE JobQueueProofs ---------------------------
(***************************************************************************)
(* Proofs about JobQueue, for every set of jobs, parallelism and retry     *)
(* limit, and for any number of faults up to MaxFaults.                    *)
(***************************************************************************)
EXTENDS JobQueue, FiniteSetTheorems, TLAPS

\* The frame tuples of the actions and the sets of handler states are expanded
\* everywhere.
USE JobQueueAssumption DEF JobQueueAssumption, process, slots, past, history,
    Unreported, InFlightStates, Undecided

\* A delivery is a job and a number, both ways.
LEMMA DeliveryShape ==
  /\ \A d \in Deliveries : /\ d[1] \in Jobs /\ d[2] \in 1 .. RetryLimit + 1
                           /\ d = <<d[1], d[2]>>
  /\ \A j \in Jobs, n \in 1 .. RetryLimit + 1 : <<j, n>> \in Deliveries
BY DEF Deliveries

\* There are finitely many deliveries, so the handlers in flight can be counted.
LEMMA DeliveriesFinite == IsFiniteSet(Deliveries)
<1>1. IsFiniteSet(1 .. RetryLimit + 1)
  BY FS_Interval
<1>. QED
  BY <1>1, FS_Product DEF Deliveries

\* So are the handlers in flight.
LEMMA InFlightFinite == IsFiniteSet(InFlight) /\ Cardinality(InFlight) \in Nat
BY DeliveriesFinite, FS_Subset, FS_CardinalityType DEF InFlight

\* A handler in flight has been counted.
LEMMA InFlightCounted ==
  ASSUME TypeOK, RunningJobsCounts, NEW d \in Deliveries, handler[d] \in InFlightStates
  PROVE  runningJobs >= 1
<1>1. InFlight # {}
  BY DEF InFlight
<1>. QED
  BY <1>1, InFlightFinite, FS_EmptySet DEF RunningJobsCounts, TypeOK

\* The end of the process leaves a well-typed state.
LEMMA ProcessEndsType ==
  ASSUME TypeOK, ProcessEnds, faults' \in Nat
  PROVE  TypeOK'
BY DEF ProcessEnds, TypeOK

\* Every step keeps the type invariant; fetched stays within its bound because
\* only a job with retries left can be fetched.
LEMMA TypeStep ==
  ASSUME TypeOK, DeliveryInv, RunningJobsCounts, [Next]_vars
  PROVE  TypeOK'
<1>. USE DeliveryShape
<1>1. ASSUME NEW j \in Jobs, Send(j) PROVE TypeOK'
  BY <1>1 DEF Send, TypeOK, flags, worker, table
<1>2. ASSUME NEW j \in Jobs, Expire(j) PROVE TypeOK'
  BY <1>2 DEF Expire, RowFailed, FailedState, TypeOK, flags, worker, table
<1>3. CASE StartQueue
  BY <1>3 DEF StartQueue, TypeOK, flags, worker, table
<1>4. CASE ConsumeQueue
  BY <1>4 DEF ConsumeQueue, TypeOK, flags, worker, table
<1>5. CASE BossStartRejects
  BY <1>5 DEF BossStartRejects, Fault, TypeOK, flags, worker, table
<1>6. CASE IteratorBreaks
  BY <1>6 DEF IteratorBreaks, Stopped, ConsumerMoves, WaitForQueueToEmpty,
     TypeOK, flags, worker, table
<1>7. CASE IteratorFetches
  BY <1>7 DEF IteratorFetches, Stopped, ConsumerMoves, TypeOK, flags, worker,
     table
<1>8. CASE FetchReturnsNone
  BY <1>8 DEF FetchReturnsNone, ConsumerMoves, TypeOK, flags, worker, table
<1>9. CASE FetchRejects
  <2>1. faults' \in Nat
    BY <1>9 DEF FetchRejects, Fault, TypeOK
  <2>2. CASE UNCHANGED <<table, handler>>
    BY <1>9, <2>1, <2>2 DEF FetchRejects, TypeOK, flags, table
  <2>3. ASSUME NEW j \in Available, RowFetched(j),
               handler' = [handler EXCEPT ![NextDelivery(j)] = "dropped"]
        PROVE  TypeOK'
    <3>1. fetched[j] + 1 \in 1 .. RetryLimit + 1
      BY DEF Available, DeliveryInv, TypeOK
    <3>2. fetched' \in [Jobs -> 0 .. RetryLimit + 1]
      BY <2>3, <3>1 DEF RowFetched, TypeOK, Available
    <3>. QED
      BY <1>9, <2>1, <2>3, <3>2 DEF FetchRejects, RowFetched, Available, TypeOK,
         flags
  <2>. QED
    BY <1>9, <2>2, <2>3 DEF FetchRejects
<1>10. CASE WakeUp
  BY <1>10 DEF WakeUp, ConsumerMoves, TypeOK, flags, worker, table
<1>11. ASSUME NEW j \in Jobs, FetchReturnsJob(j) PROVE TypeOK'
  BY <1>11 DEF FetchReturnsJob, RowFetched, Available, NextDelivery, TypeOK,
     DeliveryInv, flags, worker, table
<1>12. ASSUME NEW d \in Deliveries, TakeJob(d) PROVE TypeOK'
  BY <1>12 DEF TakeJob, Stopped, Full, TypeOK, flags, worker, table
<1>13. ASSUME NEW d \in Deliveries, DropJob(d) PROVE TypeOK'
  BY <1>13 DEF DropJob, Stopped, WaitForQueueToEmpty, TypeOK, flags, worker,
     table
<1>14. CASE EmitJobFinished
  BY <1>14 DEF EmitJobFinished, WakeConsumer, WakeStop, Full, TypeOK, flags,
     worker, table
<1>15. ASSUME NEW d \in Deliveries, FnResolves(d) PROVE TypeOK'
  BY <1>15 DEF FnResolves, TypeOK, flags, worker, table
<1>16. ASSUME NEW d \in Deliveries, FnRejects(d) PROVE TypeOK'
  BY <1>16 DEF FnRejects, CatchError, TypeOK, flags, worker, table
<1>17. ASSUME NEW d \in Deliveries, RowCompletes(d) PROVE TypeOK'
  BY <1>17 DEF RowCompletes, RowCompleted, TypeOK, flags, worker, table
<1>18. ASSUME NEW d \in Deliveries, CompleteResolves(d) PROVE TypeOK'
  BY <1>18, InFlightCounted DEF CompleteResolves, JobFinished,
     TypeOK, flags, worker, table
<1>19. ASSUME NEW d \in Deliveries, CompleteRejects(d) PROVE TypeOK'
  BY <1>19 DEF CompleteRejects, CatchError, Fault, TypeOK, flags,
     worker, table
<1>20. ASSUME NEW d \in Deliveries, RowFails(d) PROVE TypeOK'
  BY <1>20 DEF RowFails, RowFailed, FailedState, TypeOK, flags, worker, table
<1>21. ASSUME NEW d \in Deliveries, FailResolves(d) PROVE TypeOK'
  BY <1>21, InFlightCounted DEF FailResolves, JobFinished,
     TypeOK, flags, worker, table
<1>22. ASSUME NEW d \in Deliveries, FailRejects(d) PROVE TypeOK'
  BY <1>22, ProcessEndsType DEF FailRejects, Fault, TypeOK
<1>23. CASE Signal
  BY <1>23 DEF Signal, StopQueue, Stopped, WaitForQueueToEmpty, Fault, TypeOK,
     flags, worker, table
<1>24. CASE ShutDown
  BY <1>24 DEF ShutDown, StopQueue, Stopped, WaitForQueueToEmpty, TypeOK, flags,
     worker, table
<1>25. CASE BossStops
  BY <1>25 DEF BossStops, TypeOK, flags, worker, table
<1>26. CASE BossStopRejects
  BY <1>26 DEF BossStopRejects, Fault, TypeOK, flags, worker, table
<1>27. CASE Exit
  BY <1>27, ProcessEndsType DEF Exit, Stopped, TypeOK
<1>28. CASE Crash
  BY <1>28, ProcessEndsType DEF Crash, Fault, TypeOK
<1>29. CASE Restart
  BY <1>29 DEF Restart, TypeOK, flags, worker, table
<1>30. CASE UNCHANGED vars
  BY <1>30 DEF vars, flags, worker, table, TypeOK
<1>. QED
    BY <1>1, <1>2, <1>3, <1>4, <1>5, <1>6, <1>7, <1>8, <1>9, <1>10, <1>11,
       <1>12,
     <1>13, <1>14, <1>15, <1>16, <1>17, <1>18, <1>19, <1>20, <1>21, <1>22,
     <1>23, <1>24, <1>25, <1>26, <1>27, <1>28, <1>29, <1>30
     DEF Next, TableNext, ConsumerNext, FunctionNext, HandlerNext,
         StopNext, EndNext

\* Every step keeps flags, stopQueue, consumer and pg-boss instance consistent.
LEMMA ControlStep ==
  ASSUME TypeOK, ControlInv, [Next]_vars
  PROVE  ControlInv'
<1>1. ASSUME NEW j \in Jobs, Send(j) PROVE ControlInv'
  BY <1>1 DEF Send, TypeOK, ControlInv, flags, worker, table
<1>2. ASSUME NEW j \in Jobs, Expire(j) PROVE ControlInv'
  BY <1>2 DEF Expire, RowFailed, FailedState, TypeOK, ControlInv, flags, worker,
     table
<1>3. CASE StartQueue
  BY <1>3 DEF StartQueue, TypeOK, ControlInv, flags, worker, table
<1>4. CASE ConsumeQueue
  BY <1>4 DEF ConsumeQueue, TypeOK, ControlInv, flags, worker, table
<1>5. CASE BossStartRejects
  BY <1>5 DEF BossStartRejects, Fault, TypeOK, ControlInv, flags, worker, table
<1>6. CASE IteratorBreaks
  BY <1>6 DEF IteratorBreaks, Stopped, ConsumerMoves, WaitForQueueToEmpty,
     TypeOK, ControlInv, flags, worker, table
<1>7. CASE IteratorFetches
  BY <1>7 DEF IteratorFetches, Stopped, ConsumerMoves, TypeOK, ControlInv,
     flags, worker, table
<1>8. CASE FetchReturnsNone
  BY <1>8 DEF FetchReturnsNone, ConsumerMoves, TypeOK, ControlInv, flags,
     worker, table
<1>9. CASE FetchRejects
  BY <1>9 DEF FetchRejects, Fault, RowFetched, Available, NextDelivery, TypeOK,
     ControlInv, flags, worker, table
<1>10. CASE WakeUp
  BY <1>10 DEF WakeUp, ConsumerMoves, TypeOK, ControlInv, flags, worker, table
<1>11. ASSUME NEW j \in Jobs, FetchReturnsJob(j) PROVE ControlInv'
  BY <1>11 DEF FetchReturnsJob, RowFetched, Available, NextDelivery, TypeOK,
     ControlInv, flags, worker, table
<1>12. ASSUME NEW d \in Deliveries, TakeJob(d) PROVE ControlInv'
  BY <1>12 DEF TakeJob, Stopped, Full, TypeOK, ControlInv, flags, worker, table
<1>13. ASSUME NEW d \in Deliveries, DropJob(d) PROVE ControlInv'
  BY <1>13 DEF DropJob, Stopped, WaitForQueueToEmpty, TypeOK, ControlInv, flags,
     worker, table
<1>14. CASE EmitJobFinished
  BY <1>14 DEF EmitJobFinished, WakeConsumer, WakeStop, Full, TypeOK,
     ControlInv, flags, worker, table
<1>15. ASSUME NEW d \in Deliveries, FnResolves(d) PROVE ControlInv'
  BY <1>15 DEF FnResolves, TypeOK, ControlInv, flags, worker, table
<1>16. ASSUME NEW d \in Deliveries, FnRejects(d) PROVE ControlInv'
  BY <1>16 DEF FnRejects, CatchError, TypeOK, ControlInv, flags, worker, table
<1>17. ASSUME NEW d \in Deliveries, RowCompletes(d) PROVE ControlInv'
  BY <1>17 DEF RowCompletes, RowCompleted, TypeOK, ControlInv, flags, worker,
     table
<1>18. ASSUME NEW d \in Deliveries, CompleteResolves(d) PROVE ControlInv'
  BY <1>18 DEF CompleteResolves, JobFinished, TypeOK, ControlInv,
     flags, worker, table
<1>19. ASSUME NEW d \in Deliveries, CompleteRejects(d) PROVE ControlInv'
  BY <1>19 DEF CompleteRejects, CatchError, Fault, TypeOK,
     ControlInv, flags, worker, table
<1>20. ASSUME NEW d \in Deliveries, RowFails(d) PROVE ControlInv'
  BY <1>20 DEF RowFails, RowFailed, FailedState, TypeOK, ControlInv, flags,
     worker, table
<1>21. ASSUME NEW d \in Deliveries, FailResolves(d) PROVE ControlInv'
  BY <1>21 DEF FailResolves, JobFinished, TypeOK,
     ControlInv, flags, worker, table
<1>22. ASSUME NEW d \in Deliveries, FailRejects(d) PROVE ControlInv'
  BY <1>22 DEF FailRejects, Fault, ProcessEnds, TypeOK, ControlInv, flags,
     worker, table
<1>23. CASE Signal
  BY <1>23 DEF Signal, StopQueue, Stopped, WaitForQueueToEmpty, Fault, TypeOK,
     ControlInv, flags, worker, table
<1>24. CASE ShutDown
  BY <1>24 DEF ShutDown, StopQueue, Stopped, WaitForQueueToEmpty, TypeOK,
     ControlInv, flags, worker, table
<1>25. CASE BossStops
  BY <1>25 DEF BossStops, TypeOK, ControlInv, flags, worker, table
<1>26. CASE BossStopRejects
  BY <1>26 DEF BossStopRejects, Fault, TypeOK, ControlInv, flags, worker, table
<1>27. CASE Exit
  BY <1>27 DEF Exit, Stopped, ProcessEnds, TypeOK, ControlInv, flags, worker,
     table
<1>28. CASE Crash
  BY <1>28 DEF Crash, Fault, ProcessEnds, TypeOK, ControlInv, flags, worker,
     table
<1>29. CASE Restart
  BY <1>29 DEF Restart, TypeOK, ControlInv, flags, worker, table
<1>30. CASE UNCHANGED vars
  BY <1>30 DEF vars, flags, worker, table, TypeOK, ControlInv
<1>. QED
    BY <1>1, <1>2, <1>3, <1>4, <1>5, <1>6, <1>7, <1>8, <1>9, <1>10, <1>11,
       <1>12,
     <1>13, <1>14, <1>15, <1>16, <1>17, <1>18, <1>19, <1>20, <1>21, <1>22,
     <1>23, <1>24, <1>25, <1>26, <1>27, <1>28, <1>29, <1>30
     DEF Next, TableNext, ConsumerNext, FunctionNext, HandlerNext,
         StopNext, EndNext

\* Adding a delivery to those in flight counts one more.
LEMMA InFlightGrows ==
  ASSUME NEW d \in Deliveries, d \notin InFlight, InFlight' = InFlight \cup {d}
  PROVE  Cardinality(InFlight') = Cardinality(InFlight) + 1
BY InFlightFinite, FS_AddElement

\* Taking one away counts one less.
LEMMA InFlightShrinks ==
  ASSUME NEW d \in Deliveries, d \in InFlight, InFlight' = InFlight \ {d}
  PROVE  Cardinality(InFlight') = Cardinality(InFlight) - 1
BY InFlightFinite, FS_RemoveElement

\* Taking a job begins its handler.
LEMMA TakeJobBegins ==
  ASSUME TypeOK, DeliveryInv, NEW d \in Deliveries, TakeJob(d)
  PROVE  d \notin InFlight /\ InFlight' = InFlight \cup {d}
BY DEF TakeJob, Stopped, Full, TypeOK, DeliveryInv, InFlight

\* The steps that settle a handler end it.
LEMMA SettlingEnds ==
  ASSUME TypeOK, NEW d \in Deliveries, CompleteResolves(d) \/ FailResolves(d)
  PROVE  d \in InFlight /\ InFlight' = InFlight \ {d}
BY DEF CompleteResolves, FailResolves, JobFinished, TypeOK, InFlight

\* The other steps of a handler, and dropping a job, leave those in flight alone.
LEMMA OthersKeep ==
  ASSUME TypeOK, DeliveryInv, NEW d \in Deliveries,
         \/ FnResolves(d) \/ FnRejects(d) \/ DropJob(d)
         \/ RowCompletes(d) \/ CompleteRejects(d) \/ RowFails(d)
  PROVE  InFlight' = InFlight
BY DEF FnResolves, FnRejects, CatchError, RowCompletes, CompleteRejects,
   RowFails, DropJob, Stopped, WaitForQueueToEmpty, TypeOK, DeliveryInv,
   InFlight

\* So does a fetch that rejects, whatever it left active.
LEMMA FetchRejectsKeeps ==
  ASSUME TypeOK, DeliveryInv, FetchRejects
  PROVE  InFlight' = InFlight
<1>1. CASE UNCHANGED <<table, handler>>
  BY <1>1 DEF InFlight
<1>2. ASSUME NEW j \in Available,
             handler' = [handler EXCEPT ![NextDelivery(j)] = "dropped"]
      PROVE  InFlight' = InFlight
  <2>1. NextDelivery(j) \in Deliveries /\ handler[NextDelivery(j)] = "none"
    BY DeliveryShape DEF Available, NextDelivery, DeliveryInv, TypeOK
  <2>. QED
    BY <1>2, <2>1 DEF TypeOK, InFlight
<1>. QED
  BY <1>1, <1>2 DEF FetchRejects

\* The end of the process leaves no handler in flight.
LEMMA ProcessEndsCounts ==
  ASSUME TypeOK, ProcessEnds
  PROVE  InFlight' = {} /\ RunningJobsCounts'
<1>1. InFlight' = {}
  BY DEF ProcessEnds, TypeOK, InFlight
<1>. QED
  BY <1>1, FS_EmptySet DEF ProcessEnds, RunningJobsCounts

\* The steps that start or settle a handler change runningJobs with it, no other
\* step changes either, and the end of the process clears both.
LEMMA CountStep ==
  ASSUME TypeOK, DeliveryInv, RunningJobsCounts, [Next]_vars
  PROVE  RunningJobsCounts'
<1>1. ASSUME NEW j \in Jobs, Send(j) PROVE RunningJobsCounts'
  BY <1>1 DEF Send, TypeOK, RunningJobsCounts, InFlight, flags, worker, table
<1>2. ASSUME NEW j \in Jobs, Expire(j) PROVE RunningJobsCounts'
  BY <1>2 DEF Expire, RowFailed, FailedState, TypeOK, RunningJobsCounts,
     InFlight, flags, worker, table
<1>3. CASE StartQueue
  BY <1>3 DEF StartQueue, TypeOK, RunningJobsCounts, InFlight, flags, worker,
     table
<1>4. CASE ConsumeQueue
  BY <1>4 DEF ConsumeQueue, TypeOK, RunningJobsCounts, InFlight, flags, worker,
     table
<1>5. CASE BossStartRejects
  BY <1>5 DEF BossStartRejects, Fault, TypeOK, RunningJobsCounts, InFlight,
     flags, worker, table
<1>6. CASE IteratorBreaks
  BY <1>6 DEF IteratorBreaks, Stopped, ConsumerMoves, WaitForQueueToEmpty,
     TypeOK, RunningJobsCounts, InFlight, flags, worker, table
<1>7. CASE IteratorFetches
  BY <1>7 DEF IteratorFetches, Stopped, ConsumerMoves, TypeOK,
     RunningJobsCounts, InFlight, flags, worker, table
<1>8. CASE FetchReturnsNone
  BY <1>8 DEF FetchReturnsNone, ConsumerMoves, TypeOK, RunningJobsCounts,
     InFlight, flags, worker, table
<1>9. CASE FetchRejects
  BY <1>9, FetchRejectsKeeps DEF FetchRejects, RunningJobsCounts
<1>10. CASE WakeUp
  BY <1>10 DEF WakeUp, ConsumerMoves, TypeOK, RunningJobsCounts, InFlight,
     flags, worker, table
<1>11. ASSUME NEW j \in Jobs, FetchReturnsJob(j) PROVE RunningJobsCounts'
  BY <1>11 DEF FetchReturnsJob, RowFetched, Available, NextDelivery, TypeOK,
     RunningJobsCounts, InFlight, flags, worker, table
<1>12. ASSUME NEW d \in Deliveries, TakeJob(d) PROVE RunningJobsCounts'
  BY <1>12, TakeJobBegins, InFlightGrows DEF TakeJob, Stopped, Full,
     RunningJobsCounts
<1>13. ASSUME NEW d \in Deliveries, DropJob(d) PROVE RunningJobsCounts'
  BY <1>13, OthersKeep DEF DropJob, Stopped, WaitForQueueToEmpty,
     RunningJobsCounts
<1>14. CASE EmitJobFinished
  BY <1>14 DEF EmitJobFinished, WakeConsumer, WakeStop, Full, TypeOK,
     RunningJobsCounts, InFlight, flags, worker, table
<1>15. ASSUME NEW d \in Deliveries, FnResolves(d) PROVE RunningJobsCounts'
  BY <1>15, OthersKeep DEF FnResolves, RunningJobsCounts
<1>16. ASSUME NEW d \in Deliveries, FnRejects(d) PROVE RunningJobsCounts'
  BY <1>16, OthersKeep DEF FnRejects, CatchError, RunningJobsCounts
<1>17. ASSUME NEW d \in Deliveries, RowCompletes(d) PROVE RunningJobsCounts'
  BY <1>17, OthersKeep DEF RowCompletes, RunningJobsCounts
<1>18. ASSUME NEW d \in Deliveries, CompleteResolves(d) PROVE RunningJobsCounts'
  BY <1>18, SettlingEnds, InFlightShrinks DEF CompleteResolves, JobFinished,
     RunningJobsCounts
<1>19. ASSUME NEW d \in Deliveries, CompleteRejects(d) PROVE RunningJobsCounts'
  BY <1>19, OthersKeep DEF CompleteRejects, CatchError, RunningJobsCounts
<1>20. ASSUME NEW d \in Deliveries, RowFails(d) PROVE RunningJobsCounts'
  BY <1>20, OthersKeep DEF RowFails, RunningJobsCounts
<1>21. ASSUME NEW d \in Deliveries, FailResolves(d) PROVE RunningJobsCounts'
  BY <1>21, SettlingEnds, InFlightShrinks DEF FailResolves, JobFinished,
     RunningJobsCounts
<1>22. ASSUME NEW d \in Deliveries, FailRejects(d) PROVE RunningJobsCounts'
  BY <1>22, ProcessEndsCounts DEF FailRejects
<1>23. CASE Signal
  BY <1>23 DEF Signal, StopQueue, Stopped, WaitForQueueToEmpty, Fault, TypeOK,
     RunningJobsCounts, InFlight, flags, worker, table
<1>24. CASE ShutDown
  BY <1>24 DEF ShutDown, StopQueue, Stopped, WaitForQueueToEmpty, TypeOK,
     RunningJobsCounts, InFlight, flags, worker, table
<1>25. CASE BossStops
  BY <1>25 DEF BossStops, TypeOK, RunningJobsCounts, InFlight, flags, worker,
     table
<1>26. CASE BossStopRejects
  BY <1>26 DEF BossStopRejects, Fault, TypeOK, RunningJobsCounts, InFlight,
     flags, worker, table
<1>27. CASE Exit
  BY <1>27, ProcessEndsCounts DEF Exit, Stopped
<1>28. CASE Crash
  BY <1>28, ProcessEndsCounts DEF Crash
<1>29. CASE Restart
  BY <1>29 DEF Restart, TypeOK, RunningJobsCounts, InFlight, flags, worker,
     table
<1>30. CASE UNCHANGED vars
  BY <1>30 DEF vars, flags, worker, table, TypeOK, RunningJobsCounts, InFlight
<1>. QED
    BY <1>1, <1>2, <1>3, <1>4, <1>5, <1>6, <1>7, <1>8, <1>9, <1>10, <1>11,
       <1>12,
     <1>13, <1>14, <1>15, <1>16, <1>17, <1>18, <1>19, <1>20, <1>21, <1>22,
     <1>23, <1>24, <1>25, <1>26, <1>27, <1>28, <1>29, <1>30
     DEF Next, TableNext, ConsumerNext, FunctionNext, HandlerNext,
         StopNext, EndNext

\* Every step keeps what handlers, hand and table know of each other.
LEMMA DeliveryStep ==
  ASSUME TypeOK, ControlInv, DeliveryInv, [Next]_vars
  PROVE  DeliveryInv'
<1>. USE DeliveryShape
<1>1. ASSUME NEW j \in Jobs, Send(j) PROVE DeliveryInv'
  BY <1>1 DEF Send, TypeOK, DeliveryInv, InFlight, flags, worker,
     table
<1>2. ASSUME NEW j \in Jobs, Expire(j) PROVE DeliveryInv'
  BY <1>2 DEF Expire, RowFailed, FailedState, TypeOK, DeliveryInv, InFlight,
     flags, worker, table
<1>3. CASE StartQueue
  BY <1>3 DEF StartQueue, TypeOK, DeliveryInv, InFlight, flags,
     worker, table
<1>4. CASE ConsumeQueue
  BY <1>4 DEF ConsumeQueue, TypeOK, ControlInv, DeliveryInv, InFlight, table
<1>5. CASE BossStartRejects
  BY <1>5 DEF BossStartRejects, Fault, TypeOK, DeliveryInv, InFlight, flags,
     worker, table
<1>6. CASE IteratorBreaks
  BY <1>6 DEF IteratorBreaks, Stopped, ConsumerMoves, WaitForQueueToEmpty,
     TypeOK, DeliveryInv, InFlight, flags, worker, table
<1>7. CASE IteratorFetches
  BY <1>7 DEF IteratorFetches, Stopped, ConsumerMoves, TypeOK, DeliveryInv,
     InFlight, flags, worker, table
<1>8. CASE FetchReturnsNone
  BY <1>8 DEF FetchReturnsNone, ConsumerMoves, TypeOK, DeliveryInv, InFlight,
     flags, worker, table
<1>9. CASE FetchRejects
  <2>1. hand = {} /\ consumer = "fetching"
    BY <1>9 DEF FetchRejects, DeliveryInv
  <2>2. CASE UNCHANGED <<table, handler>>
    BY <1>9, <2>1, <2>2 DEF FetchRejects, TypeOK, DeliveryInv, InFlight, table
  <2>3. ASSUME NEW j \in Available, RowFetched(j),
               handler' = [handler EXCEPT ![NextDelivery(j)] = "dropped"]
        PROVE  DeliveryInv'
    <3>1. NextDelivery(j) \in Deliveries /\ handler[NextDelivery(j)] = "none"
      BY DEF Available, NextDelivery, DeliveryInv, TypeOK
    <3>. QED
      BY <1>9, <2>1, <2>3, <3>1 DEF FetchRejects, RowFetched, Available,
         NextDelivery, TypeOK, DeliveryInv, InFlight
  <2>. QED
    BY <1>9, <2>2, <2>3 DEF FetchRejects
<1>10. CASE WakeUp
  BY <1>10 DEF WakeUp, ConsumerMoves, TypeOK, DeliveryInv, InFlight, flags,
     worker, table
<1>11. ASSUME NEW j \in Jobs, FetchReturnsJob(j) PROVE DeliveryInv'
  BY <1>11 DEF FetchReturnsJob, RowFetched, Available, NextDelivery, TypeOK,
     DeliveryInv, InFlight, flags, worker, table
<1>12. ASSUME NEW d \in Deliveries, TakeJob(d) PROVE DeliveryInv'
  BY <1>12 DEF TakeJob, Stopped, Full, TypeOK, DeliveryInv, InFlight, flags,
     worker, table
<1>13. ASSUME NEW d \in Deliveries, DropJob(d) PROVE DeliveryInv'
  BY <1>13 DEF DropJob, Stopped, WaitForQueueToEmpty, TypeOK, DeliveryInv,
     InFlight, flags, worker, table
<1>14. CASE EmitJobFinished
  BY <1>14 DEF EmitJobFinished, WakeConsumer, WakeStop, Full, TypeOK,
     DeliveryInv, InFlight, flags, worker, table
<1>15. ASSUME NEW d \in Deliveries, FnResolves(d) PROVE DeliveryInv'
  BY <1>15 DEF FnResolves, TypeOK, DeliveryInv, InFlight, flags,
     worker, table
<1>16. ASSUME NEW d \in Deliveries, FnRejects(d) PROVE DeliveryInv'
  BY <1>16 DEF FnRejects, CatchError, TypeOK, DeliveryInv, InFlight, flags,
     worker, table
<1>17. ASSUME NEW d \in Deliveries, RowCompletes(d) PROVE DeliveryInv'
  BY <1>17 DEF RowCompletes, RowCompleted, TypeOK, DeliveryInv, InFlight, flags,
     worker, table
<1>18. ASSUME NEW d \in Deliveries, CompleteResolves(d) PROVE DeliveryInv'
  BY <1>18 DEF CompleteResolves, JobFinished, TypeOK, DeliveryInv,
     InFlight, flags, worker, table
<1>19. ASSUME NEW d \in Deliveries, CompleteRejects(d) PROVE DeliveryInv'
  BY <1>19 DEF CompleteRejects, CatchError, Fault, TypeOK,
     DeliveryInv, InFlight, flags, worker, table
<1>20. ASSUME NEW d \in Deliveries, RowFails(d) PROVE DeliveryInv'
  BY <1>20 DEF RowFails, RowFailed, FailedState, TypeOK, DeliveryInv, InFlight,
     flags, worker, table
<1>21. ASSUME NEW d \in Deliveries, FailResolves(d) PROVE DeliveryInv'
  BY <1>21 DEF FailResolves, JobFinished, TypeOK,
     DeliveryInv, InFlight, flags, worker, table
<1>22. ASSUME NEW d \in Deliveries, FailRejects(d) PROVE DeliveryInv'
  BY <1>22 DEF FailRejects, Fault, ProcessEnds, TypeOK, DeliveryInv, InFlight,
     flags, worker, table
<1>23. CASE Signal
  BY <1>23 DEF Signal, StopQueue, Stopped, WaitForQueueToEmpty, Fault, TypeOK,
     DeliveryInv, InFlight, flags, worker, table
<1>24. CASE ShutDown
  BY <1>24 DEF ShutDown, StopQueue, Stopped, WaitForQueueToEmpty, TypeOK,
     DeliveryInv, InFlight, flags, worker, table
<1>25. CASE BossStops
  BY <1>25 DEF BossStops, TypeOK, DeliveryInv, InFlight, flags,
     worker, table
<1>26. CASE BossStopRejects
  BY <1>26 DEF BossStopRejects, Fault, TypeOK, DeliveryInv, InFlight, flags,
     worker, table
<1>27. CASE Exit
  BY <1>27 DEF Exit, Stopped, ProcessEnds, TypeOK, DeliveryInv, InFlight, flags,
     worker, table
<1>28. CASE Crash
  BY <1>28 DEF Crash, Fault, ProcessEnds, TypeOK, DeliveryInv, InFlight, flags,
     worker, table
<1>29. CASE Restart
  BY <1>29 DEF Restart, TypeOK, DeliveryInv, InFlight, flags,
     worker, table
<1>30. CASE UNCHANGED vars
  BY <1>30 DEF vars, flags, worker, table, TypeOK, DeliveryInv, InFlight
<1>. QED
    BY <1>1, <1>2, <1>3, <1>4, <1>5, <1>6, <1>7, <1>8, <1>9, <1>10, <1>11,
       <1>12,
     <1>13, <1>14, <1>15, <1>16, <1>17, <1>18, <1>19, <1>20, <1>21, <1>22,
     <1>23, <1>24, <1>25, <1>26, <1>27, <1>28, <1>29, <1>30
     DEF Next, TableNext, ConsumerNext, FunctionNext, HandlerNext,
         StopNext, EndNext

\* Every step keeps the number of running jobs within its bounds: the consumer
\* only goes on below the limit, and nothing starts once the queue is stopping.
LEMMA LoadStep ==
  ASSUME TypeOK, ControlInv, RunningJobsCounts, LoadInv, [Next]_vars
  PROVE  LoadInv'
<1>1. ASSUME NEW j \in Jobs, Send(j) PROVE LoadInv'
  BY <1>1 DEF Send, TypeOK, ControlInv, LoadInv, flags, worker, table
<1>2. ASSUME NEW j \in Jobs, Expire(j) PROVE LoadInv'
  BY <1>2 DEF Expire, RowFailed, FailedState, TypeOK, ControlInv, LoadInv,
     flags, worker, table
<1>3. CASE StartQueue
  BY <1>3 DEF StartQueue, TypeOK, ControlInv, LoadInv, flags, worker, table
<1>4. CASE ConsumeQueue
  BY <1>4 DEF ConsumeQueue, TypeOK, ControlInv, LoadInv, flags, worker, table
<1>5. CASE BossStartRejects
  BY <1>5 DEF BossStartRejects, Fault, TypeOK, ControlInv, LoadInv, flags,
     worker, table
<1>6. CASE IteratorBreaks
  BY <1>6 DEF IteratorBreaks, Stopped, ConsumerMoves, WaitForQueueToEmpty,
     TypeOK, ControlInv, LoadInv, flags, worker, table
<1>7. CASE IteratorFetches
  BY <1>7 DEF IteratorFetches, Stopped, ConsumerMoves, TypeOK, ControlInv,
     LoadInv, flags, worker, table
<1>8. CASE FetchReturnsNone
  BY <1>8 DEF FetchReturnsNone, ConsumerMoves, TypeOK, ControlInv, LoadInv,
     flags, worker, table
<1>9. CASE FetchRejects
  BY <1>9 DEF FetchRejects, Fault, RowFetched, Available, NextDelivery, TypeOK,
     ControlInv, LoadInv, flags, worker, table
<1>10. CASE WakeUp
  BY <1>10 DEF WakeUp, ConsumerMoves, TypeOK, ControlInv, LoadInv, flags,
     worker, table
<1>11. ASSUME NEW j \in Jobs, FetchReturnsJob(j) PROVE LoadInv'
  BY <1>11 DEF FetchReturnsJob, RowFetched, Available, NextDelivery, TypeOK,
     ControlInv, LoadInv, flags, worker, table
<1>12. ASSUME NEW d \in Deliveries, TakeJob(d) PROVE LoadInv'
  BY <1>12 DEF TakeJob, Stopped, Full, TypeOK, ControlInv, LoadInv, flags,
     worker, table
<1>13. ASSUME NEW d \in Deliveries, DropJob(d) PROVE LoadInv'
  BY <1>13 DEF DropJob, Stopped, WaitForQueueToEmpty, TypeOK, ControlInv,
     LoadInv, flags, worker, table
<1>14. CASE EmitJobFinished
  BY <1>14 DEF EmitJobFinished, WakeConsumer, WakeStop, Full, TypeOK,
     ControlInv, LoadInv, flags, worker, table
<1>15. ASSUME NEW d \in Deliveries, FnResolves(d) PROVE LoadInv'
  BY <1>15 DEF FnResolves, TypeOK, ControlInv, LoadInv, flags, worker, table
<1>16. ASSUME NEW d \in Deliveries, FnRejects(d) PROVE LoadInv'
  BY <1>16 DEF FnRejects, CatchError, TypeOK, ControlInv, LoadInv, flags,
     worker, table
<1>17. ASSUME NEW d \in Deliveries, RowCompletes(d) PROVE LoadInv'
  BY <1>17 DEF RowCompletes, RowCompleted, TypeOK, ControlInv, LoadInv, flags,
     worker, table
<1>18. ASSUME NEW d \in Deliveries, CompleteResolves(d) PROVE LoadInv'
  <2>1. runningJobs >= 1
    BY <1>18, InFlightCounted DEF CompleteResolves
  <2>. QED
    BY <1>18, <2>1 DEF CompleteResolves, JobFinished, TypeOK, ControlInv,
       LoadInv
<1>19. ASSUME NEW d \in Deliveries, CompleteRejects(d) PROVE LoadInv'
  BY <1>19 DEF CompleteRejects, CatchError, Fault, TypeOK,
     ControlInv, LoadInv, flags, worker, table
<1>20. ASSUME NEW d \in Deliveries, RowFails(d) PROVE LoadInv'
  BY <1>20 DEF RowFails, RowFailed, FailedState, TypeOK, ControlInv, LoadInv,
     flags, worker, table
<1>21. ASSUME NEW d \in Deliveries, FailResolves(d) PROVE LoadInv'
  <2>1. runningJobs >= 1
    BY <1>21, InFlightCounted DEF FailResolves
  <2>. QED
    BY <1>21, <2>1 DEF FailResolves, JobFinished, TypeOK, ControlInv, LoadInv
<1>22. ASSUME NEW d \in Deliveries, FailRejects(d) PROVE LoadInv'
  BY <1>22 DEF FailRejects, Fault, ProcessEnds, TypeOK, ControlInv, LoadInv,
     flags, worker, table
<1>23. CASE Signal
  BY <1>23 DEF Signal, StopQueue, Stopped, WaitForQueueToEmpty, Fault, TypeOK,
     ControlInv, LoadInv, flags, worker, table
<1>24. CASE ShutDown
  BY <1>24 DEF ShutDown, StopQueue, Stopped, WaitForQueueToEmpty, TypeOK,
     ControlInv, LoadInv, flags, worker, table
<1>25. CASE BossStops
  BY <1>25 DEF BossStops, TypeOK, ControlInv, LoadInv, flags, worker, table
<1>26. CASE BossStopRejects
  BY <1>26 DEF BossStopRejects, Fault, TypeOK, ControlInv, LoadInv, flags,
     worker, table
<1>27. CASE Exit
  BY <1>27 DEF Exit, Stopped, ProcessEnds, TypeOK, ControlInv, LoadInv, flags,
     worker, table
<1>28. CASE Crash
  BY <1>28 DEF Crash, Fault, ProcessEnds, TypeOK, ControlInv, LoadInv, flags,
     worker, table
<1>29. CASE Restart
  BY <1>29 DEF Restart, TypeOK, ControlInv, LoadInv, flags, worker, table
<1>30. CASE UNCHANGED vars
  BY <1>30 DEF vars, flags, worker, table, TypeOK, ControlInv, LoadInv
<1>. QED
    BY <1>1, <1>2, <1>3, <1>4, <1>5, <1>6, <1>7, <1>8, <1>9, <1>10, <1>11,
       <1>12,
     <1>13, <1>14, <1>15, <1>16, <1>17, <1>18, <1>19, <1>20, <1>21, <1>22,
     <1>23, <1>24, <1>25, <1>26, <1>27, <1>28, <1>29, <1>30
     DEF Next, TableNext, ConsumerNext, FunctionNext, HandlerNext,
         StopNext, EndNext

\* Whoever lowers runningJobs schedules an event, and whoever starts to wait does
\* so in the turn in which it saw the condition false.
LEMMA WaitersStep ==
  ASSUME TypeOK, RunningJobsCounts, WaitersAreWoken, [Next]_vars
  PROVE  WaitersAreWoken'
<1>1. ASSUME NEW j \in Jobs, Send(j) PROVE WaitersAreWoken'
  BY <1>1 DEF Send, TypeOK, WaitersAreWoken, flags, worker, table
<1>2. ASSUME NEW j \in Jobs, Expire(j) PROVE WaitersAreWoken'
  BY <1>2 DEF Expire, RowFailed, FailedState, TypeOK, WaitersAreWoken, flags,
     worker, table
<1>3. CASE StartQueue
  BY <1>3 DEF StartQueue, TypeOK, WaitersAreWoken, flags, worker, table
<1>4. CASE ConsumeQueue
  BY <1>4 DEF ConsumeQueue, TypeOK, WaitersAreWoken, flags, worker, table
<1>5. CASE BossStartRejects
  BY <1>5 DEF BossStartRejects, Fault, TypeOK, WaitersAreWoken, flags, worker,
     table
<1>6. CASE IteratorBreaks
  BY <1>6 DEF IteratorBreaks, Stopped, ConsumerMoves, WaitForQueueToEmpty,
     TypeOK, WaitersAreWoken, flags, worker, table
<1>7. CASE IteratorFetches
  BY <1>7 DEF IteratorFetches, Stopped, ConsumerMoves, TypeOK, WaitersAreWoken,
     flags, worker, table
<1>8. CASE FetchReturnsNone
  BY <1>8 DEF FetchReturnsNone, ConsumerMoves, TypeOK, WaitersAreWoken, flags,
     worker, table
<1>9. CASE FetchRejects
  BY <1>9 DEF FetchRejects, Fault, RowFetched, Available, NextDelivery, TypeOK,
     WaitersAreWoken, flags, worker, table
<1>10. CASE WakeUp
  BY <1>10 DEF WakeUp, ConsumerMoves, TypeOK, WaitersAreWoken, flags, worker,
     table
<1>11. ASSUME NEW j \in Jobs, FetchReturnsJob(j) PROVE WaitersAreWoken'
  BY <1>11 DEF FetchReturnsJob, RowFetched, Available, NextDelivery, TypeOK,
     WaitersAreWoken, flags, worker, table
<1>12. ASSUME NEW d \in Deliveries, TakeJob(d) PROVE WaitersAreWoken'
  BY <1>12 DEF TakeJob, Stopped, Full, TypeOK, WaitersAreWoken, flags, worker,
     table
<1>13. ASSUME NEW d \in Deliveries, DropJob(d) PROVE WaitersAreWoken'
  BY <1>13 DEF DropJob, Stopped, WaitForQueueToEmpty, TypeOK, WaitersAreWoken,
     flags, worker, table
<1>14. CASE EmitJobFinished
  BY <1>14 DEF EmitJobFinished, WakeConsumer, WakeStop, Full, TypeOK,
     WaitersAreWoken, flags, worker, table
<1>15. ASSUME NEW d \in Deliveries, FnResolves(d) PROVE WaitersAreWoken'
  BY <1>15 DEF FnResolves, TypeOK, WaitersAreWoken, flags, worker, table
<1>16. ASSUME NEW d \in Deliveries, FnRejects(d) PROVE WaitersAreWoken'
  BY <1>16 DEF FnRejects, CatchError, TypeOK, WaitersAreWoken, flags, worker,
     table
<1>17. ASSUME NEW d \in Deliveries, RowCompletes(d) PROVE WaitersAreWoken'
  BY <1>17 DEF RowCompletes, RowCompleted, TypeOK, WaitersAreWoken, flags,
     worker, table
<1>18. ASSUME NEW d \in Deliveries, CompleteResolves(d) PROVE WaitersAreWoken'
  BY <1>18 DEF CompleteResolves, JobFinished, TypeOK,
     WaitersAreWoken, flags, worker, table
<1>19. ASSUME NEW d \in Deliveries, CompleteRejects(d) PROVE WaitersAreWoken'
  BY <1>19 DEF CompleteRejects, CatchError, Fault, TypeOK,
     WaitersAreWoken, flags, worker, table
<1>20. ASSUME NEW d \in Deliveries, RowFails(d) PROVE WaitersAreWoken'
  BY <1>20 DEF RowFails, RowFailed, FailedState, TypeOK, WaitersAreWoken, flags,
     worker, table
<1>21. ASSUME NEW d \in Deliveries, FailResolves(d) PROVE WaitersAreWoken'
  BY <1>21 DEF FailResolves, JobFinished, TypeOK,
     WaitersAreWoken, flags, worker, table
<1>22. ASSUME NEW d \in Deliveries, FailRejects(d) PROVE WaitersAreWoken'
  BY <1>22 DEF FailRejects, Fault, ProcessEnds, TypeOK, WaitersAreWoken, flags,
     worker, table
<1>23. CASE Signal
  BY <1>23 DEF Signal, StopQueue, Stopped, WaitForQueueToEmpty, Fault, TypeOK,
     WaitersAreWoken, flags, worker, table
<1>24. CASE ShutDown
  BY <1>24 DEF ShutDown, StopQueue, Stopped, WaitForQueueToEmpty, TypeOK,
     WaitersAreWoken, flags, worker, table
<1>25. CASE BossStops
  BY <1>25 DEF BossStops, TypeOK, WaitersAreWoken, flags, worker, table
<1>26. CASE BossStopRejects
  BY <1>26 DEF BossStopRejects, Fault, TypeOK, WaitersAreWoken, flags, worker,
     table
<1>27. CASE Exit
  BY <1>27 DEF Exit, Stopped, ProcessEnds, TypeOK, WaitersAreWoken, flags,
     worker, table
<1>28. CASE Crash
  BY <1>28 DEF Crash, Fault, ProcessEnds, TypeOK, WaitersAreWoken, flags,
     worker, table
<1>29. CASE Restart
  BY <1>29 DEF Restart, TypeOK, WaitersAreWoken, flags, worker, table
<1>30. CASE UNCHANGED vars
  BY <1>30 DEF vars, flags, worker, table, TypeOK, WaitersAreWoken
<1>. QED
    BY <1>1, <1>2, <1>3, <1>4, <1>5, <1>6, <1>7, <1>8, <1>9, <1>10, <1>11,
       <1>12,
     <1>13, <1>14, <1>15, <1>16, <1>17, <1>18, <1>19, <1>20, <1>21, <1>22,
     <1>23, <1>24, <1>25, <1>26, <1>27, <1>28, <1>29, <1>30
     DEF Next, TableNext, ConsumerNext, FunctionNext, HandlerNext,
         StopNext, EndNext

\* A job is dropped by the last thing the consumer does.
LEMMA DroppedStep ==
  ASSUME TypeOK, ControlInv, DeliveryInv, AtMostOneDropped, [Next]_vars
  PROVE  AtMostOneDropped'
<1>. USE DeliveryShape
<1>1. ASSUME NEW j \in Jobs, Send(j) PROVE AtMostOneDropped'
  BY <1>1 DEF Send, TypeOK, ControlInv, DeliveryInv, AtMostOneDropped, Dropped,
     InFlight, flags, worker, table
<1>2. ASSUME NEW j \in Jobs, Expire(j) PROVE AtMostOneDropped'
  BY <1>2 DEF Expire, RowFailed, FailedState, TypeOK, ControlInv, DeliveryInv,
     AtMostOneDropped, Dropped, InFlight, flags, worker, table
<1>3. CASE StartQueue
  BY <1>3 DEF StartQueue, TypeOK, ControlInv, DeliveryInv, AtMostOneDropped,
     Dropped, InFlight, flags, worker, table
<1>4. CASE ConsumeQueue
  BY <1>4 DEF ConsumeQueue, TypeOK, ControlInv, DeliveryInv, AtMostOneDropped,
     Dropped, InFlight, flags, worker, table
<1>5. CASE BossStartRejects
  BY <1>5 DEF BossStartRejects, Fault, TypeOK, ControlInv, DeliveryInv,
     AtMostOneDropped, Dropped, InFlight, flags, worker, table
<1>6. CASE IteratorBreaks
  BY <1>6 DEF IteratorBreaks, Stopped, ConsumerMoves, WaitForQueueToEmpty,
     TypeOK, ControlInv, DeliveryInv, AtMostOneDropped, Dropped, InFlight,
     flags, worker, table
<1>7. CASE IteratorFetches
  BY <1>7 DEF IteratorFetches, Stopped, ConsumerMoves, TypeOK, ControlInv,
     DeliveryInv, AtMostOneDropped, Dropped, InFlight, flags,
     worker, table
<1>8. CASE FetchReturnsNone
  BY <1>8 DEF FetchReturnsNone, ConsumerMoves, TypeOK, ControlInv, DeliveryInv,
     AtMostOneDropped, Dropped, InFlight, flags, worker, table
<1>9. CASE FetchRejects
  <2>1. hand = {} /\ consumer = "fetching"
    BY <1>9 DEF FetchRejects, DeliveryInv
  <2>2. CASE UNCHANGED <<table, handler>>
    BY <1>9, <2>1, <2>2 DEF FetchRejects, TypeOK, AtMostOneDropped, Dropped,
       table
  <2>3. ASSUME NEW j \in Available, RowFetched(j),
               handler' = [handler EXCEPT ![NextDelivery(j)] = "dropped"]
        PROVE  AtMostOneDropped'
    <3>1. NextDelivery(j) \in Deliveries /\ handler[NextDelivery(j)] = "none"
      BY DEF Available, NextDelivery, DeliveryInv, TypeOK
    <3>. QED
      BY <1>9, <2>1, <2>3, <3>1 DEF FetchRejects, RowFetched, Available,
         NextDelivery, TypeOK, AtMostOneDropped, Dropped
  <2>. QED
    BY <1>9, <2>2, <2>3 DEF FetchRejects
<1>10. CASE WakeUp
  BY <1>10 DEF WakeUp, ConsumerMoves, TypeOK, ControlInv, DeliveryInv,
     AtMostOneDropped, Dropped, InFlight, flags, worker, table
<1>11. ASSUME NEW j \in Jobs, FetchReturnsJob(j) PROVE AtMostOneDropped'
  BY <1>11 DEF FetchReturnsJob, RowFetched, Available, NextDelivery, TypeOK,
     ControlInv, DeliveryInv, AtMostOneDropped, Dropped, InFlight,
     flags, worker, table
<1>12. ASSUME NEW d \in Deliveries, TakeJob(d) PROVE AtMostOneDropped'
  BY <1>12 DEF TakeJob, Stopped, Full, TypeOK, ControlInv, DeliveryInv,
     AtMostOneDropped, Dropped, InFlight, flags, worker, table
<1>13. ASSUME NEW d \in Deliveries, DropJob(d) PROVE AtMostOneDropped'
  BY <1>13 DEF DropJob, Stopped, WaitForQueueToEmpty, TypeOK, ControlInv,
     DeliveryInv, AtMostOneDropped, Dropped, InFlight, flags,
     worker, table
<1>14. CASE EmitJobFinished
  BY <1>14 DEF EmitJobFinished, WakeConsumer, WakeStop, Full, TypeOK,
     ControlInv, DeliveryInv, AtMostOneDropped, Dropped, InFlight, flags,
     worker, table
<1>15. ASSUME NEW d \in Deliveries, FnResolves(d) PROVE AtMostOneDropped'
  BY <1>15 DEF FnResolves, TypeOK, ControlInv, DeliveryInv, AtMostOneDropped,
     Dropped, InFlight, flags, worker, table
<1>16. ASSUME NEW d \in Deliveries, FnRejects(d) PROVE AtMostOneDropped'
  BY <1>16 DEF FnRejects, CatchError, TypeOK, ControlInv, DeliveryInv,
     AtMostOneDropped, Dropped, InFlight, flags, worker, table
<1>17. ASSUME NEW d \in Deliveries, RowCompletes(d) PROVE AtMostOneDropped'
  BY <1>17 DEF RowCompletes, RowCompleted, TypeOK, ControlInv, DeliveryInv,
     AtMostOneDropped, Dropped, InFlight, flags, worker, table
<1>18. ASSUME NEW d \in Deliveries, CompleteResolves(d) PROVE AtMostOneDropped'
  BY <1>18 DEF CompleteResolves, JobFinished, TypeOK, ControlInv,
     DeliveryInv, AtMostOneDropped, Dropped, InFlight, flags,
     worker, table
<1>19. ASSUME NEW d \in Deliveries, CompleteRejects(d) PROVE AtMostOneDropped'
  BY <1>19 DEF CompleteRejects, CatchError, Fault, TypeOK,
     ControlInv, DeliveryInv, AtMostOneDropped, Dropped, InFlight,
     flags, worker, table
<1>20. ASSUME NEW d \in Deliveries, RowFails(d) PROVE AtMostOneDropped'
  BY <1>20 DEF RowFails, RowFailed, FailedState, TypeOK, ControlInv,
     DeliveryInv, AtMostOneDropped, Dropped, InFlight, flags, worker, table
<1>21. ASSUME NEW d \in Deliveries, FailResolves(d) PROVE AtMostOneDropped'
  BY <1>21 DEF FailResolves, JobFinished, TypeOK,
     ControlInv, DeliveryInv, AtMostOneDropped, Dropped, InFlight,
     flags, worker, table
<1>22. ASSUME NEW d \in Deliveries, FailRejects(d) PROVE AtMostOneDropped'
  BY <1>22 DEF FailRejects, Fault, ProcessEnds, TypeOK, ControlInv, DeliveryInv,
     AtMostOneDropped, Dropped, InFlight, flags, worker, table
<1>23. CASE Signal
  BY <1>23 DEF Signal, StopQueue, Stopped, WaitForQueueToEmpty, Fault, TypeOK,
     ControlInv, DeliveryInv, AtMostOneDropped, Dropped, InFlight,
     flags, worker, table
<1>24. CASE ShutDown
  BY <1>24 DEF ShutDown, StopQueue, Stopped, WaitForQueueToEmpty, TypeOK,
     ControlInv, DeliveryInv, AtMostOneDropped, Dropped, InFlight,
     flags, worker, table
<1>25. CASE BossStops
  BY <1>25 DEF BossStops, TypeOK, ControlInv, DeliveryInv, AtMostOneDropped,
     Dropped, InFlight, flags, worker, table
<1>26. CASE BossStopRejects
  BY <1>26 DEF BossStopRejects, Fault, TypeOK, ControlInv, DeliveryInv,
     AtMostOneDropped, Dropped, InFlight, flags, worker, table
<1>27. CASE Exit
  BY <1>27 DEF Exit, Stopped, ProcessEnds, TypeOK, ControlInv, DeliveryInv,
     AtMostOneDropped, Dropped, InFlight, flags, worker, table
<1>28. CASE Crash
  BY <1>28 DEF Crash, Fault, ProcessEnds, TypeOK, ControlInv, DeliveryInv,
     AtMostOneDropped, Dropped, InFlight, flags, worker, table
<1>29. CASE Restart
  BY <1>29 DEF Restart, TypeOK, ControlInv, DeliveryInv, AtMostOneDropped,
     Dropped, InFlight, flags, worker, table
<1>30. CASE UNCHANGED vars
  BY <1>30 DEF vars, flags, worker, table, TypeOK, ControlInv, DeliveryInv,
     AtMostOneDropped, Dropped, InFlight
<1>. QED
    BY <1>1, <1>2, <1>3, <1>4, <1>5, <1>6, <1>7, <1>8, <1>9, <1>10, <1>11,
       <1>12,
     <1>13, <1>14, <1>15, <1>16, <1>17, <1>18, <1>19, <1>20, <1>21, <1>22,
     <1>23, <1>24, <1>25, <1>26, <1>27, <1>28, <1>29, <1>30
     DEF Next, TableNext, ConsumerNext, FunctionNext, HandlerNext,
         StopNext, EndNext

\* The end of the process abandons the owner of an active row.
LEMMA ProcessEndsOwner ==
  ASSUME TypeOK, DeliveryInv, ActiveHasOwner, ProcessEnds
  PROVE  ActiveHasOwner'
<1>. SUFFICES ASSUME NEW j \in Jobs, jobState'[j] = "active"
              PROVE  handler'[<<j, fetched'[j]>>] \in {"dropped", "lost"}
  BY DEF ActiveHasOwner
<1>. DEFINE d == <<j, fetched[j]>>
<1>1. jobState[j] = "active" /\ fetched'[j] = fetched[j]
  BY DEF ProcessEnds
<1>2. d \in hand \/ handler[d] \in InFlightStates \cup {"dropped", "lost"}
  BY <1>1 DEF ActiveHasOwner
<1>3. d \in Deliveries
  BY <1>1, DeliveryShape DEF DeliveryInv, TypeOK
<1>. QED
  BY <1>1, <1>2, <1>3 DEF ProcessEnds

\* A handler only settles when the row it was working on is no longer active.
LEMMA OwnerStep ==
  ASSUME TypeOK, DeliveryInv, ActiveHasOwner, [Next]_vars
  PROVE  ActiveHasOwner'
<1>. USE DeliveryShape
<1>1. ASSUME NEW j \in Jobs, Send(j) PROVE ActiveHasOwner'
  BY <1>1 DEF Send, TypeOK, DeliveryInv, ActiveHasOwner, flags,
     worker, table
<1>2. ASSUME NEW j \in Jobs, Expire(j) PROVE ActiveHasOwner'
  BY <1>2 DEF Expire, RowFailed, FailedState, TypeOK, DeliveryInv,
     ActiveHasOwner, flags, worker, table
<1>3. CASE StartQueue
  BY <1>3 DEF StartQueue, TypeOK, DeliveryInv, ActiveHasOwner,
     flags, worker, table
<1>4. CASE ConsumeQueue
  BY <1>4 DEF ConsumeQueue, TypeOK, DeliveryInv, ActiveHasOwner,
     flags, worker, table
<1>5. CASE BossStartRejects
  BY <1>5 DEF BossStartRejects, Fault, TypeOK, DeliveryInv, ActiveHasOwner,
     flags, worker, table
<1>6. CASE IteratorBreaks
  BY <1>6 DEF IteratorBreaks, Stopped, ConsumerMoves, WaitForQueueToEmpty,
     TypeOK, DeliveryInv, ActiveHasOwner, flags, worker, table
<1>7. CASE IteratorFetches
  BY <1>7 DEF IteratorFetches, Stopped, ConsumerMoves, TypeOK, DeliveryInv,
     ActiveHasOwner, flags, worker, table
<1>8. CASE FetchReturnsNone
  BY <1>8 DEF FetchReturnsNone, ConsumerMoves, TypeOK, DeliveryInv,
     ActiveHasOwner, flags, worker, table
<1>9. CASE FetchRejects
  <2>1. hand = {} /\ consumer = "fetching"
    BY <1>9 DEF FetchRejects, DeliveryInv
  <2>2. CASE UNCHANGED <<table, handler>>
    BY <1>9, <2>1, <2>2 DEF FetchRejects, TypeOK, DeliveryInv, ActiveHasOwner,
       table
  <2>3. ASSUME NEW j \in Available, RowFetched(j),
               handler' = [handler EXCEPT ![NextDelivery(j)] = "dropped"]
        PROVE  ActiveHasOwner'
    <3>1. NextDelivery(j) \in Deliveries /\ handler[NextDelivery(j)] = "none"
      BY DEF Available, NextDelivery, DeliveryInv, TypeOK
    <3>. QED
      BY <1>9, <2>1, <2>3, <3>1 DEF FetchRejects, RowFetched, Available,
         NextDelivery, TypeOK, DeliveryInv, ActiveHasOwner
  <2>. QED
    BY <1>9, <2>2, <2>3 DEF FetchRejects
<1>10. CASE WakeUp
  BY <1>10 DEF WakeUp, ConsumerMoves, TypeOK, DeliveryInv, ActiveHasOwner,
     flags, worker, table
<1>11. ASSUME NEW j \in Jobs, FetchReturnsJob(j) PROVE ActiveHasOwner'
  BY <1>11 DEF FetchReturnsJob, RowFetched, Available, NextDelivery, TypeOK,
     DeliveryInv, ActiveHasOwner, flags, worker, table
<1>12. ASSUME NEW d \in Deliveries, TakeJob(d) PROVE ActiveHasOwner'
  BY <1>12 DEF TakeJob, Stopped, Full, TypeOK, DeliveryInv, ActiveHasOwner,
     flags, worker, table
<1>13. ASSUME NEW d \in Deliveries, DropJob(d) PROVE ActiveHasOwner'
  BY <1>13 DEF DropJob, Stopped, WaitForQueueToEmpty, TypeOK, DeliveryInv,
     ActiveHasOwner, flags, worker, table
<1>14. CASE EmitJobFinished
  BY <1>14 DEF EmitJobFinished, WakeConsumer, WakeStop, Full, TypeOK,
     DeliveryInv, ActiveHasOwner, flags, worker, table
<1>15. ASSUME NEW d \in Deliveries, FnResolves(d) PROVE ActiveHasOwner'
  BY <1>15 DEF FnResolves, TypeOK, DeliveryInv, ActiveHasOwner,
     flags, worker, table
<1>16. ASSUME NEW d \in Deliveries, FnRejects(d) PROVE ActiveHasOwner'
  BY <1>16 DEF FnRejects, CatchError, TypeOK, DeliveryInv, ActiveHasOwner,
     flags, worker, table
<1>17. ASSUME NEW d \in Deliveries, RowCompletes(d) PROVE ActiveHasOwner'
  BY <1>17 DEF RowCompletes, RowCompleted, TypeOK, DeliveryInv, ActiveHasOwner,
     flags, worker, table
<1>18. ASSUME NEW d \in Deliveries, CompleteResolves(d) PROVE ActiveHasOwner'
  BY <1>18 DEF CompleteResolves, JobFinished, TypeOK, DeliveryInv,
     ActiveHasOwner, flags, worker, table
<1>19. ASSUME NEW d \in Deliveries, CompleteRejects(d) PROVE ActiveHasOwner'
  BY <1>19 DEF CompleteRejects, CatchError, Fault, TypeOK,
     DeliveryInv, ActiveHasOwner, flags, worker, table
<1>20. ASSUME NEW d \in Deliveries, RowFails(d) PROVE ActiveHasOwner'
  BY <1>20 DEF RowFails, RowFailed, FailedState, TypeOK, DeliveryInv,
     ActiveHasOwner, flags, worker, table
<1>21. ASSUME NEW d \in Deliveries, FailResolves(d) PROVE ActiveHasOwner'
  BY <1>21 DEF FailResolves, JobFinished, TypeOK,
     DeliveryInv, ActiveHasOwner, flags, worker, table
<1>22. ASSUME NEW d \in Deliveries, FailRejects(d) PROVE ActiveHasOwner'
  BY <1>22, ProcessEndsOwner DEF FailRejects
<1>23. CASE Signal
  BY <1>23 DEF Signal, StopQueue, Stopped, WaitForQueueToEmpty, Fault, TypeOK,
     DeliveryInv, ActiveHasOwner, flags, worker, table
<1>24. CASE ShutDown
  BY <1>24 DEF ShutDown, StopQueue, Stopped, WaitForQueueToEmpty, TypeOK,
     DeliveryInv, ActiveHasOwner, flags, worker, table
<1>25. CASE BossStops
  BY <1>25 DEF BossStops, TypeOK, DeliveryInv, ActiveHasOwner,
     flags, worker, table
<1>26. CASE BossStopRejects
  BY <1>26 DEF BossStopRejects, Fault, TypeOK, DeliveryInv, ActiveHasOwner,
     flags, worker, table
<1>27. CASE Exit
  BY <1>27, ProcessEndsOwner DEF Exit, Stopped
<1>28. CASE Crash
  BY <1>28, ProcessEndsOwner DEF Crash
<1>29. CASE Restart
  BY <1>29 DEF Restart, TypeOK, DeliveryInv, ActiveHasOwner,
     flags, worker, table
<1>30. CASE UNCHANGED vars
  BY <1>30 DEF vars, flags, worker, table, TypeOK, DeliveryInv, ActiveHasOwner
<1>. QED
    BY <1>1, <1>2, <1>3, <1>4, <1>5, <1>6, <1>7, <1>8, <1>9, <1>10, <1>11,
       <1>12,
     <1>13, <1>14, <1>15, <1>16, <1>17, <1>18, <1>19, <1>20, <1>21, <1>22,
     <1>23, <1>24, <1>25, <1>26, <1>27, <1>28, <1>29, <1>30
     DEF Next, TableNext, ConsumerNext, FunctionNext, HandlerNext,
         StopNext, EndNext

\* A row is only completed by a handler whose function resolved.
LEMMA CompletedStep ==
  ASSUME TypeOK, DeliveryInv, CompletedWasProcessed, [Next]_vars
  PROVE  CompletedWasProcessed'
<1>. USE DeliveryShape
<1>1. ASSUME NEW j \in Jobs, Send(j) PROVE CompletedWasProcessed'
  BY <1>1 DEF Send, TypeOK, DeliveryInv, CompletedWasProcessed, flags, worker,
     table
<1>2. ASSUME NEW j \in Jobs, Expire(j) PROVE CompletedWasProcessed'
  BY <1>2 DEF Expire, RowFailed, FailedState, TypeOK, DeliveryInv,
     CompletedWasProcessed, flags, worker, table
<1>3. CASE StartQueue
  BY <1>3 DEF StartQueue, TypeOK, DeliveryInv, CompletedWasProcessed, flags,
     worker, table
<1>4. CASE ConsumeQueue
  BY <1>4 DEF ConsumeQueue, TypeOK, DeliveryInv, CompletedWasProcessed, flags,
     worker, table
<1>5. CASE BossStartRejects
  BY <1>5 DEF BossStartRejects, Fault, TypeOK, DeliveryInv,
     CompletedWasProcessed, flags, worker, table
<1>6. CASE IteratorBreaks
  BY <1>6 DEF IteratorBreaks, Stopped, ConsumerMoves, WaitForQueueToEmpty,
     TypeOK, DeliveryInv, CompletedWasProcessed, flags, worker, table
<1>7. CASE IteratorFetches
  BY <1>7 DEF IteratorFetches, Stopped, ConsumerMoves, TypeOK, DeliveryInv,
     CompletedWasProcessed, flags, worker, table
<1>8. CASE FetchReturnsNone
  BY <1>8 DEF FetchReturnsNone, ConsumerMoves, TypeOK, DeliveryInv,
     CompletedWasProcessed, flags, worker, table
<1>9. CASE FetchRejects
  BY <1>9 DEF FetchRejects, Fault, RowFetched, Available, NextDelivery, TypeOK,
     DeliveryInv, CompletedWasProcessed, flags, worker, table
<1>10. CASE WakeUp
  BY <1>10 DEF WakeUp, ConsumerMoves, TypeOK, DeliveryInv,
     CompletedWasProcessed, flags, worker, table
<1>11. ASSUME NEW j \in Jobs, FetchReturnsJob(j) PROVE CompletedWasProcessed'
  BY <1>11 DEF FetchReturnsJob, RowFetched, Available, NextDelivery, TypeOK,
     DeliveryInv, CompletedWasProcessed, flags, worker, table
<1>12. ASSUME NEW d \in Deliveries, TakeJob(d) PROVE CompletedWasProcessed'
  BY <1>12 DEF TakeJob, Stopped, Full, TypeOK, DeliveryInv,
     CompletedWasProcessed, flags, worker, table
<1>13. ASSUME NEW d \in Deliveries, DropJob(d) PROVE CompletedWasProcessed'
  BY <1>13 DEF DropJob, Stopped, WaitForQueueToEmpty, TypeOK, DeliveryInv,
     CompletedWasProcessed, flags, worker, table
<1>14. CASE EmitJobFinished
  BY <1>14 DEF EmitJobFinished, WakeConsumer, WakeStop, Full, TypeOK,
     DeliveryInv, CompletedWasProcessed, flags, worker, table
<1>15. ASSUME NEW d \in Deliveries, FnResolves(d) PROVE CompletedWasProcessed'
  BY <1>15 DEF FnResolves, TypeOK, DeliveryInv, CompletedWasProcessed, flags,
     worker, table
<1>16. ASSUME NEW d \in Deliveries, FnRejects(d) PROVE CompletedWasProcessed'
  BY <1>16 DEF FnRejects, CatchError, TypeOK, DeliveryInv,
     CompletedWasProcessed, flags, worker, table
<1>17. ASSUME NEW d \in Deliveries, RowCompletes(d) PROVE CompletedWasProcessed'
  BY <1>17 DEF RowCompletes, RowCompleted, TypeOK, DeliveryInv,
     CompletedWasProcessed, flags, worker, table
<1>18. ASSUME NEW d \in Deliveries, CompleteResolves(d)
       PROVE  CompletedWasProcessed'
  BY <1>18 DEF CompleteResolves, JobFinished, TypeOK, DeliveryInv,
     CompletedWasProcessed, flags, worker, table
<1>19. ASSUME NEW d \in Deliveries, CompleteRejects(d)
       PROVE  CompletedWasProcessed'
  BY <1>19 DEF CompleteRejects, CatchError, Fault, TypeOK,
     DeliveryInv, CompletedWasProcessed, flags, worker, table
<1>20. ASSUME NEW d \in Deliveries, RowFails(d) PROVE CompletedWasProcessed'
  BY <1>20 DEF RowFails, RowFailed, FailedState, TypeOK, DeliveryInv,
     CompletedWasProcessed, flags, worker, table
<1>21. ASSUME NEW d \in Deliveries, FailResolves(d) PROVE CompletedWasProcessed'
  BY <1>21 DEF FailResolves, JobFinished, TypeOK,
     DeliveryInv, CompletedWasProcessed, flags, worker, table
<1>22. ASSUME NEW d \in Deliveries, FailRejects(d) PROVE CompletedWasProcessed'
  BY <1>22 DEF FailRejects, Fault, ProcessEnds, TypeOK, DeliveryInv,
     CompletedWasProcessed, flags, worker, table
<1>23. CASE Signal
  BY <1>23 DEF Signal, StopQueue, Stopped, WaitForQueueToEmpty, Fault, TypeOK,
     DeliveryInv, CompletedWasProcessed, flags, worker, table
<1>24. CASE ShutDown
  BY <1>24 DEF ShutDown, StopQueue, Stopped, WaitForQueueToEmpty, TypeOK,
     DeliveryInv, CompletedWasProcessed, flags, worker, table
<1>25. CASE BossStops
  BY <1>25 DEF BossStops, TypeOK, DeliveryInv, CompletedWasProcessed, flags,
     worker, table
<1>26. CASE BossStopRejects
  BY <1>26 DEF BossStopRejects, Fault, TypeOK, DeliveryInv,
     CompletedWasProcessed, flags, worker, table
<1>27. CASE Exit
  BY <1>27 DEF Exit, Stopped, ProcessEnds, TypeOK, DeliveryInv,
     CompletedWasProcessed, flags, worker, table
<1>28. CASE Crash
  BY <1>28 DEF Crash, Fault, ProcessEnds, TypeOK, DeliveryInv,
     CompletedWasProcessed, flags, worker, table
<1>29. CASE Restart
  BY <1>29 DEF Restart, TypeOK, DeliveryInv, CompletedWasProcessed, flags,
     worker, table
<1>30. CASE UNCHANGED vars
  BY <1>30 DEF vars, flags, worker, table, TypeOK, DeliveryInv,
     CompletedWasProcessed
<1>. QED
    BY <1>1, <1>2, <1>3, <1>4, <1>5, <1>6, <1>7, <1>8, <1>9, <1>10, <1>11,
       <1>12,
     <1>13, <1>14, <1>15, <1>16, <1>17, <1>18, <1>19, <1>20, <1>21, <1>22,
     <1>23, <1>24, <1>25, <1>26, <1>27, <1>28, <1>29, <1>30
     DEF Next, TableNext, ConsumerNext, FunctionNext, HandlerNext,
         StopNext, EndNext

\* The initial state has the invariant and every step keeps it, so it always holds.
IInv == /\ TypeOK /\ ControlInv /\ DeliveryInv /\ LoadInv
        /\ RunningJobsCounts /\ WaitersAreWoken
        /\ AtMostOneDropped /\ ActiveHasOwner /\ CompletedWasProcessed

\* The inductive invariant holds at first.
LEMMA InitIInv == Init => IInv
<1>. SUFFICES ASSUME Init PROVE IInv
  OBVIOUS
<1>0. TypeOK
  <2>1. fetched \in [Jobs -> 0 .. RetryLimit + 1]
    BY DEF Init
  <2>2. handler \in [Deliveries -> InFlightStates
                                  \cup {"none", "settled", "dropped", "lost"}]
    BY DEF Init
  <2>. QED
    BY <2>1, <2>2 DEF Init, TypeOK
<1>1. ControlInv /\ LoadInv /\ WaitersAreWoken
  BY DEF Init, ControlInv, LoadInv, WaitersAreWoken
<1>2. InFlight = {} /\ Dropped = {}
  BY DEF Init, InFlight, Dropped
<1>3. RunningJobsCounts /\ AtMostOneDropped
  BY <1>2, FS_EmptySet DEF Init, RunningJobsCounts, AtMostOneDropped
<1>4. DeliveryInv /\ ActiveHasOwner /\ CompletedWasProcessed
  BY <1>2, DeliveryShape DEF Init, DeliveryInv, ActiveHasOwner,
     CompletedWasProcessed
<1>. QED
  BY <1>0, <1>1, <1>3, <1>4 DEF IInv

\* Every step keeps it.
LEMMA NextIInv == IInv /\ [Next]_vars => IInv'
BY TypeStep, ControlStep, DeliveryStep, LoadStep, CountStep, WaitersStep,
   DroppedStep, OwnerStep, CompletedStep DEF IInv

\* It survives the end of the process, for whatever reason, and faults elsewhere:
\* what a module that composes the queue with others needs besides its steps.
LEMMA ProcessEndsIInv == IInv /\ ProcessEnds /\ faults' \in Nat => IInv'
<1>. SUFFICES ASSUME IInv, ProcessEnds, faults' \in Nat PROVE IInv'
  OBVIOUS
<1>1. TypeOK' /\ RunningJobsCounts' /\ ActiveHasOwner'
  BY ProcessEndsType, ProcessEndsCounts, ProcessEndsOwner DEF IInv
<1>2. ControlInv' /\ LoadInv' /\ WaitersAreWoken' /\ CompletedWasProcessed'
  BY DEF IInv, ProcessEnds, ControlInv, LoadInv, WaitersAreWoken,
     CompletedWasProcessed, TypeOK
<1>3. DeliveryInv'
  BY DeliveryShape DEF IInv, ProcessEnds, TypeOK, DeliveryInv, InFlight
<1>4. AtMostOneDropped'
  BY DEF IInv, ProcessEnds, TypeOK, AtMostOneDropped, Dropped
<1>. QED
  BY <1>1, <1>2, <1>3, <1>4 DEF IInv

LEMMA FaultIInv ==
  IInv /\ faults' \in Nat /\ UNCHANGED <<process, worker, table, past>> => IInv'
BY DEF IInv, flags, worker, table, TypeOK, ControlInv, DeliveryInv, LoadInv,
   RunningJobsCounts, WaitersAreWoken, AtMostOneDropped, Dropped,
   ActiveHasOwner, CompletedWasProcessed, InFlight

\* It therefore always holds, for any jobs, parallelism, retry limit and faults.
THEOREM Invariance == Spec => []IInv
BY InitIInv, NextIInv, PTL DEF Spec

\* The variables keep their types, fetched and runningJobs included.
THEOREM TypeCorrect == Spec => []TypeOK
<1>1. IInv => TypeOK
  BY DEF IInv
<1>. QED
  BY <1>1, Invariance, PTL

\* The running-jobs counter always equals the handlers in flight, which never
\* exceed app.parallelism: throttling holds whatever fails, retries or stops.
THEOREM ParallelismHolds == Spec => [](RunningJobsCounts /\ ParallelismBound)
<1>1. IInv => RunningJobsCounts /\ ParallelismBound
  BY DEF IInv, LoadInv, RunningJobsCounts, ParallelismBound
<1>. QED
  BY <1>1, Invariance, PTL

\* No handler in flight: what runningJobs = 0 tells stopQueue.
LEMMA IdleWhenNoneRuns ==
  ASSUME RunningJobsCounts, runningJobs = 0
  PROVE  InFlight = {}
BY InFlightFinite, FS_EmptySet DEF RunningJobsCounts

\* pg-boss is stopped only when every handler has settled.
THEOREM DrainHolds == Spec => []DrainedBeforeBossStops
<1>1. IInv => DrainedBeforeBossStops
  BY IdleWhenNoneRuns DEF IInv, LoadInv, DrainedBeforeBossStops
<1>. QED
  BY <1>1, Invariance, PTL

\* No interleaving loses the wake-up of a throttled consumer or of a drain.
THEOREM NoLostWakeup == Spec => []WaitersAreWoken
<1>1. IInv => WaitersAreWoken
  BY DEF IInv
<1>. QED
  BY <1>1, Invariance, PTL

\* A row stays active only while its latest delivery is on its way, has a handler
\* that has not written its outcome, or was abandoned.
THEOREM ActiveJobsAreOwned == Spec => []ActiveHasOwner
BY Invariance, PTL DEF IInv

\* A stop or a failed fetch forgets at most one fetched job of a process.
THEOREM OneJobDropped == Spec => []AtMostOneDropped
BY Invariance, PTL DEF IInv

\* A job is completed only after its function resolved.
THEOREM CompletedIsProcessed == Spec => []CompletedWasProcessed
BY Invariance, PTL DEF IInv

\* runningJobs is the number of handlers in flight.
THEOREM CountIsRight == Spec => []RunningJobsCounts
BY Invariance, PTL DEF IInv

\* No second handler of a job that has not expired starts before the outcome of
\* the first is in the job table, though it may before the first is told so.
THEOREM Exclusive == Spec => []ExclusiveUnlessExpired
<1>1. IInv => ExclusiveUnlessExpired
  <2>. SUFFICES ASSUME IInv, NEW d \in Undecided \cup hand,
                       NEW e \in Undecided \cup hand,
                       d[1] = e[1], d[1] \notin expired
                PROVE  d = e
    BY DEF ExclusiveUnlessExpired
  <2>1. d \in Deliveries /\ e \in Deliveries
    BY DEF IInv, TypeOK, InFlight
  <2>2. d[2] = fetched[d[1]] /\ e[2] = fetched[e[1]]
    BY DEF IInv, DeliveryInv
  <2>. QED
    BY <2>1, <2>2, DeliveryShape
<1>. QED
  BY <1>1, Invariance, PTL

----------------------------------------------------------------------------
\* A step of the queue is a step of the abstract worker, or changes nothing there.
WorkerStep == [Worker!Next]_<<Phase, InFlight, runningJobs>>

\* The end of the process is the death of the abstract worker.
LEMMA ProcessEndsWorker ==
  ASSUME TypeOK, ProcessEnds
  PROVE  WorkerStep
<1>1. Phase' = "off" /\ runningJobs' = 0
  BY DEF ProcessEnds, Phase
<1>. QED
  BY <1>1, ProcessEndsCounts DEF WorkerStep, Worker!Next, Worker!Die

\* stopQueue closes the abstract worker, or shuts it if it is idle.
LEMMA StopQueueWorker ==
  ASSUME TypeOK, ControlInv, RunningJobsCounts, StopQueue
  PROVE  WorkerStep
<1>1. Phase = "open" /\ InFlight' = InFlight /\ runningJobs' = runningJobs
  BY DEF StopQueue, Stopped, WaitForQueueToEmpty, worker, ControlInv, TypeOK,
     Phase, InFlight
<1>2. CASE runningJobs = 0
  BY <1>1, <1>2, IdleWhenNoneRuns DEF StopQueue, Stopped, WaitForQueueToEmpty,
     Phase, WorkerStep, Worker!Next, Worker!Shut
<1>3. CASE runningJobs # 0
  BY <1>1, <1>3 DEF StopQueue, Stopped, WaitForQueueToEmpty, Phase, WorkerStep,
     Worker!Next, Worker!Close
<1>. QED
  BY <1>2, <1>3

\* So every step of the queue is one of the abstract worker, or none.
LEMMA NextWorker ==
  ASSUME TypeOK, ControlInv, DeliveryInv, LoadInv, RunningJobsCounts, [Next]_vars
  PROVE  WorkerStep
<1>1. ASSUME NEW j \in Jobs, Send(j) PROVE WorkerStep
  BY <1>1 DEF Send, flags, worker, Phase, InFlight, WorkerStep
<1>2. ASSUME NEW j \in Jobs, Expire(j) PROVE WorkerStep
  BY <1>2 DEF Expire, flags, worker, Phase, InFlight, WorkerStep
<1>3. CASE StartQueue
  <2>1. Phase = "off" /\ Phase' = "open"
    BY <1>3 DEF StartQueue, ControlInv, Phase
  <2>2. InFlight' = InFlight /\ runningJobs' = runningJobs
    BY <1>3 DEF StartQueue, worker, InFlight
  <2>. QED
    BY <2>1, <2>2 DEF WorkerStep, Worker!Next, Worker!Open
<1>4. CASE ConsumeQueue
  BY <1>4 DEF ConsumeQueue, flags, worker, Phase, InFlight, WorkerStep
<1>5. CASE BossStartRejects
  <2>1. Phase = "open" /\ Phase' = "shut" /\ runningJobs = 0
    BY <1>5 DEF BossStartRejects, ControlInv, LoadInv, TypeOK, Phase
  <2>2. InFlight' = InFlight /\ runningJobs' = runningJobs
    BY <1>5 DEF BossStartRejects, worker, InFlight
  <2>. QED
    BY <2>1, <2>2, IdleWhenNoneRuns DEF WorkerStep, Worker!Next, Worker!Shut
<1>6. CASE IteratorBreaks
  BY <1>6 DEF IteratorBreaks, Stopped, ConsumerMoves, flags, worker, Phase,
     InFlight, WorkerStep
<1>7. CASE IteratorFetches
  BY <1>7 DEF IteratorFetches, Stopped, ConsumerMoves, flags, worker, Phase,
     InFlight, WorkerStep
<1>8. CASE FetchReturnsNone
  BY <1>8 DEF FetchReturnsNone, ConsumerMoves, flags, worker, Phase, InFlight,
     WorkerStep
<1>9. CASE FetchRejects
  BY <1>9, FetchRejectsKeeps DEF FetchRejects, flags, Phase, WorkerStep
<1>10. CASE WakeUp
  BY <1>10 DEF WakeUp, ConsumerMoves, flags, worker, Phase, InFlight, WorkerStep
<1>11. ASSUME NEW j \in Jobs, FetchReturnsJob(j) PROVE WorkerStep
  BY <1>11 DEF FetchReturnsJob, flags, worker, Phase, InFlight, WorkerStep
<1>12. ASSUME NEW d \in Deliveries, TakeJob(d) PROVE WorkerStep
  <2>1. Phase = "open" /\ Phase' = "open"
    BY <1>12 DEF TakeJob, Stopped, Full, flags, ControlInv, TypeOK, Phase
  <2>2. runningJobs < Parallelism /\ runningJobs' = runningJobs + 1
    BY <1>12 DEF TakeJob, Stopped, Full, LoadInv
  <2>3. \E i \in Deliveries \ InFlight : InFlight' = InFlight \cup {i}
    BY <1>12, TakeJobBegins
  <2>4. Worker!Begin
    BY <2>1, <2>2, <2>3 DEF Worker!Begin
  <2>. QED
    BY <2>4 DEF WorkerStep, Worker!Next
<1>13. ASSUME NEW d \in Deliveries, DropJob(d) PROVE WorkerStep
  BY <1>13, OthersKeep DEF DropJob, Stopped, WaitForQueueToEmpty, flags, Phase,
     WorkerStep
<1>14. CASE EmitJobFinished
  <2>1. InFlight' = InFlight /\ runningJobs' = runningJobs
    BY <1>14 DEF EmitJobFinished, WakeConsumer, WakeStop, Full, InFlight
  <2>2. CASE stopping = "awaiting" /\ runningJobs = 0
    BY <1>14, <2>1, <2>2, IdleWhenNoneRuns
       DEF EmitJobFinished, WakeConsumer, WakeStop, Full, flags, ControlInv,
          Phase, WorkerStep, Worker!Next, Worker!Shut
  <2>3. CASE ~(stopping = "awaiting" /\ runningJobs = 0)
    BY <1>14, <2>1, <2>3 DEF EmitJobFinished, WakeConsumer, WakeStop, Full,
       flags, Phase, WorkerStep
  <2>. QED
    BY <2>2, <2>3
<1>15. ASSUME NEW d \in Deliveries, FnResolves(d) PROVE WorkerStep
  BY <1>15, OthersKeep DEF FnResolves, flags, Phase, WorkerStep
<1>16. ASSUME NEW d \in Deliveries, FnRejects(d) PROVE WorkerStep
  BY <1>16, OthersKeep DEF FnRejects, CatchError, flags, Phase, WorkerStep
<1>17. ASSUME NEW d \in Deliveries, RowCompletes(d) PROVE WorkerStep
  BY <1>17, OthersKeep DEF RowCompletes, flags, Phase, WorkerStep
<1>18. ASSUME NEW d \in Deliveries, CompleteResolves(d) PROVE WorkerStep
  <2>1. Phase' = Phase /\ runningJobs' = runningJobs - 1
    BY <1>18 DEF CompleteResolves, JobFinished, flags, Phase
  <2>. QED
    BY <1>18, <2>1, SettlingEnds DEF WorkerStep, Worker!Next, Worker!End
<1>19. ASSUME NEW d \in Deliveries, CompleteRejects(d) PROVE WorkerStep
  BY <1>19, OthersKeep DEF CompleteRejects, CatchError, flags, Phase, WorkerStep
<1>20. ASSUME NEW d \in Deliveries, RowFails(d) PROVE WorkerStep
  BY <1>20, OthersKeep DEF RowFails, flags, Phase, WorkerStep
<1>21. ASSUME NEW d \in Deliveries, FailResolves(d) PROVE WorkerStep
  <2>1. Phase' = Phase /\ runningJobs' = runningJobs - 1
    BY <1>21 DEF FailResolves, JobFinished, flags, Phase
  <2>. QED
    BY <1>21, <2>1, SettlingEnds DEF WorkerStep, Worker!Next, Worker!End
<1>22. ASSUME NEW d \in Deliveries, FailRejects(d) PROVE WorkerStep
  BY <1>22, ProcessEndsWorker DEF FailRejects
<1>23. CASE Signal
  BY <1>23, StopQueueWorker DEF Signal
<1>24. CASE ShutDown
  BY <1>24, StopQueueWorker DEF ShutDown
<1>25. CASE BossStops
  BY <1>25 DEF BossStops, flags, worker, ControlInv, TypeOK, Phase, InFlight,
     WorkerStep
<1>26. CASE BossStopRejects
  BY <1>26 DEF BossStopRejects, flags, worker, ControlInv, TypeOK, Phase,
     InFlight, WorkerStep
<1>27. CASE Exit
  BY <1>27, ProcessEndsWorker DEF Exit, Stopped
<1>28. CASE Crash
  BY <1>28, ProcessEndsWorker DEF Crash
<1>29. CASE Restart
  BY <1>29 DEF Restart, flags, worker, ControlInv, TypeOK, Phase, InFlight,
     WorkerStep
<1>30. CASE UNCHANGED vars
  BY <1>30 DEF vars, flags, worker, Phase, InFlight, WorkerStep
<1>. QED
    BY <1>1, <1>2, <1>3, <1>4, <1>5, <1>6, <1>7, <1>8, <1>9, <1>10, <1>11,
       <1>12,
     <1>13, <1>14, <1>15, <1>16, <1>17, <1>18, <1>19, <1>20, <1>21, <1>22,
     <1>23, <1>24, <1>25, <1>26, <1>27, <1>28, <1>29, <1>30
     DEF Next, TableNext, ConsumerNext, FunctionNext, HandlerNext,
         StopNext, EndNext

\* The queue implements a worker that begins only while it is open and has room,
\* and shuts only when idle: see GracefulWorker.
THEOREM QueueImplementsWorker == Spec => ImplementsWorker
<1>1. Init => Worker!Init
  <2>. SUFFICES ASSUME Init PROVE Worker!Init
    OBVIOUS
  <2>1. InFlight = {} /\ Phase = "off" /\ runningJobs = 0
    BY DEF Init, InFlight, Phase
  <2>. QED
    BY <2>1 DEF Worker!Init
<1>2. IInv /\ [Next]_vars => WorkerStep
  BY NextWorker DEF IInv
<1>. QED
  BY <1>1, <1>2, Invariance, PTL DEF Spec, ImplementsWorker, Worker!Spec,
     WorkerStep
=============================================================================
