------------------------------ MODULE JobQueue ------------------------------
(***************************************************************************)
(* PgBossJobQueueProvider: one retiler process that fetches jobs from a    *)
(* pg-boss queue, hands each to an asynchronous handler, holds back while  *)
(* Parallelism handlers are in flight and drains them when it is stopped.  *)
(*                                                                         *)
(* JavaScript runs one callback at a time, so an action is the code between*)
(* two awaits.  The job table is PostgreSQL, shared with the other workers *)
(* and with the pg-boss supervisor that expires jobs; it survives a crash  *)
(* of the process.  A delivery <<j, n>> is the n-th time job j is fetched. *)
(***************************************************************************)
EXTENDS Naturals, FiniteSets

CONSTANTS Jobs,          \* the jobs that may be sent to the queue
          Parallelism,   \* app.parallelism
          RetryLimit,    \* pg-boss' retry limit of a job
          Supervised,    \* app.jobQueue.pgBoss.supervisor: jobs may expire
          MaxFaults      \* bound on signals, crashes and rejected calls

ASSUME JobQueueAssumption ==
  /\ IsFiniteSet(Jobs)
  /\ Parallelism \in Nat \ {0}
  /\ RetryLimit \in Nat
  /\ Supervised \in BOOLEAN
  /\ MaxFaults \in Nat

VARIABLES
  up,            \* the process is running
  isRunning, isDraining, runningJobs,
  consumer,      \* where consumeQueue and its iterator stand
  hand,          \* the delivery fetched and not yet seen by consumeQueue
  handler,       \* where handleJob stands, per delivery
  pendingEmits,  \* jobFinished events scheduled with process.nextTick
  stopping,      \* where stopQueue stands
  boss,          \* the pg-boss instance of the process
  jobState,      \* the state column of the job table
  fetched,       \* how often each job was fetched (retry_count + 1)
  processed,     \* history: the jobs whose function resolved at least once
  expired,       \* history: the jobs that expired at least once
  faults         \* faults injected so far

flags == <<isRunning, isDraining>>
process == <<up, flags, stopping, boss>>
slots == <<runningJobs, pendingEmits>>
worker == <<consumer, hand, handler, slots>>
table == <<jobState, fetched>>
past == <<processed, expired>>
history == <<past, faults>>
vars == <<process, worker, table, history>>

Deliveries == Jobs \X (1 .. RetryLimit + 1)

\* handleJob calls complete() while "completing" and fail() while "failing";
\* once the statement has taken effect in the job table the handler is
\* "completed" or "failed" and awaits the reply.
Unreported == {"processing", "completing", "failing"}
InFlightStates == Unreported \cup {"completed", "failed"}
InFlight == {d \in Deliveries : handler[d] \in InFlightStates}

\* A job pg-boss may hand out, and the delivery that fetching it makes.
Available == {j \in Jobs : jobState[j] \in {"created", "retry"}}
NextDelivery(j) == <<j, fetched[j] + 1>>

Init ==
  /\ up = TRUE
  /\ isRunning = FALSE /\ isDraining = FALSE /\ runningJobs = 0
  /\ consumer = "idle"
  /\ hand = {}
  /\ handler = [d \in Deliveries |-> "none"]
  /\ pendingEmits = 0
  /\ stopping = "idle"
  /\ boss = "off"
  /\ jobState = [j \in Jobs |-> "absent"]
  /\ fetched = [j \in Jobs |-> 0]
  /\ processed = {} /\ expired = {}
  /\ faults = 0

Fault == faults < MaxFaults /\ faults' = faults + 1

----------------------------------------------------------------------------
(* The job table: what pg-boss does to a row.                              *)

\* Another service sends a job.
Send(j) ==
  /\ jobState[j] = "absent"
  /\ jobState' = [jobState EXCEPT ![j] = "created"]
  /\ UNCHANGED <<process, worker, fetched, history>>

RowFetched(j) ==
  /\ jobState' = [jobState EXCEPT ![j] = "active"]
  /\ fetched' = [fetched EXCEPT ![j] = @ + 1]

\* complete() updates an active row only.
RowCompleted(j) ==
  /\ jobState' = IF jobState[j] = "active"
                 THEN [jobState EXCEPT ![j] = "completed"] ELSE jobState
  /\ UNCHANGED fetched

\* fail() and expiry put a job that is not finished back while retries remain.
FailedState(j) == IF fetched[j] <= RetryLimit THEN "retry" ELSE "failed"
RowFailed(j) ==
  /\ jobState' = IF jobState[j] \in {"created", "retry", "active"}
                 THEN [jobState EXCEPT ![j] = FailedState(j)] ELSE jobState
  /\ UNCHANGED fetched

\* The supervisor expires a job that stayed active for too long.
Expire(j) ==
  /\ Supervised
  /\ jobState[j] = "active"
  /\ RowFailed(j)
  /\ expired' = expired \cup {j}
  /\ UNCHANGED <<process, worker, processed, faults>>

----------------------------------------------------------------------------
(* Starting the queue and consuming it.                                    *)

StartQueue ==
  /\ up
  /\ boss = "off" /\ ~isRunning /\ ~isDraining
  /\ isRunning' = TRUE
  /\ boss' = "starting"
  /\ UNCHANGED <<up, isDraining, worker, stopping, table, history>>

\* The container is built; index.ts calls consumeAndProcess.
ConsumeQueue ==
  /\ boss = "starting"
  /\ boss' = "on"
  /\ consumer' = "iterating"
  /\ UNCHANGED <<up, flags, hand, handler, slots, stopping, table, history>>

\* start() or createQueue() rejects: containerConfig triggers the cleanup, so
\* stopQueue runs with no job in flight.
BossStartRejects ==
  /\ boss = "starting"
  /\ Fault
  /\ isDraining' = TRUE
  /\ boss' = "on"
  /\ stopping' = "closing"
  /\ UNCHANGED <<up, isRunning, worker, table, past>>

\* Mutant: the flags are only read when the consumer starts.
StoppedUnseen == FALSE

Stopped == isDraining \/ ~isRunning

\* Mutants: it waits without testing; it does not wait; the loop goes on.
WaitForQueueToEmptyUntested(returned, waiting) == waiting
WaitForQueueToEmptySkipped(returned, waiting) == returned
WaitForQueueToEmptyContinues(returned, waiting) == "iterating"

\* The first test of waitForQueueToEmpty: it returns, or waits for an event.
WaitForQueueToEmpty(returned, waiting) ==
  IF runningJobs = 0 THEN returned ELSE waiting

ConsumerMoves(from, to) ==
  /\ consumer = from /\ consumer' = to
  /\ UNCHANGED <<process, hand, handler, slots, table, history>>

\* The while test of the iterator, which pulls one job at a time.
IteratorBreaks ==
  /\ Stopped
  /\ ConsumerMoves("iterating", WaitForQueueToEmpty("returned", "awaitEmpty"))
IteratorFetches == ~Stopped /\ ConsumerMoves("iterating", "fetching")

FetchReturnsJob(j) ==
  /\ consumer = "fetching"
  /\ j \in Available
  /\ RowFetched(j)
  /\ hand' = {NextDelivery(j)}
  /\ consumer' = "holding"
  /\ UNCHANGED <<process, handler, slots, history>>

\* Mutant: an empty queue ends the iterator.
FetchReturnsNoneEnds == Available = {} /\ ConsumerMoves("fetching", "returned")

FetchReturnsNone == Available = {} /\ ConsumerMoves("fetching", "sleeping")
WakeUp == ConsumerMoves("sleeping", "iterating")

\* fetch() rejects before its statement takes effect, or after it has made a
\* job active; the rejection ends consumeQueue without waiting for handlers.
\* Once pg-boss is stopped the rejection is no fault.
FetchRejects ==
  /\ consumer = "fetching"
  /\ IF boss = "on" THEN Fault ELSE UNCHANGED faults
  /\ consumer' = "rejected"
  /\ \/ UNCHANGED <<table, handler>>
     \/ \E j \in Available :
          /\ RowFetched(j)
          /\ handler' = [handler EXCEPT ![NextDelivery(j)] = "dropped"]
  /\ UNCHANGED <<process, hand, slots, past>>

\* Mutant: throttle one job too late.
FullLate(running) == running > Parallelism

Full(running) == running >= Parallelism

\* The body of the loop: count the job, start its handler, and go back to the
\* iterator or wait for a jobFinished event.
TakeJob(d) ==
  /\ consumer = "holding" /\ hand = {d}
  /\ ~Stopped
  /\ runningJobs' = runningJobs + 1
  /\ handler' = [handler EXCEPT ![d] = "processing"]
  /\ hand' = {}
  /\ consumer' = IF Full(runningJobs') THEN "throttled" ELSE "iterating"
  /\ UNCHANGED <<process, pendingEmits, table, history>>

\* The queue was stopped while the job was on its way: the loop breaks and
\* forgets it; its row stays active.
DropJob(d) ==
  /\ consumer = "holding" /\ hand = {d}
  /\ Stopped
  /\ handler' = [handler EXCEPT ![d] = "dropped"]
  /\ hand' = {}
  /\ consumer' = WaitForQueueToEmpty("returned", "awaitEmpty")
  /\ UNCHANGED <<process, slots, table, history>>

----------------------------------------------------------------------------
(* handleJob, one per delivery.                                            *)

FnResolves(d) ==
  /\ handler[d] = "processing"
  /\ handler' = [handler EXCEPT ![d] = "completing"]
  /\ processed' = processed \cup {d[1]}
  /\ UNCHANGED <<process, consumer, hand, slots, table, expired, faults>>

\* Mutants: no event; the slot is kept.
JobFinishedSilent(d) ==
  /\ handler' = [handler EXCEPT ![d] = "settled"]
  /\ runningJobs' = runningJobs - 1
  /\ UNCHANGED pendingEmits
JobFinishedKeepsSlot(d) ==
  /\ handler' = [handler EXCEPT ![d] = "settled"]
  /\ pendingEmits' = pendingEmits + 1
  /\ UNCHANGED runningJobs

\* The finally block: give the slot back and schedule the event.
JobFinished(d) ==
  /\ handler' = [handler EXCEPT ![d] = "settled"]
  /\ runningJobs' = runningJobs - 1
  /\ pendingEmits' = pendingEmits + 1

\* Mutants: the catch block gives the slot back, as the finally block does; it
\* swallows the error; it completes the job.
CatchErrorFreesSlot(d) ==
  /\ handler' = [handler EXCEPT ![d] = "failing"]
  /\ runningJobs' = runningJobs - 1
  /\ UNCHANGED pendingEmits
CatchErrorSwallows(d) == JobFinished(d)
CatchErrorCompletes(d) ==
  handler' = [handler EXCEPT ![d] = "completing"] /\ UNCHANGED slots

\* The catch block: report the job as failed.
CatchError(d) == handler' = [handler EXCEPT ![d] = "failing"] /\ UNCHANGED slots

\* Mutant: the failure is reported twice, at first without waiting for it.
FnRejectsReportsTwice(d) ==
  /\ handler[d] = "processing"
  /\ CatchError(d)
  /\ RowFailed(d[1])
  /\ UNCHANGED <<process, consumer, hand, history>>

FnRejects(d) ==
  /\ handler[d] = "processing"
  /\ CatchError(d)
  /\ UNCHANGED <<process, consumer, hand, table, history>>

\* The statement of complete() or fail() takes effect: other consumers see the
\* row at once, the handler only hears of it with the reply.
RowCompletes(d) ==
  /\ handler[d] = "completing"
  /\ handler' = [handler EXCEPT ![d] = "completed"]
  /\ RowCompleted(d[1])
  /\ UNCHANGED <<process, consumer, hand, slots, history>>
RowFails(d) ==
  /\ handler[d] = "failing"
  /\ handler' = [handler EXCEPT ![d] = "failed"]
  /\ RowFailed(d[1])
  /\ UNCHANGED <<process, consumer, hand, slots, history>>

\* The reply arrives: on to the finally block.
CompleteResolves(d) ==
  /\ handler[d] = "completed"
  /\ JobFinished(d)
  /\ UNCHANGED <<process, consumer, hand, table, history>>
FailResolves(d) ==
  /\ handler[d] = "failed"
  /\ JobFinished(d)
  /\ UNCHANGED <<process, consumer, hand, table, history>>

\* complete() rejects, whether or not the row was updated: the rendered tile is
\* reported as failed.
CompleteRejects(d) ==
  /\ handler[d] \in {"completing", "completed"}
  /\ Fault
  /\ CatchError(d)
  /\ UNCHANGED <<process, consumer, hand, table, past>>

\* The jobFinished event: every waiter tests its own condition.
WakeConsumer ==
  consumer' = IF consumer = "throttled" /\ ~Full(runningJobs) THEN "iterating"
              ELSE IF consumer = "awaitEmpty" /\ runningJobs = 0 THEN "returned"
              ELSE consumer

\* Mutant: the event does not reach stopQueue.
WakeStopMissed == UNCHANGED stopping

WakeStop == stopping' = IF stopping = "awaiting" /\ runningJobs = 0
                        THEN "closing" ELSE stopping

EmitJobFinished ==
  /\ pendingEmits > 0
  /\ pendingEmits' = pendingEmits - 1
  /\ WakeConsumer /\ WakeStop
  /\ UNCHANGED <<up, flags, boss, hand, handler, runningJobs, table, history>>

----------------------------------------------------------------------------
(* Stopping the queue and the end of the process.                          *)

\* stopQueue past its early return.
StopQueue ==
  /\ ~Stopped
  /\ isDraining' = TRUE
  /\ stopping' = WaitForQueueToEmpty("closing", "awaiting")
  /\ UNCHANGED <<up, isRunning, hand, handler, slots, boss, table, past>>

\* SIGTERM or SIGINT: terminus calls the cleanup once.
Signal ==
  /\ boss = "on" /\ consumer # "rejected"
  /\ StopQueue
  /\ Fault
  /\ UNCHANGED consumer

\* consumeQueue rejected: the catch of index.ts runs the cleanup itself.
ShutDown ==
  /\ consumer = "rejected" /\ consumer' = "caught"
  /\ StopQueue
  /\ UNCHANGED faults

BossStops ==
  /\ stopping = "closing"
  /\ stopping' = "done"
  /\ boss' = "stopped"
  /\ isRunning' = FALSE /\ isDraining' = FALSE
  /\ UNCHANGED <<up, worker, table, history>>

\* pgBoss.stop() rejects and both flags stay set.
BossStopRejects ==
  /\ stopping = "closing"
  /\ Fault
  /\ stopping' = "rejected"
  /\ UNCHANGED <<up, flags, worker, boss, table, past>>

\* The process is gone with everything in its memory.
ProcessEnds ==
  /\ up
  /\ up' = FALSE
  /\ isRunning' = FALSE /\ isDraining' = FALSE /\ runningJobs' = 0
  /\ consumer' = "idle"
  /\ hand' = {}
  /\ handler' = [d \in Deliveries |->
                   IF d \in hand \/ handler[d] \in InFlightStates \cup {"dropped"}
                   THEN "lost" ELSE handler[d]]
  /\ pendingEmits' = 0
  /\ stopping' = "idle"
  /\ boss' = "off"
  /\ UNCHANGED <<jobState, fetched, past>>

\* The cleanup has finished, or consumeQueue rejected while a stop was already
\* under way: that second stopQueue returns at once and the process exits.
Exit ==
  /\ \/ stopping \in {"done", "rejected"}
     \/ consumer = "rejected" /\ Stopped
  /\ ProcessEnds
  /\ UNCHANGED faults

\* fail() rejects, whether or not the row was updated: nothing catches what
\* handleJob rejects with, and an unhandled rejection ends the process, whatever
\* else it was doing.
FailRejects(d) ==
  /\ handler[d] \in {"failing", "failed"}
  /\ Fault
  /\ ProcessEnds

Crash == Fault /\ ProcessEnds

\* The orchestrator starts the process again.
Restart ==
  /\ ~up
  /\ up' = TRUE
  /\ UNCHANGED <<flags, stopping, boss, worker, table, history>>

----------------------------------------------------------------------------
TableNext == \E j \in Jobs : Send(j) \/ Expire(j)

ConsumerNext ==
  \/ StartQueue \/ ConsumeQueue \/ BossStartRejects
  \/ IteratorBreaks \/ IteratorFetches \/ FetchReturnsNone \/ FetchRejects \/ WakeUp
  \/ \E j \in Jobs : FetchReturnsJob(j)
  \/ \E d \in Deliveries : DropJob(d)

\* The steps in which the function given to consumeQueue begins or ends.
FunctionNext == \E d \in Deliveries : TakeJob(d) \/ FnResolves(d) \/ FnRejects(d)

HandlerNext ==
  \/ EmitJobFinished
  \/ \E d \in Deliveries :
       \/ RowCompletes(d) \/ CompleteResolves(d) \/ CompleteRejects(d)
       \/ RowFails(d) \/ FailResolves(d)

StopNext == Signal \/ ShutDown \/ BossStops \/ BossStopRejects

EndNext == Exit \/ Crash \/ \E d \in Deliveries : FailRejects(d)

Next == \/ TableNext \/ ConsumerNext \/ FunctionNext \/ HandlerNext
        \/ StopNext \/ EndNext \/ Restart

Spec == Init /\ [][Next]_vars

(***************************************************************************)
(* Every promise the process awaits settles (the map client has a timeout; *)
(* for storage and PostgreSQL it is assumed), the event loop runs what is  *)
(* ready, the supervisor and the orchestrator do their work.  Faults and   *)
(* signals have no fairness.                                               *)
(***************************************************************************)
Progress ==
  /\ WF_vars(\E j \in Jobs : Expire(j))
  /\ WF_vars(StartQueue) /\ WF_vars(ConsumeQueue)
  /\ WF_vars(IteratorBreaks) /\ WF_vars(IteratorFetches) /\ WF_vars(WakeUp)
  /\ WF_vars(FetchReturnsNone \/ \E j \in Jobs : FetchReturnsJob(j))
  /\ WF_vars(\E d \in Deliveries : TakeJob(d) \/ DropJob(d))
  /\ \A d \in Deliveries :
       /\ WF_vars(FnResolves(d) \/ FnRejects(d))
       /\ WF_vars(RowCompletes(d)) /\ WF_vars(CompleteResolves(d))
       /\ WF_vars(RowFails(d)) /\ WF_vars(FailResolves(d))
  /\ WF_vars(EmitJobFinished)
  /\ WF_vars(ShutDown) /\ WF_vars(BossStops) /\ WF_vars(Exit) /\ WF_vars(Restart)

FairSpec == Spec /\ Progress

----------------------------------------------------------------------------
(* Correctness.                                                            *)

TypeOK ==
  /\ up \in BOOLEAN /\ isRunning \in BOOLEAN /\ isDraining \in BOOLEAN
  /\ runningJobs \in Nat /\ pendingEmits \in Nat /\ faults \in Nat
  /\ consumer \in {"idle", "iterating", "fetching", "sleeping", "holding",
                   "throttled", "awaitEmpty", "returned", "rejected", "caught"}
  /\ hand \subseteq Deliveries
  /\ handler \in [Deliveries -> InFlightStates
                                \cup {"none", "settled", "dropped", "lost"}]
  /\ stopping \in {"idle", "awaiting", "closing", "done", "rejected"}
  /\ boss \in {"off", "starting", "on", "stopped"}
  /\ jobState \in [Jobs -> {"absent", "created", "active", "retry",
                            "completed", "failed"}]
  /\ fetched \in [Jobs -> 0 .. RetryLimit + 1]
  /\ processed \subseteq Jobs /\ expired \subseteq Jobs

\* runningJobs, which throttling, draining and the gauge all read, is exactly
\* the number of handlers in flight, whichever way each of them ended.
RunningJobsCounts == runningJobs = Cardinality(InFlight)

\* No more than app.parallelism handlers are ever in flight.
ParallelismBound == Cardinality(InFlight) <= Parallelism

\* pg-boss is only told to stop, and its pool closed, when no handler is in
\* flight: a handler still needs it for complete() and fail().
DrainedBeforeBossStops ==
  stopping \in {"closing", "done", "rejected"} => InFlight = {}

\* A waiter whose condition already holds has an event on its way: decrement
\* and event are separate turns, and no interleaving loses the wake-up.
WaitersAreWoken ==
  \/ pendingEmits > 0
  \/ /\ consumer = "throttled" => runningJobs >= Parallelism
     /\ consumer = "awaitEmpty" => runningJobs > 0
     /\ stopping = "awaiting" => runningJobs > 0

\* A process forgets at most one fetched job, the one in flight in fetch() when
\* it was stopped or its fetch failed, and then never fetches again.
Dropped == {d \in Deliveries : handler[d] = "dropped"}
AtMostOneDropped ==
  \A d, e \in Dropped :
    d = e /\ consumer \in {"awaitEmpty", "returned", "rejected", "caught"}

\* The row of a job only stays active while its latest delivery is on its way,
\* has a handler that has not written its outcome, or was abandoned by a stop or
\* a crash: once complete() or fail() took effect nobody leaves the row behind,
\* even when complete() failed before fail() succeeded.
ActiveHasOwner ==
  \A j \in Jobs : jobState[j] = "active" =>
    \/ <<j, fetched[j]>> \in hand
    \/ handler[<<j, fetched[j]>>] \in Unreported \cup {"dropped", "lost"}

\* A job is never recorded as completed unless its function resolved, also when
\* the delivery that completes it is not the one that is active.
CompletedWasProcessed ==
  \A j \in Jobs : jobState[j] = "completed" => j \in processed

\* Unless it expires, a job's function never runs twice at the same time, and no
\* second handler starts before the outcome of the first is in the job table:
\* across crashes, retries, rejected calls and the expiry of other jobs.  It may
\* start before the first handler hears that fail() took effect.
Undecided == {d \in Deliveries : handler[d] \in InFlightStates \ {"failed"}}
ExclusiveUnlessExpired ==
  \A d, e \in Undecided \cup hand : d[1] = e[1] /\ d[1] \notin expired => d = e

\* A throttled consumer gets its next turn.
ThrottledResumes == consumer = "throttled" ~> consumer # "throttled"

\* A stop ends: every handler in flight settles and the process exits.
DrainEnds == isDraining ~> ~up

\* Every job that is sent ends completed or failed, in spite of jobs dropped by
\* a stop, lost by a crash or delivered twice.
EveryJobSettles ==
  \A j \in Jobs : jobState[j] = "created" ~> jobState[j] \in {"completed", "failed"}

\* The test "should complete running jobs" stops the queue while jobs run and
\* expects it to wait for them: no process that stops exits under a handler.
StopCompletesRunningJobs == [][Exit => InFlight = {}]_vars

\* The queue implements a worker that begins items within its capacity, begins
\* nothing once it is closing and shuts only when idle; see GracefulWorker.
Phase == IF ~isRunning THEN IF stopping = "done" THEN "shut" ELSE "off"
         ELSE IF stopping = "idle" THEN "open"
         ELSE IF stopping = "awaiting" THEN "closing" ELSE "shut"
Worker == INSTANCE GracefulWorker
            WITH Items <- Deliveries, Capacity <- Parallelism,
                 phase <- Phase, busy <- InFlight, load <- runningJobs
ImplementsWorker == Worker!Spec

----------------------------------------------------------------------------
(***************************************************************************)
(* The inductive invariant behind the safety properties; JobQueueProofs    *)
(* proves that every step preserves it.                                    *)
(***************************************************************************)

\* How the flags, stopQueue, the consumer and the pg-boss instance go together.
ControlInv ==
  /\ stopping = "idle" => ~isDraining
  /\ stopping \in {"awaiting", "closing", "rejected"} => isDraining /\ boss = "on"
  /\ stopping = "done" <=> boss = "stopped"
  /\ isRunning <=> boss \in {"starting", "on"}
  /\ boss \in {"off", "starting"} => stopping = "idle" /\ consumer = "idle"
  /\ isDraining => isRunning
  /\ ~up => boss = "off"

\* What each delivery's handler, the hand and the job table know of each other.
DeliveryInv ==
  /\ \A j \in Jobs : /\ jobState[j] \in {"absent", "created", "retry"} =>
                         fetched[j] <= RetryLimit
                     /\ jobState[j] = "active" => fetched[j] >= 1
                     /\ \A n \in 1 .. RetryLimit + 1 :
                          n > fetched[j] => /\ handler[<<j, n>>] = "none"
                                            /\ <<j, n>> \notin hand
  /\ consumer # "holding" => hand = {}
  /\ \A d, e \in hand : d = e
  /\ \A d \in hand : handler[d] = "none"
  /\ \A d \in Deliveries : handler[d] \in {"completing", "completed"} =>
                              d[1] \in processed
  /\ \A d \in Undecided \cup hand :
       \/ d[1] \in expired
       \/ d[2] = fetched[d[1]] /\ jobState[d[1]] \in {"active", "completed"}

\* Where the number of running jobs stands when it matters.
LoadInv ==
  /\ runningJobs <= Parallelism
  /\ consumer \in {"iterating", "fetching", "sleeping", "holding"} =>
       runningJobs < Parallelism
  /\ consumer = "idle" => runningJobs = 0
  /\ stopping \in {"closing", "done", "rejected"} => runningJobs = 0
=============================================================================
