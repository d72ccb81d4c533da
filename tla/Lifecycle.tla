------------------------------ MODULE Lifecycle ------------------------------
(***************************************************************************)
(* The life of a retiler process around its job queue: the container is    *)
(* built and starts the queue, index.ts serves and consumes, and a failed  *)
(* boot, a failed consumer or a signal triggers the cleanup registry, after*)
(* which the process ends.  The queue is that of JobQueue.                 *)
(*                                                                         *)
(* The hooks after startQueue and the callback of index.ts up to the first *)
(* fetch await nothing but settled promises: no signal comes in between.   *)
(***************************************************************************)
EXTENDS Naturals, FiniteSets

CONSTANTS Jobs, Parallelism, RetryLimit, Supervised, MaxFaults,
          Providers  \* app.tilesStorage.providers: records [id, kind, endpoint]

\* What the registry knows besides the S3 clients, each of which is its endpoint.
Services == {"tracer", "queue", "server"}

ASSUME LifecycleAssumption ==
  /\ IsFiniteSet(Jobs)
  /\ Parallelism \in Nat \ {0}
  /\ RetryLimit \in Nat
  /\ Supervised \in BOOLEAN
  /\ MaxFaults \in Nat
  /\ \A p \in Providers : p.kind \in {"s3", "fs"} /\ p.endpoint \notin Services

VARIABLES
  up, isRunning, isDraining, runningJobs, consumer, hand, handler, pendingEmits,
  stopping, boss, jobState, fetched, processed, expired, faults,
  registered,  \* the items of the cleanup registry
  opened,      \* what the process has opened and should release
  released,    \* what the cleanup has released
  triggered,   \* who has triggered the cleanup
  unsettled    \* the items each trigger still waits for

queueVars == <<up, isRunning, isDraining, runningJobs, consumer, hand, handler,
               pendingEmits, stopping, boss, jobState, fetched, processed, expired,
               faults>>
registry == <<registered, opened, released, triggered, unsettled>>
vars == <<queueVars, registry>>

Queue == INSTANCE JobQueue

\* The catch of containerConfig or of index.ts, and terminus.
Triggers == {"main", "signal"}

\* One S3 client per endpoint, whichever providers share it.
Endpoints == {p.endpoint : p \in {q \in Providers : q.kind = "s3"}}
Items == Services \cup Endpoints

\* The tracing is on before the modules of a process load.
Init ==
  /\ Queue!Init
  /\ registered = {} /\ released = {} /\ triggered = {}
  /\ opened = {"tracer"}
  /\ unsettled = [t \in Triggers |-> {}]

----------------------------------------------------------------------------
(* The cleanup registry.                                                   *)

Opens(items) ==
  /\ registered' = registered \cup items
  /\ opened' = opened \cup items

\* Mutant: it destroys clients that were never registered.
TriggerAll(t, items, queueReturns) ==
  /\ triggered' = triggered \cup {t}
  /\ released' = released \cup Endpoints
  /\ unsettled' = [unsettled EXCEPT ![t] = items \ Endpoints]

\* trigger calls the function of every item in one turn: an S3 client is destroyed
\* at once; stopQueue returns at once if the queue is stopped or stopping.
Trigger(t, items, queueReturns) ==
  /\ triggered' = triggered \cup {t}
  /\ released' = released \cup (items \cap Endpoints)
  /\ unsettled' = [unsettled EXCEPT ![t] =
                     items \ (Endpoints \cup IF queueReturns THEN {"queue"} ELSE {})]

\* The server has closed, or the tracing is flushed.
ItemSettles(t, i) ==
  /\ up
  /\ i \in unsettled[t] \ {"queue"}
  /\ released' = released \cup {i}
  /\ unsettled' = [unsettled EXCEPT ![t] = @ \ {i}]
  /\ UNCHANGED <<queueVars, registered, opened, triggered>>

\* stopQueue settles for the trigger whose call is draining the queue.
QueueSettles(t) ==
  /\ "queue" \in unsettled[t]
  /\ stopping \in {"done", "rejected"}
  /\ released' = IF stopping = "done" THEN released \cup {"queue"} ELSE released
  /\ unsettled' = [unsettled EXCEPT ![t] = @ \ {"queue"}]
  /\ UNCHANGED <<queueVars, registered, opened, triggered>>

----------------------------------------------------------------------------
(* Booting.                                                                *)

\* The logger, the SSL files or the PgBoss constructor fails: the container is
\* cleaned up with nothing registered, and index.ts exits.
BootFails ==
  /\ up /\ boss = "off" /\ triggered = {}
  /\ Trigger("main", registered, TRUE)
  /\ Queue!Fault
  /\ UNCHANGED <<up, isRunning, isDraining, runningJobs, consumer, hand, handler,
                 pendingEmits, stopping, boss, jobState, fetched, processed, expired,
                 registered, opened>>

\* Mutant: the queue is registered when it has started, with the server.
StartQueueRegistersLate ==
  /\ triggered = {}
  /\ Queue!StartQueue
  /\ registered' = {"tracer"} /\ opened' = {"tracer", "queue"}
  /\ UNCHANGED <<released, triggered, unsettled>>

\* The post-injection hook of the queue: resolving it resolves the tracer, and it
\* is registered before it is started.
StartQueue ==
  /\ triggered = {}
  /\ Queue!StartQueue
  /\ Opens({"tracer", "queue"})
  /\ UNCHANGED <<released, triggered, unsettled>>

\* startQueue rejects: containerConfig triggers the cleanup and rethrows.
StartRejects ==
  /\ Queue!BossStartRejects
  /\ Trigger("main", registered, FALSE)
  /\ UNCHANGED <<registered, opened>>

\* The queue has started: the callback of index.ts creates the server with
\* terminus, the storage providers and the processor, and starts consuming.
Serve ==
  /\ Providers # {}
  /\ Queue!ConsumeQueue
  /\ Opens({"server"} \cup Endpoints)
  /\ UNCHANGED <<released, triggered, unsettled>>

\* It throws, at the storage providers (there is none) or after them: the catch of
\* index.ts triggers the cleanup.  The queue stops as if its start had failed.
ServeFails ==
  /\ Queue!BossStartRejects
  /\ \E clients \in {{}, Endpoints} :
       /\ Opens({"server"} \cup clients)
       /\ Trigger("main", registered', FALSE)

----------------------------------------------------------------------------
(* Shutting down.                                                          *)

\* SIGTERM or SIGINT, which terminus handles once.
Signal ==
  /\ Queue!Signal
  /\ "signal" \notin triggered
  /\ Trigger("signal", registered, FALSE)
  /\ UNCHANGED <<registered, opened>>

\* The signal comes when the catch has triggered the cleanup already.
SignalAgain ==
  /\ up /\ "server" \in registered
  /\ triggered = {"main"}
  /\ Trigger("signal", registered, TRUE)
  /\ UNCHANGED <<queueVars, registered, opened>>

\* consumeQueue rejects: the catch of index.ts triggers the cleanup.
Catch ==
  /\ Queue!ShutDown
  /\ Trigger("main", registered, FALSE)
  /\ UNCHANGED <<registered, opened>>

\* It rejects when terminus has triggered the cleanup already.
CatchAgain ==
  /\ consumer = "rejected" /\ Queue!Stopped
  /\ "main" \notin triggered
  /\ Trigger("main", registered, TRUE)
  /\ UNCHANGED <<queueVars, registered, opened>>

\* One of the triggers has finished: the catch exits, or terminus kills the
\* process, whatever the other trigger still waits for.
Exit(t) ==
  /\ t \in triggered /\ unsettled[t] = {}
  /\ Queue!ProcessEnds
  /\ UNCHANGED <<faults, registry>>

\* A crash, an unhandled rejection, or the end the exit asks for.
Dies ==
  /\ Queue!Crash \/ \E d \in Queue!Deliveries : Queue!FailRejects(d)
  /\ UNCHANGED registry

Restart ==
  /\ Queue!Restart
  /\ registered' = {} /\ released' = {} /\ triggered' = {}
  /\ opened' = {"tracer"}
  /\ unsettled' = [t \in Triggers |-> {}]

TakeJob == (\E d \in Queue!Deliveries : Queue!TakeJob(d)) /\ UNCHANGED registry

HandlerNext ==
  /\ \/ Queue!HandlerNext
     \/ \E d \in Queue!Deliveries : Queue!FnResolves(d) \/ Queue!FnRejects(d)
  /\ UNCHANGED registry

\* The consumer and the job table, whose steps leave the registry alone.
ConsumerNext ==
  /\ \/ boss \in {"on", "stopped"} /\ Queue!ConsumerNext
     \/ Queue!TableNext
  /\ UNCHANGED registry

BossNext == (Queue!BossStops \/ Queue!BossStopRejects) /\ UNCHANGED registry

Next ==
  \/ BootFails \/ StartQueue \/ StartRejects \/ Serve \/ ServeFails
  \/ Signal \/ SignalAgain \/ Catch \/ CatchAgain \/ Dies \/ Restart
  \/ TakeJob \/ HandlerNext \/ ConsumerNext \/ BossNext
  \/ \E t \in Triggers :
       Exit(t) \/ QueueSettles(t) \/ \E i \in Items : ItemSettles(t, i)

Spec == Init /\ [][Next]_vars

\* As in JobQueue; closing the server and flushing the traces end.
Progress ==
  /\ WF_vars(HandlerNext) /\ WF_vars(BossNext)
  /\ \A t \in Triggers :
       /\ WF_vars(Exit(t)) /\ WF_vars(QueueSettles(t))
       /\ \A i \in Items : WF_vars(ItemSettles(t, i))

FairSpec == Spec /\ Progress

----------------------------------------------------------------------------
(* Correctness.                                                            *)

TypeOK ==
  /\ registered \subseteq Items /\ opened \subseteq Items
  /\ released \subseteq registered
  /\ triggered \subseteq Triggers
  /\ unsettled \in [Triggers -> SUBSET registered]

\* Whatever failed, and however far the boot had come: a process whose cleanup
\* was triggered once exits with no job in flight and with all that it opened
\* released, but for a queue whose stop failed and, before the queue is started,
\* the tracing.
CleanExit ==
  [][\A t \in Triggers : Exit(t) /\ triggered = {t} =>
       /\ Queue!InFlight = {}
       /\ opened \ released \subseteq
            (IF stopping = "rejected" THEN {"queue"} ELSE {}) \cup
            (IF boss = "off" THEN {"tracer"} ELSE {})]_vars

\* No job begins once the cleanup was triggered, by whichever of the two: its S3
\* clients are destroyed and its server is closing.
NoJobAfterCleanup == [][TakeJob => triggered = {}]_vars

\* A process whose cleanup was triggered ends.
ShutdownEnds == up /\ triggered # {} ~> ~up
=============================================================================
