------------------------------- MODULE Retiler -------------------------------
(***************************************************************************)
(* One retiler process: the job queue of JobQueue, whose handlers run the  *)
(* attempts of TileProcessor.  All jobs ask for the same metatile, the case*)
(* in which they can disturb each other; a delivery is an attempt.         *)
(***************************************************************************)
EXTENDS Integers, FiniteSets

CONSTANTS Jobs, Parallelism, RetryLimit, Supervised, MaxFaults,
          Providers, Height, Rows, MaxVersion, BlankRows, MaxTime, Cooldowns,
          Forced, ShouldFlipY, ShouldFilterBlankTiles, DetilerEnabled,
          ProceedOnFailure, StorageCanFail, AtomicWrites

VARIABLES
  up, isRunning, isDraining, runningJobs, consumer, hand, handler, pendingEmits,
  stopping, boss, jobState, fetched, processed, expired, faults,
  clock, version, updatedAt, image, renderedAt, phase, timestamp, seen, rendered,
  toStore, toDelete, blankY,
  sentAt  \* history: when each job was sent

Queue == INSTANCE JobQueue

\* The queue decides which attempts run at the same time.
Tile == INSTANCE TileProcessor WITH Attempts <- Queue!Deliveries, Overlap <- TRUE

Deliveries == Queue!Deliveries

ASSUME RetilerAssumption ==
  /\ IsFiniteSet(Jobs)
  /\ Parallelism \in Nat \ {0}
  /\ RetryLimit \in Nat
  /\ Supervised \in BOOLEAN
  /\ MaxFaults \in Nat
  /\ Height \in Nat /\ Rows \subseteq 0 .. Height - 1
  /\ MaxVersion \in Nat \ {0} /\ MaxTime \in Nat
  /\ BlankRows \in [1 .. MaxVersion -> SUBSET Rows]
  /\ Cooldowns \subseteq Nat
  /\ Forced \subseteq Deliveries
  /\ {ShouldFlipY, ShouldFilterBlankTiles, DetilerEnabled, ProceedOnFailure,
      StorageCanFail, AtomicWrites} \subseteq BOOLEAN

queueVars == <<up, isRunning, isDraining, runningJobs, consumer, hand, handler,
               pendingEmits, stopping, boss, jobState, fetched, processed, expired,
               faults>>
tileVars == <<clock, version, updatedAt, image, renderedAt, phase, timestamp, seen,
              rendered, toStore, toDelete, blankY>>
vars == <<queueVars, tileVars, sentAt>>

Init == Queue!Init /\ Tile!Init /\ sentAt = [j \in Jobs |-> 0]

\* Time passes and the source changes, whatever the process does.
Environment ==
  /\ Tile!Tick \/ Tile!UpdateSource
  /\ UNCHANGED <<queueVars, sentAt>>

Send(j) ==
  /\ Queue!Send(j)
  /\ sentAt' = [sentAt EXCEPT ![j] = clock]
  /\ UNCHANGED tileVars

\* handleJob calls processTile in the turn that takes the job.
TakeJob(d) ==
  /\ Queue!TakeJob(d)
  /\ Tile!Start(d)
  /\ UNCHANGED sentAt

\* A turn of processTile, or of a loop that a failed call left behind.
ProcessTile(d) ==
  /\ phase[d] # "waiting"
  /\ Tile!PreProcess(d) \/ Tile!Process(d)
  /\ UNCHANGED <<queueVars, sentAt>>

\* Mutant: the job is completed when its tile has been fetched.
ServedEarly == {"storing", "deleting", "posting", "succeeded", "skipped", "cooled"}

Served == {"succeeded", "skipped", "cooled"}

\* handleJob goes on when processTile has settled.
ProcessTileSettles(d) ==
  /\ \/ phase[d] \in Served /\ Queue!FnResolves(d)
     \/ phase[d] = "failed" /\ Queue!FnRejects(d)
  /\ UNCHANGED <<tileVars, sentAt>>

\* Every attempt of the process ends with it, and every loop they left behind.
Alive == {d \in Deliveries : phase[d] \in Tile!Active \cup {"failed"}}
ProcessEnds ==
  /\ Queue!EndNext
  /\ IF Alive = {} THEN UNCHANGED tileVars ELSE Tile!Crash(Alive)
  /\ UNCHANGED sentAt

QueueNext ==
  /\ \/ \E j \in Jobs : Queue!Expire(j)
     \/ Queue!ConsumerNext \/ Queue!HandlerNext \/ Queue!StopNext \/ Queue!Restart
  /\ UNCHANGED <<tileVars, sentAt>>

Next ==
  \/ Environment \/ QueueNext \/ ProcessEnds
  \/ \E j \in Jobs : Send(j)
  \/ \E d \in Deliveries : TakeJob(d) \/ ProcessTile(d) \/ ProcessTileSettles(d)

Spec == Init /\ [][Next]_vars

----------------------------------------------------------------------------
(* Correctness.                                                            *)

\* The queue keeps the attempts of a metatile apart, across the jobs that ask for
\* it, their crashes and their expiry: they are those of TileProcessor without
\* overlap.
Sequential == INSTANCE TileProcessor
                WITH Attempts <- Queue!Deliveries, Overlap <- FALSE
ImplementsTiles == Sequential!Spec

\* What may keep a completed job from making the metatile fresh: a cooldown, or
\* a skip when the source was updated in the second of the last rendering.
Excused(d) ==
  \/ phase[d] = "cooled"
  \/ phase[d] = "skipped" /\ \E v \in 1 .. version : updatedAt[v] = seen[d]

\* When the queue says a job is completed, the metatile shows at every provider
\* every update from before the job was sent, unless a delivery was excused.
CompletedIsFresh ==
  \A j \in Jobs :
    jobState[j] = "completed" /\ (\A d \in Deliveries : d[1] = j => ~Excused(d)) =>
      \A p \in Providers, y \in Rows : Tile!Shows(p, y, sentAt[j])
=============================================================================
