# A verification of the retiler in TLA+

The retiler takes jobs from a pg-boss queue. A job names a *metatile*, a square
block of map tiles. The worker fetches the map of the whole block from a WMS or
ArcGIS service, cuts it into 256-pixel sub-tiles, stores those that show
something in every configured storage (S3, file system), deletes those that are
blank, and tells a service called *detiler* when it rendered the block, so that
the next job of the same block can be skipped if nothing has changed since.

The modules here are translated from `src/src/**/*.ts`. TLC checks them on small
instances, and TLAPS proves the main properties of the queue, the tile processor,
their composition, the process lifecycle and the map splitter for every value of
their constants. Paths below are relative to the repository and start with `src/`
(so `src/src/retiler/tileProcessor.ts` is the file `src/retiler/tileProcessor.ts`
of the repository).

Contents: 1 the system · 2 the modules and the code · 3 the runs · 4 fairness ·
5 what disagrees with the documentation · 6 the proofs · 7 what is not modelled ·
8 plan

## 1. The system

### Components

| component | code | state it keeps | operations | model |
|---|---|---|---|---|
| Job queue provider | `retiler/jobQueueProvider/pgBossJobQueue.ts`, `pgbossFactory.ts` | `isRunning`, `isDraining`, `runningJobs`, an event emitter, the pg-boss instance | `startQueue`, `consumeQueue` (with `getJobsIterator`), `handleJob`, `stopQueue`, `waitForQueueToEmpty` | `JobQueue`, `GracefulWorker` |
| Tile processor | `retiler/tileProcessor.ts` | none between calls; per call the timestamp, the details it read, the map, the tiles to store and to delete | `processTile`: `preProcess`, `getMap`, `splitMap`, `storeSplittedTiles`, `deleteBlankTiles`, `postProcess` | `TileProcessor` |
| Worker process | `app.ts` | none | `consumeAndProcess`: a job is completed if `processTile` resolves, failed if it rejects | `Retiler` |
| Process lifecycle | `index.ts`, `containerConfig.ts`, the cleanup registry, `tilesStorageProvider/factory.ts` | what is registered for the cleanup, who triggered it, what it still waits for | boot, serve, signal, cleanup, exit | `Lifecycle` |
| Map providers | `retiler/mapProvider/{wms,arcgis}` | none | `getMap` | `MapProvider`, and in `MapSplitter` |
| Map splitter | `retiler/mapSplitterProvider/sharp.ts` | per call the result being collected | `splitMap` | `MapSplitter`, `TileGrid` |
| Tile arithmetic | `retiler/util.ts` | none | `isTileInBounds`, `getFlippedY` | `TileGrid` |
| Tile storage | `retiler/tilesStorageProvider/{s3,fs}.ts` | the stored images | `storeTile(s)`, `deleteTiles`, `determineKey` | in `TileProcessor` (writes, keys) and `TileGrid` (keys) |
| Detiler, project state | `@map-colonies/detiler-client`, the state file | when each metatile was rendered; when the source was updated | `getTileDetails`, `setTileDetails`, a read of the state file, cooldowns | in `TileProcessor` |
| pg-boss and PostgreSQL | library | the job table | `fetch`, `complete`, `fail`, expiry | in `JobQueue`, external |
| Health check, configuration, metrics, tracing, logging | `common/**`, `pgbossFactory.ts` | none that matters here | | not modelled |

### How they interact

`index.ts` builds the container, one of whose hooks registers the queue for the
cleanup and starts it. It then creates the HTTP server with terminus, resolves the
processor (which creates the storage providers and their S3 clients) and calls
`consumeQueue(processTile, parallelism)`. The consumer is one asynchronous loop. It
pulls jobs from an iterator that calls `fetch` and sleeps when there is nothing to
do; it starts a handler for each job without awaiting it; when `parallelism`
handlers are in flight it waits for a `jobFinished` event. A handler awaits
`processTile`, then `complete` or `fail`, and in its `finally` block lowers
`runningJobs` and schedules the event for the next tick. `stopQueue` sets
`isDraining`, waits until `runningJobs` is zero and only then stops pg-boss.

`stopQueue` is one of the functions of the cleanup registry, with the server's
close, the tracing's stop and the destruction of each S3 client. The registry is
triggered by terminus on a signal, and by the `catch` of `containerConfig.ts` or of
`index.ts` when the boot fails or `consumeQueue` rejects, possibly both.

`processTile` calls the detiler and the state file first, the map service and
the splitter next, then all storage providers at once (one sequential loop per
provider, joined with `Promise.all`), twice: to store and to delete. Then it
calls the detiler again.

State shared by several actors: the job table (workers, pg-boss' supervisor),
the storage and the detiler's details (all attempts on a metatile, of any
worker), the source of the map (changes at any time), the cleanup registry (two
triggers), and, within one attempt, the blank-tile objects, which all the provider
loops get.

### What makes each part correct, and why it is hard

*Job queue.* JavaScript gives atomicity between two `await`s and nothing more.
The consumer, any number of handlers, `stopQueue` and the event loop interleave
at every await. The decrement and the event are two turns; the flags may change
while `fetch` is under way; every call to pg-boss may fail before or after it
took effect; the process may die anywhere, and the table survives. Correct
means: the counter is exact, the bound holds, no wake-up is lost, pg-boss is not
stopped under a handler, a stop or a failed fetch forgets at most the one job
that was being fetched, no job's function runs twice at once unless it expired, a
drain ends, and a job that is sent settles.

*Tile processor.* Its effects are spread over three services without a
transaction. An attempt may fail or die after any write, or in the middle of one.
Provider loops outlive the attempt that started them. The source may be updated
between any two steps. Correct means: what the detiler records is true of every
provider, so that a metatile that is skipped really is current; success means
stored everywhere; blank sub-tiles are not stored; the keys of other metatiles are
left alone.

*The two together.* What the tile processor relies on, that attempts on a metatile
do not overlap, is not its own doing but the queue's, and the queue may fetch a job
again while its first handler runs, and may hold several jobs for one metatile.
Correct means: the attempts stay apart, and a job the queue calls completed made
the metatile fresh.

*Lifecycle.* A boot may fail at any step, a signal may arrive in the middle of a
failure's cleanup and the other way round, and the queue ignores a second stop.
Correct means: what was opened is released, nothing begins once the cleanup began,
the process ends.

*Map splitter.* Three kinds of request for the same box; extractions that run
concurrently, end in any order and push to a shared list. Correct means: each
sub-tile shows its own place, the result partitions the metatile, in the
generator's order, and deleting what is reported blank removes nothing else.

The hazards, each with its line and the properties that would catch it going
wrong, are listed under `hazards` in `PROJECT.json`.

## 2. The modules and the code

```
GracefulWorker <--INSTANCE-- JobQueue      <--EXTENDS-- JobQueueProofs, MCJobQueue
                             TileProcessor <--EXTENDS-- TileProcessorProofs, MCTileProcessor
TileProcessorProofs <--EXTENDS-- TileSteadyProofs
JobQueue, TileProcessor <--INSTANCE-- Retiler   <--EXTENDS-- RetilerProofs, MCRetiler
JobQueue                <--INSTANCE-- Lifecycle <--EXTENDS-- LifecycleProofs, MCLifecycle
TileGrid <--EXTENDS-- MapProvider <--EXTENDS-- MapSplitter <--EXTENDS-- MapSplitterProofs, MCMapSplitter
Filter <--EXTENDS-- MapSplitter, FilterProofs <--EXTENDS-- MapSplitterProofs
```

`RetilerProofs` and `LifecycleProofs` also INSTANCE the proof modules of the
components, and use their lemmas. `PROJECT.json` maps every definition to the lines
it stands for. Definitions preceded by a comment starting with *Mutant* are
plausible mistakes in that code. They are part of no specification; each property
is known to fail when one of them replaces the definition it is a variant of.

### JobQueue

One worker process and the job table. A *delivery* `<<j, n>>` is the n-th time
job `j` was fetched, so that a handler of a job that expired and its successor
are told apart.

| variable | code |
|---|---|
| `isRunning`, `isDraining`, `runningJobs` | the private fields of the same name |
| `consumer` | where `consumeQueue` and `getJobsIterator` are suspended: about to test the loop condition (`iterating`), in `fetch` (`fetching`), in `setTimeoutPromise` (`sleeping`), job yielded and not yet seen (`holding`), waiting for `jobFinished` (`throttled`), in `waitForQueueToEmpty` (`awaitEmpty`), resolved (`returned`), `rejected`, and its rejection taken by the `catch` of `index.ts` (`caught`) |
| `hand` | the job the iterator yielded |
| `handler[d]` | where `handleJob` is suspended: in the function (`processing`); in `complete`, before (`completing`) and after (`completed`) the row was updated; in `fail`, before (`failing`) and after (`failed`); or how it ended |
| `pendingEmits` | the emits scheduled with `process.nextTick` |
| `stopping` | where `stopQueue` is: `awaiting` an empty queue, `closing` pg-boss, `done`, `rejected` |
| `boss` | the pg-boss instance: `off`, `starting`, `on`, `stopped` |
| `jobState[j]`, `fetched[j]` | the row: `state`, `retry_count + 1` |
| `up` | the process is alive |
| `processed`, `expired` | history: the jobs whose function resolved, those that ever expired |
| `faults` | the fault budget |

Each action is the code from one await to the next. The actions of one call,
in order: `StartQueue` (`isRunning = true`, `pgBoss.start()` is called),
`ConsumeQueue`; `IteratorFetches`/`IteratorBreaks` (the `while` test),
`FetchReturnsJob`/`FetchReturnsNone`/`FetchRejects`, `WakeUp`;
`TakeJob`/`DropJob` (the loop body, with its second look at the flags);
`FnResolves`/`FnRejects`; `RowCompletes`/`RowFails` (the call takes effect in the
table), `CompleteResolves`/`CompleteRejects`, `FailResolves`/`FailRejects` (its reply
arrives); `EmitJobFinished`, which runs every listener with
its own condition; `Signal`, `ShutDown`, `BossStops`/`BossStopRejects`, `Exit`,
`Crash`, `Restart`.

Choices worth a reviewer's look:

* What `complete` and `fail` do to the row and what the handler learns of it are two
  steps. In between a failed row is `retry` and may be fetched and taken again while
  the first handler still awaits the reply and keeps its slot. A call that rejects
  may have taken effect (the reply is what was lost) or not; `CompleteRejects` and
  `FailRejects` have both cases, and a crash can come between the two steps. A call
  whose process died takes effect before that or never. `FetchRejects` has both
  outcomes in one step, since nobody else can see which.
* `FailRejects` ends the process: nothing awaits the promise of `handleJob`, and
  Node ends a process on an unhandled rejection.
* `Exit` has two causes: the cleanup is through, or `consumeQueue` rejected while
  a stop was under way, whose second `stopQueue` returns at once
  (`pgBossJobQueue.ts:64`); see section 5.
* What pg-boss does to a row is external: `complete` touches active rows only;
  `fail` and expiry turn an unfinished row into `retry` while retries remain,
  else into `failed`. pg-boss identifies the row by job and not by delivery,
  which is why an expired handler can complete its successor's row; the model
  has this.
* Jobs expire only with `app.jobQueue.pgBoss.supervisor`. `config/default.json:43`
  turns it on; `README.md` of the repository documents `noSupervisor` for it instead. The
  run has it on, the proofs hold of both.
* `Restart` starts the same worker again. Other workers on the same table would
  add only `Send`-like changes to rows this process does not hold, and
  `Expire`.

### GracefulWorker

What the queue promises its owner, without events, flags or a table: work begins
only while the worker is open and below capacity, closing begins nothing, the
worker shuts only when idle, only death takes work away. `JobQueue` implements it
with `phase <- Phase`, `busy <- InFlight`, `load <- runningJobs`
(`ImplementsWorker`, checked and proved).

### TileProcessor

The successive or overlapping attempts on *one* metatile. An image is
abstracted to the source version it shows (0: nothing stored; `Torn`: a file cut
short); the metatile to its rows, because only `y` is ever changed on the way to a
key; time to whole seconds, as `preRenderTimestamp` is.

| variable | code |
|---|---|
| `clock`, `version`, `updatedAt` | `Date.now()` in seconds; what the map service serves; the time in the project state file for each version |
| `image[p][k]` | what provider `p` has under key `k`, for every row of the grid, the neighbours' included |
| `renderedAt` | `renderedAt` of the detiler's details, or `NoDetails` |
| `phase[a]` | the await at which `processTile` of attempt `a` stands, or how it ended |
| `timestamp`, `seen`, `rendered` | `preRenderTimestamp`, `tileDetails.renderedAt`, the version of the fetched map |
| `toStore[a][p]`, `toDelete[a][p]` | what the loop of provider `p` in `storeSplittedTiles` and `deleteBlankTiles` has left |
| `blankY[a][y]` | the `y` field of the blank tile object, which `determineKey` overwrites |

`Start` … `ProjectUpdated` are `preProcess` with all its ways out;
`FetchAndSplit` is `getMap` followed by `splitMap`, whose result for the version
fetched is that of `MapSplitter`; `StoreSubTile`/`StoreRejects` and
`DeleteSubTile`/`DeleteRejects` are single calls inside the loops; `AllStored`
and `AllDeleted` are the `Promise.all`s resolving; `PostProcess` records the
timestamp; `Crash(S)` is the end of the process in which the attempts `S` ran, with
the loops that failed ones among them left behind.

`AtomicWrites` is what S3 gives and `writeFile` does not: without it a store that
rejects may leave `Torn` under its key, and a crash any subset of the files that
were being written (`BeingWritten`).

Abstractions, and why they lose nothing the properties tell apart:

* `getTileDetails` and the read of the project state are two steps, and the
  second sees the version current *then*.
* Which cooldowns apply to a metatile is the detiler's choice: with `Cooldowns`
  nonempty a metatile that is out of date may be skipped or not, whenever at
  least one would still be cooling.
* `skipped` and `cooled` also call the detiler, but do not change `renderedAt`.
* An update is served by the map source from the second its state file names, on
  the worker's clock.
* The key of a deletion is computed when the deletion takes effect, not when it
  is called; the two differ only if loops share a blank object that they flip,
  and then either provider may be the one that gets the wrong key.
* The order of the deletions of one loop is arbitrary, since `blankTiles` comes
  in the order the extractions ended; the order of the stores is the generator's
  (`FirstOf`).

### Retiler

`JobQueue` and `TileProcessor`, joined as `app.ts` joins them. All jobs ask for
the same metatile, the case in which they can disturb each other, and a delivery
is an attempt: `TakeJob` is the queue's `TakeJob` and the processor's `Start` in
one turn, `ProcessTileSettles` resolves or rejects the function when the attempt
has ended, `ProcessEnds` takes every attempt and every loop left behind with the
process. The tile processor is instantiated with overlap allowed: whether attempts
overlap is the queue's doing. `sentAt` remembers when a job was sent.

`ImplementsTiles` says that the composition implements `TileProcessor` *without*
overlap. `CompletedIsFresh` is the end-to-end promise: when a job is recorded as
completed, every provider shows every update from before the job was sent. Two
exceptions are the code's intent or a known finding (`Excused`): a cooldown, and
a skip when the source was updated in the very second of the last rendering.

### Lifecycle

A process from `registerExternalValues` to `process.exit`, around the queue of
`JobQueue`.

| variable | code |
|---|---|
| `registered` | the items of the cleanup registry: the tracing, the queue, the server, an S3 client per endpoint |
| `opened`, `released` | what the process has opened, and what the cleanup has closed |
| `triggered` | who called `trigger`: the catches (`main`), terminus (`signal`) |
| `unsettled[t]` | the items each of these calls still awaits |

`StartQueue` registers the queue before it starts it, as `containerConfig.ts:145`
does; `BootFails`, `StartRejects` and `ServeFails` are the ways a boot fails; `Serve`
is the callback of `index.ts` up to the first `fetch`, one turn because everything
it awaits has settled. `Signal`, `Catch` and their `...Again` variants are the two
triggers in either order. External assumptions: the registry calls the functions of
all its items in one turn and has no timeout of its own here; terminus reacts to a
signal once, awaits `onSignal` and kills the process. An S3 client is destroyed at
once: a handler in flight may then fail to store, which is one of the outcomes
`FnRejects` has anyway.

### MapProvider, MapSplitter and TileGrid

`TileGrid` is the arithmetic of the WorldCRS84 grid: sub-tiles, bounds, flipped
rows, keys. `MapProvider` is the request each provider makes for a metatile, as
the service reads it: the box of `tileToBoundingBox`, unclamped, in the axis order
of the WMS version, and a size. `Drawn` and `Shown` say what the service and
`sharp` make of it. `MapSplitter` is one call of `getMap` and `splitMap` on an
arbitrary blank pattern, the extractions ending in any order. `blankPixels` stands
for what `sharp`'s statistics say of each part of the buffer. `Filter` is
`Array.prototype.filter` as a recursive function, which can be proved about;
`MCMapSplitter` has TLC compare it with `SelectSeq` of the standard modules.

## 3. The runs

| run | question | instance | distinct states |
|---|---|---|---|
| `job_queue` | do counting, throttling, draining and the table agree in every interleaving; does the queue implement `GracefulWorker`; do drains and jobs end | 2 jobs, parallelism 2, 1 retry, expiry on, 2 faults, fairness | 426 755 |
| `job_queue_cut_short` | violated: see section 5 | 2 jobs | |
| `tile_single` | what is recorded, skipped and stored agrees | 3 attempts, 1 provider that may fail, flip and filter on, 3 versions, 3 seconds, a cooldown | 648 092 (symmetry) |
| `tile_replicated` | the same at every provider | 2 attempts (one forced), 2 reliable providers, filter on, no flip, details must be recorded | 25 931 |
| `tile_duplicates` | do attempts at the same time harm each other while the source stays as it is | 3 overlapping attempts, 2 failing providers, filter on, no flip, 2 versions | 475 570 |
| `map_splitter` | does each sub-tile show its place, is the result a partition in order, are deletions safe | 3 providers, three 2×2 metatiles, every blank pattern, every order | 9 759 |
| `retiler` | does the queue keep attempts apart; is what it calls completed fresh | 2 jobs of one metatile, 1 handler, expiry on, 1 fault, 1 failing provider, 2 versions, 3 seconds | 1 344 901 (symmetry) |
| `lifecycle` | is everything released, does nothing begin late, does the process end | 2 jobs, parallelism 2, 3 faults, 4 storage providers on 2 endpoints and a disk, fairness | 149 633 |
| `tile_shared_blank`, `tile_same_second`, `tile_orphan_loop`, `tile_torn_file` | violated: see section 5 | 1 or 2 providers, 2 or 3 attempts | |

### What they show

`job_queue`. `RunningJobsCounts`: `runningJobs` equals the handlers in flight on
every path out of `handleJob`. `ParallelismBound`: no more than `parallelism` of
them. `DrainedBeforeBossStops`: no handler is in flight once `pgBoss.stop()` is
called. `WaitersAreWoken`: a waiter whose condition holds has an event on its
way; this is what makes "decrement now, emit next tick" safe. `AtMostOneDropped`:
a process abandons at most the one job whose `fetch` was under way, and fetches
no more. `ActiveHasOwner`: an active row always has a delivery that is coming, that
has yet to write its outcome or that was abandoned: once `complete` or `fail` took
effect nobody leaves the row behind, also where `complete` failed before `fail`
succeeded.
`CompletedWasProcessed`: also when a handler completes the row of its
successor, the job's function did resolve. `ExclusiveUnlessExpired`: the function of
a job that never expired does not run twice at the same time, and no second handler
starts before the outcome of the first is in the table. It may start before the first
has heard that `fail` took effect, and then both are in flight; the code allows that. `ImplementsWorker`: the refinement.
`ThrottledResumes`, `DrainEnds`, `EveryJobSettles`: liveness. The last needs
expiry: without a supervisor the row of a dropped or lost job stays active for
good.

`tile_*`. `Fresh` is the property the others rest on: if the metatile is recorded
as rendered at second `t`, every sub-tile at every provider shows every update
from before `t`. `SkippedWasCurrent`: a metatile skipped as up to date (in a later
second than the last update) is current everywhere. `SucceededIsStored`: once
the current version was rendered with success, it is what is stored, whatever
came later (failures, crashes, older attempts). `RenderedIsStored`: an attempt that
is about to tell the detiler has its whole map stored at every provider; each
sub-tile of it, and none of its blanks. `BlankIsNotStored` is the part of it that the
documentation states. `NewerIsKept`: what a loop is about to overwrite or to delete
is never newer than the map the loop works for, so that an older rendering does not
replace a newer one. `NeighboursUntouched`: keys of other metatiles never change.

`tile_duplicates` lets attempts overlap, with storage that fails and loops that
outlive their attempt, as several handlers or expired jobs make them. What holds of
them is `OverlapIsHarmless`: from a moment at which nobody writes until the next
update, once *one* attempt has awaited its loops the metatile is current at every
provider, blank sub-tiles deleted, and stays so while the others go on, fail or die.
The second version leaves a row blank that the first one stores, so there is
something to delete, and something older to bring back. The condition is sharp in
one direction: with an orphaned loop of the version before, `tile_orphan_loop` goes
wrong.

`retiler`. `ImplementsTiles`: expiry, crashes, restarts and duplicate jobs never
make two attempts overlap, so the results about `TileProcessor` without overlap
apply. `CompletedIsFresh`: see above; it relates the job table to the storage
through everything in between.

`lifecycle`. `CleanExit`: a process whose cleanup one of the triggers ran exits with no
job in flight and with everything released, however far the boot had come. It says
`triggered = {t}` because two triggers can cut each other short: the run
`job_queue_cut_short`. Two exemptions are the code's: a queue whose stop rejected,
and the tracing, which is on before the container exists and is registered when
the queue's hook resolves the tracer, so that an earlier failure leaves it.
`NoJobAfterCleanup`: the flag that `stopQueue` sets keeps a job from beginning with
destroyed clients, also for the second trigger. `ShutdownEnds`: no trigger waits
forever.

`map_splitter`. `CutsShowTheirPlace`: box, axis order and size of the request and
the columns and rows of the extraction fit together, for metatiles that reach
beyond the grid too. `ResultIsPartition`, `StoredExactlyIfShown`, `StoredInOrder`,
`DeletesOnlyBlank`. The last uses a metatile larger than its grid, whose
out-of-bounds blanks are reported and whose flipped keys are negative.

### Bounds, and why they are enough

* Two jobs and parallelism 2 let two handlers race for the last slot, one settle
  while the other is taken, and both settle while a stop waits; the waiters only
  compare `runningJobs` with `Parallelism` and 0, and the retries make the table
  offer a third delivery while both slots are taken. The proofs lift the safety
  part to any number.
* `MaxFaults` bounds signals, crashes and rejected calls together: two let a
  fault hit the handling of another (a crash while draining after a signal, a
  `complete` that rejects followed by a `fail` that rejects). `lifecycle` has
  three: two for the two triggers and one for what fails besides.
* One retry gives two deliveries, enough for one to outlive its expiry. In
  `retiler` and `lifecycle` there is none: a second job of the same metatile plays
  the retry's part there.
* Three attempts, three versions: one renders, one fails halfway or is skipped,
  one comes after an update. Version 2 leaves one row blank and version 3 all of
  them, so rows turn from stored to blank and the whole metatile too.
* `MaxTime` of two or one seconds: before, in and after the second of an update.
* `Height` = 4 with the two northern rows: flipping maps the metatile onto other
  rows, so an unflipped key is visible as a neighbour's.
* `MaxTime` of zero in `tile_duplicates`: `OverlapIsHarmless` does not speak of time,
  and three attempts are enough for one that is through, one that overlaps and an
  orphaned loop.
* `SYMMETRY` permutes attempts or jobs; used only with safety properties and with
  `Forced` empty, where nothing distinguishes two of them.
* `CHECK_DEADLOCK FALSE` in the tile and splitter runs: attempts are bounded and
  a call of `splitMap` returns, so they really end. `job_queue`, `retiler` and
  `lifecycle` are checked for deadlock: a worker can always poll or start again.

## 4. Fairness

`JobQueue!Progress` is weak fairness on what the event loop, the network and the
operators do: a ready callback runs; a promise that is awaited settles (the map
client has a timeout; for storage and PostgreSQL it is an assumption, and
`DrainEnds` rests on it, see the hazards); the supervisor expires stuck
jobs; the orchestrator restarts a process that ended. Per handler it is on the
*disjunction* `FnResolves \/ FnRejects`: a function ends, nobody says how. There
is no fairness on signals, crashes, rejections or on new jobs.

`Lifecycle!Progress` covers the handlers and `pgBoss.stop()`, and adds
that closing the server and flushing the traces end and that an exit that is due
happens. It has no fairness on the consumer or on the boot: the end of a process
must not depend on them. For the handlers it is weak fairness on the steps of all of
them together: while one can make a step, one of them eventually does. Whether a
function or a call resolves or rejects is left open, and no handler has infinitely
many steps, so all of them end. `TileProcessor`, `Retiler` and `MapSplitter` are checked for
safety only; that their calls end is what `JobQueue!Progress` assumes of them.

## 5. Where the code and its documentation disagree

Each is a run that TLC refutes; the trace is the scenario.

* **`job_queue_cut_short`.** A signal starts to drain the queue. The `fetch` that
  is under way rejects, nothing in the iterator catches that, `consumeQueue`
  rejects, and the `catch` of `index.ts` triggers the cleanup a second time. This
  second `stopQueue` finds `isDraining` set and returns at once, and `process.exit`
  ends the process with handlers in flight. A test is called "should complete
  running jobs".
* **`tile_shared_blank`.** `deleteBlankTiles` hands the same object to every
  provider and `determineKey` writes the flipped `y` back into it. With
  `shouldFlipY` and two providers the second one flips it back: the blank
  sub-tile stays, and another key is deleted. `storeSplittedTiles` passes a
  `structuredClone` for exactly this reason. `README.md:89` promises that blank
  sub-tiles are not stored.
* **`tile_same_second`.** The comment at `tileProcessor.ts:275` says "later";
  the test is `>=` on whole seconds. A metatile rendered in the second of an
  update, just before it, is skipped as up to date until the next update.
* **`tile_orphan_loop`.** `Promise.all` fails the attempt when one provider
  rejects; the loops of the others go on. If a retry renders a newer version
  meanwhile, the orphan overwrites it with the older one, and the metatile is
  skipped although it is not up to date (`README.md:27`).
* **`tile_torn_file`.** `writeFile` truncates a tile before it writes it. An
  attempt that runs although the metatile is up to date (its details could not be
  read) and fails or dies in the middle leaves a torn tile; the details still say
  when the metatile was last rendered, and the next job skips it.

## 6. The proofs

The proof modules are checked by `tlapm` without gaps, with Z3, Zenon and LS4. Every
safety property of every passing run is a theorem, under the assumptions given here.

**JobQueueProofs**, under `JobQueueAssumption` only (finite set of jobs,
`Parallelism` positive, `RetryLimit` and `MaxFaults` natural numbers). No safety
property is inductive by itself: that the counter equals the handlers in flight
gives the bound only if one knows that a consumer that may fetch has a free slot
(`LoadInv`); that a stop finds no handler needs how flags, `stopQueue` and
pg-boss' state go together (`ControlInv`); that a settled handler wrote its
outcome needs what a delivery number says of the row (`DeliveryInv`, which speaks of
handlers whose outcome is not in the table yet or that completed the row, since a
failed row belongs to nobody). Their
conjunction with the properties is `IInv`. `Invariance` proves
`Spec => []IInv` with one lemma per conjunct (`ControlStep`, `CountStep`,
`DeliveryStep`, ...) and under it one step per action or group of actions that
can disturb it; cardinality facts (adding a handler adds one, removing one
removes one) are lemmas. From it follow `TypeCorrect`, `ParallelismHolds`,
`CountIsRight`, `DrainHolds`, `NoLostWakeup`, `ActiveJobsAreOwned`,
`OneJobDropped`, `CompletedIsProcessed` and `Exclusive`.
`QueueImplementsWorker` maps each step to a step of `GracefulWorker` or a stutter:
`TakeJob` to `Begin`, a settled handler to `End`, `Signal` and `ShutDown` to
`Close` or `Shut`, the end of the process to `Die`.

**TileProcessorProofs**, under `TileProcessorAssumption` and, theorem by theorem, as
few restrictions of the configuration as the code allows:

* *None:* attempts overlap, loops outlive them, files are torn. `LoopInv` says that
  what a loop has left belongs to the version its attempt has fetched: rows to store
  are not blank there, rows to delete are. It is inductive with the type invariant
  (`LoopsFollow`, `TypeCorrect`). `ForcedIsNeverSkipped`: an attempt that is forced
  or has no detiler is never skipped or cooled.
* *`BlanksUnshared`* (a single provider, or keys that are not flipped, or blanks that
  are not filtered): a blank object still has its own `y` until it is deleted
  (`BlankYInv`). With it, no key of another metatile is ever touched
  (`NeighboursAreSafe`), whatever overlaps, fails or is torn.
* *`BlanksUnshared` and `WritersApart`* (attempts do not overlap; a single provider,
  or storage calls that do not fail): only the one active attempt has loops
  (`ExclusionInv`), and it has a true account of what it has written (`RenderInv`),
  also where a crash or a rejected write leaves a torn file: that ends the attempt
  whose account it was. Hence `DetilerHearsOfWhole` (`RenderedIsStored`) and
  `BlanksAreDeleted`, which thus hold of the file system too.
* *`WellConfigured`* (these and atomic writes): the inductive invariant adds that
  nothing is dated later than now (`ClockInv`) and that a writing attempt is at least
  as new as any that succeeded (`SuccessionInv`). The core of the argument is
  `ShownStep`: if every sub-tile shows what was updated before second `t`
  (`ShowsSince(t)`), no step undoes that as long as an attempt that writes has a map
  that covers `t` as well. While an attempt is halfway, a sub-tile shows either the
  old version or the new one; when it is through, all show the new one, which covers
  the new timestamp because the timestamp was taken before the map was fetched
  (`PostingShows`). Theorems: `DetilerIsRight` (`Fresh`), `SuccessMeansStored`,
  `SkippingIsSafe`, and `NewerIsNeverReplaced` (`NewerIsKept`, from `NewestInv`:
  nothing stored is newer than the source or than what a writing attempt has
  fetched).

Each condition excludes a known way to go wrong: overlapping attempts with an update
between them, the orphan loop, the shared blank object, the torn file. They are
needed: the runs of section 5 violate the properties just outside.

**TileSteadyProofs** is about what remains without `WritersApart`: attempts overlap,
storage calls fail at one of many providers and orphaned loops go on. Atomic writes and
`BlanksUnshared` are still assumed.

`OverlapDoesNoHarm` proves `OverlapIsHarmless` for every version, metatile, number of
providers and of attempts. For a version `v` two facts are inductive while `v` is what
the source serves: whoever writes or has something left to write has fetched `v`
(`Uniform(v)`, since at the start nobody writes and each later fetch gets `v`), and
the rows a writing attempt has written show `v` (`Accounts(v)`). The second survives
the writes of the others because any of them, of whichever attempt, writes just what
`v` shows of that row: its image, or nothing if it is blank (`SteadyWrite`). An
attempt that has awaited all its loops has written every row everywhere, so the
metatile is current (`PostingIsCurrent`), and the same lemma keeps it so
(`SettledStep`). That nobody writes at the start is needed: an orphaned loop with an
older version left would break `Uniform(v)`.

While the source is at its first version nobody can have an older one, and what the
detiler says can be trusted as well: `SteadyInv` says that the whole metatile shows
that version once it is recorded as rendered or an attempt saw that or succeeded
(`SteadyInvariance`). `SteadyDetilerIsRight` is the pair `Fresh` and
`SucceededIsStored` until the first update, and with `MaxVersion = 1`
`SteadySkippingIsSafe` follows. At later versions a timestamp may belong to a map of
the version before, so this part does not carry over.

**RetilerProofs**, under `RetilerAssumption`. First with `Parallelism = 1`. The queue's
`IInv` is inductive for the composition because each of its steps is a step of the
queue or leaves it alone (`QueueStep`). An active attempt has a handler that is
processing (`AttemptInv`); with one slot, a handler can only take a job when none
is in flight, so no attempt is active (`NoneActive`), and each step is one of
`TileProcessor` without overlap (`TileStep`). This is `KeepsAttemptsApart`, which
brings `T!IInv` to the composition where `WellConfigured` holds. For
`CompletedMeansFresh` three facts are carried along: a completed row has a delivery
that was served (`OutcomeInv`); an attempt starts after its job was sent
(`SentInv`); and what a served attempt has shown since its job was sent is still
shown, and no active attempt fetched its map before (`ShownInv`, which is where
`ShownStep` is used again, with `t` the time the job was sent). A skip is served
because the details were right when the attempt read them (`SkipIsCurrent`).
Both conditions are needed. With two handlers, or two processes, attempts of two
jobs of a metatile do overlap, and the one with the older map may store last. So the
condition has to be configured: `consumeQueue` has 1 as the default of its
parameter, but `config/default.json:27` sets `app.parallelism` to 5 and `app.ts:28`
passes it on, and nothing in the code or the queue keeps several processes apart.

Three theorems follow: `ForcedMeansFresh` (a completed job that was forced has no
excuse), `NewerIsNeverReplaced`, and, without atomic writes, `DetilerHearsOfWhole`.

Then with *any* parallelism: a step of the composition is a step of a tile processor
that allows overlap and a step of the queue (`RunsAttempts`, `KeepsQueue`), so that
what holds of these in any configuration holds of it: `RetilerIsGraceful` (it
implements `GracefulWorker`), `NeighboursAreSafe`, and from `SteadyInv`
`SteadyCompletedIsStored`: until the first update, a job that is recorded as completed,
excused or not, has its metatile stored as it is at every provider.
`SteadyCompletedMeansFresh` is `CompletedIsFresh` with a source that never changes.

**LifecycleProofs**, under `LifecycleAssumption`, for any queue and set of
providers. On top of the queue's `IInv`: a stop was triggered and a trigger stops
the queue (`StopInv`), what is opened is registered from the moment the queue
starts (`BootInv`), and what a sole trigger has not released it still awaits
(`CleanupInv`). Theorems: `TypeCorrect`, `NoJobBegins`, `ExitsClean`, and
`LifecycleIsGraceful`: each step of the process maps to a step of `GracefulWorker` or a
stutter, since it is a step of the queue, the end of the process or a fault outside it.

**MapSplitterProofs**, under `MapSplitterAssumption`, for every metatile. With the
facts that the fetched image is the box of the metatile in unit squares
(`DrawnFacts`) and that a sub-tile and a tile of the grid with the same key are the
same (`KeysDiffer`), flipped out-of-bounds keys included: `TilesShowTheirPlace` and
`DeletionsAreSafe`. The result of `splitMap` is proved from `ResultInv`: while
extractions run, the sub-tiles still to extract, those found blank and those kept
divide the metatile's existing ones, and the blank list repeats none. When they end,
the result is what `Filter` makes of the generated sequence: `ResultsPartition`,
`ExactlyShownStored`, `StoringKeepsOrder`, `TypeCorrect`. `MetatilesAreApart` (two
metatiles of one size and zoom level share no key) and `MetatilesCoverGrid` (each tile
of the grid belongs to one) are what lets the other modules take one metatile at a
time.

**FilterProofs** shows what `Filter` returns of any sequence: the elements that are in
the set, and only those, in their order (`FilterFacts`, `FilterKeepsOrder`,
`FilterSelects`). It needs induction over the sequence. The library's induction
theorems take an operator; here the induction is over a *set* of numbers
(`SetInduction`: a set of naturals that has 0 and every successor has them all, from
the well-founded order of the naturals), and `Filter` is a recursive function.

**Only model-checked:** `ThrottledResumes`, `DrainEnds`, `EveryJobSettles` and
`ShutdownEnds`, which are liveness (fairness and `ENABLED` are out of this prover's
reach); the runs that expect a violation.

## 7. What is not modelled, and why

* The pg-boss health check, configuration, metrics, tracing: stateless, or they
  observe only. Of the wiring in the container, only the hooks that act are
  modelled (the queue is started, a map provider is chosen).
* Lists of several tiles in `storeTiles` and `deleteTiles`, and with them S3's
  batches of a thousand keys: `TileProcessor` passes one tile at a time.
* The configuration of an S3 client and its checksum middleware. Providers that
  share an endpoint share the client of the first, credentials and region included;
  a wrong key makes every store fail and is not silent.
* S3 requests and statements of pg-boss that land after their process died.
* Two triggers of the cleanup whose calls interleave beyond what
  `job_queue_cut_short` shows: `CleanExit` is about the sole trigger.
* Timeouts inside the cleanup registry and terminus.
* A clock of the worker that differs from the one in the state file, and a source
  that serves an update later than the state file says.
* Nothing is promised of attempts that overlap *across* a source update: the code has
  no protection, the older map may be stored last; listed as a hazard. The models
  have these behaviours, and `OverlapIsHarmless` resumes at the next quiet moment.
* Pixels, image formats, layers and styles, wording of errors and logs.

## 8. Plan

Done: `JobQueue` with its refinement, `TileProcessor`, their composition `Retiler`,
`Lifecycle`, `MapProvider`, `MapSplitter` and `TileGrid`, and the proofs of
section 6.

Worth doing next, in order:

1. `TilesStorage`: `storeTiles` and `deleteTiles` with lists, batches and partial
   failure, should the processor begin to pass more than one tile.
2. Two processes on one table in `Retiler`, with the overlap they bring, once the
   code protects against it.
