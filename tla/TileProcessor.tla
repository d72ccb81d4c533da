--------------------------- MODULE TileProcessor ---------------------------
(***************************************************************************)
(* TileProcessor.processTile for the successive jobs of one metatile, with *)
(* the storage providers it writes to, the detiler that remembers when the *)
(* metatile was last rendered, and a map source that changes meanwhile.    *)
(*                                                                         *)
(* An image is the version of the source it was rendered from; 0 means that*)
(* nothing is stored, and Torn a file that was cut short.  Only the y axis *)
(* of the metatile matters to its keys, so a sub-tile is its row.  An      *)
(* attempt is one call of processTile: a job's first delivery, a retry, or *)
(* another job of the same metatile.  Its provider loops run in parallel   *)
(* and outlive its failure.                                                *)
(***************************************************************************)
EXTENDS Integers

CONSTANTS
  Attempts, Providers,
  Height,                  \* rows of the tile grid at this zoom level
  Rows,                    \* the rows of the metatile's sub-tiles
  MaxVersion, BlankRows,   \* source versions, and the rows each leaves blank
  MaxTime,                 \* bound on the clock, in seconds
  Cooldowns,               \* durations the detiler may return
  Forced,                  \* attempts with tile.force, or all of them
  ShouldFlipY, ShouldFilterBlankTiles, DetilerEnabled, ProceedOnFailure,
  StorageCanFail,          \* storage calls may reject
  AtomicWrites,            \* as on S3; writeFile may leave a torn file
  Overlap                  \* attempts may run at the same time

Versions == 1 .. MaxVersion
Ys == 0 .. Height - 1
Torn == MaxVersion + 1

ASSUME TileProcessorAssumption ==
  /\ Height \in Nat /\ Rows \subseteq Ys
  /\ MaxVersion \in Nat \ {0} /\ MaxTime \in Nat
  /\ BlankRows \in [Versions -> SUBSET Rows]
  /\ Cooldowns \subseteq Nat
  /\ Forced \subseteq Attempts
  /\ {ShouldFlipY, ShouldFilterBlankTiles, DetilerEnabled, ProceedOnFailure,
      StorageCanFail, AtomicWrites, Overlap} \subseteq BOOLEAN

VARIABLES
  clock,
  version, updatedAt,  \* the current source version; when each was imported
  image,               \* image[p][k]: what provider p stores under key k
  renderedAt,          \* the detiler's details of the metatile, or NoDetails
  phase,               \* where each attempt stands
  timestamp,           \* its preRenderTimestamp
  seen,                \* tileDetails.renderedAt as it read it
  rendered,            \* the version of the map it fetched
  toStore, toDelete,   \* the rows each of its provider loops has left
  blankY               \* the y field of its blank tile objects

source == <<version, updatedAt>>
attempt == <<timestamp, seen, rendered>>
loops == <<toStore, toDelete, blankY>>
vars == <<clock, source, image, renderedAt, phase, attempt, loops>>

NoDetails == -1

FlippedY(y) == Height - 1 - y
Key(y) == IF ShouldFlipY THEN FlippedY(y) ELSE y
OwnKeys == {Key(y) : y \in Rows}

\* The sub-tiles splitMap reports as blank, and what a version leaves stored.
Blank(w) == IF ShouldFilterBlankTiles THEN BlankRows[w] ELSE {}
Rendering(w, y) == IF y \in Blank(w) THEN 0 ELSE w

Active == {"started", "comparing", "fetching", "storing", "deleting", "posting"}
Writing == {"storing", "deleting", "posting"}
NothingLeft == [p \in Providers |-> {}]

\* At first nothing of this metatile is stored, and its neighbours are.
Init ==
  /\ clock = 0
  /\ version = 1 /\ updatedAt = [v \in Versions |-> 0]
  /\ image = [p \in Providers |-> [k \in Ys |-> IF k \in OwnKeys THEN 0 ELSE 1]]
  /\ renderedAt = NoDetails
  /\ phase = [a \in Attempts |-> "waiting"]
  /\ timestamp = [a \in Attempts |-> 0]
  /\ seen = [a \in Attempts |-> NoDetails]
  /\ rendered = [a \in Attempts |-> 0]
  /\ toStore = [a \in Attempts |-> NothingLeft]
  /\ toDelete = [a \in Attempts |-> NothingLeft]
  /\ blankY = [a \in Attempts |-> [y \in Rows |-> y]]

Moves(a, from, to) == phase[a] = from /\ phase' = [phase EXCEPT ![a] = to]

----------------------------------------------------------------------------
(* The environment.                                                        *)

Tick ==
  /\ clock < MaxTime
  /\ clock' = clock + 1
  /\ UNCHANGED <<source, image, renderedAt, phase, attempt, loops>>

\* The source is updated, and the project state file says when.
UpdateSource ==
  /\ version < MaxVersion
  /\ version' = version + 1
  /\ updatedAt' = [updatedAt EXCEPT ![version'] = clock]
  /\ UNCHANGED <<clock, image, renderedAt, phase, attempt, loops>>

----------------------------------------------------------------------------
(* preProcess.                                                             *)

Start(a) ==
  /\ Overlap \/ \A b \in Attempts : phase[b] \notin Active
  /\ Moves(a, "waiting", "started")
  /\ timestamp' = [timestamp EXCEPT ![a] = clock]
  /\ UNCHANGED <<clock, source, image, renderedAt, seen, rendered, loops>>

\* Forced, or no detiler is configured.
ProcessAnyway(a) ==
  /\ a \in Forced \/ ~DetilerEnabled
  /\ Moves(a, "started", "fetching")
  /\ UNCHANGED <<clock, source, image, renderedAt, attempt, loops>>

GetTileDetails(a) ==
  /\ a \notin Forced /\ DetilerEnabled
  /\ Moves(a, "started", IF renderedAt = NoDetails THEN "fetching" ELSE "comparing")
  /\ seen' = [seen EXCEPT ![a] = renderedAt]
  /\ UNCHANGED <<clock, source, image, renderedAt, timestamp, rendered, loops>>

\* A call to the detiler or the project state rejects: process the tile.
PreProcessFails(a) ==
  /\ a \notin Forced /\ DetilerEnabled
  /\ Moves(a, "started", "fetching") \/ Moves(a, "comparing", "fetching")
  /\ UNCHANGED <<clock, source, image, renderedAt, attempt, loops>>

UpToDate(a) == seen[a] >= updatedAt[version]
Cooling(a) == \E c \in Cooldowns : c > timestamp[a] - seen[a]

SkipUpToDate(a) ==
  /\ UpToDate(a)
  /\ Moves(a, "comparing", "skipped")
  /\ UNCHANGED <<clock, source, image, renderedAt, attempt, loops>>

SkipCooling(a) ==
  /\ ~UpToDate(a) /\ Cooling(a)
  /\ Moves(a, "comparing", "cooled")
  /\ UNCHANGED <<clock, source, image, renderedAt, attempt, loops>>

\* The cooldowns that apply may be none of those that would still be cooling.
ProjectUpdated(a) ==
  /\ ~UpToDate(a)
  /\ Moves(a, "comparing", "fetching")
  /\ UNCHANGED <<clock, source, image, renderedAt, attempt, loops>>

----------------------------------------------------------------------------
(* Fetching, splitting, storing and deleting.                              *)

FetchAndSplit(a) ==
  /\ Moves(a, "fetching", "storing")
  /\ rendered' = [rendered EXCEPT ![a] = version]
  /\ toStore' = [toStore EXCEPT ![a] = [p \in Providers |-> Rows \ Blank(version)]]
  /\ UNCHANGED <<clock, source, image, renderedAt, timestamp, seen, toDelete, blankY>>

FetchOrSplitFails(a) ==
  /\ Moves(a, "fetching", "failed")
  /\ UNCHANGED <<clock, source, image, renderedAt, attempt, loops>>

Put(p, k, w) == image' = [image EXCEPT ![p][k] = w]

\* The sub-tile a storing loop is at: storeTiles gets a clone of each, in order.
FirstOf(left) == {y \in left : \A z \in left : y <= z}

\* The loop of provider p stores its next sub-tile, whether or not the loop of
\* another provider has failed the attempt meanwhile.
StoreSubTile(a, p) ==
  /\ \E y \in FirstOf(toStore[a][p]) :
       /\ Put(p, Key(y), rendered[a])
       /\ toStore' = [toStore EXCEPT ![a][p] = @ \ {y}]
  /\ UNCHANGED <<clock, source, renderedAt, phase, attempt, toDelete, blankY>>

\* Mutant: Promise.allSettled.
FailsSilently(a) == UNCHANGED phase

Fails(a) == phase' = [phase EXCEPT ![a] = IF @ \in Active THEN "failed" ELSE @]

\* storeTiles rejects, with or without effect, or in the middle of the file:
\* Promise.all rejects at once and only this loop stops.
StoreRejects(a, p) ==
  /\ StorageCanFail
  /\ \E y \in FirstOf(toStore[a][p]) :
       \/ UNCHANGED image
       \/ Put(p, Key(y), rendered[a])
       \/ ~AtomicWrites /\ Put(p, Key(y), Torn)
  /\ toStore' = [toStore EXCEPT ![a][p] = {}]
  /\ Fails(a)
  /\ UNCHANGED <<clock, source, renderedAt, attempt, toDelete, blankY>>

\* Mutants: nobody awaits the loops; the first provider that is done suffices.
AllDoneUnawaited(left) == TRUE
AllDoneRace(left) == \E p \in Providers : left[p] = {}

\* Promise.all over the providers.
AllDone(left) == left = NothingLeft

AllStored(a) ==
  /\ AllDone(toStore[a])
  /\ Moves(a, "storing", "deleting")
  /\ toDelete' = [toDelete EXCEPT ![a] = [p \in Providers |-> Blank(rendered[a])]]
  /\ UNCHANGED <<clock, source, image, renderedAt, attempt, toStore, blankY>>

\* Mutants: the flip is one off; the key is not flipped.
DetermineKeyOffByOne(a, y) == blankY' = [blankY EXCEPT ![a][y] = Height - @]
DetermineKeyUnflipped(a, y) == UNCHANGED blankY

\* determineKey(blankTile) writes the flipped y back to the object, and all
\* provider loops share the object.
DetermineKey(a, y) ==
  blankY' = IF ShouldFlipY
            THEN [blankY EXCEPT ![a][y] = FlippedY(@)] ELSE blankY

\* The blank tiles come in the order their extraction finished.
DeleteSubTile(a, p) ==
  /\ \E y \in toDelete[a][p] :
       /\ DetermineKey(a, y)
       /\ Put(p, blankY'[a][y], 0)
       /\ toDelete' = [toDelete EXCEPT ![a][p] = @ \ {y}]
  /\ UNCHANGED <<clock, source, renderedAt, phase, attempt, toStore>>

DeleteRejects(a, p) ==
  /\ StorageCanFail
  /\ \E y \in toDelete[a][p] :
       /\ DetermineKey(a, y)
       /\ Put(p, blankY'[a][y], 0) \/ UNCHANGED image
  /\ toDelete' = [toDelete EXCEPT ![a][p] = {}]
  /\ Fails(a)
  /\ UNCHANGED <<clock, source, renderedAt, attempt, toStore>>

AllDeleted(a) ==
  /\ AllDone(toDelete[a])
  /\ Moves(a, "deleting", "posting")
  /\ UNCHANGED <<clock, source, image, renderedAt, attempt, loops>>

----------------------------------------------------------------------------
(* postProcess, and the end of the process an attempt runs in.             *)

\* Mutant: the time after the rendering is recorded, not the one before it.
SetTileDetailsNow(a) == renderedAt' = clock

SetTileDetails(a) == renderedAt' = timestamp[a]

PostProcess(a) ==
  /\ Moves(a, "posting", "succeeded")
  /\ IF DetilerEnabled THEN SetTileDetails(a) ELSE UNCHANGED renderedAt
  /\ UNCHANGED <<clock, source, image, attempt, loops>>

\* setTileDetails rejects, with or without effect.
PostProcessFails(a) ==
  /\ DetilerEnabled
  /\ Moves(a, "posting", IF ProceedOnFailure THEN "succeeded" ELSE "failed")
  /\ SetTileDetails(a) \/ UNCHANGED renderedAt
  /\ UNCHANGED <<clock, source, image, attempt, loops>>

\* The files that attempts are in the middle of writing.
BeingWritten(S) ==
  {pk \in Providers \X Ys :
     \E a \in S : \E y \in FirstOf(toStore[a][pk[1]]) : pk[2] = Key(y)}

\* The process that runs the attempts S dies: they stop, the loops of those that
\* had failed included, and what they were writing may be torn.
Crash(S) ==
  /\ S # {} /\ \A a \in S : phase[a] \in Active \cup {"failed"}
  /\ phase' = [a \in Attempts |-> IF a \in S THEN "lost" ELSE phase[a]]
  /\ toStore' = [a \in Attempts |-> IF a \in S THEN NothingLeft ELSE toStore[a]]
  /\ toDelete' = [a \in Attempts |-> IF a \in S THEN NothingLeft ELSE toDelete[a]]
  /\ \E torn \in IF AtomicWrites THEN {{}} ELSE SUBSET BeingWritten(S) :
       image' = [p \in Providers |-> [k \in Ys |->
                   IF <<p, k>> \in torn THEN Torn ELSE image[p][k]]]
  /\ UNCHANGED <<clock, source, renderedAt, attempt, blankY>>

----------------------------------------------------------------------------
PreProcess(a) ==
  \/ Start(a) \/ ProcessAnyway(a) \/ GetTileDetails(a) \/ PreProcessFails(a)
  \/ SkipUpToDate(a) \/ SkipCooling(a) \/ ProjectUpdated(a)

Process(a) ==
  \/ FetchAndSplit(a) \/ FetchOrSplitFails(a) \/ AllStored(a) \/ AllDeleted(a)
  \/ \E p \in Providers :
       \/ StoreSubTile(a, p) \/ StoreRejects(a, p)
       \/ DeleteSubTile(a, p) \/ DeleteRejects(a, p)
  \/ PostProcess(a) \/ PostProcessFails(a)

Next == \/ Tick \/ UpdateSource
        \/ \E a \in Attempts : PreProcess(a) \/ Process(a)
        \/ \E S \in SUBSET Attempts : Crash(S)

Spec == Init /\ [][Next]_vars

----------------------------------------------------------------------------
(* Correctness.                                                            *)

TypeOK ==
  /\ clock \in Nat
  /\ version \in Versions /\ updatedAt \in [Versions -> Nat]
  /\ image \in [Providers -> [Ys -> 0 .. Torn]]
  /\ renderedAt \in Nat \cup {NoDetails}
  /\ phase \in [Attempts -> Active \cup {"waiting", "skipped", "cooled", "failed",
                                         "succeeded", "lost"}]
  /\ timestamp \in [Attempts -> Nat]
  /\ seen \in [Attempts -> Nat \cup {NoDetails}]
  /\ rendered \in [Attempts -> 0 .. MaxVersion]
  /\ toStore \in [Attempts -> [Providers -> SUBSET Rows]]
  /\ toDelete \in [Attempts -> [Providers -> SUBSET Rows]]
  /\ blankY \in [Attempts -> [Rows -> Ys]]

\* Version w includes every update imported before second t.
Covers(w, t) == \A v \in 1 .. version : updatedAt[v] < t => v <= w

\* Sub-tile y at provider p shows every update imported before second t.
Shows(p, y, t) ==
  \E w \in 1 .. version : Covers(w, t) /\ image[p][Key(y)] = Rendering(w, y)

\* What the detiler says is true of every provider: if the metatile is recorded
\* as rendered at t, each of its sub-tiles shows every update from before t.
Fresh ==
  renderedAt # NoDetails => \A p \in Providers, y \in Rows : Shows(p, y, renderedAt)

Current == \A p \in Providers, y \in Rows : image[p][Key(y)] = Rendering(version, y)

\* A metatile skipped as up to date, rendered in a later second than the last
\* update, is the current one at every provider.
SkippedWasCurrent ==
  [][\A a \in Attempts :
        SkipUpToDate(a) /\ seen[a] > updatedAt[version] => Current]_vars

\* The comment before the test says "skip processing if tile update time is
\* later than project update time": what is skipped as up to date is current.
SkippedIsUpToDate == [][\A a \in Attempts : SkipUpToDate(a) => Current]_vars

\* Once an attempt that rendered the current version has succeeded, the storage
\* shows that version at every provider, blank sub-tiles included.
SucceededIsStored ==
  (\E a \in Attempts : phase[a] = "succeeded" /\ rendered[a] = version) => Current

\* shouldFilterBlankTiles: when an attempt succeeds, the sub-tiles it found blank
\* are stored at no provider.
BlankIsNotStored ==
  [][\A a \in Attempts : PostProcess(a) =>
       \A p \in Providers, y \in Blank(rendered[a]) : image[p][Key(y)] = 0]_vars

\* The detiler is only told of whole renderings: an attempt that is about to has
\* each of its sub-tiles stored at every provider, and its blank ones at none.
RenderedIsStored ==
  \A a \in Attempts : phase[a] = "posting" =>
    \A p \in Providers, y \in Rows : image[p][Key(y)] = Rendering(rendered[a], y)

\* An older rendering never replaces a newer one: what a loop has left to store or
\* to delete is stored there in no newer version than the one it works for.
NewerIsKept ==
  \A a \in Attempts, p \in Providers : \A y \in toStore[a][p] \cup toDelete[a][p] :
    image[p][Key(y)] <= rendered[a]

\* Nobody writes: no attempt is at it, and no loop has anything left.
Quiet ==
  \A a \in Attempts : /\ phase[a] \notin Writing
                      /\ toStore[a] = NothingLeft /\ toDelete[a] = NothingLeft

\* From a moment at which nobody writes until the next update of the source, no
\* overlap of attempts, failed call or orphaned loop does harm: once any attempt
\* has awaited its loops the metatile is current at every provider, blank
\* sub-tiles deleted, and it stays so while the others go on.
HarmlessDuring(v) ==
  [](Quiet /\ version = v =>
       []((\E a \in Attempts : phase[a] = "posting") /\ version = v =>
            [](version = v => Current)))
OverlapIsHarmless == \A v \in Versions : HarmlessDuring(v)

\* Processing the metatile never changes a key of another metatile.
NeighboursUntouched ==
  \A p \in Providers, k \in Ys \ OwnKeys : image[p][k] = 1

----------------------------------------------------------------------------
(***************************************************************************)
(* The configurations in which the detiler can be relied on, and the       *)
(* inductive invariant behind Fresh; see TileProcessorProofs.              *)
(***************************************************************************)
SoleProvider == \A p, q \in Providers : p = q

\* No blank tile object is shared by two loops that flip it.
BlanksUnshared == SoleProvider \/ ~ShouldFlipY \/ ~ShouldFilterBlankTiles

\* No orphaned loop and no second attempt writes meanwhile.
WritersApart == ~Overlap /\ (SoleProvider \/ ~StorageCanFail)

\* And no file is torn.
WellConfigured == WritersApart /\ BlanksUnshared /\ AtomicWrites

\* In any configuration an attempt has loops only while it stores or deletes or has
\* failed, and only of what it has fetched: the rows to store are not blank there,
\* those to delete are.
LoopInv ==
  \A a \in Attempts :
    /\ phase[a] \in Writing => rendered[a] \in 1 .. version
    /\ \A p \in Providers, y \in Rows :
         /\ y \in toStore[a][p] => /\ phase[a] \in {"storing", "failed"}
                                  /\ rendered[a] \in 1 .. version
                                  /\ y \notin Blank(rendered[a])
         /\ y \in toDelete[a][p] => /\ phase[a] \in {"deleting", "failed"}
                                   /\ rendered[a] \in 1 .. version
                                   /\ y \in Blank(rendered[a])

\* Nothing is dated later than now.
ClockInv == /\ renderedAt <= clock
            /\ \A v \in 1 .. version : updatedAt[v] <= clock
            /\ \A a \in Attempts : timestamp[a] <= clock

\* One attempt is active, only it has loops, and what it saw still holds.
ExclusionInv ==
  \A a \in Attempts :
    /\ phase[a] \in Active => \A b \in Attempts : phase[b] \in Active => a = b
    /\ phase[a] # "storing" => toStore[a] = NothingLeft
    /\ phase[a] # "deleting" => toDelete[a] = NothingLeft
    /\ phase[a] = "comparing" => seen[a] = renderedAt /\ renderedAt # NoDetails

\* A blank tile object still has its own y until it is deleted.
Early == {"waiting", "started", "comparing", "fetching", "storing"}
BlankYInv ==
  \A a \in Attempts :
    /\ phase[a] \in Early => \A y \in Rows : blankY[a][y] = y
    /\ \A p \in Providers, y \in Rows : y \in toDelete[a][p] => blankY[a][y] = y

\* Sub-tile y is as attempt a wants it at provider p.
Written(a, p, y) == /\ y \notin toStore[a][p] \cup toDelete[a][p]
                    /\ phase[a] = "storing" => y \notin Blank(rendered[a])

\* Attempt a has fetched a version at least as new as its timestamp and as what
\* the detiler remembers, and each loop has left just what is not yet written.
Renders(a) ==
  /\ rendered[a] \in 1 .. version
  /\ Covers(rendered[a], timestamp[a]) /\ Covers(rendered[a], renderedAt)
  /\ \A p \in Providers, y \in Rows :
       /\ y \in toStore[a][p] => y \notin Blank(rendered[a])
       /\ y \in toDelete[a][p] => y \in Blank(rendered[a])
       /\ Written(a, p, y) => image[p][Key(y)] = Rendering(rendered[a], y)

RenderInv == \A a \in Attempts : phase[a] \in Writing => Renders(a)

\* An attempt that writes has a version no older than one that has succeeded.
SuccessionInv ==
  \A a \in Attempts :
    /\ rendered[a] <= version
    /\ phase[a] = "succeeded" =>
         \A b \in Attempts : phase[b] \in Writing => rendered[a] <= rendered[b]

\* Nothing stored of the metatile is newer than the source, or than what an attempt
\* that still writes has fetched.
NewestInv ==
  \A p \in Providers, y \in Rows :
    /\ image[p][Key(y)] <= version
    /\ \A a \in Attempts : phase[a] \in Writing => image[p][Key(y)] <= rendered[a]

\* While the source stays at its first version, whatever overlaps or fails: a row
\* that a writing attempt has written shows it, and so does the whole metatile
\* once it is recorded as rendered or an attempt saw that or has succeeded.
SteadyInv ==
  /\ \A a \in Attempts :
       phase[a] \in Writing =>
         \A p \in Providers, y \in Rows :
           Written(a, p, y) => image[p][Key(y)] = Rendering(1, y)
  /\ \/ renderedAt # NoDetails
     \/ \E a \in Attempts : phase[a] \in {"comparing", "skipped", "cooled", "succeeded"}
     => Current
=============================================================================
