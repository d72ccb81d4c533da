------------------------ MODULE TileProcessorProofs ------------------------
(***************************************************************************)
(* Proofs about TileProcessor, for every grid, metatile, history of source *)
(* versions and set of attempts and providers.                             *)
(***************************************************************************)
EXTENDS TileProcessor, TLAPS

USE TileProcessorAssumption DEF TileProcessorAssumption, Versions, Ys, NoDetails,
    FirstOf, AllDone, SetTileDetails

\* Flipping is an involution within the grid, so no two sub-tiles share a key.
LEMMA KeyFacts ==
  /\ \A y \in Ys : FlippedY(y) \in Ys /\ FlippedY(FlippedY(y)) = y
  /\ \A y \in Ys : Key(y) \in Ys
  /\ \A y, z \in Ys : Key(y) = Key(z) => y = z
BY DEF FlippedY, Key

\* Only sub-tiles of the metatile are blank, and what is shown is a version or 0.
LEMMA BlankFacts ==
  \A w \in Versions : /\ Blank(w) \subseteq Rows
                      /\ \A y \in Rows : Rendering(w, y) \in 0 .. MaxVersion
BY DEF Blank, Rendering

\* Put changes one key of one provider.
LEMMA PutFacts ==
  ASSUME TypeOK, NEW p \in Providers, NEW k \in Ys, NEW w \in 0 .. Torn,
         Put(p, k, w)
  PROVE  /\ image' \in [Providers -> [Ys -> 0 .. Torn]]
         /\ image'[p][k] = w
         /\ \A q \in Providers, l \in Ys : q # p \/ l # k => image'[q][l] = image[q][l]
<1>. DEFINE stored == [image[p] EXCEPT ![k] = w]
<1>1. image[p] \in [Ys -> 0 .. Torn]
  BY DEF TypeOK
<1>2. stored \in [Ys -> 0 .. Torn] /\ stored[k] = w
  BY <1>1
<1>3. \A l \in Ys : l # k => stored[l] = image[p][l]
  BY <1>1
<1>4. image' = [image EXCEPT ![p] = stored]
  BY DEF Put
<1>. HIDE DEF stored
<1>. QED
  BY <1>2, <1>3, <1>4 DEF TypeOK

\* What a turn of a loop may do to the storage: write w under the key of y, or
\* nothing at all if the call failed before it took effect.
Writes(p, y, w) ==
  /\ image' \in [Providers -> [Ys -> 0 .. Torn]]
  /\ image'[p][Key(y)] \in {w, image[p][Key(y)]}
  /\ \A q \in Providers, l \in Ys : q # p \/ l # Key(y) => image'[q][l] = image[q][l]

\* A storage call that takes effect or does not is one of those writes.
LEMMA WritesFacts ==
  ASSUME TypeOK, NEW p \in Providers, NEW y \in Rows, NEW w \in 0 .. Torn,
         Put(p, Key(y), w) \/ UNCHANGED image
  PROVE  Writes(p, y, w)
<1>1. Key(y) \in Ys
  BY KeyFacts
<1>2. CASE Put(p, Key(y), w)
  BY <1>1, <1>2, PutFacts DEF Writes
<1>3. CASE UNCHANGED image
  BY <1>1, <1>3 DEF Writes, TypeOK
<1>. QED
  BY <1>2, <1>3

\* A turn of a storing loop may write the fetched version of one of its rows.
LEMMA StoringWrites ==
  ASSUME TypeOK, AtomicWrites, NEW a \in Attempts, NEW p \in Providers,
         StoreSubTile(a, p) \/ StoreRejects(a, p)
  PROVE  \E y \in Rows : y \in toStore[a][p] /\ Writes(p, y, rendered[a])
<1>1. PICK y \in toStore[a][p] : Put(p, Key(y), rendered[a]) \/ UNCHANGED image
  BY DEF StoreSubTile, StoreRejects
<1>2. y \in Rows /\ rendered[a] \in 0 .. Torn
  BY <1>1 DEF TypeOK, Torn
<1>. QED
  BY <1>1, <1>2, WritesFacts

\* Or, where a file can be torn, leave the key of one of its rows torn.
LEMMA StoringWritesOrTears ==
  ASSUME TypeOK, NEW a \in Attempts, NEW p \in Providers,
         StoreSubTile(a, p) \/ StoreRejects(a, p)
  PROVE  \E y \in Rows, w \in 0 .. Torn : y \in toStore[a][p] /\ Writes(p, y, w)
<1>1. PICK y \in toStore[a][p], w \in {rendered[a], Torn} :
        Put(p, Key(y), w) \/ UNCHANGED image
  BY DEF StoreSubTile, StoreRejects
<1>2. y \in Rows /\ w \in 0 .. Torn
  BY <1>1 DEF TypeOK, Torn
<1>. QED
  BY <1>1, <1>2, WritesFacts

\* A storing loop that does not fail writes the fetched version of its next row.
LEMMA StoreSubTileWrites ==
  ASSUME TypeOK, NEW a \in Attempts, NEW p \in Providers, StoreSubTile(a, p)
  PROVE  \E y \in Rows : /\ y \in toStore[a][p]
                         /\ Writes(p, y, rendered[a])
                         /\ image'[p][Key(y)] = rendered[a]
                         /\ toStore' = [toStore EXCEPT ![a][p] = @ \ {y}]
<1>1. PICK y \in toStore[a][p] : /\ Put(p, Key(y), rendered[a])
                                 /\ toStore' = [toStore EXCEPT ![a][p] = @ \ {y}]
  BY DEF StoreSubTile
<1>2. y \in Rows /\ rendered[a] \in 0 .. Torn
  BY <1>1 DEF TypeOK, Torn
<1>3. image'[p][Key(y)] = rendered[a]
  BY <1>1, <1>2, KeyFacts, PutFacts
<1>4. Writes(p, y, rendered[a])
  BY <1>1, <1>2, WritesFacts
<1>. QED
  BY <1>1, <1>2, <1>3, <1>4

\* A deleting loop finds in the object the y it had from the start, and leaves
\* the other objects alone.
LEMMA DetermineKeyFacts ==
  ASSUME TypeOK, NEW a \in Attempts, NEW y \in Rows, blankY[a][y] = y,
         DetermineKey(a, y)
  PROVE  /\ blankY' \in [Attempts -> [Rows -> Ys]]
         /\ blankY'[a][y] = Key(y)
         /\ \A b \in Attempts, z \in Rows : b # a \/ z # y => blankY'[b][z] = blankY[b][z]
<1>1. CASE ~ShouldFlipY
  BY <1>1 DEF DetermineKey, Key, TypeOK
<1>2. CASE ShouldFlipY
  <2>. DEFINE ys == [blankY[a] EXCEPT ![y] = FlippedY(y)]
  <2>1. blankY[a] \in [Rows -> Ys] /\ FlippedY(y) \in Ys
    BY KeyFacts DEF TypeOK
  <2>2. ys \in [Rows -> Ys] /\ ys[y] = FlippedY(y)
    BY <2>1
  <2>3. \A z \in Rows : z # y => ys[z] = blankY[a][z]
    BY <2>1
  <2>4. blankY' = [blankY EXCEPT ![a] = ys]
    BY <1>2 DEF DetermineKey
  <2>. HIDE DEF ys
  <2>. QED
    BY <1>2, <2>2, <2>3, <2>4 DEF Key, TypeOK
<1>. QED
  BY <1>1, <1>2

\* A turn of a deleting loop leaves keys and images, whatever else it clears.
LEMMA DeletingTypes ==
  ASSUME TypeOK, NEW a \in Attempts, NEW p \in Providers,
         DeleteSubTile(a, p) \/ DeleteRejects(a, p)
  PROVE  /\ image' \in [Providers -> [Ys -> 0 .. Torn]]
         /\ blankY' \in [Attempts -> [Rows -> Ys]]
<1>1. PICK y \in toDelete[a][p] :
        DetermineKey(a, y) /\ (Put(p, blankY'[a][y], 0) \/ UNCHANGED image)
  BY DEF DeleteSubTile, DeleteRejects
<1>2. y \in Rows /\ 0 \in 0 .. Torn
  BY <1>1 DEF TypeOK, Torn
<1>3. FlippedY(blankY[a][y]) \in Ys
  BY <1>2, KeyFacts DEF TypeOK
<1>4. blankY' \in [Attempts -> [Rows -> Ys]]
  <2>1. CASE ShouldFlipY
    <3>1. blankY' = [blankY EXCEPT ![a][y] = FlippedY(@)]
      BY <1>1, <2>1 DEF DetermineKey
    <3>2. [blankY[a] EXCEPT ![y] = FlippedY(blankY[a][y])] \in [Rows -> Ys]
      BY <1>3 DEF TypeOK
    <3>. QED
      BY <3>1, <3>2 DEF TypeOK
  <2>2. CASE ~ShouldFlipY
    BY <1>1, <2>2 DEF DetermineKey, TypeOK
  <2>. QED
    BY <2>1, <2>2
<1>5. blankY'[a][y] \in Ys
  BY <1>2, <1>4
<1>6. image' \in [Providers -> [Ys -> 0 .. Torn]]
  <2>1. CASE Put(p, blankY'[a][y], 0)
    BY <1>2, <1>5, <2>1, PutFacts
  <2>2. CASE UNCHANGED image
    BY <2>2 DEF TypeOK
  <2>. QED
    BY <1>1, <2>1, <2>2
<1>. QED
  BY <1>4, <1>6

\* A turn of a deleting loop may clear one of its rows, whose key it gets right.
LEMMA DeletingWrites ==
  ASSUME TypeOK, BlankYInv, NEW a \in Attempts, NEW p \in Providers,
         DeleteSubTile(a, p) \/ DeleteRejects(a, p)
  PROVE  \E y \in Rows : /\ y \in toDelete[a][p] /\ blankY[a][y] = y
                         /\ DetermineKey(a, y) /\ Writes(p, y, 0)
                         /\ y \notin toDelete'[a][p]
                         /\ DeleteSubTile(a, p) => image'[p][Key(y)] = 0
<1>1. PICK y \in toDelete[a][p] :
        /\ DetermineKey(a, y)
        /\ Put(p, blankY'[a][y], 0) \/ UNCHANGED image
        /\ DeleteSubTile(a, p) => Put(p, blankY'[a][y], 0)
        /\ toDelete' = [toDelete EXCEPT ![a][p] = @ \ {y}]
             \/ toDelete' = [toDelete EXCEPT ![a][p] = {}]
  <2>1. CASE DeleteSubTile(a, p)
    BY <2>1 DEF DeleteSubTile
  <2>2. CASE DeleteRejects(a, p) /\ ~DeleteSubTile(a, p)
    BY <2>2 DEF DeleteRejects
  <2>. QED
    BY <2>1, <2>2
<1>2. y \in Rows
  BY <1>1 DEF TypeOK
<1>3. blankY[a][y] = y
  BY <1>1, <1>2 DEF BlankYInv
<1>4. blankY'[a][y] = Key(y)
  BY <1>1, <1>2, <1>3, DetermineKeyFacts
<1>5. y \notin toDelete'[a][p]
  BY <1>1 DEF TypeOK
<1>6. DeleteSubTile(a, p) => image'[p][Key(y)] = 0
  BY <1>1, <1>2, <1>4, KeyFacts, PutFacts DEF Torn
<1>. QED
  BY <1>1, <1>2, <1>3, <1>4, <1>5, <1>6, WritesFacts DEF Torn

\* A process that dies stops its attempts and their loops; where no file can be
\* torn, the storage stays as it is.
LEMMA CrashFacts ==
  ASSUME TypeOK, NEW S \in SUBSET Attempts, Crash(S)
  PROVE  /\ image' \in [Providers -> [Ys -> 0 .. Torn]]
         /\ AtomicWrites \/ BeingWritten(S) = {} => UNCHANGED image
         /\ \A p \in Providers, k \in Ys \ OwnKeys : image'[p][k] = image[p][k]
         /\ \A a \in Attempts : phase'[a] \in {phase[a], "lost"}
         /\ \A a \in Attempts : \/ /\ phase'[a] = "lost"
                                  /\ toStore'[a] = NothingLeft /\ toDelete'[a] = NothingLeft
                               \/ /\ phase'[a] = phase[a]
                                  /\ toStore'[a] = toStore[a] /\ toDelete'[a] = toDelete[a]
<1>1. PICK torn : /\ AtomicWrites => torn = {}
                  /\ torn \subseteq BeingWritten(S)
                  /\ image' = [p \in Providers |-> [k \in Ys |->
                                IF <<p, k>> \in torn THEN Torn ELSE image[p][k]]]
  BY DEF Crash
<1>2. image' \in [Providers -> [Ys -> 0 .. Torn]]
  BY <1>1 DEF TypeOK, Torn
<1>3. AtomicWrites \/ BeingWritten(S) = {} => UNCHANGED image
  BY <1>1 DEF TypeOK
<1>4. ASSUME NEW p \in Providers, NEW k \in Ys \ OwnKeys
      PROVE  image'[p][k] = image[p][k]
  <2>1. <<p, k>> \notin BeingWritten(S)
    BY DEF BeingWritten, OwnKeys, TypeOK
  <2>. QED
    BY <1>1, <2>1
<1>5. \A a \in Attempts : \/ /\ phase'[a] = "lost"
                              /\ toStore'[a] = NothingLeft /\ toDelete'[a] = NothingLeft
                           \/ /\ phase'[a] = phase[a]
                              /\ toStore'[a] = toStore[a] /\ toDelete'[a] = toDelete[a]
  BY DEF Crash
<1>. QED
  BY <1>2, <1>3, <1>4, <1>5

\* Every step keeps the type invariant.
LEMMA TypeStep ==
  ASSUME TypeOK, LoopInv, [Next]_vars
  PROVE  TypeOK'
<1>. USE DEF TypeOK, Active, Moves, source, attempt, loops
<1>1. CASE Tick
  BY <1>1 DEF Tick
<1>2. CASE UpdateSource
  BY <1>2 DEF UpdateSource
<1>3. ASSUME NEW a \in Attempts, Start(a) PROVE TypeOK'
  BY <1>3 DEF Start
<1>4. ASSUME NEW a \in Attempts, ProcessAnyway(a) PROVE TypeOK'
  BY <1>4 DEF ProcessAnyway
<1>5. ASSUME NEW a \in Attempts, GetTileDetails(a) PROVE TypeOK'
  BY <1>5 DEF GetTileDetails
<1>6. ASSUME NEW a \in Attempts, PreProcessFails(a) PROVE TypeOK'
  BY <1>6 DEF PreProcessFails
<1>7. ASSUME NEW a \in Attempts, SkipUpToDate(a) PROVE TypeOK'
  BY <1>7 DEF SkipUpToDate
<1>8. ASSUME NEW a \in Attempts, SkipCooling(a) PROVE TypeOK'
  BY <1>8 DEF SkipCooling
<1>9. ASSUME NEW a \in Attempts, ProjectUpdated(a) PROVE TypeOK'
  BY <1>9 DEF ProjectUpdated
<1>10. ASSUME NEW a \in Attempts, FetchAndSplit(a) PROVE TypeOK'
  BY <1>10, BlankFacts DEF FetchAndSplit
<1>11. ASSUME NEW a \in Attempts, FetchOrSplitFails(a) PROVE TypeOK'
  BY <1>11 DEF FetchOrSplitFails
<1>12. ASSUME NEW a \in Attempts, AllStored(a) PROVE TypeOK'
  <2>1. Blank(rendered[a]) \subseteq Rows
    BY <1>12, BlankFacts DEF AllStored, LoopInv, Writing
  <2>. QED
    BY <1>12, <2>1 DEF AllStored
<1>13. ASSUME NEW a \in Attempts, AllDeleted(a) PROVE TypeOK'
  BY <1>13 DEF AllDeleted
<1>14. ASSUME NEW a \in Attempts, PostProcess(a) PROVE TypeOK'
  BY <1>14 DEF PostProcess
<1>15. ASSUME NEW a \in Attempts, PostProcessFails(a) PROVE TypeOK'
  BY <1>15 DEF PostProcessFails
<1>16. ASSUME NEW S \in SUBSET Attempts, Crash(S) PROVE TypeOK'
  <2>1. image' \in [Providers -> [Ys -> 0 .. Torn]]
    BY <1>16, CrashFacts
  <2>2. /\ toStore' \in [Attempts -> [Providers -> SUBSET Rows]]
        /\ toDelete' \in [Attempts -> [Providers -> SUBSET Rows]]
    BY <1>16 DEF Crash, NothingLeft
  <2>3. phase' \in [Attempts -> Active \cup {"waiting", "skipped", "cooled", "failed",
                                             "succeeded", "lost"}]
    BY <1>16 DEF Crash
  <2>4. UNCHANGED <<clock, version, updatedAt, renderedAt, timestamp, seen, rendered, blankY>>
    BY <1>16 DEF Crash
  <2>. QED
    BY <2>1, <2>2, <2>3, <2>4
<1>17. ASSUME NEW a \in Attempts, NEW p \in Providers, StoreSubTile(a, p)
       PROVE  TypeOK'
  <2>1. image' \in [Providers -> [Ys -> 0 .. Torn]]
    BY <1>17, StoringWritesOrTears DEF Writes
  <2>2. toStore' \in [Attempts -> [Providers -> SUBSET Rows]]
    BY <1>17 DEF StoreSubTile
  <2>3. phase' \in [Attempts -> Active \cup {"waiting", "skipped", "cooled", "failed",
                                             "succeeded", "lost"}]
    BY <1>17 DEF StoreSubTile, Fails
  <2>. QED
    BY <1>17, <2>1, <2>2, <2>3 DEF StoreSubTile
<1>18. ASSUME NEW a \in Attempts, NEW p \in Providers, StoreRejects(a, p)
       PROVE  TypeOK'
  <2>1. image' \in [Providers -> [Ys -> 0 .. Torn]]
    BY <1>18, StoringWritesOrTears DEF Writes
  <2>2. toStore' \in [Attempts -> [Providers -> SUBSET Rows]]
    BY <1>18 DEF StoreRejects
  <2>3. phase' \in [Attempts -> Active \cup {"waiting", "skipped", "cooled", "failed",
                                             "succeeded", "lost"}]
    BY <1>18 DEF StoreRejects, Fails
  <2>. QED
    BY <1>18, <2>1, <2>2, <2>3 DEF StoreRejects
<1>19. ASSUME NEW a \in Attempts, NEW p \in Providers, DeleteSubTile(a, p)
       PROVE  TypeOK'
  <2>1. image' \in [Providers -> [Ys -> 0 .. Torn]]
    BY <1>19, DeletingTypes
  <2>2. blankY' \in [Attempts -> [Rows -> Ys]]
    BY <1>19, DeletingTypes
  <2>3. toDelete' \in [Attempts -> [Providers -> SUBSET Rows]]
    BY <1>19 DEF DeleteSubTile
  <2>. QED
    BY <1>19, <2>1, <2>2, <2>3 DEF DeleteSubTile, Fails
<1>20. ASSUME NEW a \in Attempts, NEW p \in Providers, DeleteRejects(a, p)
       PROVE  TypeOK'
  <2>1. image' \in [Providers -> [Ys -> 0 .. Torn]]
    BY <1>20, DeletingTypes
  <2>2. blankY' \in [Attempts -> [Rows -> Ys]]
    BY <1>20, DeletingTypes
  <2>3. toDelete' \in [Attempts -> [Providers -> SUBSET Rows]]
    BY <1>20 DEF DeleteRejects
  <2>. QED
    BY <1>20, <2>1, <2>2, <2>3 DEF DeleteRejects, Fails
<1>21. CASE UNCHANGED vars
  BY <1>21 DEF vars
<1>. QED
  BY <1>1, <1>2, <1>3, <1>4, <1>5, <1>6, <1>7, <1>8, <1>9, <1>10, <1>11, <1>12,
     <1>13, <1>14, <1>15, <1>16, <1>17, <1>18, <1>19, <1>20, <1>21 DEF Next,
     PreProcess, Process

\* An attempt that does not store or delete and has not failed has no loops.
LEMMA NoLoops ==
  ASSUME TypeOK, LoopInv, NEW a \in Attempts, NEW p \in Providers
  PROVE  /\ phase[a] \notin {"storing", "failed"} => toStore[a][p] = {}
         /\ phase[a] \notin {"deleting", "failed"} => toDelete[a][p] = {}
<1>1. toStore[a][p] \subseteq Rows /\ toDelete[a][p] \subseteq Rows
  BY DEF TypeOK
<1>. QED
  BY <1>1 DEF LoopInv

\* A step that fetches nothing adds no rows to the loops, and leaves an attempt that
\* has loops in its phase, or failed.
LEMMA LoopFrame ==
  ASSUME TypeOK, LoopInv, UNCHANGED rendered, UNCHANGED version \/ UpdateSource,
         \A a \in Attempts, p \in Providers : /\ toStore'[a][p] \subseteq toStore[a][p]
                                             /\ toDelete'[a][p] \subseteq toDelete[a][p],
         \A a \in Attempts : phase'[a] \in Writing => phase[a] \in Writing,
         \A a \in Attempts : \/ phase'[a] \in {phase[a], "failed"}
                             \/ \A p \in Providers :
                                  toStore'[a][p] = {} /\ toDelete'[a][p] = {}
  PROVE  LoopInv'
<1>1. version \in Nat /\ version' \in Nat /\ version <= version'
  BY DEF UpdateSource, TypeOK
<1>2. \A w \in 1 .. version : w \in 1 .. version'
  BY <1>1
<1>. QED
  BY <1>2 DEF LoopInv, Blank

\* Every step leaves the loops with what their attempt fetched.
LEMMA LoopStep ==
  ASSUME TypeOK, LoopInv, [Next]_vars
  PROVE  LoopInv'
<1>. USE DEF TypeOK, Writing, Moves, source, attempt, loops
<1>1. CASE Tick
  BY <1>1, LoopFrame DEF Tick
<1>2. CASE UpdateSource
  BY <1>2, LoopFrame DEF UpdateSource
<1>3. ASSUME NEW a \in Attempts, Start(a) PROVE LoopInv'
  <2>1. \A p \in Providers : toStore[a][p] = {} /\ toDelete[a][p] = {}
    BY <1>3, NoLoops DEF Start
  <2>. QED
    BY <1>3, <2>1, LoopFrame DEF Start
<1>4. ASSUME NEW a \in Attempts, ProcessAnyway(a) PROVE LoopInv'
  <2>1. \A p \in Providers : toStore[a][p] = {} /\ toDelete[a][p] = {}
    BY <1>4, NoLoops DEF ProcessAnyway
  <2>. QED
    BY <1>4, <2>1, LoopFrame DEF ProcessAnyway
<1>5. ASSUME NEW a \in Attempts, GetTileDetails(a) PROVE LoopInv'
  <2>1. \A p \in Providers : toStore[a][p] = {} /\ toDelete[a][p] = {}
    BY <1>5, NoLoops DEF GetTileDetails
  <2>. QED
    BY <1>5, <2>1, LoopFrame DEF GetTileDetails
<1>6. ASSUME NEW a \in Attempts, PreProcessFails(a) PROVE LoopInv'
  <2>1. \A p \in Providers : toStore[a][p] = {} /\ toDelete[a][p] = {}
    BY <1>6, NoLoops DEF PreProcessFails
  <2>. QED
    BY <1>6, <2>1, LoopFrame DEF PreProcessFails
<1>7. ASSUME NEW a \in Attempts, SkipUpToDate(a) PROVE LoopInv'
  <2>1. \A p \in Providers : toStore[a][p] = {} /\ toDelete[a][p] = {}
    BY <1>7, NoLoops DEF SkipUpToDate
  <2>. QED
    BY <1>7, <2>1, LoopFrame DEF SkipUpToDate
<1>8. ASSUME NEW a \in Attempts, SkipCooling(a) PROVE LoopInv'
  <2>1. \A p \in Providers : toStore[a][p] = {} /\ toDelete[a][p] = {}
    BY <1>8, NoLoops DEF SkipCooling
  <2>. QED
    BY <1>8, <2>1, LoopFrame DEF SkipCooling
<1>9. ASSUME NEW a \in Attempts, ProjectUpdated(a) PROVE LoopInv'
  <2>1. \A p \in Providers : toStore[a][p] = {} /\ toDelete[a][p] = {}
    BY <1>9, NoLoops DEF ProjectUpdated
  <2>. QED
    BY <1>9, <2>1, LoopFrame DEF ProjectUpdated
<1>10. ASSUME NEW a \in Attempts, FetchAndSplit(a) PROVE LoopInv'
  <2>1. \A p \in Providers : toStore[a][p] = {} /\ toDelete[a][p] = {}
    BY <1>10, NoLoops DEF FetchAndSplit
  <2>2. version \in 1 .. version
    OBVIOUS
  <2>. QED
    BY <1>10, <2>1, <2>2 DEF FetchAndSplit, LoopInv, Blank
<1>11. ASSUME NEW a \in Attempts, FetchOrSplitFails(a) PROVE LoopInv'
  <2>1. \A p \in Providers : toStore[a][p] = {} /\ toDelete[a][p] = {}
    BY <1>11, NoLoops DEF FetchOrSplitFails
  <2>. QED
    BY <1>11, <2>1, LoopFrame DEF FetchOrSplitFails
<1>12. ASSUME NEW a \in Attempts, AllStored(a) PROVE LoopInv'
  <2>1. \A p \in Providers : toStore[a][p] = {}
    BY <1>12 DEF AllStored, NothingLeft
  <2>. QED
    BY <1>12, <2>1 DEF AllStored, LoopInv, Blank
<1>13. ASSUME NEW a \in Attempts, AllDeleted(a) PROVE LoopInv'
  <2>1. \A p \in Providers : toStore[a][p] = {} /\ toDelete[a][p] = {}
    BY <1>13, NoLoops DEF AllDeleted, NothingLeft
  <2>. QED
    BY <1>13, <2>1, LoopFrame DEF AllDeleted
<1>14. ASSUME NEW a \in Attempts, PostProcess(a) PROVE LoopInv'
  <2>1. \A p \in Providers : toStore[a][p] = {} /\ toDelete[a][p] = {}
    BY <1>14, NoLoops DEF PostProcess
  <2>. QED
    BY <1>14, <2>1, LoopFrame DEF PostProcess
<1>15. ASSUME NEW a \in Attempts, PostProcessFails(a) PROVE LoopInv'
  <2>1. \A p \in Providers : toStore[a][p] = {} /\ toDelete[a][p] = {}
    BY <1>15, NoLoops DEF PostProcessFails
  <2>. QED
    BY <1>15, <2>1, LoopFrame DEF PostProcessFails
<1>16. ASSUME NEW S \in SUBSET Attempts, Crash(S) PROVE LoopInv'
  BY <1>16, CrashFacts, LoopFrame DEF Crash, NothingLeft
<1>17. ASSUME NEW a \in Attempts, NEW p \in Providers, StoreSubTile(a, p)
       PROVE  LoopInv'
  <2>1. \A b \in Attempts, q \in Providers : toStore'[b][q] \subseteq toStore[b][q]
    BY <1>17 DEF StoreSubTile
  <2>2. UNCHANGED <<version, rendered, phase, toDelete>>
    BY <1>17 DEF StoreSubTile
  <2>. QED
    BY <2>1, <2>2, LoopFrame
<1>18. ASSUME NEW a \in Attempts, NEW p \in Providers, StoreRejects(a, p)
       PROVE  LoopInv'
  <2>1. \A b \in Attempts, q \in Providers : toStore'[b][q] \subseteq toStore[b][q]
    BY <1>18 DEF StoreRejects
  <2>2. \A b \in Attempts : phase'[b] \in {phase[b], "failed"}
    BY <1>18 DEF StoreRejects, Fails
  <2>3. UNCHANGED <<version, rendered, toDelete>>
    BY <1>18 DEF StoreRejects
  <2>. QED
    BY <2>1, <2>2, <2>3, LoopFrame
<1>19. ASSUME NEW a \in Attempts, NEW p \in Providers, DeleteSubTile(a, p)
       PROVE  LoopInv'
  <2>1. \A b \in Attempts, q \in Providers : toDelete'[b][q] \subseteq toDelete[b][q]
    BY <1>19 DEF DeleteSubTile
  <2>2. UNCHANGED <<version, rendered, phase, toStore>>
    BY <1>19 DEF DeleteSubTile
  <2>. QED
    BY <2>1, <2>2, LoopFrame
<1>20. ASSUME NEW a \in Attempts, NEW p \in Providers, DeleteRejects(a, p)
       PROVE  LoopInv'
  <2>1. \A b \in Attempts, q \in Providers : toDelete'[b][q] \subseteq toDelete[b][q]
    BY <1>20 DEF DeleteRejects
  <2>2. \A b \in Attempts : phase'[b] \in {phase[b], "failed"}
    BY <1>20 DEF DeleteRejects, Fails
  <2>3. UNCHANGED <<version, rendered, toStore>>
    BY <1>20 DEF DeleteRejects
  <2>. QED
    BY <2>1, <2>2, <2>3, LoopFrame
<1>21. CASE UNCHANGED vars
  BY <1>21, LoopFrame DEF vars
<1>. QED
  BY <1>1, <1>2, <1>3, <1>4, <1>5, <1>6, <1>7, <1>8, <1>9, <1>10, <1>11, <1>12,
     <1>13, <1>14, <1>15, <1>16, <1>17, <1>18, <1>19, <1>20, <1>21 DEF Next,
     PreProcess, Process

\* Time only makes the past longer.
LEMMA ClockTick ==
  ASSUME TypeOK, ClockInv, Tick
  PROVE  ClockInv'
<1>1. /\ clock \in Nat /\ clock' = clock + 1
      /\ UNCHANGED <<renderedAt, version, updatedAt, timestamp>>
  BY DEF TypeOK, Tick, source, attempt
<1>2. renderedAt \in Int /\ version \in Nat /\ updatedAt \in [Versions -> Nat]
      /\ timestamp \in [Attempts -> Nat] /\ \A v \in 1 .. version : v \in Versions
  BY DEF TypeOK
<1>3. renderedAt <= clock'
  BY <1>1, <1>2 DEF ClockInv
<1>4. ASSUME NEW v \in 1 .. version PROVE updatedAt[v] <= clock'
  <2>1. updatedAt[v] \in Nat
    BY <1>2
  <2>2. updatedAt[v] <= clock
    BY DEF ClockInv
  <2>. QED
    BY <1>1, <2>1, <2>2
<1>5. \A a \in Attempts : timestamp[a] <= clock'
  BY <1>1, <1>2 DEF ClockInv
<1>. QED
  BY <1>1, <1>3, <1>4, <1>5 DEF ClockInv

\* Every step keeps all dates in the past.
LEMMA ClockStep ==
  ASSUME TypeOK, ClockInv, [Next]_vars
  PROVE  ClockInv'
<1>. USE DEF TypeOK, ClockInv, Moves, source, attempt, loops
<1>1. CASE Tick
  BY <1>1, ClockTick
<1>2. CASE UpdateSource
  BY <1>2 DEF UpdateSource
<1>3. ASSUME NEW a \in Attempts, Start(a) PROVE ClockInv'
  BY <1>3 DEF Start
<1>4. ASSUME NEW a \in Attempts, ProcessAnyway(a) PROVE ClockInv'
  BY <1>4 DEF ProcessAnyway
<1>5. ASSUME NEW a \in Attempts, GetTileDetails(a) PROVE ClockInv'
  BY <1>5 DEF GetTileDetails
<1>6. ASSUME NEW a \in Attempts, PreProcessFails(a) PROVE ClockInv'
  BY <1>6 DEF PreProcessFails
<1>7. ASSUME NEW a \in Attempts, SkipUpToDate(a) PROVE ClockInv'
  BY <1>7 DEF SkipUpToDate
<1>8. ASSUME NEW a \in Attempts, SkipCooling(a) PROVE ClockInv'
  BY <1>8 DEF SkipCooling
<1>9. ASSUME NEW a \in Attempts, ProjectUpdated(a) PROVE ClockInv'
  BY <1>9 DEF ProjectUpdated
<1>10. ASSUME NEW a \in Attempts, FetchAndSplit(a) PROVE ClockInv'
  BY <1>10 DEF FetchAndSplit
<1>11. ASSUME NEW a \in Attempts, FetchOrSplitFails(a) PROVE ClockInv'
  BY <1>11 DEF FetchOrSplitFails
<1>12. ASSUME NEW a \in Attempts, AllStored(a) PROVE ClockInv'
  BY <1>12 DEF AllStored
<1>13. ASSUME NEW a \in Attempts, AllDeleted(a) PROVE ClockInv'
  BY <1>13 DEF AllDeleted
<1>14. ASSUME NEW a \in Attempts, PostProcess(a) PROVE ClockInv'
  BY <1>14 DEF PostProcess
<1>15. ASSUME NEW a \in Attempts, PostProcessFails(a) PROVE ClockInv'
  BY <1>15 DEF PostProcessFails
<1>16. ASSUME NEW S \in SUBSET Attempts, Crash(S) PROVE ClockInv'
  BY <1>16, CrashFacts DEF Crash
<1>17. ASSUME NEW a \in Attempts, NEW p \in Providers, StoreSubTile(a, p)
       PROVE  ClockInv'
  BY <1>17 DEF StoreSubTile
<1>18. ASSUME NEW a \in Attempts, NEW p \in Providers, StoreRejects(a, p)
       PROVE  ClockInv'
  BY <1>18 DEF StoreRejects
<1>19. ASSUME NEW a \in Attempts, NEW p \in Providers, DeleteSubTile(a, p)
       PROVE  ClockInv'
  BY <1>19 DEF DeleteSubTile
<1>20. ASSUME NEW a \in Attempts, NEW p \in Providers, DeleteRejects(a, p)
       PROVE  ClockInv'
  BY <1>20 DEF DeleteRejects
<1>21. CASE UNCHANGED vars
  BY <1>21 DEF vars
<1>. QED
  BY <1>1, <1>2, <1>3, <1>4, <1>5, <1>6, <1>7, <1>8, <1>9, <1>10, <1>11, <1>12,
     <1>13, <1>14, <1>15, <1>16, <1>17, <1>18, <1>19, <1>20, <1>21 DEF Next,
     PreProcess, Process

\* Without overlap one attempt is active; where storage cannot fail, or a sole
\* provider's loop is the one that failed, a failed attempt has no loop left.
LEMMA ExclusionStep ==
  ASSUME TypeOK, WritersApart, ExclusionInv, [Next]_vars
  PROVE  ExclusionInv'
<1>. USE DEF TypeOK, WritersApart, SoleProvider, ExclusionInv, NothingLeft,
        Active, Moves, source, attempt, loops
<1>1. CASE Tick
  BY <1>1 DEF Tick
<1>2. CASE UpdateSource
  BY <1>2 DEF UpdateSource
<1>3. ASSUME NEW a \in Attempts, Start(a) PROVE ExclusionInv'
  BY <1>3 DEF Start
<1>4. ASSUME NEW a \in Attempts, ProcessAnyway(a) PROVE ExclusionInv'
  BY <1>4 DEF ProcessAnyway
<1>5. ASSUME NEW a \in Attempts, GetTileDetails(a) PROVE ExclusionInv'
  BY <1>5 DEF GetTileDetails
<1>6. ASSUME NEW a \in Attempts, PreProcessFails(a) PROVE ExclusionInv'
  BY <1>6 DEF PreProcessFails
<1>7. ASSUME NEW a \in Attempts, SkipUpToDate(a) PROVE ExclusionInv'
  BY <1>7 DEF SkipUpToDate
<1>8. ASSUME NEW a \in Attempts, SkipCooling(a) PROVE ExclusionInv'
  BY <1>8 DEF SkipCooling
<1>9. ASSUME NEW a \in Attempts, ProjectUpdated(a) PROVE ExclusionInv'
  BY <1>9 DEF ProjectUpdated
<1>10. ASSUME NEW a \in Attempts, FetchAndSplit(a) PROVE ExclusionInv'
  BY <1>10 DEF FetchAndSplit
<1>11. ASSUME NEW a \in Attempts, FetchOrSplitFails(a) PROVE ExclusionInv'
  BY <1>11 DEF FetchOrSplitFails
<1>12. ASSUME NEW a \in Attempts, AllStored(a) PROVE ExclusionInv'
  BY <1>12 DEF AllStored
<1>13. ASSUME NEW a \in Attempts, AllDeleted(a) PROVE ExclusionInv'
  BY <1>13 DEF AllDeleted
<1>14. ASSUME NEW a \in Attempts, PostProcess(a) PROVE ExclusionInv'
  BY <1>14 DEF PostProcess
<1>15. ASSUME NEW a \in Attempts, PostProcessFails(a) PROVE ExclusionInv'
  BY <1>15 DEF PostProcessFails
<1>16. ASSUME NEW S \in SUBSET Attempts, Crash(S) PROVE ExclusionInv'
  BY <1>16, CrashFacts DEF Crash
<1>17. ASSUME NEW a \in Attempts, NEW p \in Providers, StoreSubTile(a, p)
       PROVE  ExclusionInv'
  <2>1. toStore[a] # NothingLeft
    BY <1>17 DEF StoreSubTile
  <2>2. phase[a] = "storing"
    BY <2>1
  <2>3. \A b \in Attempts : b # a => toStore'[b] = toStore[b]
    BY <1>17 DEF StoreSubTile
  <2>. QED
    BY <1>17, <2>2, <2>3 DEF StoreSubTile
<1>18. ASSUME NEW a \in Attempts, NEW p \in Providers, StoreRejects(a, p)
       PROVE  ExclusionInv'
  BY <1>18 DEF StoreRejects, Fails
<1>19. ASSUME NEW a \in Attempts, NEW p \in Providers, DeleteSubTile(a, p)
       PROVE  ExclusionInv'
  BY <1>19 DEF DeleteSubTile
<1>20. ASSUME NEW a \in Attempts, NEW p \in Providers, DeleteRejects(a, p)
       PROVE  ExclusionInv'
  BY <1>20 DEF DeleteRejects, Fails
<1>21. CASE UNCHANGED vars
  BY <1>21 DEF vars
<1>. QED
  BY <1>1, <1>2, <1>3, <1>4, <1>5, <1>6, <1>7, <1>8, <1>9, <1>10, <1>11, <1>12,
     <1>13, <1>14, <1>15, <1>16, <1>17, <1>18, <1>19, <1>20, <1>21 DEF Next,
     PreProcess, Process

\* A blank tile object is only flipped by the loop that is about to be done with
\* it: no other loop shares it, or nothing is flipped.
LEMMA DeletingKeepsBlankY ==
  ASSUME TypeOK, BlanksUnshared, LoopInv, BlankYInv,
         NEW a \in Attempts, NEW p \in Providers,
         DeleteSubTile(a, p) \/ DeleteRejects(a, p)
  PROVE  BlankYInv'
<1>1. PICK y \in Rows : /\ y \in toDelete[a][p] /\ blankY[a][y] = y
                        /\ DetermineKey(a, y) /\ y \notin toDelete'[a][p]
  BY DeletingWrites
<1>2. phase[a] \in {"deleting", "failed"}
  BY <1>1 DEF LoopInv
<1>3. phase' = phase \/ phase' = [phase EXCEPT ![a] = "failed"]
  BY <1>2 DEF DeleteSubTile, DeleteRejects, Fails, TypeOK
<1>4. \A b \in Attempts, q \in Providers : toDelete'[b][q] \subseteq toDelete[b][q]
  <2>1. CASE DeleteSubTile(a, p)
    BY <2>1 DEF DeleteSubTile, TypeOK
  <2>2. CASE DeleteRejects(a, p)
    BY <2>2 DEF DeleteRejects, TypeOK
  <2>. QED
    BY <2>1, <2>2
<1>5. y \in Blank(rendered[a])
  BY <1>1 DEF LoopInv
<1>6. blankY'[a][y] = y \/ \A q \in Providers : y \notin toDelete'[a][q]
  BY <1>1, <1>5, DetermineKeyFacts DEF BlanksUnshared, SoleProvider, Blank, Key
<1>7. \A b \in Attempts, z \in Rows : b # a \/ z # y => blankY'[b][z] = blankY[b][z]
  BY <1>1, DetermineKeyFacts
<1>8. ASSUME NEW b \in Attempts, phase'[b] \in Early, NEW z \in Rows
      PROVE  blankY'[b][z] = z
  <2>1. b # a /\ phase[b] \in Early
    BY <1>2, <1>3, <1>8 DEF Early, TypeOK
  <2>. QED
    BY <1>7, <2>1 DEF BlankYInv
<1>9. ASSUME NEW b \in Attempts, NEW q \in Providers, NEW z \in Rows,
             z \in toDelete'[b][q]
      PROVE  blankY'[b][z] = z
  <2>1. blankY[b][z] = z
    BY <1>4, <1>9 DEF BlankYInv
  <2>. QED
    BY <1>6, <1>7, <1>9, <2>1
<1>. QED
  BY <1>8, <1>9 DEF BlankYInv

\* Every step leaves the blank tile objects usable until they are deleted.
LEMMA BlankYStep ==
  ASSUME TypeOK, BlanksUnshared, LoopInv, BlankYInv, [Next]_vars
  PROVE  BlankYInv'
<1>. USE DEF TypeOK, BlankYInv, Early, Moves, source, attempt, loops
<1>1. CASE Tick
  BY <1>1 DEF Tick
<1>2. CASE UpdateSource
  BY <1>2 DEF UpdateSource
<1>3. ASSUME NEW a \in Attempts, Start(a) PROVE BlankYInv'
  BY <1>3 DEF Start
<1>4. ASSUME NEW a \in Attempts, ProcessAnyway(a) PROVE BlankYInv'
  BY <1>4 DEF ProcessAnyway
<1>5. ASSUME NEW a \in Attempts, GetTileDetails(a) PROVE BlankYInv'
  BY <1>5 DEF GetTileDetails
<1>6. ASSUME NEW a \in Attempts, PreProcessFails(a) PROVE BlankYInv'
  BY <1>6 DEF PreProcessFails
<1>7. ASSUME NEW a \in Attempts, SkipUpToDate(a) PROVE BlankYInv'
  BY <1>7 DEF SkipUpToDate
<1>8. ASSUME NEW a \in Attempts, SkipCooling(a) PROVE BlankYInv'
  BY <1>8 DEF SkipCooling
<1>9. ASSUME NEW a \in Attempts, ProjectUpdated(a) PROVE BlankYInv'
  BY <1>9 DEF ProjectUpdated
<1>10. ASSUME NEW a \in Attempts, FetchAndSplit(a) PROVE BlankYInv'
  BY <1>10 DEF FetchAndSplit
<1>11. ASSUME NEW a \in Attempts, FetchOrSplitFails(a) PROVE BlankYInv'
  BY <1>11 DEF FetchOrSplitFails
<1>12. ASSUME NEW a \in Attempts, AllStored(a) PROVE BlankYInv'
  BY <1>12 DEF AllStored, LoopInv, NothingLeft
<1>13. ASSUME NEW a \in Attempts, AllDeleted(a) PROVE BlankYInv'
  BY <1>13 DEF AllDeleted
<1>14. ASSUME NEW a \in Attempts, PostProcess(a) PROVE BlankYInv'
  BY <1>14 DEF PostProcess
<1>15. ASSUME NEW a \in Attempts, PostProcessFails(a) PROVE BlankYInv'
  BY <1>15 DEF PostProcessFails
<1>16. ASSUME NEW S \in SUBSET Attempts, Crash(S) PROVE BlankYInv'
  BY <1>16 DEF Crash, NothingLeft
<1>17. ASSUME NEW a \in Attempts, NEW p \in Providers, StoreSubTile(a, p)
       PROVE  BlankYInv'
  BY <1>17 DEF StoreSubTile
<1>18. ASSUME NEW a \in Attempts, NEW p \in Providers, StoreRejects(a, p)
       PROVE  BlankYInv'
  BY <1>18 DEF StoreRejects, Fails, Active
<1>19. ASSUME NEW a \in Attempts, NEW p \in Providers, DeleteSubTile(a, p)
       PROVE  BlankYInv'
  BY <1>19, DeletingKeepsBlankY
<1>20. ASSUME NEW a \in Attempts, NEW p \in Providers, DeleteRejects(a, p)
       PROVE  BlankYInv'
  BY <1>20, DeletingKeepsBlankY
<1>21. CASE UNCHANGED vars
  BY <1>21 DEF vars
<1>. QED
  BY <1>1, <1>2, <1>3, <1>4, <1>5, <1>6, <1>7, <1>8, <1>9, <1>10, <1>11, <1>12,
     <1>13, <1>14, <1>15, <1>16, <1>17, <1>18, <1>19, <1>20, <1>21 DEF Next,
     PreProcess, Process

\* The attempt that writes is the only active one.
LEMMA SoleWriter ==
  ASSUME TypeOK, ExclusionInv, NEW a \in Attempts, NEW p \in Providers,
         toStore[a][p] # {} \/ toDelete[a][p] # {}
  PROVE  /\ toStore[a][p] # {} => phase[a] = "storing"
         /\ toDelete[a][p] # {} => phase[a] = "deleting"
         /\ \A b \in Attempts : phase[b] \in Writing => b = a
BY DEF ExclusionInv, NothingLeft, Writing, Active

\* Storing a row brings its loop one row further; the other rows stay written.
LEMMA StoringRenders ==
  ASSUME TypeOK, ExclusionInv, RenderInv, NEW a \in Attempts, NEW p \in Providers,
         StoreSubTile(a, p)
  PROVE  RenderInv'
<1>1. PICK y \in Rows : /\ y \in toStore[a][p]
                        /\ Writes(p, y, rendered[a])
                        /\ image'[p][Key(y)] = rendered[a]
                        /\ toStore' = [toStore EXCEPT ![a][p] = @ \ {y}]
  BY StoreSubTileWrites
<1>2. /\ phase[a] = "storing"
      /\ \A b \in Attempts : phase[b] \in Writing => b = a
  BY <1>1, SoleWriter
<1>3. Renders(a)
  BY <1>2 DEF RenderInv, Writing
<1>4. UNCHANGED <<version, updatedAt, renderedAt, phase, timestamp, rendered, toDelete>>
  BY DEF StoreSubTile, source, attempt
<1>5. ASSUME NEW q \in Providers, NEW z \in Rows, Written(a, q, z)'
      PROVE  image'[q][Key(z)] = Rendering(rendered[a], z)
  <2>1. CASE q = p /\ z = y
    BY <1>1, <1>3, <2>1 DEF Renders, Rendering
  <2>2. CASE q # p \/ z # y
    <3>1. z \notin toStore[a][q] /\ z \notin toDelete[a][q] /\ z \notin Blank(rendered[a])
      BY <1>1, <1>2, <1>4, <1>5, <2>2 DEF Written, TypeOK
    <3>2. image[q][Key(z)] = Rendering(rendered[a], z)
      BY <1>3, <3>1 DEF Renders, Written
    <3>3. q # p \/ Key(z) # Key(y)
      BY <2>2, KeyFacts
    <3>. QED
      BY <1>1, <3>2, <3>3, KeyFacts DEF Writes
  <2>. QED
    BY <2>1, <2>2
<1>6. \A q \in Providers : toStore'[a][q] \subseteq toStore[a][q]
  BY <1>1 DEF TypeOK
<1>7. Renders(a)'
  BY <1>3, <1>4, <1>5, <1>6 DEF Renders, Covers, Blank, Rendering
<1>. QED
  BY <1>2, <1>4, <1>7 DEF RenderInv

\* So does deleting a row.
LEMMA DeletingRenders ==
  ASSUME TypeOK, ExclusionInv, BlankYInv, RenderInv,
         NEW a \in Attempts, NEW p \in Providers, DeleteSubTile(a, p)
  PROVE  RenderInv'
<1>1. PICK y \in Rows : /\ y \in toDelete[a][p] /\ Writes(p, y, 0)
                        /\ image'[p][Key(y)] = 0
  BY DeletingWrites
<1>2. /\ phase[a] = "deleting"
      /\ \A b \in Attempts : phase[b] \in Writing => b = a
  BY <1>1, SoleWriter
<1>3. Renders(a)
  BY <1>2 DEF RenderInv, Writing
<1>4. UNCHANGED <<version, updatedAt, renderedAt, phase, timestamp, rendered, toStore>>
  BY DEF DeleteSubTile, source, attempt
<1>5. /\ \A q \in Providers : toDelete'[a][q] \subseteq toDelete[a][q]
      /\ \A q \in Providers : q # p => toDelete'[a][q] = toDelete[a][q]
      /\ \A z \in toDelete[a][p] : z \in toDelete'[a][p] \/ image'[p][Key(z)] = 0
  <2>1. PICK d \in toDelete[a][p] :
          /\ DetermineKey(a, d) /\ Put(p, blankY'[a][d], 0)
          /\ toDelete' = [toDelete EXCEPT ![a][p] = @ \ {d}]
    BY DEF DeleteSubTile
  <2>2. d \in Rows /\ blankY[a][d] = d
    BY <2>1 DEF BlankYInv, TypeOK
  <2>3. blankY'[a][d] = Key(d)
    BY <2>1, <2>2, DetermineKeyFacts
  <2>4. image'[p][Key(d)] = 0
    BY <2>1, <2>2, <2>3, KeyFacts, PutFacts DEF Torn
  <2>. QED
    BY <2>1, <2>4 DEF TypeOK
<1>6. ASSUME NEW q \in Providers, NEW z \in Rows, Written(a, q, z)'
      PROVE  image'[q][Key(z)] = Rendering(rendered[a], z)
  <2>1. CASE z \in toDelete[a][q]
    <3>1. q = p /\ image'[p][Key(z)] = 0
      BY <1>5, <1>6, <2>1 DEF Written
    <3>2. z \in Blank(rendered[a])
      BY <1>3, <2>1 DEF Renders
    <3>. QED
      BY <3>1, <3>2 DEF Rendering
  <2>2. CASE z \notin toDelete[a][q]
    <3>1. image[q][Key(z)] = Rendering(rendered[a], z)
      BY <1>2, <1>3, <1>4, <1>6, <2>2 DEF Renders, Written
    <3>2. q # p \/ Key(z) # Key(y)
      BY <1>1, <2>2, KeyFacts
    <3>. QED
      BY <1>1, <3>1, <3>2, KeyFacts DEF Writes
  <2>. QED
    BY <2>1, <2>2
<1>7. Renders(a)'
  BY <1>3, <1>4, <1>5, <1>6 DEF Renders, Covers, Blank, Rendering
<1>. QED
  BY <1>2, <1>4, <1>7 DEF RenderInv

\* A storage call that rejects ends the attempt, and nobody else writes.
LEMMA RejectedRenders ==
  ASSUME TypeOK, ExclusionInv, RenderInv, NEW a \in Attempts, NEW p \in Providers,
         StoreRejects(a, p) \/ DeleteRejects(a, p)
  PROVE  RenderInv'
<1>1. toStore[a][p] # {} \/ toDelete[a][p] # {}
  BY DEF StoreRejects, DeleteRejects
<1>2. /\ phase[a] \in {"storing", "deleting"}
      /\ \A b \in Attempts : phase[b] \in Writing => b = a
  BY <1>1, SoleWriter
<1>3. phase' = [phase EXCEPT ![a] = "failed"]
  BY <1>2 DEF StoreRejects, DeleteRejects, Fails, Active
<1>. QED
  BY <1>2, <1>3 DEF RenderInv, Writing, TypeOK

\* An attempt that another one's step does not touch keeps its account.
LEMMA RendersFrame ==
  ASSUME NEW a \in Attempts, Renders(a),
         UNCHANGED <<version, updatedAt, image, renderedAt, phase[a], timestamp[a],
                     rendered[a], toStore[a], toDelete[a]>>
  PROVE  Renders(a)'
BY DEF Renders, Covers, Written, Rendering, Blank

\* The step from one part of rendering to the next starts from a true account.
LEMMA PassingRenders ==
  ASSUME TypeOK, ClockInv, ExclusionInv, RenderInv, NEW a \in Attempts,
         FetchAndSplit(a) \/ AllStored(a) \/ AllDeleted(a)
  PROVE  RenderInv'
<1>. USE DEF Moves, source, attempt, loops
<1>1. \A b \in Attempts : phase'[b] \in Writing => b = a
  BY DEF FetchAndSplit, AllStored, AllDeleted, ExclusionInv, Writing, Active,
     TypeOK
<1>2. CASE FetchAndSplit(a)
  <2>1. /\ phase'[a] = "storing" /\ rendered'[a] = version
        /\ UNCHANGED <<version, updatedAt, renderedAt, timestamp>>
    BY <1>2 DEF FetchAndSplit, TypeOK
  <2>2. /\ \A p \in Providers : toStore'[a][p] = Rows \ Blank(version)
        /\ \A p \in Providers : toDelete'[a][p] = {}
    BY <1>2 DEF FetchAndSplit, ExclusionInv, NothingLeft, TypeOK
  <2>3. Covers(version, timestamp[a])' /\ Covers(version, renderedAt)'
    BY <2>1 DEF Covers, TypeOK
  <2>4. \A p \in Providers, y \in Rows : ~Written(a, p, y)'
    BY <2>1, <2>2 DEF Written, Blank
  <2>5. Renders(a)'
    BY <2>1, <2>2, <2>3, <2>4 DEF Renders, Covers, Blank, TypeOK
  <2>. QED
    BY <1>1, <2>5 DEF RenderInv
<1>3. CASE AllStored(a)
  <2>1. Renders(a) /\ phase[a] = "storing" /\ phase'[a] = "deleting"
    BY <1>3 DEF AllStored, RenderInv, Writing, TypeOK
  <2>2. UNCHANGED <<version, updatedAt, image, renderedAt, timestamp, rendered, toStore>>
    BY <1>3 DEF AllStored
  <2>3. \A p \in Providers : toStore[a][p] = {} /\ toDelete[a][p] = {}
    BY <1>3, <2>1 DEF AllStored, ExclusionInv, NothingLeft
  <2>4. \A p \in Providers : toDelete'[a][p] = Blank(rendered[a])
    BY <1>3 DEF AllStored, TypeOK
  <2>5. \A p \in Providers, y \in Rows : Written(a, p, y)' => Written(a, p, y)
    BY <2>2, <2>3, <2>4 DEF Written, Blank
  <2>6. Renders(a)'
    BY <2>1, <2>2, <2>3, <2>4, <2>5 DEF Renders, Covers, Blank, Rendering
  <2>. QED
    BY <1>1, <2>6 DEF RenderInv
<1>4. CASE AllDeleted(a)
  <2>1. Renders(a) /\ phase[a] = "deleting" /\ phase'[a] = "posting"
    BY <1>4 DEF AllDeleted, RenderInv, Writing, TypeOK
  <2>2. UNCHANGED <<version, updatedAt, image, renderedAt, timestamp, rendered, toStore,
                    toDelete>>
    BY <1>4 DEF AllDeleted
  <2>3. \A p \in Providers, y \in Rows : Written(a, p, y)' => Written(a, p, y)
    BY <2>1, <2>2 DEF Written, Blank
  <2>4. Renders(a)'
    BY <2>1, <2>2, <2>3 DEF Renders, Covers, Blank, Rendering
  <2>. QED
    BY <1>1, <2>4 DEF RenderInv
<1>. QED
  BY <1>2, <1>3, <1>4

\* A crash stops attempts, and tears files only of the one that writes: what those it
\* spares account for stays.
LEMMA CrashRenders ==
  ASSUME TypeOK, ExclusionInv, RenderInv, NEW S \in SUBSET Attempts, Crash(S)
  PROVE  RenderInv'
<1>1. UNCHANGED <<renderedAt, version, updatedAt, timestamp, rendered>>
  BY DEF Crash, source, attempt
<1>2. ASSUME NEW a \in Attempts, phase'[a] \in Writing PROVE Renders(a)'
  <2>1. /\ UNCHANGED <<phase[a], toStore[a], toDelete[a], timestamp[a], rendered[a]>>
        /\ a \notin S
    BY <1>1, <1>2, CrashFacts DEF Writing, Crash
  <2>2. ASSUME NEW c \in S, NEW p \in Providers PROVE toStore[c][p] = {}
    BY <1>2, <2>1, SoleWriter
  <2>3. BeingWritten(S) = {}
    BY <2>2 DEF BeingWritten
  <2>4. UNCHANGED image
    BY <2>3, CrashFacts
  <2>5. Renders(a)
    BY <1>2, <2>1 DEF RenderInv
  <2>. QED
    BY <1>1, <2>1, <2>4, <2>5, RendersFrame
<1>. QED
  BY <1>2 DEF RenderInv

\* Every step leaves the active attempt with a recent version and a true account
\* of what is written; an update never dates from before what was fetched.
LEMMA RenderStep ==
  ASSUME TypeOK, ClockInv, ExclusionInv, BlankYInv, RenderInv, [Next]_vars
  PROVE  RenderInv'
<1>. USE DEF TypeOK, RenderInv, Renders, Writing, Covers, Written, Rendering, Blank,
        Moves, source, attempt, loops
<1>1. CASE Tick
  BY <1>1 DEF Tick
<1>2. CASE UpdateSource
  BY <1>2 DEF UpdateSource, ClockInv
<1>3. ASSUME NEW a \in Attempts, Start(a) PROVE RenderInv'
  BY <1>3 DEF Start
<1>4. ASSUME NEW a \in Attempts, ProcessAnyway(a) PROVE RenderInv'
  BY <1>4 DEF ProcessAnyway
<1>5. ASSUME NEW a \in Attempts, GetTileDetails(a) PROVE RenderInv'
  BY <1>5 DEF GetTileDetails
<1>6. ASSUME NEW a \in Attempts, PreProcessFails(a) PROVE RenderInv'
  <2>1. \A b \in Attempts : phase'[b] \in Writing => phase'[b] = phase[b]
    BY <1>6 DEF PreProcessFails
  <2>. QED
    BY <1>6, <2>1, RendersFrame DEF PreProcessFails
<1>7. ASSUME NEW a \in Attempts, SkipUpToDate(a) PROVE RenderInv'
  BY <1>7 DEF SkipUpToDate
<1>8. ASSUME NEW a \in Attempts, SkipCooling(a) PROVE RenderInv'
  BY <1>8 DEF SkipCooling
<1>9. ASSUME NEW a \in Attempts, ProjectUpdated(a) PROVE RenderInv'
  BY <1>9 DEF ProjectUpdated
<1>10. ASSUME NEW a \in Attempts, FetchAndSplit(a) PROVE RenderInv'
  BY <1>10, PassingRenders
<1>11. ASSUME NEW a \in Attempts, FetchOrSplitFails(a) PROVE RenderInv'
  BY <1>11 DEF FetchOrSplitFails
<1>12. ASSUME NEW a \in Attempts, AllStored(a) PROVE RenderInv'
  BY <1>12, PassingRenders
<1>13. ASSUME NEW a \in Attempts, AllDeleted(a) PROVE RenderInv'
  BY <1>13, PassingRenders
<1>14. ASSUME NEW a \in Attempts, PostProcess(a) PROVE RenderInv'
  BY <1>14 DEF PostProcess, ExclusionInv, Active
<1>15. ASSUME NEW a \in Attempts, PostProcessFails(a) PROVE RenderInv'
  BY <1>15 DEF PostProcessFails, ExclusionInv, Active
<1>16. ASSUME NEW S \in SUBSET Attempts, Crash(S) PROVE RenderInv'
  BY <1>16, CrashRenders
<1>17. ASSUME NEW a \in Attempts, NEW p \in Providers, StoreSubTile(a, p)
       PROVE  RenderInv'
  BY <1>17, StoringRenders
<1>18. ASSUME NEW a \in Attempts, NEW p \in Providers, StoreRejects(a, p)
       PROVE  RenderInv'
  BY <1>18, RejectedRenders
<1>19. ASSUME NEW a \in Attempts, NEW p \in Providers, DeleteSubTile(a, p)
       PROVE  RenderInv'
  BY <1>19, DeletingRenders
<1>20. ASSUME NEW a \in Attempts, NEW p \in Providers, DeleteRejects(a, p)
       PROVE  RenderInv'
  BY <1>20, RejectedRenders
<1>21. CASE UNCHANGED vars
  BY <1>21, RendersFrame DEF vars
<1>. QED
  BY <1>1, <1>2, <1>3, <1>4, <1>5, <1>6, <1>7, <1>8, <1>9, <1>10, <1>11, <1>12,
     <1>13, <1>14, <1>15, <1>16, <1>17, <1>18, <1>19, <1>20, <1>21 DEF Next,
     PreProcess, Process

\* Every sub-tile shows, at every provider, every update from before second t.
ShowsSince(t) == \A p \in Providers, y \in Rows : Shows(p, y, t)

\* A step that does not change the storage keeps what it shows: an update that
\* happens now is not from before t.
LEMMA ShownFrame ==
  ASSUME TypeOK, NEW t \in Nat, t <= clock, ShowsSince(t), UNCHANGED image,
         UpdateSource \/ UNCHANGED source
  PROVE  ShowsSince(t)'
<1>1. ASSUME NEW p \in Providers, NEW y \in Rows PROVE Shows(p, y, t)'
  <2>1. PICK w \in 1 .. version : Covers(w, t) /\ image[p][Key(y)] = Rendering(w, y)
    BY <1>1 DEF ShowsSince, Shows
  <2>2. CASE UpdateSource
    <3>1. version' = version + 1 /\ updatedAt'[version'] = clock
      BY <2>2 DEF UpdateSource, TypeOK
    <3>2. \A v \in 1 .. version : updatedAt'[v] = updatedAt[v]
      BY <2>2 DEF UpdateSource, TypeOK
    <3>3. ASSUME NEW v \in 1 .. version', updatedAt'[v] < t PROVE v <= w
      <4>1. v # version'
        BY <3>1, <3>3 DEF TypeOK
      <4>2. v \in 1 .. version
        BY <3>1, <3>3, <4>1 DEF TypeOK
      <4>. QED
        BY <2>1, <3>2, <3>3, <4>2 DEF Covers
    <3>4. w \in 1 .. version' /\ Covers(w, t)'
      BY <2>1, <3>1, <3>3 DEF Covers, TypeOK
    <3>. QED
      BY <2>1, <3>4 DEF Shows, Rendering, Blank
  <2>3. CASE UNCHANGED source
    BY <2>1, <2>3 DEF Shows, Covers, source, Rendering, Blank
  <2>. QED
    BY <2>2, <2>3
<1>. QED
  BY <1>1 DEF ShowsSince

\* A write by a loop leaves the new rendering or the old one, and both show every
\* update from before t.
LEMMA ShownWrite ==
  ASSUME TypeOK, NEW t \in Nat, ShowsSince(t), NEW a \in Attempts, Renders(a),
         Covers(rendered[a], t), NEW p \in Providers, NEW y \in Rows,
         Writes(p, y, Rendering(rendered[a], y)), UNCHANGED source
  PROVE  ShowsSince(t)'
<1>1. ASSUME NEW q \in Providers, NEW z \in Rows PROVE Shows(q, z, t)'
  <2>1. CASE image'[q][Key(z)] = image[q][Key(z)]
    BY <1>1, <2>1 DEF ShowsSince, Shows, Covers, source, Rendering, Blank
  <2>2. CASE image'[q][Key(z)] # image[q][Key(z)]
    <3>1. q = p /\ z = y /\ image'[p][Key(y)] = Rendering(rendered[a], y)
      BY <2>2, KeyFacts DEF Writes
    <3>. QED
      BY <3>1 DEF Renders, Shows, Covers, source, Rendering, Blank
  <2>. QED
    BY <2>1, <2>2
<1>. QED
  BY <1>1 DEF ShowsSince

\* Every step keeps what the storage shows since t, as long as an attempt that
\* writes has a map that covers t.
LEMMA ShownStep ==
  ASSUME TypeOK, AtomicWrites, ExclusionInv, BlankYInv, RenderInv,
         NEW t \in Nat, t <= clock, ShowsSince(t),
         \A a \in Attempts : phase[a] \in Writing => Covers(rendered[a], t),
         [Next]_vars
  PROVE  ShowsSince(t)'
<1>. USE DEF source
<1>1. CASE Tick
  BY <1>1, ShownFrame DEF Tick
<1>2. CASE UpdateSource
  BY <1>2, ShownFrame DEF UpdateSource
<1>3. ASSUME NEW a \in Attempts, Start(a) PROVE ShowsSince(t)'
  BY <1>3, ShownFrame DEF Start
<1>4. ASSUME NEW a \in Attempts, ProcessAnyway(a) PROVE ShowsSince(t)'
  BY <1>4, ShownFrame DEF ProcessAnyway
<1>5. ASSUME NEW a \in Attempts, GetTileDetails(a) PROVE ShowsSince(t)'
  BY <1>5, ShownFrame DEF GetTileDetails
<1>6. ASSUME NEW a \in Attempts, PreProcessFails(a) PROVE ShowsSince(t)'
  BY <1>6, ShownFrame DEF PreProcessFails
<1>7. ASSUME NEW a \in Attempts, SkipUpToDate(a) PROVE ShowsSince(t)'
  BY <1>7, ShownFrame DEF SkipUpToDate
<1>8. ASSUME NEW a \in Attempts, SkipCooling(a) PROVE ShowsSince(t)'
  BY <1>8, ShownFrame DEF SkipCooling
<1>9. ASSUME NEW a \in Attempts, ProjectUpdated(a) PROVE ShowsSince(t)'
  BY <1>9, ShownFrame DEF ProjectUpdated
<1>10. ASSUME NEW a \in Attempts, FetchAndSplit(a) PROVE ShowsSince(t)'
  BY <1>10, ShownFrame DEF FetchAndSplit
<1>11. ASSUME NEW a \in Attempts, FetchOrSplitFails(a) PROVE ShowsSince(t)'
  BY <1>11, ShownFrame DEF FetchOrSplitFails
<1>12. ASSUME NEW a \in Attempts, AllStored(a) PROVE ShowsSince(t)'
  BY <1>12, ShownFrame DEF AllStored
<1>13. ASSUME NEW a \in Attempts, AllDeleted(a) PROVE ShowsSince(t)'
  BY <1>13, ShownFrame DEF AllDeleted
<1>14. ASSUME NEW a \in Attempts, PostProcess(a) PROVE ShowsSince(t)'
  BY <1>14, ShownFrame DEF PostProcess
<1>15. ASSUME NEW a \in Attempts, PostProcessFails(a) PROVE ShowsSince(t)'
  BY <1>15, ShownFrame DEF PostProcessFails
<1>16. ASSUME NEW S \in SUBSET Attempts, Crash(S) PROVE ShowsSince(t)'
  BY <1>16, CrashFacts, ShownFrame DEF Crash
<1>17. ASSUME NEW a \in Attempts, NEW p \in Providers, StoreSubTile(a, p)
       PROVE  ShowsSince(t)'
  <2>1. PICK y \in Rows : y \in toStore[a][p] /\ Writes(p, y, rendered[a])
    BY <1>17, StoringWrites
  <2>2. Renders(a) /\ Covers(rendered[a], t)
    BY <2>1, SoleWriter DEF RenderInv, Writing
  <2>3. Writes(p, y, Rendering(rendered[a], y))
    BY <2>1, <2>2 DEF Renders, Rendering
  <2>. QED
    BY <1>17, <2>2, <2>3, ShownWrite DEF StoreSubTile
<1>18. ASSUME NEW a \in Attempts, NEW p \in Providers, StoreRejects(a, p)
       PROVE  ShowsSince(t)'
  <2>1. PICK y \in Rows : y \in toStore[a][p] /\ Writes(p, y, rendered[a])
    BY <1>18, StoringWrites
  <2>2. Renders(a) /\ Covers(rendered[a], t)
    BY <2>1, SoleWriter DEF RenderInv, Writing
  <2>3. Writes(p, y, Rendering(rendered[a], y))
    BY <2>1, <2>2 DEF Renders, Rendering
  <2>. QED
    BY <1>18, <2>2, <2>3, ShownWrite DEF StoreRejects
<1>19. ASSUME NEW a \in Attempts, NEW p \in Providers, DeleteSubTile(a, p)
       PROVE  ShowsSince(t)'
  <2>1. PICK y \in Rows : y \in toDelete[a][p] /\ Writes(p, y, 0)
    BY <1>19, DeletingWrites
  <2>2. Renders(a) /\ Covers(rendered[a], t)
    BY <2>1, SoleWriter DEF RenderInv, Writing
  <2>3. Writes(p, y, Rendering(rendered[a], y))
    BY <2>1, <2>2 DEF Renders, Rendering
  <2>. QED
    BY <1>19, <2>2, <2>3, ShownWrite DEF DeleteSubTile
<1>20. ASSUME NEW a \in Attempts, NEW p \in Providers, DeleteRejects(a, p)
       PROVE  ShowsSince(t)'
  <2>1. PICK y \in Rows : y \in toDelete[a][p] /\ Writes(p, y, 0)
    BY <1>20, DeletingWrites
  <2>2. Renders(a) /\ Covers(rendered[a], t)
    BY <2>1, SoleWriter DEF RenderInv, Writing
  <2>3. Writes(p, y, Rendering(rendered[a], y))
    BY <2>1, <2>2 DEF Renders, Rendering
  <2>. QED
    BY <1>20, <2>2, <2>3, ShownWrite DEF DeleteRejects
<1>21. CASE UNCHANGED vars
  BY <1>21, ShownFrame DEF vars
<1>. QED
  BY <1>1, <1>2, <1>3, <1>4, <1>5, <1>6, <1>7, <1>8, <1>9, <1>10, <1>11, <1>12,
     <1>13, <1>14, <1>15, <1>16, <1>17, <1>18, <1>19, <1>20, <1>21 DEF Next,
     PreProcess, Process

\* An attempt that gets to postProcess has written every sub-tile.
LEMMA PostingShows ==
  ASSUME ExclusionInv, RenderInv, NEW a \in Attempts, phase[a] = "posting"
  PROVE  ShowsSince(timestamp[a])
<1>1. Renders(a)
  BY DEF RenderInv, Writing
<1>2. ASSUME NEW p \in Providers, NEW y \in Rows PROVE Shows(p, y, timestamp[a])
  <2>1. Written(a, p, y)
    BY DEF ExclusionInv, NothingLeft, Written
  <2>. QED
    BY <1>1, <2>1 DEF Renders, Shows
<1>. QED
  BY <1>2 DEF ShowsSince

\* So what it records is true.
LEMMA FreshRecord ==
  ASSUME TypeOK, ExclusionInv, RenderInv, Fresh, NEW a \in Attempts,
         PostProcess(a) \/ PostProcessFails(a)
  PROVE  Fresh'
<1>1. UNCHANGED <<source, image>> /\ renderedAt' \in {renderedAt, timestamp[a]}
  BY DEF PostProcess, PostProcessFails, SetTileDetails
<1>2. ShowsSince(timestamp[a])
  BY PostingShows DEF PostProcess, PostProcessFails, Moves
<1>3. ASSUME NEW p \in Providers, NEW y \in Rows, renderedAt' # NoDetails
      PROVE  Shows(p, y, renderedAt)'
  BY <1>1, <1>2, <1>3 DEF ShowsSince, Fresh, Shows, Covers, source, Rendering, Blank
<1>. QED
  BY <1>3 DEF Fresh

\* Every step keeps what the detiler says true of every provider.
LEMMA FreshStep ==
  ASSUME TypeOK, AtomicWrites, ClockInv, ExclusionInv, BlankYInv, RenderInv, Fresh,
         [Next]_vars
  PROVE  Fresh'
<1>1. CASE \E a \in Attempts : PostProcess(a) \/ PostProcessFails(a)
  BY <1>1, FreshRecord
<1>2. CASE ~\E a \in Attempts : PostProcess(a) \/ PostProcessFails(a)
  <2>1. UNCHANGED renderedAt
    BY <1>2 DEF Next, PreProcess, Process, vars, Tick, UpdateSource, Start,
       ProcessAnyway, GetTileDetails, PreProcessFails, SkipUpToDate, SkipCooling,
       ProjectUpdated, FetchAndSplit, FetchOrSplitFails, StoreSubTile, StoreRejects,
       AllStored, DeleteSubTile, DeleteRejects, AllDeleted, Crash
  <2>2. ASSUME renderedAt # NoDetails
        PROVE  ShowsSince(renderedAt)'
    <3>1. PICK t \in Nat : t = renderedAt
      BY <2>2 DEF TypeOK
    <3>2. t <= clock /\ ShowsSince(t)
      BY <2>2, <3>1 DEF ClockInv, Fresh, ShowsSince
    <3>3. \A a \in Attempts : phase[a] \in Writing => Covers(rendered[a], t)
      BY <3>1 DEF RenderInv, Renders
    <3>4. ShowsSince(t)'
      BY <3>2, <3>3, ShownStep
    <3>. QED
      BY <2>1, <3>1, <3>4 DEF ShowsSince, Shows, Covers
  <2>. QED
    BY <2>1, <2>2 DEF Fresh, ShowsSince
<1>. QED
  BY <1>1, <1>2

\* What a step may do to the times and the stages of the attempts.
AttemptFrame(a) ==
  /\ timestamp'[a] = timestamp[a] \/ Start(a)
  /\ phase[a] # "started" => seen'[a] = seen[a]
  /\ phase'[a] \in Active /\ phase[a] \notin Active => Start(a)
  /\ phase'[a] \in {"succeeded", "skipped"} =>
       \/ phase[a] = phase'[a]
       \/ PostProcess(a) \/ PostProcessFails(a) \/ SkipUpToDate(a)

LEMMA AttemptFrames ==
  ASSUME TypeOK, NEW a \in Attempts, [Next]_vars
  PROVE  AttemptFrame(a)
<1>. USE DEF TypeOK, Active, Moves, Fails, attempt, AttemptFrame
<1>1. ASSUME NEW b \in Attempts, Start(b) PROVE AttemptFrame(a)
  BY <1>1 DEF Start
<1>2. ASSUME NEW b \in Attempts, ProcessAnyway(b) PROVE AttemptFrame(a)
  BY <1>2 DEF ProcessAnyway
<1>3. ASSUME NEW b \in Attempts, GetTileDetails(b) PROVE AttemptFrame(a)
  BY <1>3 DEF GetTileDetails
<1>4. ASSUME NEW b \in Attempts, PreProcessFails(b) PROVE AttemptFrame(a)
  BY <1>4 DEF PreProcessFails
<1>5. ASSUME NEW b \in Attempts, SkipUpToDate(b) PROVE AttemptFrame(a)
  BY <1>5 DEF SkipUpToDate
<1>6. ASSUME NEW b \in Attempts, SkipCooling(b) PROVE AttemptFrame(a)
  BY <1>6 DEF SkipCooling
<1>7. ASSUME NEW b \in Attempts, ProjectUpdated(b) PROVE AttemptFrame(a)
  BY <1>7 DEF ProjectUpdated
<1>8. ASSUME NEW b \in Attempts, FetchAndSplit(b) PROVE AttemptFrame(a)
  BY <1>8 DEF FetchAndSplit
<1>9. ASSUME NEW b \in Attempts, FetchOrSplitFails(b) PROVE AttemptFrame(a)
  BY <1>9 DEF FetchOrSplitFails
<1>10. ASSUME NEW b \in Attempts, AllStored(b) PROVE AttemptFrame(a)
  BY <1>10 DEF AllStored
<1>11. ASSUME NEW b \in Attempts, AllDeleted(b) PROVE AttemptFrame(a)
  BY <1>11 DEF AllDeleted
<1>12. ASSUME NEW b \in Attempts, PostProcess(b) PROVE AttemptFrame(a)
  BY <1>12 DEF PostProcess
<1>13. ASSUME NEW b \in Attempts, PostProcessFails(b) PROVE AttemptFrame(a)
  BY <1>13 DEF PostProcessFails
<1>14. ASSUME NEW b \in Attempts, NEW p \in Providers, StoreSubTile(b, p)
       PROVE  AttemptFrame(a)
  BY <1>14 DEF StoreSubTile
<1>15. ASSUME NEW b \in Attempts, NEW p \in Providers, StoreRejects(b, p)
       PROVE  AttemptFrame(a)
  BY <1>15 DEF StoreRejects
<1>16. ASSUME NEW b \in Attempts, NEW p \in Providers, DeleteSubTile(b, p)
       PROVE  AttemptFrame(a)
  BY <1>16 DEF DeleteSubTile
<1>17. ASSUME NEW b \in Attempts, NEW p \in Providers, DeleteRejects(b, p)
       PROVE  AttemptFrame(a)
  BY <1>17 DEF DeleteRejects
<1>18. ASSUME NEW S \in SUBSET Attempts, Crash(S) PROVE AttemptFrame(a)
  BY <1>18 DEF Crash
<1>19. CASE Tick \/ UpdateSource \/ UNCHANGED vars
  BY <1>19 DEF Tick, UpdateSource, vars
<1>. QED
  BY <1>1, <1>2, <1>3, <1>4, <1>5, <1>6, <1>7, <1>8, <1>9, <1>10, <1>11, <1>12,
     <1>13, <1>14, <1>15, <1>16, <1>17, <1>18, <1>19
     DEF Next, PreProcess, Process

\* Time and the source only go on.
LEMMA SourceFrame ==
  ASSUME TypeOK, [Next]_vars
  PROVE  /\ clock' \in Nat /\ clock' >= clock /\ version' >= version
         /\ \A v \in 1 .. version : updatedAt'[v] = updatedAt[v]
<1>1. CASE Tick
  BY <1>1 DEF Tick, TypeOK, source
<1>2. CASE UpdateSource
  BY <1>2 DEF UpdateSource, TypeOK
<1>3. CASE UNCHANGED <<clock, source>>
  BY <1>3 DEF TypeOK, source
<1>. QED
  BY <1>1, <1>2, <1>3
     DEF Next, PreProcess, Process, vars, Start, ProcessAnyway, GetTileDetails,
         PreProcessFails, SkipUpToDate, SkipCooling, ProjectUpdated, FetchAndSplit,
         FetchOrSplitFails, StoreSubTile, StoreRejects, AllStored, DeleteSubTile,
         DeleteRejects, AllDeleted, PostProcess, PostProcessFails, Crash

\* The key of a row of the metatile is the metatile's own.
LEMMA WritesOwnKeys ==
  ASSUME NeighboursUntouched, NEW p \in Providers, NEW y \in Rows, NEW w, Writes(p, y, w)
  PROVE  NeighboursUntouched'
<1>1. Key(y) \in OwnKeys
  BY DEF OwnKeys
<1>2. ASSUME NEW q \in Providers, NEW k \in Ys \ OwnKeys PROVE image'[q][k] = image[q][k]
  BY <1>1, <1>2 DEF Writes
<1>3. OwnKeys' = OwnKeys
  BY DEF OwnKeys, Key, FlippedY
<1>. QED
  BY <1>2, <1>3 DEF NeighboursUntouched

\* A loop never writes a key outside the metatile.
LEMMA NeighboursStep ==
  ASSUME TypeOK, BlankYInv, NeighboursUntouched, [Next]_vars
  PROVE  NeighboursUntouched'
<1>. USE DEF NeighboursUntouched, OwnKeys, Key, FlippedY
<1>1. CASE Tick
  BY <1>1 DEF Tick
<1>2. CASE UpdateSource
  BY <1>2 DEF UpdateSource
<1>3. ASSUME NEW a \in Attempts, Start(a) PROVE NeighboursUntouched'
  BY <1>3 DEF Start
<1>4. ASSUME NEW a \in Attempts, ProcessAnyway(a) PROVE NeighboursUntouched'
  BY <1>4 DEF ProcessAnyway
<1>5. ASSUME NEW a \in Attempts, GetTileDetails(a) PROVE NeighboursUntouched'
  BY <1>5 DEF GetTileDetails
<1>6. ASSUME NEW a \in Attempts, PreProcessFails(a) PROVE NeighboursUntouched'
  BY <1>6 DEF PreProcessFails
<1>7. ASSUME NEW a \in Attempts, SkipUpToDate(a) PROVE NeighboursUntouched'
  BY <1>7 DEF SkipUpToDate
<1>8. ASSUME NEW a \in Attempts, SkipCooling(a) PROVE NeighboursUntouched'
  BY <1>8 DEF SkipCooling
<1>9. ASSUME NEW a \in Attempts, ProjectUpdated(a) PROVE NeighboursUntouched'
  BY <1>9 DEF ProjectUpdated
<1>10. ASSUME NEW a \in Attempts, FetchAndSplit(a) PROVE NeighboursUntouched'
  BY <1>10 DEF FetchAndSplit
<1>11. ASSUME NEW a \in Attempts, FetchOrSplitFails(a) PROVE NeighboursUntouched'
  BY <1>11 DEF FetchOrSplitFails
<1>12. ASSUME NEW a \in Attempts, AllStored(a) PROVE NeighboursUntouched'
  BY <1>12 DEF AllStored
<1>13. ASSUME NEW a \in Attempts, AllDeleted(a) PROVE NeighboursUntouched'
  BY <1>13 DEF AllDeleted
<1>14. ASSUME NEW a \in Attempts, PostProcess(a) PROVE NeighboursUntouched'
  BY <1>14 DEF PostProcess
<1>15. ASSUME NEW a \in Attempts, PostProcessFails(a) PROVE NeighboursUntouched'
  BY <1>15 DEF PostProcessFails
<1>16. ASSUME NEW S \in SUBSET Attempts, Crash(S) PROVE NeighboursUntouched'
  BY <1>16, CrashFacts
<1>17. ASSUME NEW a \in Attempts, NEW p \in Providers, StoreSubTile(a, p)
       PROVE  NeighboursUntouched'
  BY <1>17, StoringWritesOrTears, WritesOwnKeys
<1>18. ASSUME NEW a \in Attempts, NEW p \in Providers, StoreRejects(a, p)
       PROVE  NeighboursUntouched'
  BY <1>18, StoringWritesOrTears, WritesOwnKeys
<1>19. ASSUME NEW a \in Attempts, NEW p \in Providers, DeleteSubTile(a, p)
       PROVE  NeighboursUntouched'
  BY <1>19, DeletingWrites, WritesOwnKeys
<1>20. ASSUME NEW a \in Attempts, NEW p \in Providers, DeleteRejects(a, p)
       PROVE  NeighboursUntouched'
  BY <1>20, DeletingWrites, WritesOwnKeys
<1>21. CASE UNCHANGED vars
  BY <1>21 DEF vars
<1>. QED
  BY <1>1, <1>2, <1>3, <1>4, <1>5, <1>6, <1>7, <1>8, <1>9, <1>10, <1>11, <1>12,
     <1>13, <1>14, <1>15, <1>16, <1>17, <1>18, <1>19, <1>20, <1>21 DEF Next,
     PreProcess, Process

\* Attempts succeed one after the other, so versions are written in order.
LEMMA SuccessionStep ==
  ASSUME TypeOK, ExclusionInv, RenderInv, SuccessionInv, [Next]_vars
  PROVE  SuccessionInv'
<1>. USE DEF TypeOK, SuccessionInv, Writing, Moves, source, attempt, loops
<1>1. CASE Tick
  BY <1>1 DEF Tick
<1>2. CASE UpdateSource
  BY <1>2 DEF UpdateSource
<1>3. ASSUME NEW a \in Attempts, Start(a) PROVE SuccessionInv'
  BY <1>3 DEF Start
<1>4. ASSUME NEW a \in Attempts, ProcessAnyway(a) PROVE SuccessionInv'
  BY <1>4 DEF ProcessAnyway
<1>5. ASSUME NEW a \in Attempts, GetTileDetails(a) PROVE SuccessionInv'
  BY <1>5 DEF GetTileDetails
<1>6. ASSUME NEW a \in Attempts, PreProcessFails(a) PROVE SuccessionInv'
  BY <1>6 DEF PreProcessFails
<1>7. ASSUME NEW a \in Attempts, SkipUpToDate(a) PROVE SuccessionInv'
  BY <1>7 DEF SkipUpToDate
<1>8. ASSUME NEW a \in Attempts, SkipCooling(a) PROVE SuccessionInv'
  BY <1>8 DEF SkipCooling
<1>9. ASSUME NEW a \in Attempts, ProjectUpdated(a) PROVE SuccessionInv'
  BY <1>9 DEF ProjectUpdated
<1>10. ASSUME NEW a \in Attempts, FetchAndSplit(a) PROVE SuccessionInv'
  BY <1>10 DEF FetchAndSplit, ExclusionInv, Active
<1>11. ASSUME NEW a \in Attempts, FetchOrSplitFails(a) PROVE SuccessionInv'
  BY <1>11 DEF FetchOrSplitFails
<1>12. ASSUME NEW a \in Attempts, AllStored(a) PROVE SuccessionInv'
  BY <1>12 DEF AllStored
<1>13. ASSUME NEW a \in Attempts, AllDeleted(a) PROVE SuccessionInv'
  BY <1>13 DEF AllDeleted
<1>14. ASSUME NEW a \in Attempts, PostProcess(a) PROVE SuccessionInv'
  BY <1>14 DEF PostProcess, ExclusionInv, Active
<1>15. ASSUME NEW a \in Attempts, PostProcessFails(a) PROVE SuccessionInv'
  BY <1>15 DEF PostProcessFails, ExclusionInv, Active
<1>16. ASSUME NEW S \in SUBSET Attempts, Crash(S) PROVE SuccessionInv'
  BY <1>16, CrashFacts DEF Crash
<1>17. ASSUME NEW a \in Attempts, NEW p \in Providers, StoreSubTile(a, p)
       PROVE  SuccessionInv'
  BY <1>17 DEF StoreSubTile
<1>18. ASSUME NEW a \in Attempts, NEW p \in Providers, StoreRejects(a, p)
       PROVE  SuccessionInv'
  BY <1>18 DEF StoreRejects, Fails
<1>19. ASSUME NEW a \in Attempts, NEW p \in Providers, DeleteSubTile(a, p)
       PROVE  SuccessionInv'
  BY <1>19 DEF DeleteSubTile
<1>20. ASSUME NEW a \in Attempts, NEW p \in Providers, DeleteRejects(a, p)
       PROVE  SuccessionInv'
  BY <1>20 DEF DeleteRejects, Fails
<1>21. CASE UNCHANGED vars
  BY <1>21 DEF vars
<1>. QED
  BY <1>1, <1>2, <1>3, <1>4, <1>5, <1>6, <1>7, <1>8, <1>9, <1>10, <1>11, <1>12,
     <1>13, <1>14, <1>15, <1>16, <1>17, <1>18, <1>19, <1>20, <1>21 DEF Next,
     PreProcess, Process

\* Once the current version is stored, what is written is that version again.
LEMMA SucceededWrite ==
  ASSUME TypeOK, SuccessionInv, SucceededIsStored,
         NEW a \in Attempts, phase[a] \in Writing,
         NEW p \in Providers, NEW y \in Rows,
         Writes(p, y, Rendering(rendered[a], y)), UNCHANGED <<version, rendered>>,
         \A b \in Attempts : phase'[b] = "succeeded" => phase[b] = "succeeded"
  PROVE  SucceededIsStored'
<1>1. ASSUME NEW b \in Attempts, phase'[b] = "succeeded", rendered[b] = version,
             NEW q \in Providers, NEW z \in Rows
      PROVE  image'[q][Key(z)] = Rendering(version, z)
  <2>1. phase[b] = "succeeded"
    BY <1>1
  <2>2. rendered[a] = version
    BY <1>1, <2>1 DEF SuccessionInv, TypeOK
  <2>3. image[q][Key(z)] = Rendering(version, z)
    BY <1>1, <2>1 DEF SucceededIsStored, Current
  <2>4. CASE q = p /\ z = y
    BY <2>2, <2>3, <2>4 DEF Writes
  <2>5. CASE q # p \/ z # y
    BY <2>3, <2>5, KeyFacts DEF Writes
  <2>. QED
    BY <2>4, <2>5
<1>. QED
  BY <1>1 DEF SucceededIsStored, Current, Rendering, Blank

\* Where neither the storage nor the source changes and no attempt succeeds, what
\* was stored is stored; a new version has succeeded nowhere yet.
LEMMA SucceededFrame ==
  ASSUME TypeOK, SuccessionInv, SucceededIsStored, UNCHANGED image,
         UpdateSource \/ UNCHANGED source,
         \A b \in Attempts : phase'[b] = "succeeded" =>
           phase[b] = "succeeded" /\ rendered'[b] = rendered[b]
  PROVE  SucceededIsStored'
<1>1. CASE UpdateSource
  BY <1>1 DEF UpdateSource, SuccessionInv, SucceededIsStored, attempt, TypeOK
<1>2. CASE UNCHANGED source
  BY <1>2 DEF source, SucceededIsStored, Current, Rendering, Blank
<1>. QED
  BY <1>1, <1>2

\* An attempt that succeeds has just written every sub-tile.
LEMMA SucceededRecord ==
  ASSUME TypeOK, ExclusionInv, RenderInv, SucceededIsStored, NEW a \in Attempts,
         PostProcess(a) \/ PostProcessFails(a)
  PROVE  SucceededIsStored'
<1>1. phase[a] = "posting" /\ Renders(a)
  BY DEF PostProcess, PostProcessFails, Moves, RenderInv, Writing
<1>2. /\ UNCHANGED <<version, image, rendered>>
      /\ \A b \in Attempts : b # a => phase'[b] = phase[b]
  BY DEF PostProcess, PostProcessFails, Moves, source, attempt, TypeOK
<1>3. \A p \in Providers, y \in Rows : image[p][Key(y)] = Rendering(rendered[a], y)
  BY <1>1 DEF Renders, Written, ExclusionInv, NothingLeft
<1>. QED
  BY <1>2, <1>3 DEF SucceededIsStored, Current, Rendering, Blank

\* Every step keeps what has succeeded stored.
LEMMA SucceededStep ==
  ASSUME TypeOK, AtomicWrites, ExclusionInv, BlankYInv, RenderInv, SuccessionInv,
         SucceededIsStored, [Next]_vars
  PROVE  SucceededIsStored'
<1>. USE DEF source, attempt
<1>1. CASE Tick
  BY <1>1, SucceededFrame DEF Tick
<1>2. CASE UpdateSource
  BY <1>2, SucceededFrame DEF UpdateSource
<1>3. ASSUME NEW a \in Attempts, Start(a) PROVE SucceededIsStored'
  BY <1>3, SucceededFrame DEF Start, Moves, TypeOK
<1>4. ASSUME NEW a \in Attempts, ProcessAnyway(a) PROVE SucceededIsStored'
  BY <1>4, SucceededFrame DEF ProcessAnyway, Moves, TypeOK
<1>5. ASSUME NEW a \in Attempts, GetTileDetails(a) PROVE SucceededIsStored'
  BY <1>5, SucceededFrame DEF GetTileDetails, Moves, TypeOK
<1>6. ASSUME NEW a \in Attempts, PreProcessFails(a) PROVE SucceededIsStored'
  BY <1>6, SucceededFrame DEF PreProcessFails, Moves, TypeOK
<1>7. ASSUME NEW a \in Attempts, SkipUpToDate(a) PROVE SucceededIsStored'
  BY <1>7, SucceededFrame DEF SkipUpToDate, Moves, TypeOK
<1>8. ASSUME NEW a \in Attempts, SkipCooling(a) PROVE SucceededIsStored'
  BY <1>8, SucceededFrame DEF SkipCooling, Moves, TypeOK
<1>9. ASSUME NEW a \in Attempts, ProjectUpdated(a) PROVE SucceededIsStored'
  BY <1>9, SucceededFrame DEF ProjectUpdated, Moves, TypeOK
<1>10. ASSUME NEW a \in Attempts, FetchAndSplit(a) PROVE SucceededIsStored'
  BY <1>10, SucceededFrame DEF FetchAndSplit, Moves, TypeOK
<1>11. ASSUME NEW a \in Attempts, FetchOrSplitFails(a) PROVE SucceededIsStored'
  BY <1>11, SucceededFrame DEF FetchOrSplitFails, Moves, TypeOK
<1>12. ASSUME NEW a \in Attempts, AllStored(a) PROVE SucceededIsStored'
  BY <1>12, SucceededFrame DEF AllStored, Moves, TypeOK
<1>13. ASSUME NEW a \in Attempts, AllDeleted(a) PROVE SucceededIsStored'
  BY <1>13, SucceededFrame DEF AllDeleted, Moves, TypeOK
<1>14. ASSUME NEW a \in Attempts, PostProcess(a) PROVE SucceededIsStored'
  BY <1>14, SucceededRecord
<1>15. ASSUME NEW a \in Attempts, PostProcessFails(a) PROVE SucceededIsStored'
  BY <1>15, SucceededRecord
<1>16. ASSUME NEW S \in SUBSET Attempts, Crash(S) PROVE SucceededIsStored'
  BY <1>16, CrashFacts, SucceededFrame DEF Crash, TypeOK
<1>17. ASSUME NEW a \in Attempts, NEW p \in Providers, StoreSubTile(a, p)
       PROVE  SucceededIsStored'
  <2>1. PICK y \in Rows : y \in toStore[a][p] /\ Writes(p, y, rendered[a])
    BY <1>17, StoringWrites
  <2>2. phase[a] \in Writing /\ Renders(a)
    BY <2>1, SoleWriter DEF RenderInv, Writing
  <2>3. Writes(p, y, Rendering(rendered[a], y))
    BY <2>1, <2>2 DEF Renders, Rendering
  <2>4. \A b \in Attempts : phase'[b] = "succeeded" => phase[b] = "succeeded"
    BY <1>17 DEF StoreSubTile, Fails, TypeOK
  <2>. QED
    BY <1>17, <2>2, <2>3, <2>4, SucceededWrite DEF StoreSubTile
<1>18. ASSUME NEW a \in Attempts, NEW p \in Providers, StoreRejects(a, p)
       PROVE  SucceededIsStored'
  <2>1. PICK y \in Rows : y \in toStore[a][p] /\ Writes(p, y, rendered[a])
    BY <1>18, StoringWrites
  <2>2. phase[a] \in Writing /\ Renders(a)
    BY <2>1, SoleWriter DEF RenderInv, Writing
  <2>3. Writes(p, y, Rendering(rendered[a], y))
    BY <2>1, <2>2 DEF Renders, Rendering
  <2>4. \A b \in Attempts : phase'[b] = "succeeded" => phase[b] = "succeeded"
    BY <1>18 DEF StoreRejects, Fails, TypeOK
  <2>. QED
    BY <1>18, <2>2, <2>3, <2>4, SucceededWrite DEF StoreRejects
<1>19. ASSUME NEW a \in Attempts, NEW p \in Providers, DeleteSubTile(a, p)
       PROVE  SucceededIsStored'
  <2>1. PICK y \in Rows : y \in toDelete[a][p] /\ Writes(p, y, 0)
    BY <1>19, DeletingWrites
  <2>2. phase[a] \in Writing /\ Renders(a)
    BY <2>1, SoleWriter DEF RenderInv, Writing
  <2>3. Writes(p, y, Rendering(rendered[a], y))
    BY <2>1, <2>2 DEF Renders, Rendering
  <2>4. \A b \in Attempts : phase'[b] = "succeeded" => phase[b] = "succeeded"
    BY <1>19 DEF DeleteSubTile, Fails, TypeOK
  <2>. QED
    BY <1>19, <2>2, <2>3, <2>4, SucceededWrite DEF DeleteSubTile
<1>20. ASSUME NEW a \in Attempts, NEW p \in Providers, DeleteRejects(a, p)
       PROVE  SucceededIsStored'
  <2>1. PICK y \in Rows : y \in toDelete[a][p] /\ Writes(p, y, 0)
    BY <1>20, DeletingWrites
  <2>2. phase[a] \in Writing /\ Renders(a)
    BY <2>1, SoleWriter DEF RenderInv, Writing
  <2>3. Writes(p, y, Rendering(rendered[a], y))
    BY <2>1, <2>2 DEF Renders, Rendering
  <2>4. \A b \in Attempts : phase'[b] = "succeeded" => phase[b] = "succeeded"
    BY <1>20 DEF DeleteRejects, Fails, TypeOK
  <2>. QED
    BY <1>20, <2>2, <2>3, <2>4, SucceededWrite DEF DeleteRejects
<1>21. CASE UNCHANGED vars
  BY <1>21, SucceededFrame DEF vars
<1>. QED
  BY <1>1, <1>2, <1>3, <1>4, <1>5, <1>6, <1>7, <1>8, <1>9, <1>10, <1>11, <1>12,
     <1>13, <1>14, <1>15, <1>16, <1>17, <1>18, <1>19, <1>20, <1>21 DEF Next,
     PreProcess, Process

(***************************************************************************)
(* What holds in any configuration, with attempts that overlap, loops that *)
(* outlive a failed attempt, storage that fails and files that are torn.   *)
(***************************************************************************)

\* At first nothing is rendered and no loop has begun.
LEMMA InitGeneral ==
  Init => TypeOK /\ LoopInv /\ BlankYInv /\ NeighboursUntouched
<1>. SUFFICES ASSUME Init PROVE TypeOK /\ LoopInv /\ BlankYInv /\ NeighboursUntouched
  OBVIOUS
<1>1. TypeOK
  BY DEF Init, TypeOK, Active, NothingLeft, Torn
<1>2. LoopInv /\ BlankYInv /\ NeighboursUntouched
  BY DEF Init, LoopInv, BlankYInv, NothingLeft, Writing, NeighboursUntouched
<1>. QED
  BY <1>1, <1>2

\* The state keeps its types, and a loop has left only rows of the metatile that
\* its attempt has fetched, whatever overlaps, fails or dies.
THEOREM LoopsFollow == Spec => [](TypeOK /\ LoopInv)
<1>1. TypeOK /\ LoopInv /\ [Next]_vars => TypeOK' /\ LoopInv'
  BY TypeStep, LoopStep
<1>. QED
  BY <1>1, InitGeneral, PTL DEF Spec

\* The type part of it.
THEOREM TypeCorrect == Spec => []TypeOK
BY LoopsFollow, PTL

\* No key of another metatile is ever written, torn or deleted, unless loops share
\* the blank tile objects they flip.
THEOREM NeighboursAreSafe == ASSUME BlanksUnshared PROVE Spec => []NeighboursUntouched
<1>1. TypeOK /\ LoopInv /\ BlankYInv /\ NeighboursUntouched /\ [Next]_vars =>
        BlankYInv' /\ NeighboursUntouched'
  BY BlankYStep, NeighboursStep
<1>. QED
  BY <1>1, InitGeneral, LoopsFollow, PTL DEF Spec

\* An attempt that is forced, or has no detiler to ask, is never skipped or cooled.
ProcessedAnyway(a) == a \in Forced \/ ~DetilerEnabled
NeverSkipped ==
  \A a \in Attempts : ProcessedAnyway(a) =>
    phase[a] \notin {"comparing", "skipped", "cooled"}

THEOREM ForcedIsNeverSkipped == Spec => []NeverSkipped
<1>. USE DEF ProcessedAnyway, NeverSkipped
<1>1. ASSUME TypeOK, NeverSkipped, [Next]_vars PROVE NeverSkipped'
  <2>. USE <1>1 DEF Moves, TypeOK
  <2>1. ASSUME NEW a \in Attempts, PreProcess(a) PROVE NeverSkipped'
    BY <2>1 DEF PreProcess, Start, ProcessAnyway, GetTileDetails, PreProcessFails,
       SkipUpToDate, SkipCooling, ProjectUpdated
  <2>2. ASSUME NEW a \in Attempts, Process(a) PROVE NeverSkipped'
    <3>1. \A b \in Attempts :
            phase'[b] \in {phase[b], "storing", "failed", "deleting", "posting", "succeeded"}
      BY <2>2 DEF Process, FetchAndSplit, FetchOrSplitFails, AllStored, AllDeleted,
         PostProcess, PostProcessFails, StoreSubTile, StoreRejects, DeleteSubTile,
         DeleteRejects, Fails
    <3>. QED
      BY <3>1
  <2>3. ASSUME NEW S \in SUBSET Attempts, Crash(S) PROVE NeverSkipped'
    BY <2>3 DEF Crash
  <2>4. CASE Tick \/ UpdateSource \/ UNCHANGED vars
    BY <2>4 DEF Tick, UpdateSource, vars
  <2>. QED
    BY <2>1, <2>2, <2>3, <2>4 DEF Next
<1>2. Init => NeverSkipped
  BY DEF Init
<1>3. TypeOK /\ NeverSkipped /\ [Next]_vars => NeverSkipped'
  BY <1>1
<1>. QED
  BY <1>2, <1>3, TypeCorrect, PTL DEF Spec

(***************************************************************************)
(* What holds where no two attempts or orphaned loops write at once and no *)
(* blank tile object is shared, files that may be torn included.           *)
(***************************************************************************)
AccountInv ==
  TypeOK /\ LoopInv /\ ClockInv /\ ExclusionInv /\ BlankYInv /\ RenderInv

\* At first nothing is rendered and no file is written.
LEMMA InitAccount == Init => AccountInv
<1>1. Init => ClockInv /\ ExclusionInv /\ RenderInv
  BY DEF Init, ClockInv, ExclusionInv, Active, RenderInv, Writing
<1>. QED
  BY <1>1, InitGeneral DEF AccountInv

\* The attempt that writes accounts for each sub-tile it has written, whatever fails,
\* dies in the middle of a file or is updated meanwhile.
THEOREM AccountIsTrue ==
  ASSUME WritersApart, BlanksUnshared
  PROVE  Spec => []AccountInv
<1>1. AccountInv /\ [Next]_vars => AccountInv'
  BY TypeStep, LoopStep, ClockStep, ExclusionStep, BlankYStep, RenderStep
     DEF AccountInv
<1>. QED
  BY <1>1, InitAccount, PTL DEF Spec

\* The detiler is only told of whole renderings: when an attempt comes to that, each
\* provider stores its map in full, also on a file system that may tear files.
THEOREM DetilerHearsOfWhole ==
  ASSUME WritersApart, BlanksUnshared
  PROVE  Spec => []RenderedIsStored
<1>1. ASSUME AccountInv, NEW a \in Attempts, phase[a] = "posting",
             NEW p \in Providers, NEW y \in Rows
      PROVE  image[p][Key(y)] = Rendering(rendered[a], y)
  <2>1. Renders(a)
    BY <1>1 DEF AccountInv, RenderInv, Writing
  <2>2. Written(a, p, y)
    BY <1>1 DEF AccountInv, ExclusionInv, NothingLeft, Written
  <2>. QED
    BY <2>1, <2>2 DEF Renders
<1>2. AccountInv => RenderedIsStored
  BY <1>1 DEF RenderedIsStored
<1>. QED
  BY <1>2, AccountIsTrue, PTL

\* So when an attempt succeeds, no sub-tile it found blank is stored anywhere.
THEOREM BlanksAreDeleted ==
  ASSUME WritersApart, BlanksUnshared
  PROVE  Spec => BlankIsNotStored
<1>1. ASSUME AccountInv, RenderedIsStored, NEW a \in Attempts, PostProcess(a),
             NEW p \in Providers, NEW y \in Blank(rendered[a])
      PROVE  image[p][Key(y)] = 0
  <2>1. phase[a] = "posting" /\ Renders(a)
    BY <1>1 DEF PostProcess, Moves, AccountInv, RenderInv, Writing
  <2>2. y \in Rows
    BY <1>1, <2>1, BlankFacts DEF Renders, AccountInv, TypeOK
  <2>. QED
    BY <1>1, <2>1, <2>2 DEF RenderedIsStored, Rendering
<1>2. AccountInv /\ RenderedIsStored /\ [Next]_vars =>
        [\A a \in Attempts : PostProcess(a) =>
           \A p \in Providers, y \in Blank(rendered[a]) : image[p][Key(y)] = 0]_vars
  BY <1>1
<1>. QED
  BY <1>2, AccountIsTrue, DetilerHearsOfWhole, PTL DEF Spec, BlankIsNotStored

(***************************************************************************)
(* What holds of the configurations WellConfigured describes; in others TLC*)
(* finds counterexamples to some of it, see README.md.                     *)
(***************************************************************************)
IInv == /\ TypeOK /\ LoopInv /\ ClockInv /\ ExclusionInv /\ BlankYInv /\ RenderInv
        /\ Fresh /\ NeighboursUntouched /\ SuccessionInv /\ SucceededIsStored

\* The inductive invariant holds at first, when nothing is rendered.
LEMMA InitIInv == Init => IInv
<1>1. Init => Fresh /\ SuccessionInv /\ SucceededIsStored
  BY DEF Init, Fresh, SuccessionInv, Writing, SucceededIsStored
<1>. QED
  BY <1>1, InitAccount, InitGeneral DEF IInv, AccountInv

\* Every step of a well configured retiler keeps it.
LEMMA NextIInv == ASSUME WellConfigured, IInv, [Next]_vars PROVE IInv'
<1>. USE DEF IInv
<1>0. AtomicWrites /\ BlanksUnshared /\ WritersApart
  BY DEF WellConfigured
<1>1. TypeOK' /\ LoopInv' /\ ClockInv'
  BY TypeStep, LoopStep, ClockStep
<1>2. ExclusionInv' /\ BlankYInv'
  BY <1>0, ExclusionStep, BlankYStep
<1>3. RenderInv' /\ Fresh'
  BY <1>0, RenderStep, FreshStep
<1>4. NeighboursUntouched'
  BY NeighboursStep
<1>5. SuccessionInv' /\ SucceededIsStored'
  BY <1>0, SuccessionStep, SucceededStep
<1>. QED
  BY <1>1, <1>2, <1>3, <1>4, <1>5

\* Where attempts of a metatile do not overlap, a failed attempt leaves no loop
\* behind and no blank tile object is flipped twice, the invariant always holds.
THEOREM Invariance == ASSUME WellConfigured PROVE Spec => []IInv
<1>1. IInv /\ [Next]_vars => IInv'
  BY NextIInv
<1>. QED
  BY <1>1, InitIInv, PTL DEF Spec

\* A metatile the detiler records as rendered at t shows, at every provider and in
\* each of its sub-tiles, every update imported before t, whatever crashes,
\* failures, retries and updates came in between.
THEOREM DetilerIsRight == ASSUME WellConfigured PROVE Spec => []Fresh
BY Invariance, PTL DEF IInv

\* Once an attempt that rendered the current version has succeeded, every provider
\* stores that version, its blank sub-tiles left out.
THEOREM SuccessMeansStored == ASSUME WellConfigured PROVE Spec => []SucceededIsStored
BY Invariance, PTL DEF IInv

\* What the detiler says is true, so a tile skipped for a later second is current.
LEMMA SkipIsCurrent ==
  ASSUME IInv, NEW a \in Attempts, SkipUpToDate(a), seen[a] > updatedAt[version]
  PROVE  Current
<1>1. seen[a] = renderedAt /\ renderedAt # NoDetails
  BY DEF SkipUpToDate, Moves, IInv, ExclusionInv
<1>2. ASSUME NEW p \in Providers, NEW y \in Rows
      PROVE  image[p][Key(y)] = Rendering(version, y)
  <2>1. PICK w \in 1 .. version : /\ Covers(w, renderedAt)
                                  /\ image[p][Key(y)] = Rendering(w, y)
    BY <1>1 DEF IInv, Fresh, Shows
  <2>2. w = version
    BY <1>1, <2>1 DEF Covers, IInv, TypeOK
  <2>. QED
    BY <2>1, <2>2
<1>. QED
  BY <1>2 DEF Current

\* A metatile skipped as up to date, and rendered in a later second than the last
\* update, is stored as it would be rendered now.
THEOREM SkippingIsSafe == ASSUME WellConfigured PROVE Spec => SkippedWasCurrent
<1>1. IInv /\ [Next]_vars =>
        [\A a \in Attempts :
           SkipUpToDate(a) /\ seen[a] > updatedAt[version] => Current]_vars
  BY SkipIsCurrent
<1>. QED
  BY <1>1, Invariance, PTL DEF Spec, SkippedWasCurrent

\* A write of a version the writer has fetched, or of nothing, leaves nothing newer
\* than what any attempt writes, where only one attempt does.
LEMMA NewestWrite ==
  ASSUME IInv, NewestInv, NEW a \in Attempts, phase[a] \in Writing,
         NEW p \in Providers, NEW y \in Rows, NEW w \in {0, rendered[a]},
         Writes(p, y, w), UNCHANGED <<version, rendered>>,
         \A b \in Attempts : phase'[b] \in Writing => phase[b] \in Writing
  PROVE  NewestInv'
<1>1. rendered[a] \in Nat /\ version \in Nat /\ rendered[a] <= version
  BY DEF IInv, TypeOK, SuccessionInv
<1>2. \A b \in Attempts : phase[b] \in Writing => a = b
  BY DEF IInv, ExclusionInv, Writing, Active
<1>3. ASSUME NEW q \in Providers, NEW z \in Rows
      PROVE  /\ image'[q][Key(z)] <= version
             /\ \A b \in Attempts : phase'[b] \in Writing => image'[q][Key(z)] <= rendered[b]
  <2>1. Key(z) \in Ys /\ Key(y) \in Ys
    BY KeyFacts
  <2>2. image'[q][Key(z)] \in {0, rendered[a], image[q][Key(z)]}
    BY <2>1 DEF Writes
  <2>3. image[q][Key(z)] <= version /\ image[q][Key(z)] <= rendered[a]
    BY DEF NewestInv
  <2>4. image'[q][Key(z)] <= version /\ image'[q][Key(z)] <= rendered[a]
    BY <1>1, <2>2, <2>3
  <2>. QED
    BY <1>2, <2>4
<1>. QED
  BY <1>3 DEF NewestInv, Key, FlippedY

\* Where neither the storage nor what an attempt that still writes has fetched
\* changes, nothing becomes newer than it.
LEMMA NewestFrame ==
  ASSUME IInv, NewestInv, image' = image, version' \in Versions, version <= version',
         \A b \in Attempts : phase'[b] \in Writing =>
           \/ phase[b] \in Writing /\ rendered'[b] = rendered[b]
           \/ rendered'[b] = version
  PROVE  NewestInv'
<1>1. ASSUME NEW q \in Providers, NEW z \in Rows
      PROVE  /\ image'[q][Key(z)] <= version'
             /\ \A b \in Attempts : phase'[b] \in Writing => image'[q][Key(z)] <= rendered'[b]
  <2>1. image[q][Key(z)] \in Int /\ version \in Int /\ version' \in Int
    BY KeyFacts DEF IInv, TypeOK
  <2>2. image[q][Key(z)] <= version
    BY DEF NewestInv
  <2>3. image'[q][Key(z)] = image[q][Key(z)] /\ image[q][Key(z)] <= version'
    BY <2>1, <2>2
  <2>4. ASSUME NEW b \in Attempts, phase'[b] \in Writing
        PROVE  image[q][Key(z)] <= rendered'[b]
    BY <2>2, <2>4 DEF NewestInv
  <2>. QED
    BY <2>3, <2>4
<1>. QED
  BY <1>1 DEF NewestInv, Key, FlippedY

\* Every step of a well configured retiler keeps it.
LEMMA NewestStep ==
  ASSUME WellConfigured, IInv, NewestInv, [Next]_vars
  PROVE  NewestInv'
<1>. USE DEF Moves, source, attempt, loops, Writing
<1>0. AtomicWrites
  BY DEF WellConfigured
<1>1. ASSUME NEW a \in Attempts, FetchAndSplit(a) PROVE NewestInv'
  BY <1>1, NewestFrame DEF FetchAndSplit, IInv, TypeOK
<1>2. ASSUME NEW a \in Attempts, NEW p \in Providers,
             StoreSubTile(a, p) \/ StoreRejects(a, p)
      PROVE  NewestInv'
  <2>1. PICK y \in Rows : y \in toStore[a][p] /\ Writes(p, y, rendered[a])
    BY <1>0, <1>2, StoringWrites DEF IInv
  <2>2. phase[a] = "storing"
    BY <2>1 DEF IInv, ExclusionInv, NothingLeft
  <2>3. /\ UNCHANGED <<version, rendered>>
        /\ \A b \in Attempts : phase'[b] \in {phase[b], "failed"}
    BY <1>2 DEF StoreSubTile, StoreRejects, Fails, IInv, TypeOK
  <2>. QED
    BY <2>1, <2>2, <2>3, NewestWrite
<1>3. ASSUME NEW a \in Attempts, NEW p \in Providers,
             DeleteSubTile(a, p) \/ DeleteRejects(a, p)
      PROVE  NewestInv'
  <2>1. PICK y \in Rows : y \in toDelete[a][p] /\ Writes(p, y, 0)
    BY <1>3, DeletingWrites DEF IInv
  <2>2. phase[a] = "deleting"
    BY <2>1 DEF IInv, ExclusionInv, NothingLeft
  <2>3. /\ UNCHANGED <<version, rendered>>
        /\ \A b \in Attempts : phase'[b] \in {phase[b], "failed"}
    BY <1>3 DEF DeleteSubTile, DeleteRejects, Fails, IInv, TypeOK
  <2>. QED
    BY <2>1, <2>2, <2>3, NewestWrite
<1>4. ASSUME NEW a \in Attempts, PreProcess(a) PROVE NewestInv'
  <2>1. UNCHANGED <<image, version, rendered>>
    BY <1>4 DEF PreProcess, Start, ProcessAnyway, GetTileDetails, PreProcessFails,
       SkipUpToDate, SkipCooling, ProjectUpdated
  <2>2. \A b \in Attempts :
          phase'[b] \in {phase[b], "started", "fetching", "comparing", "skipped", "cooled"}
    BY <1>4 DEF PreProcess, Start, ProcessAnyway, GetTileDetails, PreProcessFails,
       SkipUpToDate, SkipCooling, ProjectUpdated, IInv, TypeOK
  <2>3. \A b \in Attempts : phase'[b] \in Writing => phase[b] \in Writing
    BY <2>2
  <2>4. version' \in Versions /\ version <= version'
    BY <2>1 DEF IInv, TypeOK
  <2>. HIDE DEF Writing
  <2>. QED
    BY <2>1, <2>3, <2>4, NewestFrame
<1>5. ASSUME NEW a \in Attempts,
             \/ FetchOrSplitFails(a) \/ AllStored(a) \/ AllDeleted(a)
             \/ PostProcess(a) \/ PostProcessFails(a)
      PROVE  NewestInv'
  <2>1. UNCHANGED <<image, version, rendered>>
    BY <1>5 DEF FetchOrSplitFails, AllStored, AllDeleted, PostProcess, PostProcessFails
  <2>2. \A b \in Attempts : phase'[b] \in Writing => phase[b] \in Writing
    BY <1>5 DEF FetchOrSplitFails, AllStored, AllDeleted, PostProcess, PostProcessFails,
       IInv, TypeOK
  <2>. QED
    BY <2>1, <2>2, NewestFrame DEF IInv, TypeOK
<1>6. ASSUME NEW S \in SUBSET Attempts, Crash(S) PROVE NewestInv'
  <2>1. /\ UNCHANGED <<image, version, rendered>>
        /\ \A b \in Attempts : phase'[b] \in {phase[b], "lost"}
    BY <1>0, <1>6, CrashFacts DEF Crash, IInv, TypeOK
  <2>. QED
    BY <2>1, NewestFrame DEF IInv, TypeOK
<1>7. CASE Tick \/ UpdateSource \/ UNCHANGED vars
  BY <1>7, NewestFrame DEF Tick, UpdateSource, vars, IInv, TypeOK
<1>. QED
  BY <1>1, <1>2, <1>3, <1>4, <1>5, <1>6, <1>7 DEF Next, Process

\* No loop, of whichever attempt, has an older version left to store than the one
\* that is stored there, or a blank to delete that is older.
THEOREM NewerIsNeverReplaced == ASSUME WellConfigured PROVE Spec => []NewerIsKept
<1>1. Init => NewestInv
  BY KeyFacts DEF Init, NewestInv, OwnKeys, Writing
<1>2. IInv /\ NewestInv /\ [Next]_vars => NewestInv'
  BY NewestStep
<1>3. IInv /\ NewestInv => NewerIsKept
  BY DEF IInv, TypeOK, ExclusionInv, NothingLeft, NewestInv, NewerIsKept, Writing
<1>. QED
  BY <1>1, <1>2, <1>3, Invariance, PTL DEF Spec

=============================================================================
