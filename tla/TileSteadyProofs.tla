--------------------------- MODULE TileSteadyProofs ---------------------------
(***************************************************************************)
(* Proofs about TileProcessor while the source stays at one version:       *)
(* attempts of a metatile may overlap, storage may fail, and the loops of a*)
(* failed attempt go on, since whatever they write is the same map.        *)
(***************************************************************************)
EXTENDS TileProcessorProofs

USE TileProcessorAssumption DEF TileProcessorAssumption, Versions, Ys, NoDetails,
    FirstOf, AllDone, SetTileDetails

\* What is being written, or is left to write, is version v.
Uniform(v) ==
  \A a \in Attempts :
    /\ phase[a] \in Writing => rendered[a] = v
    /\ \A p \in Providers, y \in Rows :
         y \in toStore[a][p] \cup toDelete[a][p] => rendered[a] = v

\* Sub-tile y is stored at provider p as version v shows it.
Steady(v, p, y) == image[p][Key(y)] = Rendering(v, y)

\* The rows that a writing attempt has written show version v.
Accounts(v) ==
  \A a \in Attempts : phase[a] \in Writing =>
    \A p \in Providers, y \in Rows : Written(a, p, y) => Steady(v, p, y)

\* A write of what version v shows of a row leaves no other row worse.
LEMMA SteadyWrite ==
  ASSUME NEW v \in Versions,
         NEW p \in Providers, NEW y \in Rows, Writes(p, y, Rendering(v, y)),
         NEW q \in Providers, NEW z \in Rows, Steady(v, q, z)
  PROVE  Steady(v, q, z)'
<1>1. CASE q = p /\ z = y
  BY <1>1 DEF Steady, Writes, Rendering, Blank
<1>2. CASE q # p \/ z # y
  <2>1. Key(z) \in Ys /\ (z # y => Key(z) # Key(y))
    BY KeyFacts
  <2>2. image'[q][Key(z)] = image[q][Key(z)]
    BY <1>2, <2>1 DEF Writes
  <2>. QED
    BY <2>2 DEF Steady, Rendering, Blank
<1>. QED
  BY <1>1, <1>2

\* A loop of any attempt, failed or not, writes what version v shows.
LEMMA SteadyStores ==
  ASSUME TypeOK, LoopInv, AtomicWrites, NEW v \in Versions, Uniform(v),
         NEW a \in Attempts, NEW p \in Providers,
         StoreSubTile(a, p) \/ StoreRejects(a, p)
  PROVE  \E y \in Rows : y \in toStore[a][p] /\ Writes(p, y, Rendering(v, y))
<1>1. PICK y \in Rows : y \in toStore[a][p] /\ Writes(p, y, rendered[a])
  BY StoringWrites
<1>2. rendered[a] = v /\ y \notin Blank(v)
  BY <1>1 DEF LoopInv, Uniform
<1>. QED
  BY <1>1, <1>2 DEF Rendering

LEMMA SteadyDeletes ==
  ASSUME TypeOK, LoopInv, BlankYInv, NEW v \in Versions, Uniform(v),
         NEW a \in Attempts, NEW p \in Providers,
         DeleteSubTile(a, p) \/ DeleteRejects(a, p)
  PROVE  \E y \in Rows : y \in toDelete[a][p] /\ Writes(p, y, Rendering(v, y))
<1>1. PICK y \in Rows : y \in toDelete[a][p] /\ Writes(p, y, 0)
  BY DeletingWrites
<1>2. rendered[a] = v /\ y \in Blank(v)
  BY <1>1 DEF LoopInv, Uniform
<1>. QED
  BY <1>1, <1>2 DEF Rendering

\* And the row that a loop leaves, it has written.
LEMMA RowStored ==
  ASSUME TypeOK, LoopInv, NEW v \in Versions, Uniform(v),
         NEW a \in Attempts, NEW p \in Providers, StoreSubTile(a, p),
         NEW z \in Rows, z \in toStore[a][p], z \notin toStore'[a][p]
  PROVE  Steady(v, p, z)'
<1>1. Put(p, Key(z), rendered[a])
  BY DEF StoreSubTile, TypeOK
<1>2. rendered[a] = v /\ z \notin Blank(v)
  BY DEF LoopInv, Uniform
<1>3. Key(z) \in Ys /\ v \in 0 .. Torn
  BY KeyFacts DEF Torn
<1>4. image'[p][Key(z)] = v
  BY <1>1, <1>2, <1>3, PutFacts
<1>. QED
  BY <1>2, <1>4 DEF Steady, Rendering, Blank

LEMMA RowDeleted ==
  ASSUME TypeOK, LoopInv, BlankYInv, NEW v \in Versions, Uniform(v),
         NEW a \in Attempts, NEW p \in Providers, DeleteSubTile(a, p),
         NEW z \in Rows, z \in toDelete[a][p], z \notin toDelete'[a][p]
  PROVE  Steady(v, p, z)'
<1>1. DetermineKey(a, z) /\ Put(p, blankY'[a][z], 0)
  BY DEF DeleteSubTile, TypeOK
<1>2. blankY[a][z] = z /\ z \in Blank(v)
  BY DEF BlankYInv, LoopInv, Uniform
<1>3. blankY'[a][z] = Key(z) /\ Key(z) \in Ys /\ 0 \in 0 .. Torn
  BY <1>1, <1>2, DetermineKeyFacts, KeyFacts DEF Torn
<1>4. image'[p][Key(z)] = 0
  BY <1>1, <1>3, PutFacts
<1>. QED
  BY <1>2, <1>4 DEF Steady, Rendering, Blank

\* Only loops and, where files can be torn, crashes change what is stored.
LEMMA ImageFrame ==
  ASSUME TypeOK, AtomicWrites, [Next]_vars,
         \A a \in Attempts, p \in Providers :
           /\ ~StoreSubTile(a, p) /\ ~StoreRejects(a, p)
           /\ ~DeleteSubTile(a, p) /\ ~DeleteRejects(a, p)
  PROVE  UNCHANGED image
<1>1. CASE Tick \/ UpdateSource
  BY <1>1 DEF Tick, UpdateSource
<1>2. ASSUME NEW a \in Attempts, PreProcess(a) PROVE UNCHANGED image
  BY <1>2 DEF PreProcess, Start, ProcessAnyway, GetTileDetails, PreProcessFails,
     SkipUpToDate, SkipCooling, ProjectUpdated
<1>3. ASSUME NEW a \in Attempts, Process(a) PROVE UNCHANGED image
  BY <1>3 DEF Process, FetchAndSplit, FetchOrSplitFails, AllStored, AllDeleted,
     PostProcess, PostProcessFails
<1>4. ASSUME NEW S \in SUBSET Attempts, Crash(S) PROVE UNCHANGED image
  BY <1>4, CrashFacts
<1>5. CASE UNCHANGED vars
  BY <1>5 DEF vars
<1>. QED
  BY <1>1, <1>2, <1>3, <1>4, <1>5 DEF Next

\* So a row that shows version v keeps showing it.
LEMMA SteadyStays ==
  ASSUME TypeOK, LoopInv, BlankYInv, AtomicWrites, [Next]_vars,
         NEW v \in Versions, Uniform(v),
         NEW q \in Providers, NEW z \in Rows, Steady(v, q, z)
  PROVE  Steady(v, q, z)'
<1>1. ASSUME NEW a \in Attempts, NEW p \in Providers,
             StoreSubTile(a, p) \/ StoreRejects(a, p)
      PROVE  Steady(v, q, z)'
  BY <1>1, SteadyStores, SteadyWrite
<1>2. ASSUME NEW a \in Attempts, NEW p \in Providers,
             DeleteSubTile(a, p) \/ DeleteRejects(a, p)
      PROVE  Steady(v, q, z)'
  BY <1>2, SteadyDeletes, SteadyWrite
<1>3. CASE UNCHANGED image
  BY <1>3 DEF Steady, Rendering, Blank
<1>. QED
  BY <1>1, <1>2, <1>3, ImageFrame

\* A row that an attempt has written since is written, or it is one of those that
\* a storing loop or a deleting loop has written in this step.
LEMMA WrittenFrame ==
  ASSUME TypeOK, LoopInv, NEW a \in Attempts, phase'[a] \in Writing,
         phase[a] = phase'[a], rendered'[a] = rendered[a],
         NEW p \in Providers, NEW y \in Rows, Written(a, p, y)',
         toStore[a][p] \subseteq toStore'[a][p], toDelete[a][p] \subseteq toDelete'[a][p]
  PROVE  Written(a, p, y)
BY DEF Written, Blank

\* Every step keeps the rows that writing attempts have written.
LEMMA SteadyWritten ==
  ASSUME TypeOK, LoopInv, BlankYInv, AtomicWrites, [Next]_vars,
         NEW v \in Versions, version = v, version' = v, Uniform(v), Accounts(v),
         NEW b \in Attempts, phase'[b] \in Writing,
         NEW q \in Providers, NEW z \in Rows, Written(b, q, z)'
  PROVE  Steady(v, q, z)'
<1>. USE DEF TypeOK, Moves, source, attempt, loops
<1>0. phase[b] \in Writing /\ Written(b, q, z) => Steady(v, q, z)'
  BY SteadyStays DEF Accounts
<1>1. CASE Tick
  BY <1>0, <1>1, WrittenFrame DEF Tick
<1>2. CASE UpdateSource
  BY <1>2 DEF UpdateSource
<1>3. ASSUME NEW a \in Attempts, PreProcess(a) PROVE Steady(v, q, z)'
  <2>1. phase'[a] \notin Writing /\ \A c \in Attempts : c # a => phase'[c] = phase[c]
    BY <1>3 DEF PreProcess, Start, ProcessAnyway, GetTileDetails,
       PreProcessFails, SkipUpToDate, SkipCooling, ProjectUpdated, Writing
  <2>2. UNCHANGED <<rendered, toStore, toDelete>>
    BY <1>3 DEF PreProcess, Start, ProcessAnyway, GetTileDetails,
       PreProcessFails, SkipUpToDate, SkipCooling, ProjectUpdated
  <2>. QED
    BY <1>0, <2>1, <2>2, WrittenFrame
<1>4. ASSUME NEW a \in Attempts, FetchAndSplit(a) PROVE Steady(v, q, z)'
  <2>1. CASE a = b
    BY <1>4, <2>1 DEF FetchAndSplit, Written, Blank
  <2>2. CASE a # b
    BY <1>0, <1>4, <2>2, WrittenFrame DEF FetchAndSplit
  <2>. QED
    BY <2>1, <2>2
<1>5. ASSUME NEW a \in Attempts, AllStored(a) PROVE Steady(v, q, z)'
  <2>1. CASE a = b
    BY <1>0, <1>5, <2>1, NoLoops DEF AllStored, NothingLeft, Written, Writing,
       Blank
  <2>2. CASE a # b
    BY <1>0, <1>5, <2>2, WrittenFrame DEF AllStored
  <2>. QED
    BY <2>1, <2>2
<1>6. ASSUME NEW a \in Attempts, AllDeleted(a) PROVE Steady(v, q, z)'
  BY <1>0, <1>6 DEF AllDeleted, Written, Writing, Blank
<1>7. ASSUME NEW a \in Attempts,
             FetchOrSplitFails(a) \/ PostProcess(a) \/ PostProcessFails(a)
      PROVE  Steady(v, q, z)'
  <2>1. phase'[a] \notin Writing /\ \A c \in Attempts : c # a => phase'[c] = phase[c]
    BY <1>7 DEF FetchOrSplitFails, PostProcess, PostProcessFails, Writing
  <2>2. UNCHANGED <<rendered, toStore, toDelete>>
    BY <1>7 DEF FetchOrSplitFails, PostProcess, PostProcessFails
  <2>. QED
    BY <1>0, <2>1, <2>2, WrittenFrame
<1>8. ASSUME NEW a \in Attempts, NEW p \in Providers, StoreSubTile(a, p)
      PROVE  Steady(v, q, z)'
  <2>1. /\ UNCHANGED <<phase, rendered, toDelete>>
        /\ a # b \/ p # q => toStore'[b][q] = toStore[b][q]
    BY <1>8 DEF StoreSubTile
  <2>2. CASE a = b /\ p = q /\ z \in toStore[b][q]
    BY <1>8, <2>2, RowStored DEF Written
  <2>3. CASE a # b \/ p # q \/ z \notin toStore[b][q]
    BY <1>0, <2>1, <2>3 DEF Written, Blank
  <2>. QED
    BY <2>2, <2>3
<1>9. ASSUME NEW a \in Attempts, NEW p \in Providers, DeleteSubTile(a, p)
      PROVE  Steady(v, q, z)'
  <2>1. /\ UNCHANGED <<phase, rendered, toStore>>
        /\ a # b \/ p # q => toDelete'[b][q] = toDelete[b][q]
    BY <1>9 DEF DeleteSubTile
  <2>2. CASE a = b /\ p = q /\ z \in toDelete[b][q]
    BY <1>9, <2>2, RowDeleted DEF Written
  <2>3. CASE a # b \/ p # q \/ z \notin toDelete[b][q]
    BY <1>0, <2>1, <2>3 DEF Written, Blank
  <2>. QED
    BY <2>2, <2>3
<1>10. ASSUME NEW a \in Attempts, NEW p \in Providers,
              StoreRejects(a, p) \/ DeleteRejects(a, p)
       PROVE  Steady(v, q, z)'
  <2>1. \A c \in Attempts : phase'[c] \in Writing => c # a /\ phase'[c] = phase[c]
    BY <1>10 DEF StoreRejects, DeleteRejects, Fails, Active, Writing
  <2>2. /\ rendered' = rendered
        /\ \A c \in Attempts :
             c # a => toStore'[c] = toStore[c] /\ toDelete'[c] = toDelete[c]
    BY <1>10 DEF StoreRejects, DeleteRejects
  <2>. QED
    BY <1>0, <2>1, <2>2, WrittenFrame
<1>11. ASSUME NEW S \in SUBSET Attempts, Crash(S) PROVE Steady(v, q, z)'
  <2>1. /\ phase'[b] = phase[b] /\ rendered' = rendered
        /\ toStore'[b] = toStore[b] /\ toDelete'[b] = toDelete[b]
    BY <1>11, CrashFacts DEF Crash, Writing
  <2>. QED
    BY <1>0, <2>1, WrittenFrame
<1>12. CASE UNCHANGED vars
  BY <1>0, <1>12, WrittenFrame DEF vars
<1>. QED
  BY <1>1, <1>2, <1>3, <1>4, <1>5, <1>6, <1>7, <1>8, <1>9, <1>10, <1>11, <1>12
     DEF Next, Process

\* An attempt that has awaited its loops has written every row.
LEMMA PostingIsCurrent ==
  ASSUME TypeOK, LoopInv, Accounts(version),
         NEW a \in Attempts, phase[a] = "posting"
  PROVE  Current
<1>1. ASSUME NEW p \in Providers, NEW y \in Rows
      PROVE  image[p][Key(y)] = Rendering(version, y)
  <2>1. toStore[a][p] = {} /\ toDelete[a][p] = {}
    BY NoLoops
  <2>2. Written(a, p, y) /\ phase[a] \in Writing
    BY <2>1 DEF Written, Writing
  <2>. QED
    BY <2>2 DEF Accounts, Steady
<1>. QED
  BY <1>1 DEF Current

\* The source never goes back to an earlier version.
LEMMA VersionGrows ==
  ASSUME TypeOK, [Next]_vars
  PROVE  version' \in {version, version + 1}
<1>1. ASSUME NEW a \in Attempts, PreProcess(a) \/ Process(a) PROVE version' = version
  BY <1>1 DEF PreProcess, Start, ProcessAnyway, GetTileDetails, PreProcessFails,
     SkipUpToDate, SkipCooling, ProjectUpdated, Process, FetchAndSplit,
     FetchOrSplitFails, AllStored, AllDeleted, PostProcess, PostProcessFails,
     StoreSubTile, StoreRejects, DeleteSubTile, DeleteRejects, source
<1>. QED
  BY <1>1 DEF Next, Tick, UpdateSource, Crash, source, vars

\* What is written stays of one version: a loop only gets rows of what its attempt
\* has fetched, and that is the version of the source.
LEMMA UniformStep ==
  ASSUME TypeOK, LoopInv, [Next]_vars, NEW v \in Versions, version = v, Uniform(v)
  PROVE  Uniform(v)'
<1>. USE DEF TypeOK, Moves, source, attempt, loops, Uniform
<1>1. CASE Tick \/ UpdateSource
  BY <1>1 DEF Tick, UpdateSource
<1>2. ASSUME NEW a \in Attempts, PreProcess(a) PROVE Uniform(v)'
  BY <1>2 DEF PreProcess, Start, ProcessAnyway, GetTileDetails, PreProcessFails,
     SkipUpToDate, SkipCooling, ProjectUpdated, Writing
<1>3. ASSUME NEW a \in Attempts, FetchAndSplit(a) PROVE Uniform(v)'
  BY <1>3 DEF FetchAndSplit
<1>4. ASSUME NEW a \in Attempts, AllStored(a) PROVE Uniform(v)'
  BY <1>4 DEF AllStored, Writing
<1>5. ASSUME NEW a \in Attempts,
             \/ FetchOrSplitFails(a) \/ AllDeleted(a)
             \/ PostProcess(a) \/ PostProcessFails(a)
      PROVE  Uniform(v)'
  BY <1>5 DEF FetchOrSplitFails, AllDeleted, PostProcess, PostProcessFails,
     Writing
<1>6. ASSUME NEW a \in Attempts, NEW p \in Providers,
             \/ StoreSubTile(a, p) \/ StoreRejects(a, p)
             \/ DeleteSubTile(a, p) \/ DeleteRejects(a, p)
      PROVE  Uniform(v)'
  <2>1. rendered' = rendered /\ \A c \in Attempts : phase'[c] \in {phase[c], "failed"}
    BY <1>6 DEF StoreSubTile, StoreRejects, DeleteSubTile, DeleteRejects, Fails
  <2>2. ASSUME NEW c \in Attempts, NEW q \in Providers
        PROVE  /\ toStore'[c][q] \subseteq toStore[c][q]
               /\ toDelete'[c][q] \subseteq toDelete[c][q]
    <3>. /\ toStore[a] \in [Providers -> SUBSET Rows]
         /\ toDelete[a] \in [Providers -> SUBSET Rows]
      OBVIOUS
    <3>1. CASE StoreSubTile(a, p)
      <4>1. toDelete' = toDelete
        BY <3>1 DEF StoreSubTile
      <4>2. PICK y : toStore' = [toStore EXCEPT ![a][p] = @ \ {y}]
        BY <3>1 DEF StoreSubTile
      <4>. QED
        BY <4>1, <4>2
    <3>2. CASE DeleteSubTile(a, p)
      <4>1. toStore' = toStore
        BY <3>2 DEF DeleteSubTile
      <4>2. PICK y : toDelete' = [toDelete EXCEPT ![a][p] = @ \ {y}]
        BY <3>2 DEF DeleteSubTile
      <4>. QED
        BY <4>1, <4>2
    <3>3. CASE StoreRejects(a, p)
      <4>1. toDelete' = toDelete /\ toStore' = [toStore EXCEPT ![a][p] = {}]
        BY <3>3 DEF StoreRejects
      <4>. QED
        BY <4>1
    <3>4. CASE DeleteRejects(a, p)
      <4>1. toStore' = toStore /\ toDelete' = [toDelete EXCEPT ![a][p] = {}]
        BY <3>4 DEF DeleteRejects
      <4>. QED
        BY <4>1
    <3>. QED
      BY <1>6, <3>1, <3>2, <3>3, <3>4
  <2>. QED
    BY <2>1, <2>2 DEF Writing
<1>7. ASSUME NEW S \in SUBSET Attempts, Crash(S) PROVE Uniform(v)'
  BY <1>7 DEF Crash, NothingLeft, Writing
<1>8. CASE UNCHANGED vars
  BY <1>8 DEF vars
<1>. QED
  BY <1>1, <1>2, <1>3, <1>4, <1>5, <1>6, <1>7, <1>8 DEF Next, Process

----------------------------------------------------------------------------
(* Any version, from a moment at which nobody writes.                      *)

\* What holds of the loops whatever is configured.
GeneralInv == TypeOK /\ LoopInv /\ BlankYInv

LEMMA GeneralStep ==
  ASSUME BlanksUnshared, GeneralInv, [Next]_vars
  PROVE  GeneralInv'
BY TypeStep, LoopStep, BlankYStep DEF GeneralInv

\* Version v is written by whoever writes, until it is replaced.
OnlyOne(v) == GeneralInv /\ version >= v /\ (version = v => Uniform(v) /\ Accounts(v))

\* And stored as a whole.
Settled(v) == OnlyOne(v) /\ (version = v => Current)

LEMMA OnlyOneStep ==
  ASSUME AtomicWrites, BlanksUnshared, NEW v \in Versions, OnlyOne(v), [Next]_vars
  PROVE  OnlyOne(v)'
<1>1. GeneralInv'
  BY GeneralStep DEF OnlyOne
<1>2. version \in Nat /\ version >= v /\ version' \in {version, version + 1}
  BY VersionGrows DEF OnlyOne, GeneralInv, TypeOK
<1>3. ASSUME version' = v PROVE Uniform(v)' /\ Accounts(v)'
  <2>1. version = v
    BY <1>2, <1>3
  <2>2. TypeOK /\ LoopInv /\ BlankYInv /\ Uniform(v) /\ Accounts(v)
    BY <2>1 DEF OnlyOne, GeneralInv
  <2>3. Accounts(v)'
    BY <1>3, <2>1, <2>2, SteadyWritten DEF Accounts
  <2>. QED
    BY <2>1, <2>2, <2>3, UniformStep
<1>. QED
  BY <1>1, <1>2, <1>3 DEF OnlyOne

\* Once one attempt has awaited its loops the metatile is current, and stays so.
LEMMA SettledStep ==
  ASSUME AtomicWrites, BlanksUnshared, NEW v \in Versions, Settled(v), [Next]_vars
  PROVE  Settled(v)'
<1>1. OnlyOne(v)'
  BY OnlyOneStep DEF Settled
<1>2. ASSUME version' = v PROVE Current'
  <2>1. version = v
    BY <1>2, VersionGrows DEF Settled, OnlyOne, GeneralInv, TypeOK
  <2>2. TypeOK /\ LoopInv /\ BlankYInv /\ Uniform(v) /\ Current
    BY <2>1 DEF Settled, OnlyOne, GeneralInv
  <2>3. \A p \in Providers, y \in Rows : Steady(v, p, y)'
    BY <2>1, <2>2, SteadyStays DEF Current, Steady
  <2>. QED
    BY <1>2, <2>3 DEF Current, Steady
<1>. QED
  BY <1>1, <1>2 DEF Settled

\* From a moment at which nobody writes until the next update of the source, no
\* overlap of attempts, failed call or orphaned loop does harm: once any attempt has
\* awaited its loops the metatile is current at every provider, and stays so.
THEOREM OverlapDoesNoHarm ==
  ASSUME AtomicWrites, BlanksUnshared
  PROVE  Spec => OverlapIsHarmless
<1>1. ASSUME NEW v \in Versions PROVE Spec => HarmlessDuring(v)
  <2>1. Init => GeneralInv
    BY InitGeneral DEF GeneralInv
  <2>2. GeneralInv /\ [Next]_vars => GeneralInv'
    BY GeneralStep
  <2>3. GeneralInv /\ Quiet /\ version = v => OnlyOne(v)
    BY DEF Quiet, NothingLeft, GeneralInv, OnlyOne, Uniform, Accounts
  <2>4. OnlyOne(v) /\ [Next]_vars => OnlyOne(v)'
    BY OnlyOneStep
  <2>5. OnlyOne(v) /\ (\E a \in Attempts : phase[a] = "posting") /\ version = v
          => Settled(v)
    BY PostingIsCurrent DEF OnlyOne, Settled, GeneralInv
  <2>6. Settled(v) /\ [Next]_vars => Settled(v)'
    BY SettledStep
  <2>7. Settled(v) => (version = v => Current)
    BY DEF Settled
  <2>. QED
    BY <2>1, <2>2, <2>3, <2>4, <2>5, <2>6, <2>7, PTL DEF Spec, HarmlessDuring
<1>. QED
  BY <1>1 DEF OverlapIsHarmless

----------------------------------------------------------------------------
(* The first version, of which the detiler knows nothing false.            *)

\* What SteadyInv needs to be inductive.
SIInv == GeneralInv /\ (version = 1 => SteadyInv)

\* At the first version there is no other to write.
LEMMA FirstVersion ==
  ASSUME TypeOK, LoopInv, SteadyInv, version = 1
  PROVE  1 \in Versions /\ Uniform(1) /\ Accounts(1)
BY DEF TypeOK, LoopInv, SteadyInv, Uniform, Accounts, Steady

\* What makes a metatile count as rendered is true of the storage already: an
\* attempt records or succeeds once its loops, which it has awaited, are done.
RenderedSomewhere ==
  \/ renderedAt # NoDetails
  \/ \E a \in Attempts : phase[a] \in {"comparing", "skipped", "cooled", "succeeded"}

LEMMA SteadyRecord ==
  ASSUME TypeOK, LoopInv, BlankYInv, version = 1, SteadyInv,
         [Next]_vars, RenderedSomewhere'
  PROVE  Current
<1>. USE DEF TypeOK, Moves, source, attempt, loops, RenderedSomewhere
<1>1. RenderedSomewhere => Current
  BY DEF SteadyInv
<1>2. ASSUME NEW a \in Attempts, phase[a] = "posting" PROVE Current
  BY <1>2, PostingIsCurrent, FirstVersion
<1>3. SUFFICES ASSUME ~RenderedSomewhere, \A a \in Attempts : phase[a] # "posting"
               PROVE  ~RenderedSomewhere'
  BY <1>1, <1>2
<1>4. CASE Tick
  BY <1>3, <1>4 DEF Tick
<1>5. CASE UpdateSource
  BY <1>3, <1>5 DEF UpdateSource
<1>6. ASSUME NEW a \in Attempts, PreProcess(a) PROVE ~RenderedSomewhere'
  BY <1>3, <1>6 DEF PreProcess, Start, ProcessAnyway, GetTileDetails,
     PreProcessFails, SkipUpToDate, SkipCooling, ProjectUpdated
<1>7. ASSUME NEW a \in Attempts, Process(a) PROVE ~RenderedSomewhere'
  <2>1. /\ renderedAt' = renderedAt
        /\ \A b \in Attempts :
             phase'[b] \in {phase[b], "storing", "failed", "deleting", "posting"}
    BY <1>3, <1>7 DEF Process, FetchAndSplit, FetchOrSplitFails, AllStored,
       AllDeleted, PostProcess, PostProcessFails, StoreSubTile, StoreRejects,
       DeleteSubTile, DeleteRejects, Fails
  <2>. QED
    BY <1>3, <2>1
<1>8. ASSUME NEW S \in SUBSET Attempts, Crash(S) PROVE ~RenderedSomewhere'
  BY <1>3, <1>8 DEF Crash
<1>9. CASE UNCHANGED vars
  BY <1>3, <1>9 DEF vars
<1>. QED
  BY <1>4, <1>5, <1>6, <1>7, <1>8, <1>9 DEF Next

\* The invariant is inductive, up to the first update of the source and beyond.
LEMMA SteadyStep ==
  ASSUME AtomicWrites, BlanksUnshared, SIInv, [Next]_vars
  PROVE  SIInv'
<1>1. GeneralInv'
  BY GeneralStep DEF SIInv
<1>2. ASSUME version' = 1 PROVE SteadyInv'
  <2>1. version = 1 /\ TypeOK /\ LoopInv /\ BlankYInv /\ SteadyInv
    BY <1>2, VersionGrows DEF SIInv, GeneralInv, TypeOK
  <2>2. 1 \in Versions /\ Uniform(1) /\ Accounts(1)
    BY <2>1, FirstVersion
  <2>3. \A a \in Attempts : phase'[a] \in Writing =>
          \A p \in Providers, y \in Rows : Written(a, p, y)' => Steady(1, p, y)'
    BY <1>2, <2>1, <2>2, SteadyWritten
  <2>4. ASSUME RenderedSomewhere' PROVE Current'
    <3>1. \A p \in Providers, y \in Rows : Steady(1, p, y)
      BY <2>1, <2>4, SteadyRecord DEF Current, Steady
    <3>2. \A p \in Providers, y \in Rows : Steady(1, p, y)'
      BY <2>1, <2>2, <3>1, SteadyStays
    <3>. QED
      BY <1>2, <3>2 DEF Current, Steady
  <2>. QED
    BY <2>3, <2>4 DEF SteadyInv, Steady, RenderedSomewhere
<1>. QED
  BY <1>1, <1>2 DEF SIInv

LEMMA InitSIInv == Init => SIInv
<1>. SUFFICES ASSUME Init PROVE SteadyInv
  BY InitGeneral DEF SIInv, GeneralInv
<1>. QED
  BY DEF Init, SteadyInv, Writing

\* While the source is at its first version, every writing attempt finds what it
\* has written, and what is recorded, skipped or done is stored everywhere.
THEOREM SteadyInvariance ==
  ASSUME AtomicWrites, BlanksUnshared
  PROVE  Spec => [](version = 1 => SteadyInv)
<1>1. SIInv /\ [Next]_vars => SIInv'
  BY SteadyStep
<1>2. SIInv => (version = 1 => SteadyInv)
  BY DEF SIInv
<1>. QED
  BY <1>1, <1>2, InitSIInv, PTL DEF Spec

\* So what the detiler says is true, and what has succeeded is stored.
THEOREM SteadyDetilerIsRight ==
  ASSUME AtomicWrites, BlanksUnshared
  PROVE  Spec => [](version = 1 => Fresh /\ SucceededIsStored)
<1>1. ASSUME version = 1, SteadyInv PROVE Fresh /\ SucceededIsStored
  <2>1. renderedAt # NoDetails => Current
    BY <1>1 DEF SteadyInv
  <2>2. Current => \A p \in Providers, y \in Rows : Shows(p, y, renderedAt)
    BY <1>1 DEF Current, Shows, Covers
  <2>3. SucceededIsStored
    BY <1>1 DEF SteadyInv, SucceededIsStored
  <2>. QED
    BY <2>1, <2>2, <2>3 DEF Fresh
<1>2. (version = 1 => SteadyInv) => (version = 1 => Fresh /\ SucceededIsStored)
  BY <1>1
<1>. QED
  BY <1>2, SteadyInvariance, PTL

\* A source that never changes stays at its first version.
LEMMA OneVersion == ASSUME MaxVersion = 1, TypeOK PROVE version = 1
BY DEF TypeOK

\* With such a source a metatile skipped as up to date is current, also when it was
\* rendered in the second of the import, as the code's comment has it.
THEOREM SteadySkippingIsSafe ==
  ASSUME MaxVersion = 1, AtomicWrites, BlanksUnshared
  PROVE  Spec => SkippedIsUpToDate
<1>1. TypeOK /\ (version = 1 => SteadyInv) /\ [Next]_vars =>
        [\A a \in Attempts : SkipUpToDate(a) => Current]_vars
  BY OneVersion DEF SkipUpToDate, Moves, SteadyInv
<1>. QED
  BY <1>1, SteadyInvariance, TypeCorrect, PTL DEF Spec, SkippedIsUpToDate
=============================================================================
