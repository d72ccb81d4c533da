----------------------------- MODULE MapSplitter -----------------------------
(***************************************************************************)
(* getMap and SharpMapSplitter.splitMap: the image of a metatile is fetched*)
(* from a map provider and cut into sub-tiles by extractions that run      *)
(* concurrently and finish in any order, each ending as a tile to store or *)
(* as a blank tile to delete.                                              *)
(***************************************************************************)
EXTENDS MapProvider, Filter, FiniteSets, SequencesExt

CONSTANTS BaseTiles,              \* the metatiles that may be split
          ShouldFilterBlankTiles,
          ShouldFlipY             \* of the layout the results are stored with

ASSUME MapSplitterAssumption ==
  /\ \A t \in BaseTiles : t.z \in Nat /\ t.x \in Nat /\ t.y \in Nat
                          /\ t.metatile \in Nat \ {0}
  /\ ShouldFilterBlankTiles \in BOOLEAN /\ ShouldFlipY \in BOOLEAN

VARIABLES tile,             \* the metatile being split
          provider,         \* app.map.provider, and the version of a WMS
          blankPixels,      \* the sub-tiles whose part of the image is blank
          map,              \* what the fetched image shows, or NoImage
          stage,            \* "requested", "called", "splitting", "returned" or
                            \* "rejected"
          extracting,       \* the extractions that have not finished
          kept,             \* the finished extractions that gave a tile
          blankTiles, splittedTiles, outOfBoundsCount, isMetatileBlank

result == <<blankTiles, splittedTiles, outOfBoundsCount, isMetatileBlank>>
input == <<tile, provider, blankPixels>>
vars == <<input, map, stage, extracting, kept, result>>

NoImage == [width |-> 0]

\* Mutant: rows and columns count from one.
SubTileAtOffByOne(base, i) ==
  SubTile(base, i \div base.metatile, i % base.metatile)

\* subTilesGenerator: row by row.
SubTileAt(base, i) ==
  SubTile(base, (i - 1) \div base.metatile, (i - 1) % base.metatile)
Generated(base) ==
  [i \in 1 .. base.metatile * base.metatile |-> SubTileAt(base, i)]

Init ==
  /\ tile \in BaseTiles /\ provider \in MapProviders
  /\ blankPixels \in SUBSET SubTiles(tile)
  /\ map = NoImage
  /\ stage = "requested"
  /\ extracting = {} /\ kept = {}
  /\ blankTiles = <<>> /\ splittedTiles = <<>>
  /\ outOfBoundsCount = 0 /\ isMetatileBlank = FALSE

\* The service answers with the image it draws.
GetMap ==
  /\ stage = "requested"
  /\ map' = Drawn(provider, GetMapRequest(provider, tile))
  /\ stage' = "called"
  /\ UNCHANGED <<input, extracting, kept, result>>

\* It answers with something else, which a WMS provider throws at if it is XML.
GetMapNoImage ==
  /\ stage = "requested"
  /\ \/ stage' = "called"
     \/ stage' = "rejected" /\ provider \in WmsVersions
  /\ UNCHANGED <<input, map, extracting, kept, result>>

GetMapRejects ==
  /\ stage = "requested"
  /\ stage' = "rejected"
  /\ UNCHANGED <<input, map, extracting, kept, result>>

\* Mutant: some of the buffer is blank.
SomeMapIsBlank == ShouldFilterBlankTiles /\ blankPixels # {}

\* isBlankTile of the whole buffer, when blank tiles are filtered.
WholeMapIsBlank == ShouldFilterBlankTiles /\ blankPixels = SubTiles(tile)

\* sharp cannot read the image.
DetectionRejects ==
  /\ stage = "called" /\ ShouldFilterBlankTiles
  /\ stage' = "rejected"
  /\ UNCHANGED <<input, map, extracting, kept, result>>

\* Every sub-tile is reported blank, also the ones out of bounds.
FilterMetatile ==
  /\ stage = "called" /\ map # NoImage /\ WholeMapIsBlank
  /\ blankTiles' = Generated(tile)
  /\ isMetatileBlank' = TRUE
  /\ stage' = "returned"
  /\ UNCHANGED <<input, map, extracting, kept, splittedTiles, outOfBoundsCount>>

StartExtractions ==
  /\ stage = "called" /\ ~WholeMapIsBlank
  /\ ShouldFilterBlankTiles => map # NoImage
  /\ extracting' = {t \in SubTiles(tile) : IsTileInBounds(t)}
  /\ outOfBoundsCount' = Cardinality(SubTiles(tile) \ extracting')
  /\ stage' = "splitting"
  /\ UNCHANGED <<input, map, kept, blankTiles, splittedTiles, isMetatileBlank>>

\* Mutants: the blank tile is reported and kept; blank tiles are not filtered;
\* an extraction adds its tile to the result itself, as it does a blank one.
ExtractionEndsTwice(t) ==
  /\ t \in extracting /\ map # NoImage
  /\ extracting' = extracting \ {t}
  /\ IF ShouldFilterBlankTiles /\ t \in blankPixels
     THEN blankTiles' = Append(blankTiles, t) ELSE UNCHANGED blankTiles
  /\ kept' = kept \cup {t}
  /\ UNCHANGED <<input, map, stage, splittedTiles, outOfBoundsCount,
                 isMetatileBlank>>

ExtractionEndsUnfiltered(t) ==
  /\ t \in extracting /\ map # NoImage
  /\ extracting' = extracting \ {t}
  /\ kept' = kept \cup {t}
  /\ UNCHANGED <<input, map, stage, result>>

ExtractionEndsPushes(t) ==
  /\ t \in extracting /\ map # NoImage
  /\ extracting' = extracting \ {t}
  /\ IF ShouldFilterBlankTiles /\ t \in blankPixels
     THEN blankTiles' = Append(blankTiles, t) /\ UNCHANGED <<kept, splittedTiles>>
     ELSE /\ kept' = kept \cup {t} /\ splittedTiles' = Append(splittedTiles, t)
          /\ UNCHANGED blankTiles
  /\ UNCHANGED <<input, map, stage, outOfBoundsCount, isMetatileBlank>>

ExtractionEnds(t) ==
  /\ t \in extracting /\ map # NoImage
  /\ extracting' = extracting \ {t}
  /\ IF ShouldFilterBlankTiles /\ t \in blankPixels
     THEN blankTiles' = Append(blankTiles, t) /\ UNCHANGED kept
     ELSE kept' = kept \cup {t} /\ UNCHANGED blankTiles
  /\ UNCHANGED <<input, map, stage, splittedTiles, outOfBoundsCount,
                 isMetatileBlank>>

\* One extraction rejects and Promise.all with it; the others still finish.
ExtractionRejects(t) ==
  /\ t \in extracting
  /\ extracting' = extracting \ {t}
  /\ stage' = "rejected"
  /\ UNCHANGED <<input, map, kept, result>>

\* Promise.all keeps the order in which the extractions were started.
Gather ==
  /\ stage = "splitting" /\ extracting = {}
  /\ splittedTiles' = Filter(Generated(tile), kept)
  /\ stage' = "returned"
  /\ UNCHANGED <<input, map, extracting, kept, blankTiles, outOfBoundsCount,
                 isMetatileBlank>>

\* Mutant: rows are taken for columns.
CutTransposed(t) ==
  Shown(map, t.y - tile.y * tile.metatile, t.x - tile.x * tile.metatile)

\* What the extraction at the column and the row of a sub-tile shows.
Cut(t) ==
  Shown(map, t.x - tile.x * tile.metatile, t.y - tile.y * tile.metatile)

Next == \/ GetMap \/ GetMapNoImage \/ GetMapRejects
        \/ DetectionRejects \/ FilterMetatile \/ StartExtractions \/ Gather
        \/ \E t \in extracting : ExtractionEnds(t) \/ ExtractionRejects(t)

Spec == Init /\ [][Next]_vars

----------------------------------------------------------------------------
TypeOK ==
  /\ tile \in BaseTiles /\ blankPixels \subseteq SubTiles(tile)
  /\ provider \in MapProviders
  /\ stage \in {"requested", "called", "splitting", "returned", "rejected"}
  /\ extracting \subseteq SubTiles(tile) /\ kept \subseteq SubTiles(tile)
  /\ blankTiles \in Seq(SubTiles(tile)) /\ splittedTiles \in Seq(SubTiles(tile))
  /\ outOfBoundsCount \in Nat /\ isMetatileBlank \in BOOLEAN

\* Each sub-tile is stored with the image of its own place, whichever provider
\* drew the metatile and though it may be larger than the grid.
CutsShowTheirPlace ==
  \A t \in kept : Cut(t) = BoundingBox(t)

\* Whatever the order the extractions end in, the result partitions the
\* metatile: each sub-tile is stored, deleted or counted out of bounds, once.
ResultIsPartition ==
  stage = "returned" =>
    /\ IsInjective(splittedTiles) /\ IsInjective(blankTiles)
    /\ ToSet(splittedTiles) \cap ToSet(blankTiles) = {}
    /\ Len(splittedTiles) + Len(blankTiles) + outOfBoundsCount
         = Cardinality(SubTiles(tile))

\* A sub-tile is stored exactly if it exists and has something to show, or
\* blank tiles are not filtered; one that is deleted is blank.
StoredExactlyIfShown ==
  stage = "returned" =>
    /\ ToSet(splittedTiles) =
         {t \in SubTiles(tile) : /\ IsTileInBounds(t)
                                 /\ ShouldFilterBlankTiles => t \notin blankPixels}
    /\ ToSet(blankTiles) \subseteq blankPixels

\* The tiles to store come row by row whatever the order of the extractions.
StoredInOrder ==
  \A i, j \in DOMAIN splittedTiles :
    i < j => \/ splittedTiles[i].y < splittedTiles[j].y
             \/ /\ splittedTiles[i].y = splittedTiles[j].y
                /\ splittedTiles[i].x < splittedTiles[j].x

\* Deleting what is reported blank removes no image of another metatile and none
\* that shows something: a key out of bounds is no existing tile's key.
InBoundsTiles(z) ==
  {[z |-> z, x |-> x, y |-> y, metatile |-> 1] :
     x \in 0 .. Width(z) - 1, y \in 0 .. Height(z) - 1}
DeletesOnlyBlank ==
  stage = "returned" =>
    \A b \in ToSet(blankTiles), t \in InBoundsTiles(tile.z) :
      StorageKey(b, ShouldFlipY) = StorageKey(t, ShouldFlipY) => t \in blankPixels
=============================================================================
