-------------------------- MODULE MapSplitterProofs --------------------------
(***************************************************************************)
(* Proofs about MapSplitter, for every metatile of the grid, its edges and *)
(* beyond, every provider, blank pattern and order of the extractions.     *)
(***************************************************************************)
EXTENDS MapSplitter, FilterProofs, TLAPS, SequenceTheorems, FiniteSetTheorems

\* The sub-tiles of a metatile, by row and column.
LEMMA SubTileFacts ==
  ASSUME NEW base \in BaseTiles, NEW t \in SubTiles(base)
  PROVE  \E r, c \in 0 .. base.metatile - 1 :
           /\ t = [z |-> base.z, x |-> base.x * base.metatile + c,
                   y |-> base.y * base.metatile + r, metatile |-> 1]
           /\ t.x = base.x * base.metatile + c /\ t.x \in Nat
           /\ t.y = base.y * base.metatile + r /\ t.y \in Nat
<1>1. PICK r \in Splits(base), c \in Splits(base) : t = SubTile(base, r, c)
  BY DEF SubTiles
<1>2. base.x * base.metatile \in Nat /\ base.y * base.metatile \in Nat
  BY MapSplitterAssumption DEF MapSplitterAssumption
<1>3. t = [z |-> base.z, x |-> base.x * base.metatile + c,
           y |-> base.y * base.metatile + r, metatile |-> 1]
  BY <1>1 DEF SubTile
<1>4. r \in 0 .. base.metatile - 1 /\ c \in 0 .. base.metatile - 1
  BY DEF Splits
<1>5. t.x = base.x * base.metatile + c /\ t.y = base.y * base.metatile + r
  BY <1>3
<1>6. t.x \in Nat /\ t.y \in Nat
  BY <1>2, <1>4, <1>5, MapSplitterAssumption DEF MapSplitterAssumption
<1>. QED
  BY <1>3, <1>4, <1>5, <1>6

\* Division with remainder, and that counting goes row by row.
LEMMA DivModFacts ==
  ASSUME NEW m \in Nat \ {0}, NEW n \in Nat
  PROVE  /\ n \div m \in Nat /\ n % m \in 0 .. m - 1
         /\ n = m * (n \div m) + (n % m)
OBVIOUS

LEMMA DivModUnique ==
  ASSUME NEW m \in Nat \ {0}, NEW q \in Nat, NEW r \in 0 .. m - 1
  PROVE  (m * q + r) \div m = q /\ (m * q + r) % m = r
<1>. DEFINE n == m * q + r
<1>1. n \in Nat
  OBVIOUS
<1>2. n \div m \in Nat /\ n % m \in 0 .. m - 1 /\ n = m * (n \div m) + (n % m)
  BY <1>1, DivModFacts
<1>. QED
  BY <1>2

LEMMA Position ==
  ASSUME NEW m \in Nat \ {0}, NEW r \in 0 .. m - 1, NEW c \in 0 .. m - 1
  PROVE  \E i \in 1 .. m * m : (i - 1) \div m = r /\ (i - 1) % m = c
<1>. DEFINE i == m * r + c + 1
<1>1. i \in 1 .. m * m
  <2>1. m * r + m = m * (r + 1) /\ m * (r + 1) <= m * m /\ m * r >= 0
    OBVIOUS
  <2>2. m * r \in Nat /\ m * m \in Nat
    OBVIOUS
  <2>. QED
    BY <2>1, <2>2
<1>2. (m * r + c) \div m = r /\ (m * r + c) % m = c
  BY DivModUnique
<1>3. i - 1 = m * r + c
  OBVIOUS
<1>. HIDE DEF i
<1>. QED
  BY <1>1, <1>2, <1>3

LEMMA RowMajor ==
  ASSUME NEW m \in Nat \ {0}, NEW a \in Nat, NEW b \in Nat, a < b
  PROVE  /\ a \div m \in Nat /\ a % m \in Nat /\ b \div m \in Nat /\ b % m \in Nat
         /\ \/ a \div m < b \div m
            \/ a \div m = b \div m /\ a % m < b % m
<1>. DEFINE q == a \div m
            r == b \div m
<1>1. /\ q \in Nat /\ a % m \in 0 .. m - 1 /\ a = m * q + (a % m)
      /\ r \in Nat /\ b % m \in 0 .. m - 1 /\ b = m * r + (b % m)
  BY DivModFacts
<1>2. ASSUME q > r PROVE FALSE
  <2>1. m * q >= m * (r + 1) /\ m * (r + 1) = m * r + m
    BY <1>1, <1>2
  <2>. HIDE DEF q, r
  <2>. QED
    BY <1>1, <2>1
<1>. QED
  BY <1>1, <1>2

\* The generator yields the sub-tiles of the metatile, row by row, each once.
LEMMA GeneratedFacts ==
  ASSUME NEW base \in BaseTiles
  PROVE  /\ Generated(base) \in Seq(SubTiles(base))
         /\ Len(Generated(base)) = base.metatile * base.metatile
         /\ \A i \in 1 .. Len(Generated(base)) : Generated(base)[i] = SubTileAt(base, i)
<1>. DEFINE m == base.metatile
<1>1. m \in Nat /\ m # 0 /\ m * m \in Nat
  BY MapSplitterAssumption DEF MapSplitterAssumption
<1>2. ASSUME NEW i \in 1 .. m * m PROVE SubTileAt(base, i) \in SubTiles(base)
  <2>1. (i - 1) \div m \in 0 .. m - 1 /\ (i - 1) % m \in 0 .. m - 1
    BY <1>1
  <2>. QED
    BY <2>1 DEF SubTileAt, SubTiles, Splits
<1>3. Generated(base) \in [1 .. m * m -> SubTiles(base)]
  BY <1>2 DEF Generated
<1>4. Generated(base) \in Seq(SubTiles(base)) /\ Len(Generated(base)) = m * m
  BY <1>1, <1>3, SeqDef, LenProperties
<1>. QED
  BY <1>4 DEF Generated

\* s comes before t in the order of rows and columns.
Before(s, t) == \/ s.y < t.y
                \/ s.y = t.y /\ s.x < t.x

LEMMA GeneratedInOrder ==
  ASSUME NEW base \in BaseTiles, NEW i \in 1 .. Len(Generated(base)),
         NEW j \in 1 .. Len(Generated(base)), i < j
  PROVE  Before(Generated(base)[i], Generated(base)[j])
<1>. DEFINE m == base.metatile
            s == Generated(base)[i]
            t == Generated(base)[j]
<1>1. /\ m \in Nat \ {0} /\ base.x * m \in Nat /\ base.y * m \in Nat
      /\ i - 1 \in Nat /\ j - 1 \in Nat /\ i - 1 < j - 1
  BY MapSplitterAssumption DEF MapSplitterAssumption
<1>2. /\ s.y = base.y * m + ((i - 1) \div m) /\ s.x = base.x * m + ((i - 1) % m)
      /\ t.y = base.y * m + ((j - 1) \div m) /\ t.x = base.x * m + ((j - 1) % m)
  <2>1. s = SubTileAt(base, i) /\ t = SubTileAt(base, j)
    BY GeneratedFacts
  <2>. QED
    BY <2>1 DEF SubTileAt, SubTile
<1>3. /\ (i - 1) \div m \in Nat /\ (i - 1) % m \in Nat
      /\ (j - 1) \div m \in Nat /\ (j - 1) % m \in Nat
      /\ \/ (i - 1) \div m < (j - 1) \div m
         \/ (i - 1) \div m = (j - 1) \div m /\ (i - 1) % m < (j - 1) % m
  BY <1>1, RowMajor
<1>. HIDE DEF s, t, m
<1>4. Before(s, t)
  BY <1>1, <1>2, <1>3 DEF Before
<1>. QED
  BY <1>4 DEF s, t

LEMMA GeneratedRange ==
  ASSUME NEW base \in BaseTiles
  PROVE  ToSet(Generated(base)) = SubTiles(base)
<1>. DEFINE m == base.metatile
            g == Generated(base)
<1>1. m \in Nat \ {0}
  BY MapSplitterAssumption DEF MapSplitterAssumption
<1>2. g \in Seq(SubTiles(base)) /\ Len(g) = m * m /\ DOMAIN g = 1 .. Len(g)
  BY GeneratedFacts
<1>3. ASSUME NEW r \in Splits(base), NEW c \in Splits(base)
      PROVE  \E i \in 1 .. m * m : SubTileAt(base, i) = SubTile(base, r, c)
  <2>1. PICK i \in 1 .. m * m : (i - 1) \div m = r /\ (i - 1) % m = c
    BY <1>1, Position DEF Splits
  <2>. QED
    BY <2>1 DEF SubTileAt
<1>4. ASSUME NEW t \in SubTiles(base) PROVE \E i \in 1 .. Len(g) : g[i] = t
  <2>1. PICK r \in Splits(base), c \in Splits(base) : t = SubTile(base, r, c)
    BY DEF SubTiles
  <2>2. PICK i \in 1 .. m * m : SubTileAt(base, i) = t
    BY <1>3, <2>1
  <2>. QED
    BY <1>2, <2>2, GeneratedFacts
<1>5. \A i \in 1 .. Len(g) : g[i] \in SubTiles(base)
  BY <1>2
<1>. HIDE DEF g
<1>. QED
  BY <1>2, <1>4, <1>5 DEF ToSet, g

\* A sequence that repeats nothing is as long as the set of its elements is large.
LEMMA LenIsCardinality ==
  ASSUME NEW E, NEW s \in Seq(E), IsInjective(s)
  PROVE  IsFiniteSet(ToSet(s)) /\ Cardinality(ToSet(s)) = Len(s)
<1>1. Len(s) \in Nat /\ DOMAIN s = 1 .. Len(s) /\ s \in [1 .. Len(s) -> ToSet(s)]
  BY DEF ToSet
<1>2. s \in Bijection(1 .. Len(s), ToSet(s))
  <2>1. s \in Injection(1 .. Len(s), ToSet(s))
    BY <1>1 DEF Injection, IsInjective
  <2>2. s \in Surjection(1 .. Len(s), ToSet(s))
    BY <1>1 DEF Surjection, ToSet
  <2>. QED
    BY <2>1, <2>2 DEF Bijection
<1>3. IsFiniteSet(1 .. Len(s)) /\ Cardinality(1 .. Len(s)) = Len(s)
  BY <1>1, FS_Interval
<1>. QED
  BY <1>2, <1>3, FS_Bijection DEF ExistsBijection

\* So a metatile has a finite number of sub-tiles.
LEMMA SubTilesFinite ==
  ASSUME NEW base \in BaseTiles
  PROVE  /\ IsInjective(Generated(base))
         /\ IsFiniteSet(SubTiles(base))
         /\ Cardinality(SubTiles(base)) = Len(Generated(base))
<1>. DEFINE g == Generated(base)
<1>1. /\ g \in Seq(SubTiles(base)) /\ DOMAIN g = 1 .. Len(g)
      /\ \A t \in SubTiles(base) : t.x \in Nat /\ t.y \in Nat
  BY GeneratedFacts, SubTileFacts
<1>2. IsInjective(g)
  <2>1. ASSUME NEW i \in 1 .. Len(g), NEW j \in 1 .. Len(g), g[i] = g[j] PROVE ~(i < j)
    <3>1. i < j => Before(g[i], g[j])
      BY GeneratedInOrder
    <3>2. g[i] \in SubTiles(base)
      BY <1>1
    <3>. QED
      BY <1>1, <2>1, <3>1, <3>2 DEF Before
  <2>2. Len(g) \in Nat
    BY <1>1
  <2>. HIDE DEF g
  <2>. QED
    BY <1>1, <2>1, <2>2 DEF IsInjective
<1>. QED
  BY <1>1, <1>2, GeneratedRange, LenIsCardinality

\* What is gathered, whatever was kept.
LEMMA GatheredFacts ==
  ASSUME NEW base \in BaseTiles, NEW S \in SUBSET SubTiles(base),
         NEW s, s = Filter(Generated(base), S)
  PROVE  /\ s \in Seq(SubTiles(base)) /\ ToSet(s) = S /\ IsInjective(s)
         /\ \A i, j \in DOMAIN s : i < j => Before(s[i], s[j])
<1>. DEFINE E == SubTiles(base)
            g == Generated(base)
<1>1. /\ g \in Seq(E) /\ AreIn(S, g)
      /\ \A i, j \in 1 .. Len(g) : i < j => Before(g[i], g[j])
  <2>1. g \in Seq(E) /\ DOMAIN g = 1 .. Len(g)
    BY GeneratedFacts
  <2>2. AreIn(S, g)
    BY <2>1, GeneratedRange DEF ToSet, AreIn
  <2>. QED
    BY <2>1, <2>2, GeneratedInOrder
<1>2. S \in SUBSET E /\ s = Filter(g, S)
  OBVIOUS
<1>. HIDE DEF E, g
<1>3. Selects(E, g, S, s)
  BY <1>1, <1>2, FilterSelects
<1>4. s \in Seq(E) /\ DOMAIN s = 1 .. Len(s) /\ Len(s) \in Nat
  BY <1>3 DEF Selects
<1>5. \A i, j \in 1 .. Len(s) : i < j => Before(s[i], s[j])
  BY <1>1, <1>3 DEF Selects
<1>6. ToSet(s) = S
  BY <1>3, <1>4 DEF ToSet, Selects, AreIn
<1>7. IsInjective(s)
  <2>1. \A i \in 1 .. Len(s) : s[i].x \in Nat /\ s[i].y \in Nat
    BY <1>2, <1>4, SubTileFacts DEF E
  <2>2. \A i, j \in 1 .. Len(s) : i < j => s[i] # s[j]
    BY <1>5, <2>1 DEF Before
  <2>. QED
    BY <1>4, <2>2 DEF IsInjective
<1>. QED
  BY <1>4, <1>5, <1>6, <1>7 DEF E

\* Every provider draws the box of the metatile, one unit of ground for a sub-tile.
LEMMA DrawnFacts ==
  ASSUME NEW base \in BaseTiles, NEW p \in MapProviders
  PROVE  LET image == Drawn(p, GetMapRequest(p, base))
             m == base.metatile
         IN  /\ image.west = base.x * m /\ image.east = base.x * m + m
             /\ image.north = -(base.y * m) /\ image.south = -(base.y * m) - m
             /\ image.width = m /\ image.height = m
<1>. DEFINE m == base.metatile
            b == BoundingBox(base)
<1>1. /\ base.x \in Nat /\ base.y \in Nat /\ m \in Nat
      /\ base.x * m \in Nat /\ base.y * m \in Nat
  BY MapSplitterAssumption DEF MapSplitterAssumption
<1>2. (base.x + 1) * m = base.x * m + m /\ (base.y + 1) * m = base.y * m + m
  BY <1>1
<1>3. /\ b.west = base.x * m /\ b.east = base.x * m + m
      /\ b.north = -(base.y * m) /\ b.south = -(base.y * m) - m
  BY <1>1, <1>2 DEF BoundingBox
<1>. HIDE DEF b
<1>4. CASE p = "arcgis"
  BY <1>3, <1>4 DEF Drawn, GetMapRequest, ArcgisGetMap, Request, EastingFirst, b
<1>5. CASE p = "1.3.0"
  BY <1>3, <1>5 DEF Drawn, GetMapRequest, WmsGetMap, VersionDepParams, Request,
     NorthingFirst, b
<1>6. CASE p = "1.1.1"
  BY <1>3, <1>6 DEF Drawn, GetMapRequest, WmsGetMap, VersionDepParams, Request,
     EastingFirst, b
<1>. QED
  BY <1>4, <1>5, <1>6 DEF MapProviders, WmsVersions

\* What is cut from such an image at the place of a sub-tile is its own box.
LEMMA CutFacts ==
  ASSUME NEW t \in SubTiles(tile), tile \in BaseTiles, provider \in MapProviders,
         map = Drawn(provider, GetMapRequest(provider, tile))
  PROVE  Cut(t) = BoundingBox(t)
<1>. DEFINE m == tile.metatile
<1>1. /\ tile.x * m \in Nat /\ tile.y * m \in Nat /\ m \in Nat /\ m # 0
  BY MapSplitterAssumption DEF MapSplitterAssumption
<1>2. PICK r, c \in 0 .. m - 1 :
        /\ t = [z |-> tile.z, x |-> tile.x * m + c, y |-> tile.y * m + r,
                metatile |-> 1]
        /\ t.x = tile.x * m + c /\ t.y = tile.y * m + r
  BY SubTileFacts
<1>3. /\ map.west = tile.x * m /\ map.east = tile.x * m + m
      /\ map.north = -(tile.y * m) /\ map.south = -(tile.y * m) - m
      /\ map.width = m /\ map.height = m
  BY DrawnFacts
<1>4. m \div m = 1
  BY <1>1
<1>5. /\ (map.east - map.west) \div map.width = 1
      /\ (map.north - map.south) \div map.height = 1
  BY <1>1, <1>3, <1>4
<1>6. t.x - tile.x * m = c /\ t.y - tile.y * m = r
  BY <1>1, <1>2
<1>7. Cut(t) = [west |-> tile.x * m + c, east |-> tile.x * m + (c + 1),
                north |-> -(tile.y * m) - r, south |-> -(tile.y * m) - (r + 1)]
  BY <1>1, <1>3, <1>5, <1>6 DEF Cut, Shown
<1>8. BoundingBox(t) = [west |-> t.x, east |-> t.x + 1,
                        north |-> -t.y, south |-> -(t.y + 1)]
  BY <1>1, <1>2 DEF BoundingBox
<1>. QED
  BY <1>1, <1>2, <1>7, <1>8

----------------------------------------------------------------------------
\* What has been fetched is the map of the metatile, nothing is kept without it,
\* and what is reported blank is blank.
SplitInv ==
  /\ tile \in BaseTiles /\ provider \in MapProviders
  /\ blankPixels \subseteq SubTiles(tile)
  /\ map # NoImage => map = Drawn(provider, GetMapRequest(provider, tile))
  /\ extracting \subseteq SubTiles(tile) /\ kept \subseteq SubTiles(tile)
  /\ kept # {} => map # NoImage
  /\ stage = "requested" => kept = {} /\ extracting = {}
  /\ blankTiles \in Seq(blankPixels)

LEMMA SplitStep == SplitInv /\ [Next]_vars => SplitInv'
<1>. SUFFICES ASSUME SplitInv, [Next]_vars PROVE SplitInv'
  OBVIOUS
<1>. USE DEF SplitInv, input, result
<1>1. CASE GetMap
  BY <1>1 DEF GetMap
<1>2. CASE GetMapNoImage \/ GetMapRejects \/ DetectionRejects
  BY <1>2 DEF GetMapNoImage, GetMapRejects, DetectionRejects
<1>3. CASE FilterMetatile
  <2>1. blankPixels = SubTiles(tile)
    BY <1>3 DEF FilterMetatile, WholeMapIsBlank
  <2>. QED
    BY <1>3, <2>1, GeneratedFacts DEF FilterMetatile
<1>4. CASE StartExtractions
  BY <1>4 DEF StartExtractions
<1>5. CASE Gather
  BY <1>5 DEF Gather
<1>6. ASSUME NEW t \in extracting, ExtractionEnds(t) PROVE SplitInv'
  <2>1. CASE ShouldFilterBlankTiles /\ t \in blankPixels
    <3>1. blankTiles' = Append(blankTiles, t) /\ UNCHANGED kept
      BY <1>6, <2>1 DEF ExtractionEnds
    <3>2. Append(blankTiles, t) \in Seq(blankPixels)
      BY <2>1
    <3>3. extracting' \subseteq SubTiles(tile) /\ UNCHANGED <<input, map, stage>>
      BY <1>6 DEF ExtractionEnds
    <3>. QED
      BY <3>1, <3>2, <3>3
  <2>2. CASE ~(ShouldFilterBlankTiles /\ t \in blankPixels)
    <3>1. kept' = kept \cup {t} /\ map # NoImage /\ UNCHANGED blankTiles
      BY <1>6, <2>2 DEF ExtractionEnds
    <3>2. extracting' \subseteq SubTiles(tile) /\ UNCHANGED <<input, map, stage>>
      BY <1>6 DEF ExtractionEnds
    <3>. QED
      BY <3>1, <3>2
  <2>. QED
    BY <2>1, <2>2
<1>7. ASSUME NEW t \in extracting, ExtractionRejects(t) PROVE SplitInv'
  BY <1>7 DEF ExtractionRejects
<1>8. CASE UNCHANGED vars
  BY <1>8 DEF vars
<1>. QED
  BY <1>1, <1>2, <1>3, <1>4, <1>5, <1>6, <1>7, <1>8 DEF Next

\* So what is kept is cut from the map of the metatile, and what is reported is blank.
THEOREM Invariance == Spec => []SplitInv
<1>1. Init => SplitInv
  BY DEF Init, SplitInv
<1>. QED
  BY <1>1, SplitStep, PTL DEF Spec

\* Whichever provider drew the metatile, and however large it is, each sub-tile is
\* stored with the image of its own place.
THEOREM TilesShowTheirPlace == Spec => []CutsShowTheirPlace
<1>1. SplitInv => CutsShowTheirPlace
  BY CutFacts DEF SplitInv, CutsShowTheirPlace
<1>. QED
  BY <1>1, Invariance, PTL

\* Tiles of one zoom level with the same key are at the same place, flipped or not.
LEMMA KeysDiffer ==
  ASSUME NEW s, NEW t, NEW shouldFlipY \in BOOLEAN,
         s = [z |-> s.z, x |-> s.x, y |-> s.y, metatile |-> 1],
         t = [z |-> s.z, x |-> t.x, y |-> t.y, metatile |-> 1],
         s.z \in Nat, s.y \in Int, t.y \in Int,
         StorageKey(s, shouldFlipY) = StorageKey(t, shouldFlipY)
  PROVE  s = t
<1>1. Height(s.z) \in Int /\ t.z = s.z
  BY DEF Height, Scale, MinLevelTilesY
<1>2. CASE shouldFlipY
  <2>1. /\ Flip(s).x = s.x /\ Flip(s).y = Height(s.z) - s.y - 1
        /\ Flip(t).x = t.x /\ Flip(t).y = Height(s.z) - t.y - 1
    BY <1>1 DEF Flip, GetFlippedY
  <2>2. s.x = t.x /\ Height(s.z) - s.y - 1 = Height(s.z) - t.y - 1
    BY <1>2, <2>1 DEF StorageKey
  <2>3. s.y = t.y
    BY <1>1, <2>2
  <2>. QED
    BY <2>2, <2>3
<1>3. CASE ~shouldFlipY
  BY <1>3 DEF StorageKey
<1>. QED
  BY <1>2, <1>3

\* Deleting the sub-tiles reported blank, those out of bounds included, removes no
\* image of another tile.
THEOREM DeletionsAreSafe == Spec => []DeletesOnlyBlank
<1>1. ASSUME SplitInv, NEW b \in ToSet(blankTiles), NEW t \in InBoundsTiles(tile.z),
             StorageKey(b, ShouldFlipY) = StorageKey(t, ShouldFlipY)
      PROVE  t \in blankPixels
  <2>1. b \in blankPixels /\ b \in SubTiles(tile) /\ tile \in BaseTiles
    BY <1>1 DEF SplitInv, ToSet
  <2>2. /\ b = [z |-> b.z, x |-> b.x, y |-> b.y, metatile |-> 1]
        /\ b.z = tile.z /\ b.y \in Int
    BY <2>1, SubTileFacts
  <2>3. t = [z |-> b.z, x |-> t.x, y |-> t.y, metatile |-> 1] /\ t.y \in Int
    <3>1. Height(tile.z) \in Int
      BY <2>1, MapSplitterAssumption
         DEF MapSplitterAssumption, Height, Scale, MinLevelTilesY
    <3>. QED
      BY <2>2, <3>1 DEF InBoundsTiles
  <2>4. b.z \in Nat /\ ShouldFlipY \in BOOLEAN
    BY <2>1, <2>2, MapSplitterAssumption DEF MapSplitterAssumption
  <2>5. b = t
    BY <1>1, <2>2, <2>3, <2>4, KeysDiffer
  <2>. QED
    BY <2>1, <2>5
<1>2. SplitInv => DeletesOnlyBlank
  BY <1>1 DEF DeletesOnlyBlank
<1>. QED
  BY <1>2, Invariance, PTL

\* Jobs of different metatiles of one size never write or delete the same key, be it
\* of a sub-tile out of bounds: TileProcessor can take one metatile at a time.
THEOREM MetatilesAreApart ==
  ASSUME NEW a \in BaseTiles, NEW b \in BaseTiles,
         a.z = b.z, a.metatile = b.metatile, a.x # b.x \/ a.y # b.y,
         NEW s \in SubTiles(a), NEW t \in SubTiles(b)
  PROVE  StorageKey(s, ShouldFlipY) # StorageKey(t, ShouldFlipY)
<1>. DEFINE m == a.metatile
<1>1. /\ m \in Nat \ {0} /\ ShouldFlipY \in BOOLEAN
      /\ a.x \in Nat /\ a.y \in Nat /\ b.x \in Nat /\ b.y \in Nat /\ a.z \in Nat
  BY MapSplitterAssumption DEF MapSplitterAssumption
<1>2. PICK r \in 0 .. m - 1, c \in 0 .. m - 1 :
        /\ s = [z |-> a.z, x |-> s.x, y |-> s.y, metatile |-> 1]
        /\ s.x = m * a.x + c /\ s.y = m * a.y + r /\ s.y \in Nat
  BY <1>1, SubTileFacts
<1>3. PICK q \in 0 .. m - 1, d \in 0 .. m - 1 :
        /\ t = [z |-> a.z, x |-> t.x, y |-> t.y, metatile |-> 1]
        /\ t.x = m * b.x + d /\ t.y = m * b.y + q /\ t.y \in Nat
  BY <1>1, SubTileFacts
<1>. HIDE DEF m
<1>4. s.x \div m = a.x /\ t.x \div m = b.x /\ s.y \div m = a.y /\ t.y \div m = b.y
  <2>1. (m * a.x + c) \div m = a.x /\ (m * a.y + r) \div m = a.y
    BY <1>1, DivModUnique
  <2>2. (m * b.x + d) \div m = b.x /\ (m * b.y + q) \div m = b.y
    BY <1>1, DivModUnique
  <2>. QED
    BY <1>2, <1>3, <2>1, <2>2
<1>5. s # t
  BY <1>4
<1>6. s.z = a.z /\ s.z \in Nat
  BY <1>1, <1>2
<1>. QED
  BY <1>1, <1>2, <1>3, <1>5, <1>6, KeysDiffer

\* And together they cover the grid: each of its tiles is a sub-tile of one of them.
THEOREM MetatilesCoverGrid ==
  ASSUME NEW z \in Nat, NEW m \in Nat \ {0}, NEW t \in InBoundsTiles(z)
  PROVE  t \in SubTiles([z |-> z, x |-> t.x \div m, y |-> t.y \div m, metatile |-> m])
<1>. DEFINE base == [z |-> z, x |-> t.x \div m, y |-> t.y \div m, metatile |-> m]
<1>1. Height(z) \in Int /\ Width(z) \in Int
  BY DEF Height, Width, Scale, MinLevelTilesX, MinLevelTilesY
<1>2. /\ t = [z |-> z, x |-> t.x, y |-> t.y, metatile |-> 1]
      /\ t.x \in Nat /\ t.y \in Nat
  BY <1>1 DEF InBoundsTiles
<1>3. /\ t.x % m \in 0 .. m - 1 /\ t.x = (t.x \div m) * m + (t.x % m)
      /\ t.y % m \in 0 .. m - 1 /\ t.y = (t.y \div m) * m + (t.y % m)
  BY <1>2, DivModFacts
<1>4. t = SubTile(base, t.y % m, t.x % m)
  BY <1>2, <1>3 DEF SubTile
<1>. QED
  BY <1>3, <1>4 DEF SubTiles, Splits
----------------------------------------------------------------------------
\* While the image is split every existing sub-tile is being extracted, kept or
\* reported blank, one of the three; the others have been counted.
Existing == {t \in SubTiles(tile) : IsTileInBounds(t)}

Division ==
  /\ IsInjective(blankTiles)
  /\ extracting \cap kept = {}
  /\ (extracting \cup kept) \cap ToSet(blankTiles) = {}
  /\ extracting \cup kept \cup ToSet(blankTiles) = Existing
  /\ outOfBoundsCount = Cardinality(SubTiles(tile) \ Existing)
  /\ ShouldFilterBlankTiles => kept \cap blankPixels = {}
  /\ ~ShouldFilterBlankTiles => blankTiles = <<>>

ResultInv ==
  /\ stage \in {"requested", "called", "splitting", "returned", "rejected"}
  /\ stage \in {"requested", "called", "returned"} => extracting = {}
  /\ stage \in {"requested", "called"} =>
       kept = {} /\ blankTiles = <<>> /\ outOfBoundsCount = 0
  /\ stage # "returned" => splittedTiles = <<>>
  /\ stage = "splitting" => Division
  /\ splittedTiles \in Seq(SubTiles(tile))
  /\ outOfBoundsCount \in Nat /\ isMetatileBlank \in BOOLEAN
  /\ ResultIsPartition /\ StoredExactlyIfShown /\ StoredInOrder

LEMMA EmptyFacts == ToSet(<<>>) = {} /\ IsInjective(<<>>) /\ Len(<<>>) = 0
<1>1. DOMAIN <<>> = {}
  OBVIOUS
<1>. QED
  BY <1>1 DEF ToSet, IsInjective

LEMMA AppendFacts ==
  ASSUME NEW E, NEW s \in Seq(E), NEW e \in E, e \notin ToSet(s), IsInjective(s)
  PROVE  ToSet(Append(s, e)) = ToSet(s) \cup {e} /\ IsInjective(Append(s, e))
<1>. DEFINE t == Append(s, e)
<1>1. /\ Len(s) \in Nat /\ DOMAIN s = 1 .. Len(s) /\ DOMAIN t = 1 .. Len(s) + 1
      /\ \A i \in 1 .. Len(s) : t[i] = s[i]
      /\ t[Len(s) + 1] = e
  OBVIOUS
<1>2. \A i \in DOMAIN t : i \in 1 .. Len(s) \/ i = Len(s) + 1
  BY <1>1
<1>3. Len(s) + 1 \in DOMAIN t /\ 1 .. Len(s) \subseteq DOMAIN t
  BY <1>1
<1>. HIDE DEF t
<1>4. ToSet(t) = ToSet(s) \cup {e}
  BY <1>1, <1>2, <1>3 DEF ToSet
<1>5. \A i \in 1 .. Len(s) : t[i] # t[Len(s) + 1]
  BY <1>1 DEF ToSet
<1>6. IsInjective(t)
  BY <1>1, <1>2, <1>5 DEF IsInjective
<1>. QED
  BY <1>4, <1>6 DEF t

\* When everything existing is kept or blank, the parts add up to the metatile.
LEMMA PartsAddUp ==
  ASSUME NEW E, IsFiniteSet(E), NEW X \in SUBSET E, NEW k, NEW b,
         k \cup b = X, k \cap b = {}
  PROVE  /\ Cardinality(k) + Cardinality(b) + Cardinality(E \ X) = Cardinality(E)
         /\ Cardinality(E \ X) \in Nat
<1>1. IsFiniteSet(X) /\ IsFiniteSet(k) /\ IsFiniteSet(b)
  BY FS_Subset
<1>2. Cardinality(X) = Cardinality(k) + Cardinality(b)
  <2>1. Cardinality(k \cup b) = Cardinality(k) + Cardinality(b) - Cardinality(k \cap b)
    BY <1>1, FS_Union
  <2>2. Cardinality(k \cap b) = 0
    BY FS_EmptySet
  <2>3. Cardinality(k) \in Nat /\ Cardinality(b) \in Nat
    BY <1>1, FS_CardinalityType
  <2>. QED
    BY <2>1, <2>2, <2>3
<1>3. IsFiniteSet(E \ X) /\ Cardinality(E \ X) = Cardinality(E) - Cardinality(E \cap X)
  BY FS_Difference
<1>4. E \cap X = X
  OBVIOUS
<1>5. Cardinality(E) \in Nat /\ Cardinality(X) \in Nat /\ Cardinality(E \ X) \in Nat
  BY <1>1, <1>3, FS_CardinalityType
<1>6. Cardinality(k) \in Nat /\ Cardinality(b) \in Nat
  BY <1>1, FS_CardinalityType
<1>7. Cardinality(E \ X) = Cardinality(E) - Cardinality(X)
  BY <1>3, <1>4, Zenon
<1>. QED
  BY <1>2, <1>5, <1>6, <1>7

LEMMA GatherStep ==
  ASSUME SplitInv, ResultInv, Gather
  PROVE  ResultInv'
<1>. DEFINE s == Filter(Generated(tile), kept)
            b == blankTiles
<1>1. /\ stage = "splitting" /\ extracting = {} /\ splittedTiles' = s
      /\ stage' = "returned"
      /\ UNCHANGED <<input, map, extracting, kept, blankTiles, outOfBoundsCount,
                     isMetatileBlank>>
  BY DEF Gather
<1>2. Division /\ outOfBoundsCount \in Nat /\ isMetatileBlank \in BOOLEAN
  BY <1>1 DEF ResultInv
<1>3. /\ tile \in BaseTiles /\ kept \subseteq SubTiles(tile) /\ b \in Seq(SubTiles(tile))
      /\ blankPixels \subseteq SubTiles(tile) /\ b \in Seq(blankPixels)
  BY DEF SplitInv
<1>4. /\ s \in Seq(SubTiles(tile)) /\ ToSet(s) = kept /\ IsInjective(s)
      /\ \A i, j \in DOMAIN s : i < j => Before(s[i], s[j])
  BY <1>3, GatheredFacts
<1>5. /\ ToSet(b) \subseteq blankPixels
      /\ kept \cap ToSet(b) = {} /\ kept \cup ToSet(b) = Existing /\ IsInjective(b)
  BY <1>1, <1>2, <1>3 DEF Division, ToSet
<1>6. Len(s) + Len(b) + outOfBoundsCount = Cardinality(SubTiles(tile))
  <2>1. Len(s) = Cardinality(kept) /\ Len(b) = Cardinality(ToSet(b))
    BY <1>3, <1>4, <1>5, LenIsCardinality
  <2>2. IsFiniteSet(SubTiles(tile)) /\ Existing \in SUBSET SubTiles(tile)
    BY <1>3, SubTilesFinite DEF Existing
  <2>3. Cardinality(kept) + Cardinality(ToSet(b)) + Cardinality(SubTiles(tile) \ Existing)
          = Cardinality(SubTiles(tile))
    BY <1>5, <2>2, PartsAddUp
  <2>. QED
    BY <1>2, <2>1, <2>3 DEF Division
<1>7. kept = {t \in SubTiles(tile) : /\ IsTileInBounds(t)
                                     /\ ShouldFilterBlankTiles => t \notin blankPixels}
  <2>1. CASE ShouldFilterBlankTiles
    <3>1. kept = Existing \ blankPixels
      BY <1>2, <1>5, <2>1 DEF Division
    <3>. QED
      BY <2>1, <3>1 DEF Existing
  <2>2. CASE ~ShouldFilterBlankTiles
    <3>1. b = <<>>
      BY <1>2, <2>2 DEF Division
    <3>2. kept = Existing
      BY <1>5, <3>1, EmptyFacts
    <3>. QED
      BY <2>2, <3>2 DEF Existing
  <2>. QED
    BY <2>1, <2>2
<1>. HIDE DEF s, b
<1>8. ResultIsPartition'
  BY <1>1, <1>4, <1>5, <1>6 DEF ResultIsPartition, input, b
<1>9. StoredExactlyIfShown'
  BY <1>1, <1>4, <1>5, <1>7 DEF StoredExactlyIfShown, input, b
<1>10. StoredInOrder'
  BY <1>1, <1>4 DEF StoredInOrder, Before
<1>. QED
  BY <1>1, <1>2, <1>4, <1>8, <1>9, <1>10 DEF ResultInv, input

LEMMA FilterMetatileStep ==
  ASSUME SplitInv, ResultInv, FilterMetatile
  PROVE  ResultInv'
<1>. DEFINE g == Generated(tile)
<1>1. /\ stage = "called" /\ blankTiles' = g /\ isMetatileBlank' = TRUE
      /\ stage' = "returned" /\ ShouldFilterBlankTiles /\ blankPixels = SubTiles(tile)
      /\ UNCHANGED <<input, map, extracting, kept, splittedTiles, outOfBoundsCount>>
  BY DEF FilterMetatile, WholeMapIsBlank
<1>2. /\ extracting = {} /\ outOfBoundsCount = 0 /\ splittedTiles = <<>>
  BY <1>1 DEF ResultInv
<1>3. /\ ToSet(g) = SubTiles(tile) /\ IsInjective(g)
      /\ Len(g) = Cardinality(SubTiles(tile)) /\ Len(g) \in Nat
  BY GeneratedFacts, GeneratedRange, SubTilesFinite DEF SplitInv
<1>. HIDE DEF g
<1>4. ResultIsPartition'
  BY <1>1, <1>2, <1>3, EmptyFacts DEF ResultIsPartition, input
<1>5. StoredExactlyIfShown'
  BY <1>1, <1>2, <1>3, EmptyFacts DEF StoredExactlyIfShown, input
<1>6. StoredInOrder'
  <2>1. DOMAIN splittedTiles' = {}
    BY <1>1, <1>2
  <2>. QED
    BY <2>1 DEF StoredInOrder
<1>. QED
  BY <1>1, <1>2, <1>4, <1>5, <1>6 DEF ResultInv, input

LEMMA StartStep ==
  ASSUME SplitInv, ResultInv, StartExtractions
  PROVE  ResultInv'
<1>1. /\ stage = "called" /\ stage' = "splitting"
      /\ extracting' = Existing /\ outOfBoundsCount' = Cardinality(SubTiles(tile) \ Existing)
      /\ UNCHANGED <<input, map, kept, blankTiles, splittedTiles, isMetatileBlank>>
  BY DEF StartExtractions, Existing
<1>2. kept = {} /\ blankTiles = <<>>
  BY <1>1 DEF ResultInv
<1>3. outOfBoundsCount' \in Nat
  <2>1. IsFiniteSet(SubTiles(tile)) /\ Existing \subseteq SubTiles(tile)
    BY SubTilesFinite DEF SplitInv, Existing
  <2>2. Cardinality(SubTiles(tile) \ Existing) \in Nat
    BY <2>1, FS_Subset, FS_CardinalityType
  <2>. QED
    BY <1>1, <2>2
<1>4. Existing' = Existing
  BY <1>1 DEF input, Existing
<1>5. Division'
  BY <1>1, <1>2, <1>4, EmptyFacts DEF Division, input
<1>. QED
  BY <1>1, <1>3, <1>5
     DEF ResultInv, input, ResultIsPartition, StoredExactlyIfShown, StoredInOrder

LEMMA EndStep ==
  ASSUME SplitInv, ResultInv, NEW t \in extracting, ExtractionEnds(t)
  PROVE  ResultInv'
<1>1. /\ extracting' = extracting \ {t}
      /\ UNCHANGED <<input, map, stage, splittedTiles, outOfBoundsCount, isMetatileBlank>>
  BY DEF ExtractionEnds
<1>2. stage \in {"splitting", "rejected"}
  BY DEF ResultInv
<1>3. ASSUME stage = "splitting" PROVE Division'
  <2>1. Division /\ Existing' = Existing
    BY <1>1, <1>3 DEF ResultInv, input, Existing
  <2>2. CASE ShouldFilterBlankTiles /\ t \in blankPixels
    <3>1. blankTiles' = Append(blankTiles, t) /\ UNCHANGED kept
      BY <2>2 DEF ExtractionEnds
    <3>2. /\ blankTiles \in Seq(blankPixels) /\ t \in blankPixels
          /\ t \notin ToSet(blankTiles) /\ IsInjective(blankTiles)
      BY <2>1, <2>2 DEF SplitInv, Division
    <3>3. ToSet(blankTiles') = ToSet(blankTiles) \cup {t} /\ IsInjective(blankTiles')
      BY <3>1, <3>2, AppendFacts
    <3>. QED
      BY <1>1, <2>1, <2>2, <3>1, <3>3 DEF Division, input
  <2>3. CASE ~(ShouldFilterBlankTiles /\ t \in blankPixels)
    <3>1. kept' = kept \cup {t} /\ UNCHANGED blankTiles
      BY <2>3 DEF ExtractionEnds
    <3>. QED
      BY <1>1, <2>1, <2>3, <3>1 DEF Division, input
  <2>. QED
    BY <2>2, <2>3
<1>. QED
  BY <1>1, <1>2, <1>3
     DEF ResultInv, input, ResultIsPartition, StoredExactlyIfShown, StoredInOrder

\* An action that touches neither the extractions nor the result.
LEMMA QuietStep ==
  ASSUME ResultInv, UNCHANGED <<tile, blankPixels, kept, result>>,
         \/ extracting' = extracting /\ stage' = stage
         \/ stage = "requested" /\ stage' = "called" /\ extracting' = extracting
         \/ extracting' \subseteq extracting /\ stage # "returned" /\ stage' = "rejected"
  PROVE  ResultInv'
<1>1. Existing' = Existing
  BY DEF Existing
<1>2. Division /\ extracting' = extracting => Division'
  BY <1>1 DEF Division, result
<1>3. StoredInOrder'
  BY DEF ResultInv, StoredInOrder, result
<1>4. ResultIsPartition' /\ StoredExactlyIfShown'
  BY DEF ResultInv, ResultIsPartition, StoredExactlyIfShown, result
<1>. QED
  BY <1>2, <1>3, <1>4 DEF ResultInv, result

LEMMA ResultStep == SplitInv /\ ResultInv /\ [Next]_vars => ResultInv'
<1>. SUFFICES ASSUME SplitInv, ResultInv, [Next]_vars PROVE ResultInv'
  OBVIOUS
<1>1. CASE GetMap
  BY <1>1, QuietStep DEF GetMap, input
<1>2. CASE GetMapNoImage \/ GetMapRejects \/ DetectionRejects
  BY <1>2, QuietStep DEF GetMapNoImage, GetMapRejects, DetectionRejects, input
<1>3. CASE FilterMetatile
  BY <1>3, FilterMetatileStep
<1>4. CASE StartExtractions
  BY <1>4, StartStep
<1>5. CASE Gather
  BY <1>5, GatherStep
<1>6. ASSUME NEW t \in extracting, ExtractionEnds(t) PROVE ResultInv'
  BY <1>6, EndStep
<1>7. ASSUME NEW t \in extracting, ExtractionRejects(t) PROVE ResultInv'
  <2>1. stage # "returned"
    BY DEF ResultInv
  <2>. QED
    BY <1>7, <2>1, QuietStep DEF ExtractionRejects, input
<1>8. CASE UNCHANGED vars
  BY <1>8, QuietStep DEF vars, input
<1>. QED
  BY <1>1, <1>2, <1>3, <1>4, <1>5, <1>6, <1>7, <1>8 DEF Next

\* The existing sub-tiles stay divided until the result is gathered from them.
THEOREM ResultInvariance == Spec => []ResultInv
<1>1. Init => ResultInv
  <2>. SUFFICES ASSUME Init PROVE ResultInv
    OBVIOUS
  <2>1. /\ stage = "requested" /\ extracting = {} /\ kept = {} /\ blankTiles = <<>>
        /\ splittedTiles = <<>> /\ outOfBoundsCount = 0 /\ isMetatileBlank = FALSE
    BY DEF Init
  <2>2. StoredInOrder
    BY <2>1 DEF StoredInOrder
  <2>3. ResultIsPartition /\ StoredExactlyIfShown
    BY <2>1 DEF ResultIsPartition, StoredExactlyIfShown
  <2>4. splittedTiles \in Seq(SubTiles(tile))
    BY <2>1
  <2>. QED
    BY <2>1, <2>2, <2>3, <2>4 DEF ResultInv
<1>. QED
  BY <1>1, ResultStep, Invariance, PTL DEF Spec

\* The result has the shape splitMap declares, whatever the order of the extractions.
THEOREM TypeCorrect == Spec => []TypeOK
<1>1. SplitInv /\ ResultInv => TypeOK
  <2>. SUFFICES ASSUME SplitInv, ResultInv PROVE TypeOK
    OBVIOUS
  <2>1. blankTiles \in Seq(SubTiles(tile))
    BY DEF SplitInv
  <2>. QED
    BY <2>1 DEF SplitInv, ResultInv, TypeOK
<1>. QED
  BY <1>1, Invariance, ResultInvariance, PTL

\* Whatever the order the extractions end in, each sub-tile of a metatile of any size
\* is stored, deleted or counted out of bounds, once.
THEOREM ResultsPartition == Spec => []ResultIsPartition
<1>1. ResultInv => ResultIsPartition
  BY DEF ResultInv
<1>. QED
  BY <1>1, ResultInvariance, PTL

\* A sub-tile is stored exactly if it exists and has something to show, and one that is
\* deleted is blank, whether the metatile is filtered as a whole or tile by tile.
THEOREM ExactlyShownStored == Spec => []StoredExactlyIfShown
<1>1. ResultInv => StoredExactlyIfShown
  BY DEF ResultInv
<1>. QED
  BY <1>1, ResultInvariance, PTL

\* What is stored comes row by row, whichever extractions finish first and whichever
\* sub-tiles are left out.
THEOREM StoringKeepsOrder == Spec => []StoredInOrder
<1>1. ResultInv => StoredInOrder
  BY DEF ResultInv
<1>. QED
  BY <1>1, ResultInvariance, PTL
=============================================================================
