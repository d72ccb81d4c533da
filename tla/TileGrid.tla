------------------------------ MODULE TileGrid ------------------------------
(***************************************************************************)
(* The tile arithmetic of the retiler on the WorldCRS84 grid: the sub-tiles*)
(* of a metatile, which of them exist, and the key a sub-tile is stored    *)
(* under.  A tile is a record [z, x, y, metatile]; a sub-tile has metatile *)
(* 1 and a metatile of size m covers m by m sub-tiles.                     *)
(***************************************************************************)
EXTENDS Integers

MinLevelTilesX == 2
MinLevelTilesY == 1

Scale(z) == 2 ^ z
Width(z) == MinLevelTilesX * Scale(z)
Height(z) == MinLevelTilesY * Scale(z)

SubTile(base, row, column) ==
  [z |-> base.z, x |-> base.x * base.metatile + column,
   y |-> base.y * base.metatile + row, metatile |-> 1]

Splits(base) == 0 .. base.metatile - 1
SubTiles(base) == {SubTile(base, r, c) : r \in Splits(base), c \in Splits(base)}

\* validateTile for a sub-tile.
IsTileInBounds(tile) ==
  /\ tile.x >= 0 /\ tile.x < Width(tile.z)
  /\ tile.y >= 0 /\ tile.y < Height(tile.z)

\* getFlippedY, whose tiles all have metatile 1.
GetFlippedY(tile) == Height(tile.z) - tile.y - 1

Flip(tile) == [tile EXCEPT !.y = GetFlippedY(tile)]

\* The z, x and y that determineKey formats.
StorageKey(tile, shouldFlipY) ==
  LET t == IF shouldFlipY THEN Flip(tile) ELSE tile IN <<t.z, t.x, t.y>>
=============================================================================
