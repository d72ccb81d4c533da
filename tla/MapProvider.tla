----------------------------- MODULE MapProvider -----------------------------
(***************************************************************************)
(* The map providers: the request getMap makes for a metatile, of a WMS of *)
(* either version or of ArcGIS, and the part of the world the service then *)
(* draws.  Lengths are in sub-tiles, on the ground and in the image (of    *)
(* TILE_SIZE pixels each); the origin is the grid's north-west corner and  *)
(* latitudes grow to the north.                                            *)
(***************************************************************************)
EXTENDS TileGrid

WmsVersions == {"1.1.1", "1.3.0"}
MapProviders == WmsVersions \cup {"arcgis"}

\* Mutant: the box ends where the grid does.
BoundingBoxClamped(tile) ==
  LET below == (tile.y + 1) * tile.metatile IN
    [west |-> tile.x * tile.metatile, east |-> (tile.x + 1) * tile.metatile,
     north |-> -(tile.y * tile.metatile),
     south |-> -(IF below > Height(tile.z) THEN Height(tile.z) ELSE below)]

\* tileToBoundingBox, which getMap calls without clamping.
BoundingBox(tile) ==
  [west |-> tile.x * tile.metatile, east |-> (tile.x + 1) * tile.metatile,
   north |-> -(tile.y * tile.metatile), south |-> -((tile.y + 1) * tile.metatile)]

\* A request as the service reads it.
Request(bbox, size) == [bbox |-> bbox, width |-> size, height |-> size]

EastingFirst(b) == <<b.west, b.south, b.east, b.north>>
NorthingFirst(b) == <<b.south, b.west, b.north, b.east>>

\* Version 1.3.0 has its axes in the order of EPSG:4326.
VersionDepParams(version, bbox) ==
  IF version = "1.3.0" THEN NorthingFirst(bbox) ELSE EastingFirst(bbox)

WmsGetMap(version, tile) ==
  Request(VersionDepParams(version, BoundingBox(tile)), tile.metatile)

ArcgisGetMap(tile) == Request(EastingFirst(BoundingBox(tile)), tile.metatile)

GetMapRequest(provider, tile) ==
  IF provider = "arcgis" THEN ArcgisGetMap(tile) ELSE WmsGetMap(provider, tile)

\* The image a service answers with: it reads the box in its own axis order.
Drawn(provider, request) ==
  LET b == request.bbox IN
    [west |-> IF provider = "1.3.0" THEN b[2] ELSE b[1],
     south |-> IF provider = "1.3.0" THEN b[1] ELSE b[2],
     east |-> IF provider = "1.3.0" THEN b[4] ELSE b[3],
     north |-> IF provider = "1.3.0" THEN b[3] ELSE b[4],
     width |-> request.width, height |-> request.height]

\* What a square of one sub-tile, cut from an image, shows.
Shown(image, left, top) ==
  LET dx == (image.east - image.west) \div image.width
      dy == (image.north - image.south) \div image.height
  IN [west |-> image.west + left * dx, east |-> image.west + (left + 1) * dx,
      north |-> image.north - top * dy, south |-> image.north - (top + 1) * dy]
=============================================================================
