CONSTANTS
  BaseTiles <- MCBaseTiles
  ShouldFilterBlankTiles = TRUE
  ShouldFlipY = TRUE
SPECIFICATION Spec
CHECK_DEADLOCK FALSE
INVARIANTS TypeOK CutsShowTheirPlace ResultIsPartition StoredExactlyIfShown StoredInOrder DeletesOnlyBlank
