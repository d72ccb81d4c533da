CONSTANTS
  a1 = a1
  a2 = a2
  a3 = a3
  p1 = p1
  p2 = p2
  Attempts = {a1, a2, a3}
  Providers = {p1, p2}
  Height = 4
  Rows = {0, 1}
  MaxVersion = 2
  BlankRows <- MCBlankRows
  MaxTime = 0
  Cooldowns = {}
  Forced = {}
  ShouldFlipY = FALSE
  ShouldFilterBlankTiles = TRUE
  DetilerEnabled = TRUE
  ProceedOnFailure = TRUE
  StorageCanFail = TRUE
  AtomicWrites = TRUE
  Overlap = TRUE
SPECIFICATION Spec
CHECK_DEADLOCK FALSE
PROPERTIES OverlapIsHarmless
