CONSTANTS
  a1 = a1
  a2 = a2
  a3 = a3
  p1 = p1
  p2 = p2
  Attempts = {a1, a2, a3}
  Providers = {p1, p2}
  Height = 4
  Rows = {0}
  MaxVersion = 2
  BlankRows <- MCBlankRows
  MaxTime = 2
  Cooldowns = {}
  Forced = {}
  ShouldFlipY = TRUE
  ShouldFilterBlankTiles = FALSE
  DetilerEnabled = TRUE
  ProceedOnFailure = TRUE
  StorageCanFail = TRUE
  AtomicWrites = TRUE
  Overlap = FALSE
SPECIFICATION Spec
SYMMETRY AttemptSymmetry
CHECK_DEADLOCK FALSE
PROPERTIES SkippedWasCurrent
