CONSTANTS
  a1 = a1
  a2 = a2
  a3 = a3
  p1 = p1
  p2 = p2
  Attempts = {a1, a2}
  Providers = {p1, p2}
  Height = 4
  Rows = {0, 1}
  MaxVersion = 2
  BlankRows <- MCBlankRows
  MaxTime = 2
  Cooldowns = {1}
  Forced = {a2}
  ShouldFlipY = FALSE
  ShouldFilterBlankTiles = TRUE
  DetilerEnabled = TRUE
  ProceedOnFailure = FALSE
  StorageCanFail = FALSE
  AtomicWrites = TRUE
  Overlap = FALSE
SPECIFICATION Spec
CHECK_DEADLOCK FALSE
INVARIANTS Fresh SucceededIsStored
PROPERTIES SkippedWasCurrent BlankIsNotStored
