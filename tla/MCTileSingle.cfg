CONSTANTS
  a1 = a1
  a2 = a2
  a3 = a3
  p1 = p1
  p2 = p2
  Attempts = {a1, a2, a3}
  Providers = {p1}
  Height = 4
  Rows = {0, 1}
  MaxVersion = 3
  BlankRows <- MCBlankRows
  MaxTime = 2
  Cooldowns = {1}
  Forced = {}
  ShouldFlipY = TRUE
  ShouldFilterBlankTiles = TRUE
  DetilerEnabled = TRUE
  ProceedOnFailure = TRUE
  StorageCanFail = TRUE
  AtomicWrites = TRUE
  Overlap = FALSE
SPECIFICATION Spec
SYMMETRY AttemptSymmetry
CHECK_DEADLOCK FALSE
INVARIANTS TypeOK Fresh SucceededIsStored NeighboursUntouched RenderedIsStored NewerIsKept
PROPERTIES SkippedWasCurrent
