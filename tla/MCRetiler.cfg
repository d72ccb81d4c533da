CONSTANTS
  j1 = j1
  j2 = j2
  p1 = p1
  p2 = p2
  Jobs = {j1, j2}
  Parallelism = 1
  RetryLimit = 0
  Supervised = TRUE
  MaxFaults = 1
  Providers = {p1}
  Height = 2
  Rows = {0}
  MaxVersion = 2
  BlankRows <- MCBlankRows
  MaxTime = 2
  Cooldowns = {}
  Forced = {}
  ShouldFlipY = TRUE
  ShouldFilterBlankTiles = TRUE
  DetilerEnabled = TRUE
  ProceedOnFailure = TRUE
  StorageCanFail = TRUE
  AtomicWrites = TRUE
SPECIFICATION Spec
SYMMETRY JobSymmetry
INVARIANTS CompletedIsFresh
PROPERTIES ImplementsTiles

