CONSTANTS
  j1 = j1
  j2 = j2
  e1 = "e1"
  e2 = "e2"
  Jobs = {j1, j2}
  Parallelism = 2
  RetryLimit = 0
  Supervised = FALSE
  MaxFaults = 3
  Providers <- MCProviders
SPECIFICATION FairSpec
INVARIANTS TypeOK
PROPERTIES CleanExit NoJobAfterCleanup ShutdownEnds
