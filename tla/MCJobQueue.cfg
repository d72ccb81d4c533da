CONSTANTS
  j1 = j1
  j2 = j2
  Jobs = {j1, j2}
  Parallelism = 2
  RetryLimit = 1
  Supervised = TRUE
  MaxFaults = 2
SPECIFICATION FairSpec
INVARIANTS TypeOK RunningJobsCounts ParallelismBound DrainedBeforeBossStops WaitersAreWoken AtMostOneDropped ActiveHasOwner CompletedWasProcessed ExclusiveUnlessExpired
PROPERTIES ImplementsWorker ThrottledResumes DrainEnds EveryJobSettles
