CONSTANTS
  j1 = j1
  j2 = j2
  Jobs = {j1, j2}
  Parallelism = 2
  RetryLimit = 1
  Supervised = FALSE
  MaxFaults = 2
SPECIFICATION Spec
PROPERTIES StopCompletesRunningJobs
