SPECIFICATION FairSpec
CONSTANTS
  File = {f1, f2}
  Lists <- MCLists
  Chunks = 2
  Concurrent = 2
  EnsureIntegrity = {TRUE, FALSE}
  Faults = TRUE
INVARIANTS TypeOK OkMeansWhole
PROPERTIES ShownAdvances DownloadEnds StepSpec
CHECK_DEADLOCK FALSE
