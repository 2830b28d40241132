SPECIFICATION Spec
CONSTANTS
  Path <- MCPath
  Definitions <- MCDefinitions
  Sources <- MCSources
  MakeFaults = {"finish"}
  Disks <- MCDisks
  DiskFaults = {}
  MaxTries = 1
  EnsureIntegrity = {TRUE}
INVARIANTS SuccessMeansComplete
CHECK_DEADLOCK FALSE
