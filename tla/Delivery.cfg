SPECIFICATION Spec
CONSTANTS
  Path <- MCPath
  Definitions <- MCDefinitions
  Sources <- MCSources
  MakeFaults = {"new", "append", "finish", "kill"}
  Disks <- MCDisks
  DiskFaults = {"remove", "write", "crash"}
  MaxTries = 2
  EnsureIntegrity = {TRUE, FALSE}
INVARIANTS OpensMeansBuilt OkMeansPatched OthersKept BlockedByConflict DefinedOnDisk CheckedBeforeTouched
PROPERTIES EndKeepsFiles
CHECK_DEADLOCK FALSE
