SPECIFICATION Spec
CONSTANTS
  Path = {p1, p2, p3}
  HeaderSize = 1
  Sizes = {1, 2}
  OffsetLimit = 5
  TableSize = 2
  MaxImports = 2
  MaxAttempts = 2
  Faults = {"read", "write", "finish", "crash"}
  TailRemoval = "alone"
  Archives <- MCArchives
  Patches <- MCPatches
SYMMETRY Symmetry
INVARIANTS UntouchedOnDisk SuccessMeansPatched FinishedOpens
CHECK_DEADLOCK FALSE
