SPECIFICATION Spec
CONSTANTS
  Path = {p1, p2, p3}
  HeaderSize = 1
  Sizes = {1, 2}
  OffsetLimit = 5
  TableSize = 2
  MaxImports = 2
  MaxAttempts = 1
  Faults = {}
  TailRemoval = "always"
  Archives <- MCArchives
  Patches <- MCPatches
SYMMETRY Symmetry
INVARIANTS SuccessMeansPatched
CHECK_DEADLOCK FALSE
