SPECIFICATION Spec
CONSTANTS
  Path = {p1, p2, p3}
  HeaderSize = 1
  Sizes = {1, 2}
  OffsetLimit = 5
  TableSize = 2
  MaxImports = 2
  MaxAttempts = 2
  Faults = {"read"}
  TailRemoval = "never"
  Archives <- MCArchives
  Patches <- MCPatches
SYMMETRY Symmetry
PROPERTIES StoreSpec SpaceSpec
CHECK_DEADLOCK FALSE
