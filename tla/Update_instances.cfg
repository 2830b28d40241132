SPECIFICATION Spec
CONSTANTS
  Instance = {i1, i2}
  LastPatch = 4
  File <- MCFile
  Writes <- MCWrites
SYMMETRY Symmetry
INVARIANTS TypeOK NoStaleFile CacheIsSound
