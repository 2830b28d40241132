SPECIFICATION SpecKeepTail
CONSTANTS
  Path = {p1, p2, p3}
  HeaderSize = 1
  ContentSizes = {1, 2}
  TableSizes = {1, 2}
  OffsetLimit = 8
  Archives <- MCArchives
SYMMETRY Symmetry
INVARIANTS TypeOK EntriesDisjoint TableDisjoint NoDynAllocError FreeMerged SizesCoverChunks
PROPERTIES NoSpaceLost
