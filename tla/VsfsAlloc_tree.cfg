SPECIFICATION SpecTree
CONSTANTS
  L1_PTR = 2
  L2_PTR = 1
  PTR_PER_BLOCK = 2
  FILES_PER_BLOCK = 3
  NR_INODES = 4
  NR_DREGION = 9
  NR_DBITS = 11
  BLOCK_BITS = 8
  SIZE_WRAP = 16
  MaxNeed = 3
INVARIANTS
  TypeOK
  TreesDisjoint
  DirectPointersExclusive
  NoPointerToFree
  BlocksAccountedFor
PROPERTIES
  BlocksNeverMove
  PointerWritesHarmless
CHECK_DEADLOCK FALSE
