SPECIFICATION SpecAlive
CONSTANTS
  L1_PTR = 2
  L2_PTR = 1
  PTR_PER_BLOCK = 2
  FILES_PER_BLOCK = 3
  NR_INODES = 3
  NR_DREGION = 12
  NR_DBITS = 14
  BLOCK_BITS = 8
  SIZE_WRAP = 16
  MaxNeed = 4
INVARIANTS
  BlocksInDataRegion
CHECK_DEADLOCK FALSE
