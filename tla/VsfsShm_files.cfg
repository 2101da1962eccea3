SPECIFICATION SpecMC
CONSTANTS
  f1 = f1
  f2 = f2
  f3 = f3
  Names <- ThreeNames
  Values = {v1}
  Junk = Junk
  NULL = NULL
  BS = 2
  W = 4
  LIMIT = 6
  LEVEL1 = 1
  WRAP = 2
  MAXFILE = 3
  DIR_LIMIT = 2
  Dots = 1
  NR_BLOCKS = 5
  NR_INODES = 4
  BlockNums = {0, 2}
  Lengths = {1, 4}
  Offsets = {0, 1, 3, 4}
  MaxFds = 2
  MaxCalls = 5
  MaxTools = 3
CHECK_DEADLOCK FALSE
INVARIANTS
  TypeOK
  SizeBacked
PROPERTIES
  WritesLandInPlace
  Implements
