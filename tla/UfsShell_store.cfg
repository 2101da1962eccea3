SPECIFICATION SpecMC
CONSTANTS
  f1 = f1
  f2 = f2
  f3 = f3
  Names <- ThreeNames
  Values = {v1, Zeroed}
  Junk = Junk
  Zeroed = Zeroed
  Unset = Unset
  NULL = NULL
  a1 = a1
  Wild = Wild
  Addrs = {a1, a2}
  BS = 2
  W = 6
  LIMIT = 7
  LEVEL1_LIMIT = 1
  LEVEL2_LIMIT = 1
  MAXFILE = 4
  DIR_LIMIT = 2
  Dots = 1
  NR_BLOCKS = 6
  NR_INODES = 4
  BlockNums = {0, 2}
  Lengths = {1, 6}
  Offsets = {0, 1, 4}
  MaxFds = 2
  MaxCalls = 5
INVARIANTS
  TypeOK
  SizeBacked
  BlockMapsCurrent
  ReadPrintsFile
PROPERTIES
  WritesStayInFile
  Implements
  CommandReturns
