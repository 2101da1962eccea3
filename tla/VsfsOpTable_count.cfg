SPECIFICATION SpecBoth
CONSTANTS
  p1 = p1
  p2 = p2
  n1 = n1
  n2 = n2
  NULL = NULL
  Procs <- TwoProcs
  Inodes <- TwoFiles
  OP_LIMIT = 2
  LIFO = FALSE
  Deaths = TRUE
  AtomicCount = TRUE
  USHORT = 65536
  MaxIndex = 4
INVARIANTS
  TypeOK
  CountExact
  OvershootBounded
  SoundWhenAlone
  ReturnsWhenAlone
SYMMETRY ProcSymmetry
