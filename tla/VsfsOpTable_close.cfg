SPECIFICATION SpecOwnFds
CONSTANTS
  p1 = p1
  p2 = p2
  n1 = n1
  n2 = n2
  NULL = NULL
  Procs <- OneProc
  Inodes <- OneFile
  OP_LIMIT = 3
  LIFO = FALSE
  Deaths = FALSE
  AtomicCount = TRUE
  USHORT = 65536
  MaxIndex = 3
INVARIANTS
  CloseReturns
