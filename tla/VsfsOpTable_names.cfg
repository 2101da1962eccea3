SPECIFICATION Spec
CONSTANTS
  p1 = p1
  p2 = p2
  n1 = n1
  n2 = n2
  NULL = NULL
  Procs <- OneProc
  Inodes <- TwoFiles
  OP_LIMIT = 3
  LIFO = FALSE
  Deaths = FALSE
  AtomicCount = FALSE
  USHORT = 65536
  MaxIndex = 3
INVARIANTS
  DescriptorNamesItsFile
