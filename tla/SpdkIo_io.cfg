SPECIFICATION FairFew
CONSTANTS
  p1 = p1
  p2 = p2
  IO = IO
  MG = MG
  Procs <- TwoProcs
  Queues <- TwoQueues
  NR_LBAS = 2
  Values = {v1}
  Zeroed = Zeroed
  NULL = NULL
  POOL = 2
  Payloads <- Uniform
  MaxBlocks = 2
INVARIANTS
  TypeOK
  NoLateCompletion
PROPERTIES
  Implements
  TransferReturns
CHECK_DEADLOCK FALSE
