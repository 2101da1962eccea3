SPECIFICATION Spec
CONSTANTS
  BLOCK_SIZE = 4
  SECTOR = 2
  BITS = 4
  NR_IREGION = 3
  WORD = 32
  Devices <- SmallDevices
INVARIANTS
  LayoutOnDevice
