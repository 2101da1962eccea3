SPECIFICATION Spec
CONSTANTS
  Inodes <- SmallInodes
  Blocks <- SmallBlocks
  InodeBlocks <- TwoInodeBlocks
  BitmapBlocks <- TwoBitmapBlocks
  MaxEntry = 4
INVARIANTS
  TypeOK
  BitmapCoversDevice
  BitmapCoversCache
  OneOwner
  NamesSound
  UnmountSaves
PROPERTIES
  DeviceOnlyGrows
