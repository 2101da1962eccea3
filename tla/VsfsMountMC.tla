---------------------------- MODULE VsfsMountMC ----------------------------
(***************************************************************************)
(* VsfsMount with two files, two blocks for them, and an inode region and  *)
(* a bitmap of two blocks each, so that every transfer can be cut in two.  *)
(***************************************************************************)
EXTENDS VsfsMount

SmallInodes == 0 .. 2
SmallBlocks == 0 .. 2
TwoInodeBlocks == {{0, 1}, {2}}
TwoBitmapBlocks == {{0, 1}, {2}}

=============================================================================
