---------------------------- MODULE VsfsAllocMC ----------------------------
(***************************************************************************)
(* VsfsAlloc on a small device: two direct pointers, one pointer block of  *)
(* two in level 2 and a level 3 of two by two, so that the limits are 2, 4 *)
(* and 8 and one call can cross two of them.                               *)
(***************************************************************************)
EXTENDS VsfsAlloc

\* Not one of the devices on which the scan of the bitmap ends too soon and its
\* result 0, the block of the root directory, goes into files.
ASSUME RegionAssumption == ~ScanShort

\* The same machine with no death of the process, for what only holds then.
NextAlive == Next /\ torn' = {}
SpecAlive == Init /\ [][NextAlive]_vars

\* Bounds: with the last inode in use, and with it a directory that has grown,
\* at least this many blocks stay free; the other files see a device used up.
\* Deaths inside an allocation hit one inode, again and again.
SpareBlocks == 4
MaxTorn == 1
NextTree ==
  /\ Next
  /\ ibitmap' = {} => Cardinality(dbitmap') >= SpareBlocks
  /\ Cardinality(torn') <= MaxTorn
SpecTree == Init /\ [][NextTree]_vars

=============================================================================
