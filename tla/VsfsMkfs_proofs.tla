--------------------------- MODULE VsfsMkfs_proofs ---------------------------
(***************************************************************************)
(* Proofs about VsfsMkfs, for every size of device, sector, block and      *)
(* region: the regions tile the device, and a finished mkfs has put each   *)
(* where the superblock announces it.                                      *)
(***************************************************************************)
EXTENDS VsfsMkfs, TLAPS

\* w is what the superblock announces for block b.
Announced(b, w) ==
  /\ b = 0 => w = "superblock"
  /\ b = ofs_ibitmap => w = "ibitmap"
  /\ b = ofs_iregion => w = "root_inode"
  /\ ofs_iregion < b /\ b < ofs_dbitmap => w = "free_inodes"
  /\ b = ofs_dbitmap => w = "dbitmap_head"
  /\ ofs_dbitmap < b /\ b < ofs_dregion => w = "free_bits"
  /\ b = ofs_dregion => w = "root_directory"

\* The running count stands at the region that comes next.
CountAtRegion ==
  /\ pc = "write_superblock" => lba_cnt = 0
  /\ pc = "write_inode_bitmap" => lba_cnt = ofs_ibitmap
  /\ pc = "write_inode_region" => lba_cnt = ofs_iregion
  /\ pc = "write_free_inodes" => lba_cnt = ofs_iregion + 1
  /\ pc = "write_data_bitmap" => lba_cnt = ofs_dbitmap
  /\ pc = "write_free_bits" => lba_cnt = ofs_dbitmap + 1
  /\ pc = "write_data_region" => lba_cnt = ofs_dregion
  /\ pc = "done" => lba_cnt = ofs_dregion + 1

\* All that lies below the count is as announced.
PlacedBelow == pc # "failed" => \A b \in 0 .. lba_cnt - 1 : Announced(b, disk[b])

IInv == TypeOK /\ (Reached => CountAtRegion /\ PlacedBelow)

----------------------------------------------------------------------------
(* The layout *)

\* Rounding up.
LEMMA CeilBounds ==
  ASSUME NEW a \in Nat, NEW b \in Nat \ {0}
  PROVE  /\ idiv_ceil(a, b) \in Nat
         /\ idiv_ceil(a, b) * b >= a /\ (idiv_ceil(a, b) - 1) * b < a
         /\ idiv_ceil(a, b) <= a
         /\ a > 0 => idiv_ceil(a, b) > 0
<1>1. /\ a \div b \in Nat /\ a % b \in 0 .. b - 1
      /\ a = (a \div b) * b + (a % b)
  OBVIOUS
<1>2. PICK q \in Nat, r \in 0 .. b - 1 : q = a \div b /\ r = a % b /\ a = q * b + r
  BY <1>1
<1>3. CASE r = 0
  <2>1. idiv_ceil(a, b) = q
    BY <1>2, <1>3 DEF idiv_ceil
  <2> QED BY <1>2, <1>3, <2>1
<1>4. CASE r # 0
  <2>1. idiv_ceil(a, b) = q + 1
    BY <1>2, <1>4 DEF idiv_ceil
  <2>2. (q + 1) * b = q * b + b /\ q * b \in Nat /\ q * b >= q
    BY <1>2
  <2> QED BY <1>2, <1>4, <2>1, <2>2
<1> QED BY <1>3, <1>4

\* None of the differences wraps when the layout fits.
LEMMA Layout ==
  ASSUME Fits, device \in Nat
  PROVE  /\ NR_IREGION \in Nat \ {0} /\ nr_blocks \in Nat
         /\ remain = nr_blocks - 2 - NR_IREGION /\ remain \in Nat /\ remain >= 2
         /\ nr_dbitmap_blocks \in Nat \ {0} /\ nr_dbitmap_blocks < WORD
         /\ nr_dbitmap_blocks * BITS >= remain
         /\ (nr_dbitmap_blocks - 1) * BITS < remain
         /\ nr_dbitmap_blocks < remain
<1>1. /\ NR_IREGION \in Nat \ {0} /\ BITS \in Nat /\ BITS >= 2 /\ WORD \in Nat \ {0}
  BY MkfsAssumption DEF MkfsAssumption
<1>2. nr_blocks \in Nat /\ nr_blocks < WORD /\ nr_blocks >= NR_IREGION + 4
  <2>1. \A x \in Nat : x % WORD \in 0 .. WORD - 1
    BY <1>1
  <2>2. (SECTOR * (device * BLOCK_SIZE)) \div BLOCK_SIZE \in Nat
    BY MkfsAssumption DEF MkfsAssumption
  <2>3. nr_blocks \in 0 .. WORD - 1
    BY <2>1, <2>2 DEF nr_blocks
  <2> QED BY <1>1, <2>3 DEF Fits
<1>3. remain = nr_blocks - 2 - NR_IREGION /\ remain \in Nat /\ remain >= 2 /\ remain < WORD
  <2>1. \A x \in 0 .. WORD - 1 : x % WORD = x
    BY <1>1
  <2> QED BY <1>1, <1>2, <2>1 DEF remain
<1>4. /\ nr_dbitmap_blocks \in Nat /\ nr_dbitmap_blocks > 0
      /\ nr_dbitmap_blocks * BITS >= remain /\ (nr_dbitmap_blocks - 1) * BITS < remain
  <2>1. BITS \in Nat \ {0}
    BY <1>1
  <2>2. remain > 0
    BY <1>3
  <2> QED BY <1>3, <2>1, <2>2, CeilBounds DEF nr_dbitmap_blocks
<1>5. nr_dbitmap_blocks < remain
  <2>1. (nr_dbitmap_blocks - 1) * BITS >= (nr_dbitmap_blocks - 1) * 2
    BY <1>1, <1>4
  <2> QED BY <1>1, <1>3, <1>4, <2>1
<1> QED BY <1>1, <1>2, <1>3, <1>4, <1>5

\* A step does not change the device, and so not the layout either.
LEMMA SameLayout ==
  ASSUME device' = device
  PROVE  /\ Lbas' = Lbas /\ nr_dbitmap_blocks' = nr_dbitmap_blocks
         /\ ofs_dregion' = ofs_dregion /\ ofs_dbitmap' = ofs_dbitmap
         /\ ofs_iregion' = ofs_iregion /\ ofs_ibitmap' = ofs_ibitmap
         /\ Fits' = Fits /\ Reached' = Reached
BY DEF Lbas, nr_dbitmap_blocks, nr_blocks, remain, ofs_dregion, ofs_dbitmap,
       ofs_iregion, ofs_ibitmap, Fits, Reached, idiv_ceil

----------------------------------------------------------------------------
(* The steps *)

\* Any transfer, and any refusal, keeps the types.
LEMMA StepType ==
  ASSUME TypeOK, NEW here, NEW what, NEW count \in Nat, NEW next,
         Step(here, what, count, next),
         what \in {"superblock", "ibitmap", "root_inode", "free_inodes",
                   "dbitmap_head", "free_bits", "root_directory"},
         next \in {"write_inode_bitmap", "write_inode_region", "write_free_inodes",
                   "write_data_bitmap", "write_free_bits", "write_data_region", "done"}
  PROVE  TypeOK'
<1>1. CASE Write(what, count) /\ pc' = next
  <2>1. device' = device /\ lba_cnt' \in Nat /\ Lbas' = Lbas
    <3>1. device' = device /\ lba_cnt' = lba_cnt + count /\ lba_cnt \in Nat
      BY <1>1 DEF Write, TypeOK
    <3>2. lba_cnt' \in Nat
      BY <3>1
    <3> QED BY <3>1, <3>2 DEF Lbas
  <2>2. disk' \in [Lbas -> {"old", "superblock", "ibitmap", "root_inode",
                            "free_inodes", "dbitmap_head", "free_bits",
                            "root_directory"}]
    BY <1>1 DEF Write, TypeOK
  <2> QED BY <1>1, <2>1, <2>2 DEF TypeOK
<1>2. CASE pc' = "failed" /\ UNCHANGED <<device, lba_cnt, disk>>
  BY <1>2, SameLayout DEF TypeOK
<1> QED BY <1>1, <1>2 DEF Step

\* Refused or killed: nothing is claimed of the device.
LEMMA Ended ==
  ASSUME IInv, UNCHANGED <<device, lba_cnt, disk>>, pc' = "failed"
  PROVE  IInv'
BY SameLayout DEF IInv, TypeOK, CountAtRegion, PlacedBelow

\* The lengths of the two transfers that have one are numbers of blocks.
LEMMA Counts ==
  ASSUME device \in Nat
  PROVE  NR_IREGION - 1 \in Nat /\ (nr_dbitmap_blocks - 1) % WORD \in Nat
<1>1. \A x \in Int : x % WORD \in Nat
  BY MkfsAssumption DEF MkfsAssumption
<1>2. (SECTOR * (device * BLOCK_SIZE)) \div BLOCK_SIZE \in Nat
  BY MkfsAssumption DEF MkfsAssumption
<1>3. nr_blocks \in Nat
  BY <1>1, <1>2 DEF nr_blocks
<1>4. nr_blocks - 1 - NR_IREGION - 1 \in Int
  BY <1>3, MkfsAssumption DEF MkfsAssumption
<1>5. remain \in Nat /\ BITS \in Nat \ {0}
  BY <1>1, <1>4, MkfsAssumption DEF remain, MkfsAssumption
<1>6. nr_dbitmap_blocks \in Nat
  BY <1>5, CeilBounds DEF nr_dbitmap_blocks
<1> QED BY <1>1, <1>6, MkfsAssumption DEF MkfsAssumption

\* Where the regions are, as far as the steps need it.
LEMMA Sizes ==
  ASSUME IInv, Reached
  PROVE  /\ device \in Nat /\ NR_IREGION \in Nat \ {0}
         /\ nr_dbitmap_blocks \in Nat \ {0}
         /\ (nr_dbitmap_blocks - 1) % WORD = nr_dbitmap_blocks - 1
         /\ ofs_ibitmap = 1 /\ ofs_iregion = 2 /\ ofs_dbitmap = 2 + NR_IREGION
         /\ ofs_dregion = ofs_dbitmap + nr_dbitmap_blocks /\ ofs_dregion < device
<1>1. device \in Nat
  BY MkfsAssumption DEF MkfsAssumption, IInv, TypeOK
<1>2. nr_dbitmap_blocks \in Nat \ {0} /\ nr_dbitmap_blocks < WORD
  BY <1>1, Layout DEF Reached
<1>3. \A x \in 0 .. WORD - 1 : x % WORD = x
  BY MkfsAssumption DEF MkfsAssumption
<1> QED BY <1>1, <1>2, <1>3, Layout, MkfsAssumption
        DEF Reached, MkfsAssumption, ofs_ibitmap, ofs_iregion, ofs_dbitmap, ofs_dregion

\* A transfer of what is announced for the blocks at the count keeps IInv.
LEMMA Transfer ==
  ASSUME IInv, NEW here, NEW what, NEW count \in Nat, NEW next,
         Step(here, what, count, next), here # "failed",
         what \in {"superblock", "ibitmap", "root_inode", "free_inodes",
                   "dbitmap_head", "free_bits", "root_directory"},
         next \in {"write_inode_bitmap", "write_inode_region", "write_free_inodes",
                   "write_data_bitmap", "write_free_bits", "write_data_region", "done"},
         Reached => /\ lba_cnt + count <= device
                    /\ \A b \in lba_cnt .. lba_cnt + count - 1 : Announced(b, what)
                    /\ next = "write_inode_bitmap" => lba_cnt + count = ofs_ibitmap
                    /\ next = "write_inode_region" => lba_cnt + count = ofs_iregion
                    /\ next = "write_free_inodes" => lba_cnt + count = ofs_iregion + 1
                    /\ next = "write_data_bitmap" => lba_cnt + count = ofs_dbitmap
                    /\ next = "write_free_bits" => lba_cnt + count = ofs_dbitmap + 1
                    /\ next = "write_data_region" => lba_cnt + count = ofs_dregion
                    /\ next = "done" => lba_cnt + count = ofs_dregion + 1
  PROVE  IInv'
<1>1. CASE pc' = "failed" /\ UNCHANGED <<device, lba_cnt, disk>>
  BY <1>1, Ended
<1>2. CASE Write(what, count) /\ pc' = next
  <2>1. TypeOK'
    BY StepType DEF IInv
  <2>2. device' = device /\ lba_cnt' = lba_cnt + count /\ lba_cnt \in Nat /\ device \in Nat
    BY <1>2, MkfsAssumption DEF Write, IInv, TypeOK, MkfsAssumption
  <2>3. Reached' = Reached
    BY <2>2, SameLayout
  <2>4. ASSUME Reached PROVE CountAtRegion'
    BY <1>2, <2>2, <2>4, SameLayout DEF CountAtRegion
  <2>5. ASSUME Reached PROVE PlacedBelow'
    <3>1. \A b \in 0 .. lba_cnt - 1 : Announced(b, disk[b])
      BY <2>5 DEF IInv, PlacedBelow, Step
    <3>2. \A b \in 0 .. lba_cnt + count - 1 : Announced(b, disk'[b])
      BY <1>2, <2>2, <2>5, <3>1 DEF Write, Lbas
    <3>3. \A b : Announced(b, disk[b])' = Announced(b, disk'[b])
      BY <2>2, SameLayout DEF Announced
    <3> QED BY <2>2, <3>2, <3>3 DEF PlacedBelow
  <2> QED BY <2>1, <2>3, <2>4, <2>5 DEF IInv
<1> QED BY <1>1, <1>2 DEF Step

LEMMA SuperblockStep ==
  ASSUME IInv, Step("write_superblock", "superblock", 1, "write_inode_bitmap")
  PROVE  IInv'
<1>1. 1 \in Nat
  BY Counts, MkfsAssumption DEF MkfsAssumption, IInv, TypeOK
<1>2. ASSUME Reached
      PROVE  /\ lba_cnt + (1) <= device
             /\ \A b \in lba_cnt .. lba_cnt + (1) - 1 : Announced(b, "superblock")
             /\ lba_cnt + (1) = ofs_ibitmap
  <2>1. lba_cnt = 0
    BY <1>2 DEF IInv, CountAtRegion, Step
  <2> QED BY <1>2, <2>1, Sizes DEF Announced
<1> QED BY <1>1, <1>2, Transfer

LEMMA InodeBitmapStep ==
  ASSUME IInv, Step("write_inode_bitmap", "ibitmap", 1, "write_inode_region")
  PROVE  IInv'
<1>1. 1 \in Nat
  BY Counts, MkfsAssumption DEF MkfsAssumption, IInv, TypeOK
<1>2. ASSUME Reached
      PROVE  /\ lba_cnt + (1) <= device
             /\ \A b \in lba_cnt .. lba_cnt + (1) - 1 : Announced(b, "ibitmap")
             /\ lba_cnt + (1) = ofs_iregion
  <2>1. lba_cnt = ofs_ibitmap
    BY <1>2 DEF IInv, CountAtRegion, Step
  <2> QED BY <1>2, <2>1, Sizes DEF Announced
<1> QED BY <1>1, <1>2, Transfer

LEMMA RootInodeStep ==
  ASSUME IInv, Step("write_inode_region", "root_inode", 1, "write_free_inodes")
  PROVE  IInv'
<1>1. 1 \in Nat
  BY Counts, MkfsAssumption DEF MkfsAssumption, IInv, TypeOK
<1>2. ASSUME Reached
      PROVE  /\ lba_cnt + (1) <= device
             /\ \A b \in lba_cnt .. lba_cnt + (1) - 1 : Announced(b, "root_inode")
             /\ lba_cnt + (1) = ofs_iregion + 1
  <2>1. lba_cnt = ofs_iregion
    BY <1>2 DEF IInv, CountAtRegion, Step
  <2> QED BY <1>2, <2>1, Sizes DEF Announced
<1> QED BY <1>1, <1>2, Transfer

LEMMA FreeInodesStep ==
  ASSUME IInv, Step("write_free_inodes", "free_inodes", NR_IREGION - 1, "write_data_bitmap")
  PROVE  IInv'
<1>1. NR_IREGION - 1 \in Nat
  BY Counts, MkfsAssumption DEF MkfsAssumption, IInv, TypeOK
<1>2. ASSUME Reached
      PROVE  /\ lba_cnt + (NR_IREGION - 1) <= device
             /\ \A b \in lba_cnt .. lba_cnt + (NR_IREGION - 1) - 1 : Announced(b, "free_inodes")
             /\ lba_cnt + (NR_IREGION - 1) = ofs_dbitmap
  <2>1. lba_cnt = ofs_iregion + 1
    BY <1>2 DEF IInv, CountAtRegion, Step
  <2> QED BY <1>2, <2>1, Sizes DEF Announced
<1> QED BY <1>1, <1>2, Transfer

LEMMA BitmapHeadStep ==
  ASSUME IInv, Step("write_data_bitmap", "dbitmap_head", 1, "write_free_bits")
  PROVE  IInv'
<1>1. 1 \in Nat
  BY Counts, MkfsAssumption DEF MkfsAssumption, IInv, TypeOK
<1>2. ASSUME Reached
      PROVE  /\ lba_cnt + (1) <= device
             /\ \A b \in lba_cnt .. lba_cnt + (1) - 1 : Announced(b, "dbitmap_head")
             /\ lba_cnt + (1) = ofs_dbitmap + 1
  <2>1. lba_cnt = ofs_dbitmap
    BY <1>2 DEF IInv, CountAtRegion, Step
  <2> QED BY <1>2, <2>1, Sizes DEF Announced
<1> QED BY <1>1, <1>2, Transfer

LEMMA FreeBitsStep ==
  ASSUME IInv, Step("write_free_bits", "free_bits", (nr_dbitmap_blocks - 1) % WORD, "write_data_region")
  PROVE  IInv'
<1>1. (nr_dbitmap_blocks - 1) % WORD \in Nat
  BY Counts, MkfsAssumption DEF MkfsAssumption, IInv, TypeOK
<1>2. ASSUME Reached
      PROVE  /\ lba_cnt + ((nr_dbitmap_blocks - 1) % WORD) <= device
             /\ \A b \in lba_cnt .. lba_cnt + ((nr_dbitmap_blocks - 1) % WORD) - 1 : Announced(b, "free_bits")
             /\ lba_cnt + ((nr_dbitmap_blocks - 1) % WORD) = ofs_dregion
  <2>1. lba_cnt = ofs_dbitmap + 1
    BY <1>2 DEF IInv, CountAtRegion, Step
  <2> QED BY <1>2, <2>1, Sizes DEF Announced
<1> QED BY <1>1, <1>2, Transfer

LEMMA DataRegionStep ==
  ASSUME IInv, Step("write_data_region", "root_directory", 1, "done")
  PROVE  IInv'
<1>1. 1 \in Nat
  BY Counts, MkfsAssumption DEF MkfsAssumption, IInv, TypeOK
<1>2. ASSUME Reached
      PROVE  /\ lba_cnt + (1) <= device
             /\ \A b \in lba_cnt .. lba_cnt + (1) - 1 : Announced(b, "root_directory")
             /\ lba_cnt + (1) = ofs_dregion + 1
  <2>1. lba_cnt = ofs_dregion
    BY <1>2 DEF IInv, CountAtRegion, Step
  <2> QED BY <1>2, <2>1, Sizes DEF Announced
<1> QED BY <1>1, <1>2, Transfer

THEOREM InitInv == Init => IInv
<1> SUFFICES ASSUME Init PROVE IInv
  OBVIOUS
<1>1. TypeOK
  BY DEF Init, TypeOK
<1> QED BY <1>1 DEF Init, IInv, CountAtRegion, PlacedBelow

THEOREM NextInv == IInv /\ [Next]_vars => IInv'
<1> SUFFICES ASSUME IInv, [Next]_vars PROVE IInv'
  OBVIOUS
<1>1. CASE UNCHANGED vars
  <2>1. \A b : Announced(b, disk[b])' = Announced(b, disk'[b])
    BY <1>1, SameLayout DEF Announced, vars
  <2> QED BY <1>1, <2>1, SameLayout DEF vars, IInv, TypeOK, CountAtRegion, PlacedBelow
<1>2. CASE write_superblock
  BY <1>2, SuperblockStep DEF write_superblock
<1>3. CASE write_inode_bitmap
  BY <1>3, InodeBitmapStep DEF write_inode_bitmap
<1>4. CASE write_inode_region
  BY <1>4, RootInodeStep, FreeInodesStep DEF write_inode_region
<1>5. CASE write_data_bitmap
  BY <1>5, BitmapHeadStep, FreeBitsStep DEF write_data_bitmap
<1>6. CASE write_data_region
  BY <1>6, DataRegionStep DEF write_data_region
<1>7. CASE Killed
  BY <1>7, Ended DEF Killed
<1>8. CASE init_vsfs
  <2>1. TypeOK'
    BY <1>8, SameLayout DEF init_vsfs, IInv, TypeOK
  <2> QED BY <1>8, <2>1 DEF init_vsfs, IInv, CountAtRegion, PlacedBelow
<1> QED BY <1>1, <1>2, <1>3, <1>4, <1>5, <1>6, <1>7, <1>8 DEF Next

----------------------------------------------------------------------------
(* The theorems *)

\* IInv, the running count that stays in step with the announced offsets, is
\* invariant.
THEOREM Invariance == Spec => []IInv
BY InitInv, NextInv, PTL DEF Spec

\* Every variable of mkfs keeps its type.
THEOREM TypeCorrect == Spec => []TypeOK
<1>1. IInv => TypeOK
  BY DEF IInv
<1> QED BY <1>1, Invariance, PTL

\* On every device large enough, whatever interrupted runs came before it, a
\* finished mkfs has put each region where its superblock announces it.
THEOREM MkfsPutsRegions == Spec => []FormattedAsDeclared
<1>1. IInv => FormattedAsDeclared
  <2> SUFFICES ASSUME IInv, pc = "done", Reached PROVE FormattedAsDeclared
    BY DEF FormattedAsDeclared
  <2>1. \A b \in 0 .. ofs_dregion : Announced(b, disk[b])
    <3>1. lba_cnt = ofs_dregion + 1
      BY DEF IInv, CountAtRegion
    <3> QED BY <3>1, Sizes DEF IInv, PlacedBelow
  <2>2. Holds("superblock", 0, 1) /\ Holds("ibitmap", ofs_ibitmap, 1)
    BY <2>1, Sizes DEF Holds, Announced
  <2>3. Holds("root_inode", ofs_iregion, 1)
    BY <2>1, Sizes DEF Holds, Announced
  <2>4. Holds("free_inodes", ofs_iregion + 1, NR_IREGION - 1)
    BY <2>1, Sizes DEF Holds, Announced
  <2>5. Holds("dbitmap_head", ofs_dbitmap, 1)
    BY <2>1, Sizes DEF Holds, Announced
  <2>6. Holds("free_bits", ofs_dbitmap + 1, nr_dbitmap_blocks - 1)
    BY <2>1, Sizes DEF Holds, Announced
  <2>7. Holds("root_directory", ofs_dregion, 1)
    BY <2>1, Sizes DEF Holds, Announced
  <2> QED BY <2>2, <2>3, <2>4, <2>5, <2>6, <2>7 DEF FormattedAsDeclared
<1> QED BY <1>1, Invariance, PTL

\* For every size of device the layout tiles it, and its bitmap has a bit for
\* every data block.
THEOREM LayoutTiles == Spec => []RegionsTile
<1>1. IInv => RegionsTile
  <2> SUFFICES ASSUME IInv, Fits PROVE RegionsTile
    BY DEF RegionsTile
  <2>1. device \in Nat
    BY MkfsAssumption DEF MkfsAssumption, IInv, TypeOK
  <2>2. /\ NR_IREGION \in Nat \ {0} /\ nr_blocks \in Nat
        /\ remain = nr_blocks - 2 - NR_IREGION /\ remain \in Nat /\ remain >= 2
        /\ nr_dbitmap_blocks \in Nat \ {0} /\ nr_dbitmap_blocks < remain
    BY <2>1, Layout
  <2>3. ofs_dregion + nr_dregion_blocks = nr_blocks /\ nr_dregion_blocks > 0
        /\ nr_dregion_blocks <= remain /\ nr_dregion_blocks \in Nat
    BY <2>2 DEF ofs_dregion, ofs_dbitmap, ofs_iregion, nr_dregion_blocks
  <2>4. nr_dbitmap_blocks * BITS >= remain /\ (nr_dbitmap_blocks - 1) * BITS < remain
    BY <2>1, Layout
  <2>5. nr_dbitmap_blocks * BITS \in Nat
    BY <2>2, MkfsAssumption DEF MkfsAssumption
  <2>6. nr_dbitmap_blocks * BITS >= nr_dregion_blocks
    BY <2>2, <2>3, <2>4, <2>5
  <2> QED BY <2>2, <2>3, <2>4, <2>6 DEF RegionsTile
<1> QED BY <1>1, Invariance, PTL

=============================================================================
