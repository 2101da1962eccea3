------------------------------ MODULE VsfsMkfs ------------------------------
(***************************************************************************)
(* src/ufs/vsfs_init.c, the mkfs half: write_superblock computes where the *)
(* regions of the file system are, the other writers place them one after  *)
(* the other at a running count of blocks, lba_cnt.  Nothing but this      *)
(* count ties what is written to the offsets the superblock announces.     *)
(*                                                                         *)
(* The device is what spdk.c makes of it, built with the sector size of    *)
(* the device (_MY_SSD_BLOCK_SIZE_), so that an address is a block: a      *)
(* write that was submitted returns 0 also when the device refused it      *)
(* (io_complete does not look at the status), so one beyond the last block *)
(* is lost without a word; a submission that fails ends mkfs.  mkfs may be *)
(* killed between two writes and run again.                                *)
(***************************************************************************)
EXTENDS Integers

CONSTANTS
  BLOCK_SIZE, \* VSFS_BLOCK_SIZE                      (4096)
  SECTOR,     \* what get_device_info stores in block_size (512 or 4096)
  BITS,       \* bits of one bitmap block             (4096 << 3)
  NR_IREGION, \* blocks of the inode region           (2048)
  WORD,       \* 2^32
  Devices     \* numbers of blocks a device may have

ASSUME MkfsAssumption ==
  /\ BLOCK_SIZE \in Nat \ {0} /\ SECTOR \in Nat \ {0}
  /\ BITS \in Nat \ {0, 1} /\ NR_IREGION \in Nat \ {0} /\ WORD \in Nat \ {0}
  /\ Devices \subseteq Nat \ {0}

VARIABLES
  device,  \* blocks of this device
  lba_cnt, \* blocks mkfs has written or skipped
  disk,    \* what each block of the device holds
  pc

vars == <<device, lba_cnt, disk, pc>>

----------------------------------------------------------------------------
(* write_superblock: the layout for a device of n blocks *)

idiv_ceil(a, b) == IF a % b = 0 THEN a \div b ELSE (a \div b) + 1

\* get_device_info stores the size in bytes, the caller multiplies it by the
\* size of a sector.
nr_blocks == ((SECTOR * (device * BLOCK_SIZE)) \div BLOCK_SIZE) % WORD

remain == (nr_blocks - 1 - NR_IREGION - 1) % WORD

\* Mutant: the bitmap is rounded down.
Mut_BitmapFloor == remain \div BITS

nr_dbitmap_blocks == idiv_ceil(remain, BITS)
nr_dregion_blocks == remain - nr_dbitmap_blocks

ofs_ibitmap == 1
ofs_iregion == 2
ofs_dbitmap == ofs_iregion + NR_IREGION
ofs_dregion == ofs_dbitmap + nr_dbitmap_blocks

----------------------------------------------------------------------------
(* The writers *)

Lbas == 0 .. device - 1

Init ==
  /\ device \in Devices
  /\ lba_cnt = 0
  /\ disk = [b \in Lbas |-> "old"]
  /\ pc = "write_superblock"

\* Mutant: the running count goes backwards.
Mut_CountDown(what, count) ==
  /\ disk' = [b \in Lbas |->
       IF lba_cnt <= b /\ b < lba_cnt + count THEN what ELSE disk[b]]
  /\ lba_cnt' = lba_cnt - count
  /\ UNCHANGED device

\* write_spdk of `count' blocks at lba_cnt; lba_cnt moves on either way.
Write(what, count) ==
  /\ disk' = [b \in Lbas |->
       IF lba_cnt <= b /\ b < lba_cnt + count THEN what ELSE disk[b]]
  /\ lba_cnt' = lba_cnt + count
  /\ UNCHANGED device

\* One writer's transfer: done, or refused at submission.
Step(here, what, count, next) ==
  /\ pc = here
  /\ \/ Write(what, count) /\ pc' = next
     \/ pc' = "failed" /\ UNCHANGED <<device, lba_cnt, disk>>

write_superblock == Step("write_superblock", "superblock", 1, "write_inode_bitmap")

write_inode_bitmap == Step("write_inode_bitmap", "ibitmap", 1, "write_inode_region")

\* Mutant: the second transfer has the length of the whole region.
Mut_RegionTwice ==
  \/ Step("write_inode_region", "root_inode", 1, "write_free_inodes")
  \/ Step("write_free_inodes", "free_inodes", NR_IREGION, "write_data_bitmap")

\* The block with the root directory's inode, then the others.
write_inode_region ==
  \/ Step("write_inode_region", "root_inode", 1, "write_free_inodes")
  \/ Step("write_free_inodes", "free_inodes", NR_IREGION - 1, "write_data_bitmap")

\* The block with the bit of data block 0, then the others, if any.
write_data_bitmap ==
  \/ Step("write_data_bitmap", "dbitmap_head", 1, "write_free_bits")
  \/ Step("write_free_bits", "free_bits", (nr_dbitmap_blocks - 1) % WORD,
          "write_data_region")

write_data_region == Step("write_data_region", "root_directory", 1, "done")

\* mkfs is killed.
Killed == pc \notin {"done", "failed"} /\ pc' = "failed"
          /\ UNCHANGED <<device, lba_cnt, disk>>

\* mkfs again, on whatever the last one left.
init_vsfs ==
  /\ pc \in {"done", "failed"}
  /\ pc' = "write_superblock" /\ lba_cnt' = 0
  /\ UNCHANGED <<device, disk>>

Next == write_superblock \/ write_inode_bitmap \/ write_inode_region
        \/ write_data_bitmap \/ write_data_region \/ Killed \/ init_vsfs

Spec == Init /\ [][Next]_vars

----------------------------------------------------------------------------
(* Properties *)

\* Every variable has its type.
TypeOK ==
  /\ device \in Devices /\ lba_cnt \in Nat
  /\ disk \in [Lbas -> {"old", "superblock", "ibitmap", "root_inode",
                        "free_inodes", "dbitmap_head", "free_bits",
                        "root_directory"}]
  /\ pc \in {"write_superblock", "write_inode_bitmap", "write_inode_region",
             "write_free_inodes", "write_data_bitmap", "write_free_bits",
             "write_data_region", "done", "failed"}

\* The layout has room for one data block.  (mkfs.vsfs.c:218 refuses smaller
\* devices, this mkfs does not look.)  The count may have wrapped.
Fits == nr_blocks >= NR_IREGION + 4

\* The data region starts on the device.
Reached == Fits /\ ofs_dregion < device

\* The regions tile the blocks the superblock counts, and the bitmap has a bit
\* for every block of the data region, without a block too many.
RegionsTile ==
  Fits =>
    /\ ofs_dregion + nr_dregion_blocks = nr_blocks
    /\ nr_dbitmap_blocks * BITS >= nr_dregion_blocks
    /\ (nr_dbitmap_blocks - 1) * BITS < remain
    /\ nr_dbitmap_blocks > 0 /\ nr_dregion_blocks > 0

\* When mkfs is done every region is where the superblock says mount_vsfs will
\* look for it, whatever earlier, interrupted ones left on the device.
Holds(what, first, count) == \A b \in first .. first + count - 1 : disk[b] = what

FormattedAsDeclared ==
  pc = "done" /\ Reached =>
    /\ Holds("superblock", 0, 1)
    /\ Holds("ibitmap", ofs_ibitmap, 1)
    /\ Holds("root_inode", ofs_iregion, 1)
    /\ Holds("free_inodes", ofs_iregion + 1, NR_IREGION - 1)
    /\ Holds("dbitmap_head", ofs_dbitmap, 1)
    /\ Holds("free_bits", ofs_dbitmap + 1, nr_dbitmap_blocks - 1)
    /\ Holds("root_directory", ofs_dregion, 1)

\* spdk.h:40 calls device_size the "Number of lba": with that unit the file
\* system mkfs has made ends where the device ends.
LayoutOnDevice ==
  pc = "done" /\ Fits => ofs_dregion + nr_dregion_blocks <= device

=============================================================================
