----------------------------- MODULE VsfsMount -----------------------------
(***************************************************************************)
(* What of the file system is on the device and what is in memory: mkfs,   *)
(* mount and unmount of src/ufs/vsfs_init.c, with the shell working on the *)
(* cache that mount makes.                                                 *)
(*                                                                         *)
(* mount copies bitmaps and inode region into shared memory, the shell     *)
(* changes them there, unmount copies them out and writes them back.  Only *)
(* the names of new files go to the device at once.  The shared memory is  *)
(* not removed by unmount; it is lost, with every process, when the power  *)
(* fails.  One command of the operator (mkfs, mount, unmount) runs at a    *)
(* time, as a process of its own beside the shell's, and each can be       *)
(* killed anywhere.  A transfer of several blocks may be cut between any   *)
(* two of them; the device is taken to do the writes it accepts.           *)
(*                                                                         *)
(* mount is given while the shell is idle; unmount may be given while a    *)
(* call is running.  Files stay within their direct pointers, and names    *)
(* within the first block of the directory (MaxEntry).                     *)
(* The counters of the superblock are left out: unmount does not write     *)
(* them back.                                                              *)
(***************************************************************************)
EXTENDS Integers

CONSTANTS
  Inodes,       \* 0 is the root directory
  Blocks,       \* data blocks with a bit in the bitmap; 0 is the directory's
  InodeBlocks,  \* which inodes share a block of the inode region
  BitmapBlocks, \* which data blocks have their bits in one block
  MaxEntry      \* entries of one directory block (16)

Root == 0

ASSUME MountAssumption ==
  /\ Root \in Inodes /\ Inodes \subseteq Nat
  /\ 0 \in Blocks /\ Blocks \subseteq Nat
  /\ InodeBlocks \subseteq SUBSET Inodes /\ UNION InodeBlocks = Inodes
  /\ BitmapBlocks \subseteq SUBSET Blocks /\ UNION BitmapBlocks = Blocks
  /\ MaxEntry \in Nat /\ MaxEntry >= 2

Single == {{n} : n \in Inodes}
Slots == 0 .. MaxEntry - 1

VARIABLES
  d_ibitmap, d_dbitmap, \* on the device: the bits that are 1 (free),
  d_iregion,            \* the blocks each inode points to,
  d_entry,              \* and the root inode's entry
  slots,     \* the inodes named in the directory block, on the device
  shm,       \* "present" or "absent"
  c_ibitmap, c_dbitmap, c_iregion, c_entry, \* the same in shared memory
  b_ibitmap, b_dbitmap, b_iregion, b_entry, \* and in the command's buffers
  command,   \* where the operator's command is
  left,      \* inodes or bitmap blocks it still has to copy or to write
  shell,     \* where the shell's call is
  ino,       \* the inode that call works on
  taken,     \* the block it has taken off the bitmap and not stored yet
  mixed,     \* history: "cache", "device", where halves of two states met;
             \* "copy" if unmount is copying one of before and after a creat
  saved      \* history: "copied" or "yes" while unmount has the cache as it is

device  == <<d_ibitmap, d_dbitmap, d_iregion, d_entry>>
cache   == <<shm, c_ibitmap, c_dbitmap, c_iregion, c_entry>>
buffers == <<b_ibitmap, b_dbitmap, b_iregion, b_entry>>
call    == <<shell, ino, taken>>
history == <<mixed, saved>>
vars == <<device, slots, cache, buffers, command, left, call, history>>

Nothing == [n \in Inodes |-> {}]
Fresh == [n \in Inodes |-> IF n = Root THEN {0} ELSE {}]

Mkfs   == {"k_ibitmap", "k_iregion", "k_dbitmap", "k_dregion"}
Mount  == {"m_ibitmap", "m_iregion", "m_dbitmap"}
Unmount == {"u_iregion", "u_dbitmap", "w_ibitmap", "w_dbitmap", "w_iregion"}

\* A device mkfs has formatted, nothing mounted.
Init ==
  /\ d_ibitmap = Inodes \ {Root} /\ d_dbitmap = Blocks \ {0}
  /\ d_iregion = Fresh /\ d_entry = 2
  /\ slots = [k \in Slots |-> Root]
  /\ shm = "absent"
  /\ c_ibitmap = {} /\ c_dbitmap = {} /\ c_iregion = Nothing /\ c_entry = 0
  /\ b_ibitmap = {} /\ b_dbitmap = {} /\ b_iregion = Nothing /\ b_entry = 0
  /\ command = "none" /\ left = {}
  /\ shell = "idle" /\ ino = Root /\ taken = {}
  /\ mixed = {} /\ saved = "no"

----------------------------------------------------------------------------
(* Copies and transfers *)

\* What a region holds after the part `blk' of it came from another.
Region(to, from, blk) == [n \in Inodes |-> IF n \in blk THEN from[n] ELSE to[n]]
Bits(to, from, blk) == (to \ blk) \union (from \intersect blk)
Entry(to, from, blk) == IF Root \in blk THEN from ELSE to

\* One part is done; the last one leads to the next stage, with its parts.
Advance(blk, next, parts) ==
  IF left = {blk} THEN command' = next /\ left' = parts
  ELSE left' = left \ {blk} /\ UNCHANGED command

ClearBuffers ==
  /\ b_ibitmap' = {} /\ b_dbitmap' = {} /\ b_iregion' = Nothing /\ b_entry' = 0

\* The command's process is gone, killed or because a transfer was refused.
CommandDies ==
  /\ command # "none"
  /\ command' = "none" /\ left' = {} /\ ClearBuffers
  /\ UNCHANGED <<device, slots, cache, call, history>>

----------------------------------------------------------------------------
(* mkfs (init_vsfs): superblock, inode bitmap, inode region, data bitmap and *)
(* directory block, in this order.                                           *)

write_superblock ==
  /\ command = "none"
  /\ command' = "k_ibitmap"
  /\ mixed' = {"cache", "device"} /\ saved' = "no"
  /\ UNCHANGED <<device, slots, cache, buffers, left, call>>

write_inode_bitmap ==
  /\ command = "k_ibitmap"
  /\ d_ibitmap' = Inodes \ {Root}
  /\ command' = "k_iregion" /\ left' = InodeBlocks
  /\ UNCHANGED <<d_dbitmap, d_iregion, d_entry, slots, cache, buffers, call,
                 history>>

\* The block with the root's inode first, the others in one transfer.
write_inode_region ==
  /\ command = "k_iregion"
  /\ \E blk \in left :
       /\ Root \in UNION left => Root \in blk
       /\ d_iregion' = Region(d_iregion, Fresh, blk)
       /\ d_entry' = Entry(d_entry, 2, blk)
       /\ Advance(blk, "k_dbitmap", BitmapBlocks)
  /\ UNCHANGED <<d_ibitmap, d_dbitmap, slots, cache, buffers, call, history>>

\* The block with the bit of data block 0 first.
write_data_bitmap ==
  /\ command = "k_dbitmap"
  /\ \E blk \in left :
       /\ 0 \in UNION left => 0 \in blk
       /\ d_dbitmap' = Bits(d_dbitmap, Blocks \ {0}, blk)
       /\ Advance(blk, "k_dregion", {})
  /\ UNCHANGED <<d_ibitmap, d_iregion, d_entry, slots, cache, buffers, call,
                 history>>

\* "." and "..", and no other name.  What was mounted before is not what is on
\* the device now.
write_data_region ==
  /\ command = "k_dregion"
  /\ slots' = [k \in Slots |-> Root]
  /\ command' = "none"
  /\ mixed' = {"cache"}
  /\ UNCHANGED <<device, cache, buffers, left, call, saved>>

----------------------------------------------------------------------------
(* mount_vsfs, make_shm_cached *)

\* The three reads: only commands write these regions, so they are one step.
mount_vsfs ==
  /\ command = "none" /\ shell = "idle"
  /\ b_ibitmap' = d_ibitmap /\ b_dbitmap' = d_dbitmap
  /\ b_iregion' = d_iregion /\ b_entry' = d_entry
  /\ command' = "m_ibitmap"
  /\ UNCHANGED <<device, slots, cache, left, call, history>>

\* The shared memory is made, all zero, unless it is there.
MountInodeBitmap ==
  /\ command = "m_ibitmap"
  /\ shm' = "present"
  /\ c_ibitmap' = b_ibitmap
  /\ command' = "m_iregion" /\ left' = Single
  /\ mixed' = mixed \union {"cache"} /\ saved' = "no"
  /\ UNCHANGED <<device, slots, c_dbitmap, c_iregion, c_entry, buffers, call>>

\* Mutant: the inodes in shared memory stay as they are.
Mut_InodesNotMounted ==
  /\ command = "m_iregion"
  /\ \E blk \in left :
       /\ c_iregion' = Region(c_iregion, c_iregion, blk)
       /\ c_entry' = Entry(c_entry, b_entry, blk)
       /\ Advance(blk, "m_dbitmap", BitmapBlocks)
  /\ UNCHANGED <<device, slots, shm, c_ibitmap, c_dbitmap, buffers, call, history>>

MountInodeRegion ==
  /\ command = "m_iregion"
  /\ \E blk \in left :
       /\ c_iregion' = Region(c_iregion, b_iregion, blk)
       /\ c_entry' = Entry(c_entry, b_entry, blk)
       /\ Advance(blk, "m_dbitmap", BitmapBlocks)
  /\ UNCHANGED <<device, slots, shm, c_ibitmap, c_dbitmap, buffers, call, history>>

MountDataBitmap ==
  /\ command = "m_dbitmap"
  /\ \E blk \in left :
       /\ c_dbitmap' = Bits(c_dbitmap, b_dbitmap, blk)
       /\ Advance(blk, "none", {})
       /\ IF left = {blk}
            THEN ClearBuffers /\ mixed' = IF "device" \in mixed THEN mixed ELSE {}
            ELSE UNCHANGED <<buffers, mixed>>
  /\ UNCHANGED <<device, slots, shm, c_ibitmap, c_iregion, c_entry, call, saved>>

----------------------------------------------------------------------------
(* unmount_vsfs, write_sb_cached_to_SSD *)

\* The copies: inode bitmap, inode region, data bitmap.
unmount_vsfs ==
  /\ command = "none" /\ shm = "present"
  /\ b_ibitmap' = c_ibitmap
  /\ command' = "u_iregion" /\ left' = Single
  /\ mixed' = mixed \ {"copy"} /\ saved' = "copied"
  /\ UNCHANGED <<device, slots, cache, b_dbitmap, b_iregion, b_entry, call>>

UnmountInodeRegion ==
  /\ command = "u_iregion"
  /\ \E blk \in left :
       /\ b_iregion' = Region(b_iregion, c_iregion, blk)
       /\ b_entry' = Entry(b_entry, c_entry, blk)
       /\ Advance(blk, "u_dbitmap", BitmapBlocks)
  /\ UNCHANGED <<device, slots, cache, b_ibitmap, b_dbitmap, call, history>>

UnmountDataBitmap ==
  /\ command = "u_dbitmap"
  /\ \E blk \in left :
       /\ b_dbitmap' = Bits(b_dbitmap, c_dbitmap, blk)
       /\ Advance(blk, "w_ibitmap", {})
  /\ UNCHANGED <<device, slots, cache, b_ibitmap, b_iregion, b_entry, call, history>>

\* Mutant: the inodes follow the inode bitmap, as their regions do.
Mut_InodesBeforeDataBitmap ==
  /\ command = "w_ibitmap"
  /\ d_ibitmap' = b_ibitmap
  /\ command' = "w_iregion" /\ left' = InodeBlocks
  /\ mixed' = IF mixed = {} THEN {} ELSE mixed \union {"device"}
  /\ UNCHANGED <<d_dbitmap, d_iregion, d_entry, slots, cache, buffers, call, saved>>

\* The writes: inode bitmap, data bitmap, inode region.
WriteInodeBitmap ==
  /\ command = "w_ibitmap"
  /\ d_ibitmap' = b_ibitmap
  /\ command' = "w_dbitmap" /\ left' = BitmapBlocks
  /\ mixed' = IF mixed = {} THEN {} ELSE mixed \union {"device"}
  /\ UNCHANGED <<d_dbitmap, d_iregion, d_entry, slots, cache, buffers, call, saved>>

\* Mutant: one block of the bitmap is written.
Mut_OneBitmapBlock ==
  /\ command = "w_dbitmap"
  /\ \E blk \in left :
       /\ d_dbitmap' = Bits(d_dbitmap, b_dbitmap, blk)
       /\ command' = "w_iregion" /\ left' = InodeBlocks
  /\ UNCHANGED <<d_ibitmap, d_iregion, d_entry, slots, cache, buffers, call,
                 history>>

WriteDataBitmap ==
  /\ command = "w_dbitmap"
  /\ \E blk \in left :
       /\ d_dbitmap' = Bits(d_dbitmap, b_dbitmap, blk)
       /\ Advance(blk, "w_iregion", InodeBlocks)
  /\ UNCHANGED <<d_ibitmap, d_iregion, d_entry, slots, cache, buffers, call,
                 history>>

\* Mutant: one block of the inode region is written.
Mut_OneInodeBlock ==
  /\ command = "w_iregion"
  /\ \E blk \in left :
       /\ d_iregion' = Region(d_iregion, b_iregion, blk)
       /\ d_entry' = Entry(d_entry, b_entry, blk)
       /\ command' = "none" /\ left' = {}
       /\ ClearBuffers /\ saved' = IF saved = "copied" THEN "yes" ELSE saved
  /\ UNCHANGED <<d_ibitmap, d_dbitmap, slots, cache, call, mixed>>

WriteInodeRegion ==
  /\ command = "w_iregion"
  /\ \E blk \in left :
       /\ d_iregion' = Region(d_iregion, b_iregion, blk)
       /\ d_entry' = Entry(d_entry, b_entry, blk)
       /\ Advance(blk, "none", {})
       /\ IF left = {blk}
            THEN ClearBuffers /\ saved' = IF saved = "copied" THEN "yes" ELSE saved
            ELSE UNCHANGED <<buffers, saved>>
  /\ UNCHANGED <<d_ibitmap, d_dbitmap, slots, cache, call, mixed>>

----------------------------------------------------------------------------
(* The shell on the cache: vsfs_creat, and writes and seeks that grow a file *)

MayStart ==
  /\ shell = "idle" /\ shm = "present" /\ c_iregion[Root] # {}
  /\ command \notin Mount

IsFirstFree(b, freemap) == b \in freemap /\ \A c \in freemap : b <= c

\* Mutant: a full directory block is not noticed.
Mut_NoRoomCheck ==
  /\ MayStart
  /\ \E n \in c_ibitmap :
       /\ IsFirstFree(n, c_ibitmap)
       /\ c_ibitmap' = c_ibitmap \ {n}
       /\ ino' = n
  /\ shell' = "name" /\ saved' = "no"
  /\ mixed' = IF command = "u_iregion" THEN mixed \union {"copy"} ELSE mixed
  /\ UNCHANGED <<device, slots, shm, c_dbitmap, c_iregion, c_entry, buffers,
                 command, left, taken>>

\* Mutant: the inode is not marked used.
Mut_InodeBitKept ==
  /\ MayStart /\ c_entry < MaxEntry
  /\ \E n \in c_ibitmap :
       /\ IsFirstFree(n, c_ibitmap)
       /\ c_ibitmap' = c_ibitmap
       /\ ino' = n
  /\ shell' = "name" /\ saved' = "no"
  /\ mixed' = IF command = "u_iregion" THEN mixed \union {"copy"} ELSE mixed
  /\ UNCHANGED <<device, slots, shm, c_dbitmap, c_iregion, c_entry, buffers,
                 command, left, taken>>

vsfs_creat ==
  /\ MayStart /\ c_entry < MaxEntry
  /\ \E n \in c_ibitmap :
       /\ IsFirstFree(n, c_ibitmap)
       /\ c_ibitmap' = c_ibitmap \ {n}
       /\ ino' = n
  /\ shell' = "name" /\ saved' = "no"
  /\ mixed' = IF command = "u_iregion" THEN mixed \union {"copy"} ELSE mixed
  /\ UNCHANGED <<device, slots, shm, c_dbitmap, c_iregion, c_entry, buffers,
                 command, left, taken>>

\* The name goes to the device, behind the entries that count.
CreatWriteName ==
  /\ shell = "name"
  /\ slots' = [slots EXCEPT ![c_entry] = ino]
  /\ shell' = "entry"
  /\ UNCHANGED <<device, cache, buffers, command, left, ino, taken, history>>

\* Now it counts, and the inode is reset.
CreatAddEntry ==
  /\ shell = "entry"
  /\ c_entry' = c_entry + 1
  /\ c_iregion' = [c_iregion EXCEPT ![ino] = {}]
  /\ shell' = "alloc" /\ saved' = "no"
  /\ UNCHANGED <<device, slots, shm, c_ibitmap, c_dbitmap, buffers, command, left,
                 ino, taken, mixed>>

\* A file is looked up by its name and grows.
Grow ==
  /\ MayStart
  /\ \E k \in 2 .. c_entry - 1 : slots[k] # Root /\ ino' = slots[k]
  /\ shell' = "alloc"
  /\ UNCHANGED <<device, slots, cache, buffers, command, left, taken, history>>

\* Mutant: the block is not marked used.
Mut_BlockBitKept ==
  /\ shell = "alloc"
  /\ \E b \in c_dbitmap :
       /\ IsFirstFree(b, c_dbitmap)
       /\ c_dbitmap' = c_dbitmap
       /\ taken' = {b}
  /\ shell' = "store" /\ saved' = "no"
  /\ UNCHANGED <<device, slots, shm, c_ibitmap, c_iregion, c_entry, buffers,
                 command, left, ino, mixed>>

\* get_free_dblock, then the pointer.
TakeBlock ==
  /\ shell = "alloc"
  /\ \E b \in c_dbitmap :
       /\ IsFirstFree(b, c_dbitmap)
       /\ c_dbitmap' = c_dbitmap \ {b}
       /\ taken' = {b}
  /\ shell' = "store" /\ saved' = "no"
  /\ UNCHANGED <<device, slots, shm, c_ibitmap, c_iregion, c_entry, buffers,
                 command, left, ino, mixed>>

StorePointer ==
  /\ shell = "store"
  /\ c_iregion' = [c_iregion EXCEPT ![ino] = @ \union taken]
  /\ taken' = {}
  /\ shell' = "alloc" /\ saved' = "no"
  /\ UNCHANGED <<device, slots, shm, c_ibitmap, c_dbitmap, c_entry, buffers,
                 command, left, ino, mixed>>

\* The call returns, or the shell dies in it.
EndCall == shell' = "idle" /\ ino' = Root /\ taken' = {}

ShellReturns ==
  /\ shell = "alloc" /\ EndCall
  /\ UNCHANGED <<device, slots, cache, buffers, command, left, history>>

ShellDies ==
  /\ shell # "idle" /\ EndCall
  /\ UNCHANGED <<device, slots, cache, buffers, command, left, history>>

----------------------------------------------------------------------------

\* The device keeps what it has, everything else is gone.
PowerLoss ==
  /\ shm' = "absent"
  /\ c_ibitmap' = {} /\ c_dbitmap' = {} /\ c_iregion' = Nothing /\ c_entry' = 0
  /\ command' = "none" /\ left' = {} /\ ClearBuffers
  /\ EndCall
  /\ mixed' = mixed \intersect {"device"} /\ saved' = "no"
  /\ UNCHANGED <<device, slots>>

Command ==
  \/ write_superblock \/ write_inode_bitmap \/ write_inode_region
  \/ write_data_bitmap \/ write_data_region
  \/ mount_vsfs \/ MountInodeBitmap \/ MountInodeRegion \/ MountDataBitmap
  \/ unmount_vsfs \/ UnmountInodeRegion \/ UnmountDataBitmap
  \/ WriteInodeBitmap \/ WriteDataBitmap \/ WriteInodeRegion
  \/ CommandDies

Shell ==
  \/ vsfs_creat \/ CreatWriteName \/ CreatAddEntry \/ Grow
  \/ TakeBlock \/ StorePointer \/ ShellReturns \/ ShellDies

Next == Command \/ Shell \/ PowerLoss

Spec == Init /\ [][Next]_vars

----------------------------------------------------------------------------
(* Properties *)

Iregion == [Inodes -> SUBSET Blocks]

\* Every variable has its type.
TypeOK ==
  /\ d_ibitmap \in SUBSET Inodes /\ d_dbitmap \in SUBSET Blocks
  /\ d_iregion \in Iregion /\ d_entry \in 0 .. MaxEntry
  /\ slots \in [Slots -> Inodes]
  /\ shm \in {"present", "absent"}
  /\ c_ibitmap \in SUBSET Inodes /\ c_dbitmap \in SUBSET Blocks
  /\ c_iregion \in Iregion /\ c_entry \in 0 .. MaxEntry
  /\ b_ibitmap \in SUBSET Inodes /\ b_dbitmap \in SUBSET Blocks
  /\ b_iregion \in Iregion /\ b_entry \in 0 .. MaxEntry
  /\ command \in {"none"} \union Mkfs \union Mount \union Unmount
  /\ left \in SUBSET (InodeBlocks \union BitmapBlocks \union Single)
  /\ shell \in {"idle", "name", "entry", "alloc", "store"}
  /\ ino \in Inodes
  /\ taken \in SUBSET Blocks
  /\ mixed \in SUBSET {"cache", "device", "copy"}
  /\ saved \in {"no", "copied", "yes"}

Covers(iregion, dbitmap) == \A n \in Inodes : iregion[n] \intersect dbitmap = {}

\* At every moment at which the power may fail or a process may be killed, also
\* while the shell works beside an unmount: no inode on the device points to a
\* block the bitmap on the device calls free, so the next mount cannot give a
\* block of a file to another.  unmount copies the inodes before the bitmap and
\* writes the bitmap before the inodes; mkfs clears the inodes first.
BitmapCoversDevice == Covers(d_iregion, d_dbitmap)

\* The same in shared memory, and between the two: what unmount writes next is
\* not what the shell gives away now.
BitmapCoversCache == Covers(c_iregion, c_dbitmap) /\ Covers(d_iregion, c_dbitmap)

\* No block belongs to two inodes, on the device or in the cache, whatever mix
\* of old and new inodes an interrupted unmount left.
OneOwner ==
  \A n, m \in Inodes : n # m =>
    /\ d_iregion[n] \intersect d_iregion[m] = {}
    /\ c_iregion[n] \intersect c_iregion[m] = {}

\* A name on the device that counts belongs to an inode the device's bitmap
\* calls used, and to no other name: the next creat does not take that inode.
\* It needs that no creat begins between unmount's copies of the inode bitmap
\* and of the directory's inode.
NamesSound ==
  "device" \notin mixed => \A k, h \in 2 .. d_entry - 1 :
    /\ slots[k] \notin d_ibitmap
    /\ k # h => slots[k] # slots[h]

\* After an unmount that nothing disturbed the device holds the cache.
UnmountSaves ==
  saved = "yes" =>
    /\ d_ibitmap = c_ibitmap /\ d_dbitmap = c_dbitmap
    /\ d_iregion = c_iregion /\ d_entry = c_entry

\* What one unmount put on the device no later mount, unmount or failure takes
\* away: only mkfs shortens a file or the directory, or a mount killed between
\* its copies.
DeviceOnlyGrows ==
  [][mixed \subseteq {"copy"} /\ mixed' \subseteq {"copy"} =>
       /\ d_entry <= d_entry'
       /\ \A n \in Inodes : d_iregion[n] \subseteq d_iregion'[n]]_vars

=============================================================================
