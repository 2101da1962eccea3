----------------------------- MODULE VsfsAlloc -----------------------------
(***************************************************************************)
(* Data-block allocation of src/inc/vsfsio_spdk.h: the free bitmap of      *)
(* vsfs_bitmap.h, the three-level pointer tree that __alloc_block extends, *)
(* and its callers vsfs_creat, vsfs_write and vsfs_lseek.                  *)
(*                                                                         *)
(* The bitmap and the inode region live in the shared-memory cache and the *)
(* pointer blocks on the device, so both survive the death of the process; *)
(* the DMA buffers ptr_reg and l3_ptr_reg do not.  One step of a handler   *)
(* takes at most one block or does at most one transfer; the process may   *)
(* die between any two steps, and within a step between the bit that is    *)
(* cleared, the pointer and the count.  The counter of free blocks in the  *)
(* superblock is only printed (the p command) and left out.  The SPDK      *)
(* shell runs one process against the cache, so one process is modelled.   *)
(***************************************************************************)
EXTENDS Integers, FiniteSets

CONSTANTS
  L1_PTR,          \* direct pointers of an inode          (49 in vsfs.h)
  L2_PTR,          \* pointer blocks held in inode.l2      (5)
  PTR_PER_BLOCK,   \* VSFS_POINTER_PER_BLOCK               (1024)
  FILES_PER_BLOCK, \* VSFS_FILES_PER_BLOCK                 (16)
  NR_INODES,       \* VSFS_NR_INODES                       (32768)
  NR_DREGION,      \* sbi.nr_dregion_blocks
  NR_DBITS,        \* bits in the sbi.nr_dbitmap_blocks blocks of the bitmap
  BLOCK_BITS,      \* bits of a block of the bitmap        (32768)
  SIZE_WRAP,       \* blocks whose size in bytes is 2^32   (1048576)
  MaxNeed          \* bound: blocks one call asks for

LEVEL1_LIMIT == L1_PTR
LEVEL2_LIMIT == LEVEL1_LIMIT + L2_PTR * PTR_PER_BLOCK
LEVEL3_LIMIT == LEVEL2_LIMIT + PTR_PER_BLOCK * PTR_PER_BLOCK

ASSUME AllocAssumption ==
  /\ L1_PTR \in Nat \ {0} /\ L2_PTR \in Nat \ {0}
  /\ PTR_PER_BLOCK \in Nat \ {0}
  /\ FILES_PER_BLOCK \in Nat \ {0, 1}  \* "." and ".." are in the first block
  /\ NR_INODES \in Nat \ {0} /\ NR_DREGION \in Nat \ {0}
  /\ NR_DBITS \in Nat /\ NR_DBITS >= NR_DREGION
  /\ NR_INODES <= NR_DBITS  \* one bitmap block alone has 32768 bits
  /\ BLOCK_BITS \in Nat \ {0} /\ SIZE_WRAP \in Nat \ {0} /\ MaxNeed \in 0 .. LEVEL3_LIMIT

Inodes == 0 .. NR_INODES - 1
Blocks == 0 .. NR_DBITS - 1
PointerBlock == [0 .. PTR_PER_BLOCK - 1 -> Blocks]
Root == 0

VARIABLES
  dbitmap,        \* the bits of cached.dbitmap that are 1 (free)
  ibitmap,        \* the bits of cached.ibitmap that are 1
  entry,          \* inode_reg[0].entry, "." and ".." included
  files,          \* inodes some directory entry names
  blocks,         \* inode_reg[n].blocks
  l1, l2, l3,     \* inode_reg[n].l1[], .l2[], .l3[0]
  disk,           \* what each data block holds, read as a pointer block
  pc,             \* where the running call is
  ino,            \* the inode it works on
  op,             \* "creat", or "grow" for a write or a seek
  need,           \* need_alloc (block_num for creat)
  f_dblock,       \* vsfs_creat: the data block the directory entry goes to
  count_down,     \* blocks still to allocate
  i, j,           \* loop counters of the pointer levels
  ptr_reg,        \* DMA buffer holding one pointer block
  l3_ptr_reg,     \* DMA buffer holding the level-3 root
  torn,           \* history: inodes whose allocation died half way
  abandoned,      \* history: level-3 roots that were overwritten
  misplaced       \* history: inodes whose entry went to the wrong block

dir      == <<ibitmap, entry, files>>
pointers == <<l1, l2, l3>>
buffers  == <<ptr_reg, l3_ptr_reg>>
call     == <<ino, op, need, f_dblock>>
history  == <<torn, abandoned, misplaced>>
vars == <<dbitmap, dir, blocks, pointers, disk, pc, call, count_down, i, j,
          buffers, history>>

Unwritten == [k \in 0 .. PTR_PER_BLOCK - 1 |-> 0]

----------------------------------------------------------------------------
(* vsfs_bitmap.h *)

\* The bit get_first_free_bit returns: the least significant one that is 1.
IsFirstFree(b, freemap) == b \in freemap /\ \A c \in freemap : b <= c

\* get_free_dblock gives the scan the number of data blocks where the length of
\* the bitmap is due, in bytes and 32 bits.  It ends behind the bitmap, unless
\* the number of bytes wraps to a small one.
ScanBits == BLOCK_BITS * (NR_DREGION % SIZE_WRAP)
ScanShort == ScanBits <= NR_DBITS
Scanned == {b \in dbitmap : b < ScanBits}

\* The free bit it finds, or 0, which no caller looks at.  With no free bit it
\* runs off the mapping unless it is short: there is no result, and the process
\* dies (Crash).
NextFree ==
  {b \in Scanned : IsFirstFree(b, Scanned)}
  \union {b \in {0} : ScanShort /\ Scanned = {}}

\* Mutant: the bit is read but not cleared.
Mut_BitNotCleared(b) == b \in NextFree /\ dbitmap' = dbitmap

\* get_free_dblock: the bit is cleared.
get_free_dblock(b) == b \in NextFree /\ dbitmap' = dbitmap \ {b}

----------------------------------------------------------------------------
(* init_vsfs followed by mount_vsfs, on a device that reads as zeros.  Block 0 *)
(* is the root directory's; its contents are data and stay unmodelled.         *)

Init ==
  /\ dbitmap = 1 .. NR_DBITS - 1
  /\ ibitmap = Inodes \ {Root}
  /\ entry = 2
  /\ files = {}
  /\ blocks = [n \in Inodes |-> IF n = Root THEN 1 ELSE 0]
  /\ l1 = [n \in Inodes |-> [k \in 0 .. L1_PTR - 1 |-> 0]]
  /\ l2 = [n \in Inodes |-> [k \in 0 .. L2_PTR - 1 |-> 0]]
  /\ l3 = [n \in Inodes |-> 0]
  /\ disk = [b \in Blocks |-> Unwritten]
  /\ pc = "idle" /\ ino = Root /\ op = "grow" /\ need = 0 /\ f_dblock = 0
  /\ count_down = 0 /\ i = 0 /\ j = 0
  /\ ptr_reg = Unwritten /\ l3_ptr_reg = Unwritten
  /\ torn = {} /\ abandoned = {} /\ misplaced = {}

----------------------------------------------------------------------------
(* vsfs_creat around its call of __alloc_block *)

DirFull == entry >= blocks[Root] * FILES_PER_BLOCK

\* get_free_inode, and the block of the directory the new entry belongs to, as
\* an index.  When the 49 directory blocks are full the code gives the
\* inode back with put_inode and fails, which changes nothing.  The directory
\* holds 784 entries and there are 32768 inodes, so they never run out: only
\* a death before the entry is written leaks one.
CreatTakeInode(k) ==
  /\ pc = "idle"
  /\ ~ (DirFull /\ blocks[Root] >= LEVEL1_LIMIT)
  /\ \E f \in ibitmap :
       /\ IsFirstFree(f, ibitmap)
       /\ ibitmap' = ibitmap \ {f}
       /\ ino' = f
  /\ f_dblock' = entry \div FILES_PER_BLOCK
  /\ op' = "creat" /\ need' = k /\ pc' = "dir"
  /\ UNCHANGED <<dbitmap, entry, files, blocks, pointers, disk, count_down,
                 i, j, buffers, history>>

\* adding_level1_block: the root directory grows by one block, and f_dblock is
\* now the number of that block and no longer an index.
CreatGrowDir ==
  /\ pc = "dir" /\ DirFull
  /\ \E b \in NextFree :
       /\ get_free_dblock(b)
       /\ l1' = [l1 EXCEPT ![Root][blocks[Root]] = b]
       /\ f_dblock' = b
  /\ blocks' = [blocks EXCEPT ![Root] = @ + 1]
  /\ UNCHANGED <<dir, l2, l3, disk, pc, ino, op, need, count_down, i, j,
                 buffers, history>>

\* Where __alloc_block starts for an inode that already has that many blocks.
Level(count) ==
  IF count >= LEVEL2_LIMIT THEN "level3"
  ELSE IF count >= LEVEL1_LIMIT THEN "level2" ELSE "level1"

\* The block a lookup reads this entry from (vsfs_open, vsfs_creat's own search
\* for a duplicate): the index taken through the direct pointers of the root.
RightPlace == f_dblock = l1[Root][entry \div FILES_PER_BLOCK]

\* d_entry, as the position of the first pointer it covers in a pointer block.
Slot == (entry % FILES_PER_BLOCK) * (PTR_PER_BLOCK \div FILES_PER_BLOCK)

\* The entry is written into slot d_entry of data block f_dblock, which is not
\* always that block.  Elsewhere it replaces, read as pointers, the first one of
\* the slot by the inode number; the bytes of the name that follow it are left
\* out.  What the blocks of the directory hold is data and stays unmodelled.
WriteEntry ==
  /\ disk' = IF RightPlace THEN disk ELSE [disk EXCEPT ![f_dblock][Slot] = ino]
  /\ misplaced' = IF RightPlace THEN misplaced ELSE misplaced \union {ino}

\* Mutant: block_num is stored before the blocks are there.
Mut_CountStoredFirst ==
  /\ pc = "dir" /\ ~ DirFull
  /\ entry' = entry + 1
  /\ files' = files \union {ino}
  /\ WriteEntry
  /\ blocks' = [blocks EXCEPT ![ino] = need]
  /\ count_down' = need
  /\ pc' = Level(0)
  /\ UNCHANGED <<dbitmap, ibitmap, pointers, call, i, j, buffers, torn, abandoned>>

\* adding_entry: the directory entry is written and the new inode reset.
CreatAddEntry ==
  /\ pc = "dir" /\ ~ DirFull
  /\ entry' = entry + 1
  /\ files' = files \union {ino}
  /\ WriteEntry
  /\ blocks' = [blocks EXCEPT ![ino] = 0]
  /\ count_down' = need
  /\ pc' = Level(0)
  /\ UNCHANGED <<dbitmap, ibitmap, pointers, call, i, j, buffers, torn, abandoned>>

\* vsfs_write and vsfs_lseek extend an open file.  k = 0 is a write that ends
\* exactly at the blocks the file has (the test is blocks <= needed).
Grow(n, k) ==
  /\ pc = "idle"
  /\ blocks[n] + k <= LEVEL3_LIMIT
  /\ ino' = n /\ op' = "grow" /\ need' = k /\ f_dblock' = 0 /\ count_down' = k
  /\ pc' = Level(blocks[n])
  /\ UNCHANGED <<dbitmap, dir, blocks, pointers, disk, i, j, buffers, history>>

----------------------------------------------------------------------------
(* __alloc_block *)

\* One pass of the level-1 loop.
Level1Take ==
  /\ pc = "level1" /\ count_down > 0 /\ blocks[ino] < LEVEL1_LIMIT
  /\ \E b \in NextFree :
       /\ get_free_dblock(b)
       /\ l1' = [l1 EXCEPT ![ino][blocks[ino]] = b]
  /\ blocks' = [blocks EXCEPT ![ino] = @ + 1]
  /\ count_down' = count_down - 1
  /\ UNCHANGED <<dir, l2, l3, disk, pc, call, i, j, buffers, history>>

Level1Exit ==
  /\ pc = "level1" /\ (count_down = 0 \/ blocks[ino] >= LEVEL1_LIMIT)
  /\ pc' = IF count_down = 0 THEN "fini" ELSE "level2"
  /\ UNCHANGED <<dbitmap, dir, blocks, pointers, disk, call, count_down, i, j,
                 buffers, history>>

\* The position of the next free pointer below a level whose first block is
\* number `first' of the file.
StartL2(first) == (blocks[ino] - first) \div PTR_PER_BLOCK
StartL1(first) == (blocks[ino] - first) % PTR_PER_BLOCK

Level2Start ==
  /\ pc = "level2"
  /\ i' = StartL2(LEVEL1_LIMIT) /\ j' = StartL1(LEVEL1_LIMIT)
  /\ pc' = "loop2"
  /\ UNCHANGED <<dbitmap, dir, blocks, pointers, disk, call, count_down,
                 buffers, history>>

\* Mutant: a pointer block is added whenever level 2 is entered.
Mut_NewBlockEachTime ==
  /\ pc = "loop2" /\ count_down > 0 /\ i < L2_PTR
  /\ \E b \in NextFree :
       /\ get_free_dblock(b)
       /\ l2' = [l2 EXCEPT ![ino][i] = b]
       /\ ptr_reg' = disk[b]
  /\ pc' = "fill2"
  /\ UNCHANGED <<dir, blocks, l1, l3, disk, call, count_down, i, j,
                 l3_ptr_reg, history>>

\* A pointer block is added when the next pointer is its first; the block is
\* then read into ptr_reg.
Level2OpenNew ==
  /\ pc = "loop2" /\ count_down > 0 /\ i < L2_PTR /\ j = 0
  /\ \E b \in NextFree :
       /\ get_free_dblock(b)
       /\ l2' = [l2 EXCEPT ![ino][i] = b]
       /\ ptr_reg' = disk[b]
  /\ pc' = "fill2"
  /\ UNCHANGED <<dir, blocks, l1, l3, disk, call, count_down, i, j,
                 l3_ptr_reg, history>>

Level2OpenOld ==
  /\ pc = "loop2" /\ count_down > 0 /\ i < L2_PTR /\ j # 0
  /\ ptr_reg' = disk[l2[ino][i]]
  /\ pc' = "fill2"
  /\ UNCHANGED <<dbitmap, dir, blocks, pointers, disk, call, count_down, i, j,
                 l3_ptr_reg, history>>

\* Mutant: the loop does not end with the pointer block.
Mut_RowNotEnded ==
  /\ pc \in {"fill2", "fill3"} /\ count_down > 0
  /\ \E b \in NextFree :
       /\ get_free_dblock(b)
       /\ ptr_reg' = [ptr_reg EXCEPT ![j] = b]
  /\ blocks' = [blocks EXCEPT ![ino] = @ + 1]
  /\ count_down' = count_down - 1
  /\ j' = j + 1
  /\ UNCHANGED <<dir, pointers, disk, pc, call, i, l3_ptr_reg, history>>

\* One pass of the innermost loop, of level 2 or 3: the pointer goes to the
\* buffer, the count to the inode.
FillPointer ==
  /\ pc \in {"fill2", "fill3"} /\ count_down > 0 /\ j < PTR_PER_BLOCK
  /\ \E b \in NextFree :
       /\ get_free_dblock(b)
       /\ ptr_reg' = [ptr_reg EXCEPT ![j] = b]
  /\ blocks' = [blocks EXCEPT ![ino] = @ + 1]
  /\ count_down' = count_down - 1
  /\ j' = j + 1
  /\ UNCHANGED <<dir, pointers, disk, pc, call, i, l3_ptr_reg, history>>

BufferDone == count_down = 0 \/ j >= PTR_PER_BLOCK

\* Mutant: the pointer block is not written back.
Mut_Level2NotWritten ==
  /\ pc = "fill2" /\ BufferDone
  /\ disk' = disk
  /\ i' = i + 1 /\ j' = 0 /\ pc' = "loop2"
  /\ UNCHANGED <<dbitmap, dir, blocks, pointers, call, count_down, buffers,
                 history>>

Level2Flush ==
  /\ pc = "fill2" /\ BufferDone
  /\ disk' = [disk EXCEPT ![l2[ino][i]] = ptr_reg]
  /\ i' = i + 1 /\ j' = 0 /\ pc' = "loop2"
  /\ UNCHANGED <<dbitmap, dir, blocks, pointers, call, count_down, buffers,
                 history>>

Level2Exit ==
  /\ pc = "loop2" /\ (count_down = 0 \/ i >= L2_PTR)
  /\ pc' = IF count_down = 0 THEN "fini" ELSE "level3"
  /\ UNCHANGED <<dbitmap, dir, blocks, pointers, disk, call, count_down, i, j,
                 buffers, history>>

\* Mutant: level 3 takes a new root on every call.
Mut_AlwaysNewRoot ==
  /\ pc = "level3"
  /\ \E b \in NextFree :
       /\ get_free_dblock(b)
       /\ l3' = [l3 EXCEPT ![ino] = b]
       /\ l3_ptr_reg' = disk[b]
  /\ abandoned' = abandoned \union ({l3[ino]} \ {0})
  /\ i' = 0 /\ j' = 0 /\ pc' = "loop3"
  /\ UNCHANGED <<dir, blocks, l1, l2, disk, call, count_down, ptr_reg, torn,
                 misplaced>>

\* The level-3 root is allocated whenever no level-3 block exists yet, and
\* read into l3_ptr_reg.
Level3NewRoot ==
  /\ pc = "level3" /\ blocks[ino] = LEVEL2_LIMIT
  /\ \E b \in NextFree :
       /\ get_free_dblock(b)
       /\ l3' = [l3 EXCEPT ![ino] = b]
       /\ l3_ptr_reg' = disk[b]
  /\ abandoned' = abandoned \union ({l3[ino]} \ {0})
  /\ i' = 0 /\ j' = 0 /\ pc' = "loop3"
  /\ UNCHANGED <<dir, blocks, l1, l2, disk, call, count_down, ptr_reg, torn,
                 misplaced>>

Level3OldRoot ==
  /\ pc = "level3" /\ blocks[ino] # LEVEL2_LIMIT
  /\ l3_ptr_reg' = disk[l3[ino]]
  /\ i' = StartL2(LEVEL2_LIMIT) /\ j' = StartL1(LEVEL2_LIMIT)
  /\ pc' = "loop3"
  /\ UNCHANGED <<dbitmap, dir, blocks, pointers, disk, call, count_down,
                 ptr_reg, history>>

Level3OpenNew ==
  /\ pc = "loop3" /\ count_down > 0 /\ i < PTR_PER_BLOCK /\ j = 0
  /\ \E b \in NextFree :
       /\ get_free_dblock(b)
       /\ l3_ptr_reg' = [l3_ptr_reg EXCEPT ![i] = b]
       /\ ptr_reg' = disk[b]
  /\ pc' = "fill3"
  /\ UNCHANGED <<dir, blocks, pointers, disk, call, count_down, i, j, history>>

Level3OpenOld ==
  /\ pc = "loop3" /\ count_down > 0 /\ i < PTR_PER_BLOCK /\ j # 0
  /\ ptr_reg' = disk[l3_ptr_reg[i]]
  /\ pc' = "fill3"
  /\ UNCHANGED <<dbitmap, dir, blocks, pointers, disk, call, count_down, i, j,
                 l3_ptr_reg, history>>

\* Mutant: the row counter moves on before the write.
Mut_IncrementedFirst ==
  /\ pc = "fill3" /\ BufferDone
  /\ disk' = [disk EXCEPT ![l3_ptr_reg[(i + 1) % PTR_PER_BLOCK]] = ptr_reg]
  /\ i' = i + 1 /\ j' = 0 /\ pc' = "loop3"
  /\ UNCHANGED <<dbitmap, dir, blocks, pointers, call, count_down, buffers,
                 history>>

Level3Flush ==
  /\ pc = "fill3" /\ BufferDone
  /\ disk' = [disk EXCEPT ![l3_ptr_reg[i]] = ptr_reg]
  /\ i' = i + 1 /\ j' = 0 /\ pc' = "loop3"
  /\ UNCHANGED <<dbitmap, dir, blocks, pointers, call, count_down, buffers,
                 history>>

\* The level-3 root is written back only here, after every block below it.
Level3Exit ==
  /\ pc = "loop3" /\ (count_down = 0 \/ i >= PTR_PER_BLOCK)
  /\ disk' = [disk EXCEPT ![l3[ino]] = l3_ptr_reg]
  /\ pc' = "fini"
  /\ UNCHANGED <<dbitmap, dir, blocks, pointers, call, count_down, i, j,
                 buffers, history>>

\* The call is over.  What its locals and the DMA buffers hold is never read
\* again: every call fills a buffer before it uses it.
EndCall ==
  /\ pc' = "idle" /\ ino' = Root /\ op' = "grow" /\ need' = 0 /\ f_dblock' = 0
  /\ count_down' = 0 /\ i' = 0 /\ j' = 0
  /\ ptr_reg' = Unwritten /\ l3_ptr_reg' = Unwritten

\* Back in the caller: vsfs_creat stores block_num, the others read the inode.
Return ==
  /\ pc = "fini"
  /\ blocks' = IF op = "creat" THEN [blocks EXCEPT ![ino] = need] ELSE blocks
  /\ EndCall
  /\ UNCHANGED <<dbitmap, dir, pointers, disk, history>>

\* The process dies (killed, or by the scan of an exhausted bitmap): shared
\* memory and device stay, the buffers and the call are gone.
Crash ==
  /\ pc # "idle"
  /\ torn' = IF pc = "dir" THEN torn ELSE torn \union {ino}
  /\ EndCall
  /\ UNCHANGED <<dbitmap, dir, blocks, pointers, disk, abandoned, misplaced>>

\* The steps that take a block, and the inode whose level 1 it may go to.
Taking ==
  \/ pc = "dir" /\ DirFull
  \/ /\ count_down > 0
     /\ \/ pc = "level1" /\ blocks[ino] < LEVEL1_LIMIT
        \/ pc = "loop2" /\ i < L2_PTR /\ j = 0
        \/ pc = "loop3" /\ i < PTR_PER_BLOCK /\ j = 0
        \/ pc \in {"fill2", "fill3"} /\ j < PTR_PER_BLOCK
  \/ pc = "level3" /\ blocks[ino] = LEVEL2_LIMIT
Taker == IF pc = "dir" THEN Root ELSE ino

\* The process dies with the bit cleared, before the pointer is stored or, in
\* level 1, before it is counted.
CrashTaking ==
  /\ Taking
  /\ \E b \in NextFree :
       /\ get_free_dblock(b)
       /\ \/ l1' = l1
          \/ /\ pc \in {"dir", "level1"}
             /\ l1' = [l1 EXCEPT ![Taker][blocks[Taker]] = b]
  /\ torn' = torn \union {ino}
  /\ EndCall
  /\ UNCHANGED <<dir, blocks, l2, l3, disk, abandoned, misplaced>>

\* The process dies with the entry written and not counted.
CrashEntry ==
  /\ pc = "dir" /\ ~ DirFull
  /\ WriteEntry
  /\ EndCall
  /\ UNCHANGED <<dbitmap, dir, blocks, pointers, torn, abandoned>>

Level1 == Level1Take \/ Level1Exit
Level2 == Level2Start \/ Level2OpenNew \/ Level2OpenOld \/ Level2Flush \/ Level2Exit
Level3 == Level3NewRoot \/ Level3OldRoot \/ Level3OpenNew \/ Level3OpenOld
          \/ Level3Flush \/ Level3Exit

Next ==
  \/ \E k \in 0 .. MaxNeed : CreatTakeInode(k)
  \/ CreatGrowDir
  \/ CreatAddEntry
  \/ \E n \in files, k \in 0 .. MaxNeed : Grow(n, k)
  \/ Level1 \/ Level2 \/ Level3
  \/ FillPointer
  \/ Return
  \/ Crash \/ CrashTaking \/ CrashEntry

Spec == Init /\ [][Next]_vars

----------------------------------------------------------------------------
(* What an inode reaches, as vsfs_get_inode_info reads it back *)

\* Block k of the file: the entry block[k] of the flat map.
BlockOf(n, k) ==
  IF k < LEVEL1_LIMIT THEN l1[n][k]
  ELSE LET first == IF k < LEVEL2_LIMIT THEN LEVEL1_LIMIT ELSE LEVEL2_LIMIT
           row   == (k - first) \div PTR_PER_BLOCK
           leaf  == IF k < LEVEL2_LIMIT THEN l2[n][row] ELSE disk[l3[n]][row]
       IN  disk[leaf][(k - first) % PTR_PER_BLOCK]

\* The direct pointers the count of the inode covers.
DirectPointers(n) == {k \in 0 .. L1_PTR - 1 : k < blocks[n]}

DataBlocks(n) == {BlockOf(n, k) : k \in 0 .. blocks[n] - 1}

\* Rows of a pointer level that a file of that many blocks uses.
Rows(count, first, limit) ==
  {r \in 0 .. limit - 1 : first + r * PTR_PER_BLOCK < count}

Level2Rows(n) == Rows(blocks[n], LEVEL1_LIMIT, L2_PTR)
Level3Rows(n) == Rows(blocks[n], LEVEL2_LIMIT, PTR_PER_BLOCK)

IndexBlocks(n) ==
  {l2[n][r] : r \in Level2Rows(n)}
  \union {disk[l3[n]][r] : r \in Level3Rows(n)}
  \union (IF Level3Rows(n) = {} THEN {} ELSE {l3[n]})

Owned(n) == DataBlocks(n) \union IndexBlocks(n)

\* How many blocks a file of its length must own if none is used twice.
Footprint(n) ==
  blocks[n] + Cardinality(Level2Rows(n)) + Cardinality(Level3Rows(n))
  + (IF Level3Rows(n) = {} THEN 0 ELSE 1)

\* Inodes no call is working on and no death interrupted.
Settled == {n \in Inodes \ torn : pc \in {"idle", "dir"} \/ n # ino}

----------------------------------------------------------------------------
(* Properties *)

\* Every variable has its type.
TypeOK ==
  /\ dbitmap \in SUBSET Blocks
  /\ ibitmap \in SUBSET Inodes
  /\ entry \in Nat
  /\ files \in SUBSET Inodes
  /\ blocks \in [Inodes -> 0 .. LEVEL3_LIMIT]
  /\ l1 \in [Inodes -> [0 .. L1_PTR - 1 -> Blocks]]
  /\ l2 \in [Inodes -> [0 .. L2_PTR - 1 -> Blocks]]
  /\ l3 \in [Inodes -> Blocks]
  /\ disk \in [Blocks -> PointerBlock]
  /\ pc \in {"idle", "dir", "level1", "level2", "loop2", "fill2", "level3",
             "loop3", "fill3", "fini"}
  /\ ino \in Inodes
  /\ op \in {"creat", "grow"}
  /\ need \in 0 .. MaxNeed
  /\ f_dblock \in Nat
  /\ count_down \in 0 .. MaxNeed
  /\ i \in 0 .. L2_PTR + PTR_PER_BLOCK
  /\ j \in 0 .. PTR_PER_BLOCK
  /\ ptr_reg \in PointerBlock
  /\ l3_ptr_reg \in PointerBlock
  /\ torn \in SUBSET Inodes
  /\ abandoned \in SUBSET Blocks
  /\ misplaced \in SUBSET Inodes

\* No block serves twice: the blocks of a settled file, pointer blocks
\* included, are all different and no other settled file has one of them
\* (vsfs_get_inode_info would otherwise give two files the same block).  A
\* directory entry written into a pointer block ends that.
TreesDisjoint ==
  misplaced = {} => \A n \in Settled :
    /\ Cardinality(Owned(n)) = Footprint(n)
    /\ \A m \in Settled : n < m => Owned(n) \intersect Owned(m) = {}

\* A pointer stored in an inode, in a pointer block on the device or in a DMA
\* buffer never names a block the bitmap calls free, wherever the process
\* died: get_free_dblock clears the bit before the pointer is stored, and
\* nothing puts it back.  For pointer blocks and buffers this ends when a
\* directory entry is written over one.
NoPointerToFree ==
  /\ \A n \in Inodes : /\ \A k \in 0 .. L1_PTR - 1 : l1[n][k] \notin dbitmap
                       /\ \A k \in 0 .. L2_PTR - 1 : l2[n][k] \notin dbitmap
                       /\ l3[n] \notin dbitmap
  /\ misplaced = {} =>
       /\ \A b \in Blocks, k \in 0 .. PTR_PER_BLOCK - 1 : disk[b][k] \notin dbitmap
       /\ \A k \in 0 .. PTR_PER_BLOCK - 1 : /\ ptr_reg[k] \notin dbitmap
                                            /\ l3_ptr_reg[k] \notin dbitmap

\* The direct pointers below `blocks' are good in every state, also in a file
\* whose allocation died half way and while a call is running: the pointer is
\* stored before the count goes up.  (Below level 1 this is false: the count
\* runs ahead of the pointer block, which is written when it is full.)
DirectPointersExclusive ==
  \A n, m \in Inodes : \A k \in DirectPointers(n), h \in DirectPointers(m) :
    l1[n][k] = l1[m][h] => n = m /\ k = h

\* The bitmap and the files account for each other as long as no process died:
\* a block that is not free is in some file, except the level-3 root that a
\* call with nothing left to allocate takes at exactly LEVEL2_LIMIT blocks,
\* and the ones such roots replaced.
BlocksAccountedFor ==
  torn = {} /\ misplaced = {} /\ pc = "idle" =>
    Blocks \ dbitmap =
      (UNION {Owned(n) : n \in Inodes}) \union abandoned
      \union {l3[n] : n \in {m \in Inodes : blocks[m] = LEVEL2_LIMIT}}

\* Growing a file, or creating another, never moves a block a file already
\* has: an index below the blocks it had when the call began reads the same.
SettledBlocks(n) ==
  IF pc \in {"idle", "dir"} \/ n # ino THEN blocks[n]
  ELSE blocks[n] - (need - count_down)

BlocksNeverMove ==
  [][misplaced' = {} => \A n \in Inodes \ torn' : \A k \in 0 .. SettledBlocks(n) - 1 :
       BlockOf(n, k)' = BlockOf(n, k)]_vars

\* Writing a pointer block back never overwrites a block that holds anything
\* else: not a block of another file or of the root directory, and not a block
\* of data the extended file already has, unless an earlier death left the
\* file without the pointer that says where to write.
PointerWritesHarmless ==
  [][\A b \in Blocks : disk'[b] # disk[b] /\ ino \notin torn /\ misplaced' = {} =>
       /\ \A n \in Settled : b \notin Owned(n)
       /\ \A k \in 0 .. SettledBlocks(ino) - 1 : b # BlockOf(ino, k)]_vars

\* vsfs.h:44: the data blocks are sb->nr_dregion_blocks blocks.  Every block a
\* file holds is one of them.
BlocksInDataRegion ==
  \A n \in Settled : Owned(n) \subseteq 0 .. NR_DREGION - 1

\* vsfsio_spdk.h:558: a lookup finds entry number k in block l1[k / 16] of the
\* root directory.  vsfs_creat put it there.
EntryWhereLookupReads ==
  [][entry' # entry => RightPlace]_vars

=============================================================================
