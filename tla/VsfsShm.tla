------------------------------ MODULE VsfsShm ------------------------------
(***************************************************************************)
(* The shared-memory variant: src/inc/vsfsio.h on an object made by        *)
(* shm/shm_mkfs.c, mounted by shm/shm_mount.c and removed by               *)
(* shm/shm_unlink.c.  The whole device is mapped, so write, read and lseek *)
(* work on the inode itself.  Programs run one after the other and the     *)
(* tools between them; the steps of creat, of the allocation and of the    *)
(* table of open files are those of VsfsMount, VsfsAlloc and VsfsOpTable.  *)
(*                                                                         *)
(* struct vsfs_cached_data has the inodes between the two bitmaps,         *)
(* shm_mount.c makes a cache without them: get_free_dblock looks for a bit *)
(* beyond the cache.  What it finds is not defined.  The model takes the   *)
(* two outcomes apart: free blocks in ascending order, wherever they are,  *)
(* and anything else, after which nothing is known (luck = "bad").  A use  *)
(* of freed memory ends there as well.                                     *)
(***************************************************************************)
EXTENDS Integers, Sequences

CONSTANTS
  Names, Values, Junk, NULL,
  BS,        \* VSFS_BLOCK_SIZE, and the entries of a directory block
  W,         \* 2^32: an inode's size is a uint32_t
  LIMIT,     \* VSFS_LEVEL3_LIMIT * VSFS_BLOCK_SIZE as the macro expands
  LEVEL1,    \* VSFS_LEVEL1_LIMIT
  WRAP,      \* 2^16: start_block_l1 is a uint16_t
  MAXFILE,   \* blocks the three levels can name
  DIR_LIMIT, \* blocks of the directory
  Dots,      \* entries mkfs makes, . and .., which no program opens
  NR_BLOCKS, NR_INODES,
  BlockNums, Lengths, Offsets, MaxFds \* bounds, as in VsfsFile

ASSUME ShmAssumption ==
  /\ BS \in Nat \ {0} /\ W \in Nat \ {0} /\ W % BS = 0 /\ LIMIT \in Nat /\ LEVEL1 \in Nat
  /\ WRAP \in Nat \ {0} /\ MAXFILE \in Nat /\ DIR_LIMIT \in Nat /\ MaxFds \in Nat
  /\ Dots \in 0 .. BS
  /\ NR_BLOCKS \in Nat \ {0} /\ NR_INODES \in Nat \ {0}
  /\ BlockNums \subseteq 0 .. MAXFILE /\ Lengths \subseteq Nat \ {0}
  /\ Offsets \subseteq Nat
  /\ LEVEL1 <= MAXFILE /\ DIR_LIMIT <= MAXFILE
  /\ BS * MAXFILE >= LIMIT /\ LIMIT >= W

Root == 0
Inodes == 0 .. NR_INODES - 1
Blocks == 0 .. NR_BLOCKS - 1
Slots == 0 .. BS - 1
Entry(name, inode) == [name |-> name, inode |-> inode]
Cells == Values \union {Junk} \union [name : Names, inode : Inodes]

\* What a cell of a new device holds is no entry.
ASSUME JunkAssumption == \A name \in Names, inode \in Inodes : Entry(name, inode) # Junk

Flags == {"O_RDONLY", "O_WRONLY", "O_RDWR"}

VARIABLES
  device,      \* the object: "none" or "made"
  dev_inodes,  \* the free inodes of its bitmap
  map, size,   \* its inodes; the size of the root is its number of entries
  disk,        \* its data region
  free_inodes, \* the free inodes of the cache object, if there is one
  optab,       \* the object of open files: "none" or "made"
  sb,          \* whether the process has mapped device and table
  sb_cached,   \* whether it has mapped the cache
  table,       \* its fd_table: "none", "list", "cut" (the tail is freed)
               \* or "freed"
  fds,         \* its descriptors
  pc, call,    \* "idle", a write under way, or no process
  luck,        \* "bad" after undefined behaviour
  history      \* "lost" when files were made anew, unmade or rolled back

objects == <<device, dev_inodes, free_inodes, optab>>
inodes == <<map, size>>
process == <<sb, sb_cached, table, fds>>
vars == <<device, dev_inodes, map, size, disk, free_inodes, optab, sb,
          sb_cached, table, fds, pc, call, luck, history>>

NoFiles == [i \in Inodes |-> <<>>]
Blank == [s \in Slots |-> Junk]

Init ==
  /\ device = "none" /\ dev_inodes = {}
  /\ map = NoFiles /\ size = [i \in Inodes |-> 0]
  /\ disk = [b \in Blocks |-> Blank]
  /\ free_inodes = NULL /\ optab = "none"
  /\ sb = "no" /\ sb_cached = "no" /\ table = "none" /\ fds = <<>>
  /\ pc = "gone" /\ call = NULL
  /\ luck = "good" /\ history = "kept"

entry == size[Root]

\* The directory is searched, by all calls, as if its blocks were the first of
\* the device; slots beyond the root's entries are not looked at.
Cell(i) == disk[i \div BS][i % BS]
Listed(name) == \E i \in 0 .. entry - 1, inode \in Inodes : Cell(i) = Entry(name, inode)

\* The directory blocks are where every call looks for them.
InPlace == \A i \in DOMAIN map[Root] : map[Root][i] = i - 1

----------------------------------------------------------------------------
(* The tools *)

\* What becomes of the files when the objects change under them.
FilesGone ==
  history' = IF ~InPlace \/ \E name \in Names : Listed(name) THEN "lost" ELSE history

Tool == pc = "gone" /\ luck = "good" /\ UNCHANGED <<process, pc, call, luck>>

\* Superblock, inode bitmap, inodes, block bitmap, first directory block: the
\* program writes them in this order and may die or fail between two.  An object
\* without its superblock counts as none.
shm_mkfs(parts) ==
  /\ Tool
  /\ device' = "made"
  /\ dev_inodes' = IF parts > 1 THEN Inodes \ {Root} ELSE dev_inodes
  /\ map' = IF parts > 2 THEN [NoFiles EXCEPT ![Root] = <<0>>] ELSE map
  /\ size' = IF parts > 2 THEN [i \in Inodes |-> IF i = Root THEN Dots ELSE 0] ELSE size
  /\ disk' = IF parts > 4 THEN [disk EXCEPT ![0] = Blank] ELSE disk
  /\ FilesGone
  /\ UNCHANGED <<free_inodes, optab>>

\* The magic number is checked, the bitmaps are copied as mkfs made them, and
\* the table is emptied, if the program lives to do so.
shm_mount ==
  /\ Tool /\ device = "made"
  /\ free_inodes' = dev_inodes
  /\ optab' = "made" \/ optab' = optab
  /\ FilesGone
  /\ UNCHANGED <<device, dev_inodes, inodes, disk>>

\* Device, cache, table.
shm_unlink(parts) ==
  /\ Tool
  /\ device' = "none" /\ dev_inodes' = {}
  /\ map' = NoFiles /\ size' = [i \in Inodes |-> 0]
  /\ disk' = [b \in Blocks |-> Blank]
  /\ free_inodes' = IF parts > 1 THEN NULL ELSE free_inodes
  /\ optab' = IF parts > 2 THEN "none" ELSE optab
  /\ FilesGone

----------------------------------------------------------------------------
(* The process *)

Running == pc = "idle" /\ luck = "good" /\ UNCHANGED <<luck, optab, device, dev_inodes>>
Return == UNCHANGED <<pc, call>>

Start ==
  /\ pc = "gone" /\ luck = "good" /\ pc' = "idle"
  /\ UNCHANGED <<objects, inodes, disk, process, call, luck, history>>

\* The process ends, is killed, or follows a pointer to no memory.
Exit ==
  /\ pc # "gone" /\ luck = "good" /\ pc' = "gone" /\ call' = NULL
  /\ sb' = "no" /\ sb_cached' = "no" /\ table' = "none" /\ fds' = <<>>
  /\ UNCHANGED <<objects, inodes, disk, luck, history>>

Mounted == device = "made" /\ free_inodes # NULL

----------------------------------------------------------------------------
(* Blocks *)

CeilBlocks(cells) == (cells + BS - 1) \div BS
Lowest(a, b) == IF a < b THEN a ELSE b

Unused == Blocks \ UNION {{map[i][k] : k \in DOMAIN map[i]} : i \in Inodes}

\* What n calls of get_free_dblock may return, while luck lasts.
FreeBlocks(n) ==
  {s \in [1 .. n -> Unused] : \A j, k \in 1 .. n : j < k => s[j] < s[k]}

Granted(inode, need) == Lowest(need, MAXFILE - Len(map[inode]))

AllocBlock(inode, need) ==
  \E new \in FreeBlocks(Granted(inode, need)) :
    map' = [map EXCEPT ![inode] = @ \o new]

\* 2^20 blocks and size zero stand for 2^32 bytes.
FileSize(inode) ==
  IF size[inode] = 0 /\ Len(map[inode]) = W \div BS THEN W ELSE size[inode]

----------------------------------------------------------------------------
(* The directory *)

Found(name) ==
  {inode \in Inodes : \E i \in 0 .. entry - 1 :
     /\ Cell(i) = Entry(name, inode)
     /\ \A j \in 0 .. i - 1, other \in Inodes : Cell(j) # Entry(name, other)}

DirFull == entry >= BS * Len(map[Root])
Creatable(name) ==
  /\ Mounted /\ ~Listed(name)
  /\ DirFull => Len(map[Root]) < DIR_LIMIT
NewBlocks(block_num) == IF DirFull THEN block_num + 1 ELSE block_num

\* Mutant: an inode is taken from the bitmap of the device.
Mut_DeviceInode ==
  IF dev_inodes = {} THEN Root
  ELSE CHOOSE i \in dev_inodes : \A j \in dev_inodes : i <= j

\* Without a free inode get_free_inode returns zero, the root.
FreeInode ==
  IF free_inodes = {} THEN Root
  ELSE CHOOSE i \in free_inodes : \A j \in free_inodes : i <= j

\* Mutant: the size does not wrap to 32 bits.
Mut_NewSize(block_num) == block_num * BS

NewSize(block_num) == (block_num * BS) % W

\* A new directory block, or else the block whose NUMBER is the index of the
\* directory block, gets the entry.
NewFile(name, block_num, new) ==
  LET inode == FreeInode
      root == IF DirFull THEN Append(map[Root], new[1]) ELSE map[Root]
      file == IF DirFull THEN Tail(new) ELSE new
      block == IF DirFull THEN new[1] ELSE entry \div BS
      slot == IF DirFull THEN entry - BS * Len(map[Root]) ELSE entry % BS IN
  /\ disk' = [disk EXCEPT ![block][slot] = Entry(name, inode)]
  /\ map' = [map EXCEPT ![Root] = root, ![inode] = file]
  /\ size' = [size EXCEPT ![Root] = @ + 1, ![inode] = NewSize(block_num)]
  /\ free_inodes' = free_inodes \ {inode}
  /\ history' = IF inode = Root THEN "lost" ELSE history

\* A call that is refused changes nothing.  The global pointer to the cache,
\* which it has borrowed, is NULL at the end.
vsfs_creat(name, block_num) ==
  /\ Running /\ Creatable(name) /\ Return
  /\ \E new \in FreeBlocks(NewBlocks(block_num)) : NewFile(name, block_num, new)
  /\ sb_cached' = "no"
  /\ UNCHANGED <<sb, table, fds>>

----------------------------------------------------------------------------
(* vsfs_open and vsfs_close *)

Intact == table \in {"none", "list"}

\* Without the file, the list of all descriptors is freed, and not forgotten.
vsfs_open(name, flags) ==
  /\ Running /\ Mounted /\ optab = "made" /\ Intact /\ Len(fds) < MaxFds /\ Return
  /\ sb_cached' = "yes"
  /\ \/ \E inode \in Found(name) :
          /\ fds' = Append(fds, [inode |-> inode, flags |-> flags, offset |-> 0])
          /\ sb' = "yes" /\ table' = "list"
     \/ /\ Found(name) = {}
        /\ fds' = <<>> /\ sb' = "no" /\ table' = "freed"
  /\ UNCHANGED <<free_inodes, inodes, disk, history>>

\* The newest descriptor is closed; other orders are in VsfsOpTable.
vsfs_close ==
  /\ Running /\ fds # <<>> /\ Return
  /\ fds' = SubSeq(fds, 1, Len(fds) - 1)
  /\ \/ Len(fds) = 1 /\ table' = "freed" /\ sb' = "no" /\ sb_cached' = "no"
     \/ Len(fds) > 1 /\ table' = "cut" /\ UNCHANGED <<sb, sb_cached>>
  /\ UNCHANGED <<free_inodes, inodes, disk, history>>

----------------------------------------------------------------------------
(* vsfs_write *)

Writable(k, n) ==
  /\ k \in DOMAIN fds
  /\ fds[k].flags # "O_RDONLY" /\ sb_cached = "yes" /\ fds[k].offset + n <= LIMIT

Needed(k, n) == CeilBlocks(fds[k].offset + n)

vsfs_write(k, v, n) ==
  /\ Running /\ Writable(k, n)
  /\ LET inode == fds[k].inode IN
       \/ /\ Len(map[inode]) <= Needed(k, n)
          /\ AllocBlock(inode, Needed(k, n) - Len(map[inode]))
       \/ Len(map[inode]) > Needed(k, n) /\ UNCHANGED map
  /\ pc' = "write"
  /\ call' = [fd |-> k, value |-> v, left |-> n,
              start |-> (fds[k].offset \div BS) % WRAP]
  /\ UNCHANGED <<free_inodes, size, disk, process, history>>

\* Within level 1 the blocks are counted from the 16-bit start, beyond it from
\* the offset.
Index(f) == IF call.start < LEVEL1 THEN call.start ELSE f.offset \div BS

\* Mutant: level 1 is left one block late.
Mut_NextStart == call.start

NextStart == IF call.start < LEVEL1 THEN call.start + 1 ELSE call.start

\* One turn of __write_dblock.
WriteBlock ==
  /\ pc = "write" /\ luck = "good" /\ call.left > 0
  /\ LET f == fds[call.fd]
         skip == f.offset % BS
         len == Lowest(BS - skip, call.left) IN
       /\ disk' = [disk EXCEPT ![map[f.inode][Index(f) + 1]] =
            [s \in Slots |-> IF s >= skip /\ s < skip + len THEN call.value ELSE @[s]]]
       /\ fds' = [fds EXCEPT ![call.fd].offset = @ + len]
       /\ call' = [call EXCEPT !.left = @ - len, !.start = NextStart]
  /\ UNCHANGED <<objects, inodes, sb, sb_cached, table, pc, luck, history>>

\* The file ends where the write ended, also when it was longer.
WriteEnd ==
  /\ pc = "write" /\ luck = "good" /\ call.left = 0
  /\ size' = [size EXCEPT ![fds[call.fd].inode] = fds[call.fd].offset % W]
  /\ pc' = "idle" /\ call' = NULL
  /\ UNCHANGED <<objects, map, disk, process, luck, history>>

----------------------------------------------------------------------------
(* vsfs_read and vsfs_lseek *)

\* A read that is allowed and not at the end moves the offset, by the length or
\* to the end.
vsfs_read(k, n) ==
  /\ Running /\ k \in DOMAIN fds /\ fds[k].flags # "O_WRONLY" /\ Return
  /\ LET size_left == FileSize(fds[k].inode) - fds[k].offset IN
       size_left > 0 /\ fds' = [fds EXCEPT ![k].offset = @ + Lowest(n, size_left)]
  /\ UNCHANGED <<free_inodes, inodes, disk, sb, sb_cached, table, history>>

\* Every seek inside the file; a SEEK_END that fails has moved to the end.
SeekInside(k, offset) ==
  /\ Running /\ k \in DOMAIN fds /\ Return
  /\ offset <= FileSize(fds[k].inode)
  /\ fds' = [fds EXCEPT ![k].offset = offset]
  /\ UNCHANGED <<free_inodes, inodes, disk, sb, sb_cached, table, history>>

\* Mutant: the block the offset is in is not counted.
Mut_MissingFloor(inode, offset) ==
  IF CeilBlocks(offset) >= Len(map[inode]) + 1
  THEN offset \div BS - Len(map[inode]) ELSE 0

\* SEEK_SET beyond the size: the missing blocks are allocated, four billion of
\* them if there are more than are needed.
Missing(inode, offset) ==
  IF CeilBlocks(offset) >= Len(map[inode]) THEN CeilBlocks(offset) - Len(map[inode])
  ELSE MAXFILE
Beyond(k, offset) ==
  k \in DOMAIN fds /\ offset > FileSize(fds[k].inode) /\ offset <= W
SeekBeyond(k, offset) ==
  /\ Running /\ Beyond(k, offset) /\ Return
  /\ LET inode == fds[k].inode IN
       /\ Granted(inode, Missing(inode, offset)) > 0 => sb_cached = "yes"
       /\ AllocBlock(inode, Missing(inode, offset))
       /\ size' = [size EXCEPT ![inode] = offset % W]
  /\ fds' = [fds EXCEPT ![k].offset = offset]
  /\ UNCHANGED <<free_inodes, disk, sb, sb_cached, table, history>>

vsfs_lseek(k, offset) == SeekInside(k, offset) \/ SeekBeyond(k, offset)

----------------------------------------------------------------------------

Fds == 1 .. MaxFds

\* Calls whose effect the C language does not define: open and close with a list
\* or a tail that is freed, a read from beyond the size, every allocation.
Undefined ==
  /\ pc = "idle" /\ luck = "good" /\ luck' = "bad"
  /\ \/ ~Intact
     \/ \E k \in DOMAIN fds : FileSize(fds[k].inode) < fds[k].offset
     \/ \E name \in Names, n \in BlockNums : Creatable(name) /\ NewBlocks(n) > 0
     \/ \E k \in Fds, n \in Lengths :
          Writable(k, n) /\ Needed(k, n) > Len(map[fds[k].inode])
     \/ \E k \in Fds, offset \in Offsets :
          Beyond(k, offset) /\ Missing(fds[k].inode, offset) > 0
  /\ UNCHANGED <<objects, inodes, disk, process, pc, call, history>>

Tools ==
  \/ \E parts \in 1 .. 5 : shm_mkfs(parts)
  \/ shm_mount
  \/ \E parts \in 1 .. 3 : shm_unlink(parts)

Call ==
  \/ \E name \in Names, n \in BlockNums : vsfs_creat(name, n)
  \/ \E name \in Names, flags \in Flags : vsfs_open(name, flags)
  \/ vsfs_close
  \/ \E k \in Fds :
       \/ \E n \in Lengths :
            vsfs_read(k, n) \/ \E v \in Values : vsfs_write(k, v, n)
       \/ \E offset \in Offsets : vsfs_lseek(k, offset)

Next == Tools \/ Start \/ Exit \/ Call \/ WriteBlock \/ WriteEnd \/ Undefined

Spec == Init /\ [][Next]_vars

----------------------------------------------------------------------------
(* Properties *)

\* Every variable has its type.
TypeOK ==
  /\ device \in {"none", "made"} /\ optab \in {"none", "made"}
  /\ dev_inodes \subseteq Inodes
  /\ free_inodes # NULL => free_inodes \subseteq Inodes
  /\ map \in [Inodes -> Seq(Blocks)] /\ size \in [Inodes -> Nat]
  /\ \A i \in Inodes \ {Root} : size[i] < W
  /\ disk \in [Blocks -> [Slots -> Cells]]
  /\ sb \in {"no", "yes"} /\ sb_cached \in {"no", "yes"}
  /\ table \in {"none", "list", "cut", "freed"}
  /\ fds \in Seq([inode : Inodes, flags : Flags, offset : Nat])
  /\ Len(fds) <= MaxFds
  /\ pc \in {"gone", "idle", "write"}
  /\ call # NULL =>
       call \in [fd : DOMAIN fds, value : Values, left : Nat, start : 0 .. WRAP + LEVEL1]
  /\ luck \in {"good", "bad"} /\ history \in {"kept", "lost"}

\* No file is longer than the blocks of its inode: vsfs_read, which trusts the
\* size, would follow pointers that were never set.  No mkfs cut short, remount,
\* wrapped size, seek or write that died leaves such an inode.
SizeBacked == \A i \in Inodes : size[i] <= BS * Len(map[i])

\* A write to the first 2^16 blocks of a file changes the block its offset is in
\* and no other.
WritesLandInPlace ==
  [][pc = "write" /\ fds[call.fd].offset < WRAP * BS =>
       \A b \in Blocks : disk'[b] # disk[b] =>
         b = map[fds[call.fd].inode][fds[call.fd].offset \div BS + 1]]_vars

Sound == InPlace /\ luck = "good" /\ history = "kept"

InodeNamed(name) == CHOOSE inode \in Inodes : inode \in Found(name)
Content(inode) ==
  [k \in 1 .. FileSize(inode) |-> disk[map[inode][(k - 1) \div BS + 1]][(k - 1) % BS]]

StoreState == IF Sound THEN "sound" ELSE "broken"
StoreFiles ==
  IF Sound THEN [name \in {n \in Names : Listed(n)} |-> Content(InodeNamed(name))]
  ELSE <<>>

Store ==
  INSTANCE FileStore WITH state <- StoreState, files <- StoreFiles,
    NewLengths <- {IF n = W \div BS THEN W ELSE NewSize(n) : n \in BlockNums}

\* As long as the directory blocks are in place, no tool has run over the files
\* and every allocation was lucky, the shared-memory variant implements the same
\* store of named files as the SPDK one.
Implements == Store!Spec

=============================================================================
