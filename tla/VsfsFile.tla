------------------------------ MODULE VsfsFile ------------------------------
(***************************************************************************)
(* File input and output of src/inc/vsfsio_spdk.h: vsfs_creat, vsfs_open,  *)
(* vsfs_write, vsfs_read, vsfs_lseek, vsfs_close, vsfs_stat and            *)
(* vsfs_print_block_nbr as one process after the other calls them.  Inodes *)
(* and bitmaps are in shared memory and outlive the process, the pointers  *)
(* sb_cached and inode_reg, the descriptors and their copies of the inode  *)
(* (struct file) are its own.                                              *)
(*                                                                         *)
(* The pointer tree of a file is the flat list of its blocks, which        *)
(* VsfsAlloc justifies; blocks and inodes are handed out in ascending      *)
(* order, since none is given back (the devices whose bitmap scan ends too *)
(* soon are in VsfsAlloc only).  A process that dies in an allocation      *)
(* leaves a file with blocks that are counted and whose pointers the       *)
(* device never got: they are Unset.  The unit of size and offset is a     *)
(* cell, BS to a block: a directory entry or a piece of data.  vsfs_write  *)
(* is split into steps; the death of a process inside vsfs_creat or        *)
(* __alloc_block is one step to any of the states it can leave, and the    *)
(* steps themselves are in VsfsMount and VsfsAlloc, those of open and      *)
(* close in VsfsOpTable.  No program opens the directory itself, by its    *)
(* names . and .. (a write to it would set the number of its entries to a  *)
(* number of bytes).                                                       *)
(*                                                                         *)
(* A call that writes by a block number or an inode address that is wrong  *)
(* may change anything: history says it strayed, and the model ends there. *)
(***************************************************************************)
EXTENDS Integers, Sequences

CONSTANTS
  Names,        \* file names
  Values,       \* what a program writes into a cell
  Junk,         \* what a cell holds before
  Zeroed,       \* the zero that ends a string and that vsfs_read clears with
  Unset,        \* a pointer the device never got: any number
  NULL, Wild,   \* no address; an offset into a mapping that is not there
  Addrs,        \* addresses mmap may give the cache
  BS,           \* VSFS_BLOCK_SIZE, and the entries of a directory block
  W,            \* 2^32: an inode's size is a uint32_t
  LIMIT,        \* VSFS_LEVEL3_LIMIT * VSFS_BLOCK_SIZE as the macro expands
  LEVEL1_LIMIT, \* VSFS_LEVEL1_LIMIT
  LEVEL2_LIMIT, \* VSFS_LEVEL2_LIMIT
  MAXFILE,      \* blocks the three levels can name
  DIR_LIMIT,    \* blocks of the directory
  Dots,         \* entries mkfs makes, . and .., which name the directory
  NR_BLOCKS,    \* bits of the block bitmap
  NR_INODES,    \* VSFS_NR_INODES
  BlockNums,    \* bound: blocks a file is created with
  Lengths,      \* bound: cells one call reads or writes
  Offsets,      \* bound: where a program seeks to
  MaxFds        \* bound: descriptors of a process

ASSUME FileAssumption ==
  /\ BS \in Nat \ {0} /\ W \in Nat \ {0} /\ W % BS = 0 /\ LIMIT \in Nat
  /\ LEVEL1_LIMIT \in Nat /\ LEVEL2_LIMIT \in Nat /\ MAXFILE \in Nat /\ MaxFds \in Nat
  /\ DIR_LIMIT \in Nat \ {0} /\ Dots \in 0 .. BS
  /\ NR_BLOCKS \in Nat \ {0} /\ NR_INODES \in Nat \ {0}
  /\ BlockNums \subseteq 0 .. MAXFILE /\ DIR_LIMIT <= MAXFILE
  /\ Lengths \subseteq Nat \ {0} /\ Offsets \subseteq Nat
  /\ NULL \notin Addrs /\ Wild \notin Addrs
  /\ BS * MAXFILE >= LIMIT /\ LIMIT >= W

Root == 0
Inodes == 0 .. NR_INODES - 1
Blocks == 0 .. NR_BLOCKS - 1
Pointers == Blocks \union {Unset}
Slots == 0 .. BS - 1
Entry(name, inode) == [name |-> name, inode |-> inode]

\* Nothing a program writes looks like an entry; zeros are written too.
ASSUME DataAssumption ==
  /\ Zeroed \in Values /\ Unset \notin Blocks
  /\ \A name \in Names, inode \in Inodes :
       Entry(name, inode) \notin Values \union {Junk}

Cells == Values \union {Junk} \union [name : Names, inode : Inodes]

VARIABLES
  map,        \* the blocks of each inode
  size,       \* the size of each inode
  entry,      \* entries of the root directory
  next_block, \* the first free block
  next_inode, \* the first free inode
  disk,       \* the data region of the device
  sb_cached, inode_reg, \* pointers of the process into the cache
  fds,        \* its descriptors, with their offsets and copies of the inode
  tail,       \* whether fd_table->tail is still allocated
  pc,         \* "idle", in the middle of vsfs_write, or no process
  call,       \* the write under way
  history     \* whether two descriptors of the process share a file, or it
              \* has used a number or an address that is wrong

cache == <<map, size, entry, next_block, next_inode>>
process == <<sb_cached, inode_reg, fds, tail, pc, call>>
vars == <<map, size, entry, next_block, next_inode, disk, sb_cached,
          inode_reg, fds, tail, pc, call, history>>

Init ==
  /\ map = [i \in Inodes |-> IF i = Root THEN <<0>> ELSE <<>>]
  /\ size = [i \in Inodes |-> 0]
  /\ entry = Dots /\ next_block = 1 /\ next_inode = 1
  /\ disk = [b \in Blocks |-> [s \in Slots |-> Junk]]
  /\ sb_cached = NULL /\ inode_reg = NULL
  /\ fds = <<>> /\ tail = "valid"
  /\ pc = "gone" /\ call = NULL
  /\ history = "alone"

----------------------------------------------------------------------------
(* The process and its pointers *)

Start ==
  /\ pc = "gone" /\ pc' = "idle"
  /\ UNCHANGED <<cache, disk, sb_cached, inode_reg, fds, tail, call, history>>

NoProcess ==
  /\ pc' = "gone" /\ call' = NULL
  /\ sb_cached' = NULL /\ inode_reg' = NULL
  /\ fds' = <<>> /\ tail' = "valid"
  /\ history' = "alone"

\* The process ends or is killed, or follows a pointer to no memory.
Exit == pc # "gone" /\ NoProcess /\ UNCHANGED <<cache, disk>>

\* A call maps the cache unless it is mapped, at an address mmap chooses, and
\* sets inode_reg only if it is NULL: it may still point where an earlier
\* mapping was.
Mappings == IF sb_cached = NULL THEN Addrs ELSE {sb_cached}
InodeReg(sb) == IF inode_reg = NULL THEN sb ELSE inode_reg
Attached(sb) == sb \in Mappings /\ InodeReg(sb) = sb
Valid == sb_cached # NULL /\ inode_reg = sb_cached

Return == UNCHANGED <<pc, call>>

\* A write goes to a block or an inode it is not for: the model ends.
GoesAstray == history' = "strayed" /\ UNCHANGED <<cache, disk, process>>

\* creat, open, stat and a seek that allocates use the cache that is mapped now
\* by the inode_reg of an earlier mapping, which may lie inside: they read and
\* write inodes, but not those they mean.
StaleHit ==
  /\ pc = "idle" /\ inode_reg \notin {NULL, Wild}
  /\ \E sb \in Mappings : sb # inode_reg
  /\ GoesAstray

----------------------------------------------------------------------------
(* Blocks *)

CeilBlocks(cells) == (cells + BS - 1) \div BS
Lowest(a, b) == IF a < b THEN a ELSE b
Run(first, n) == [k \in 1 .. n |-> first + k - 1]

\* __alloc_block stops, with a result nobody looks at, when the levels are full.
Granted(inode, need) == Lowest(need, MAXFILE - Len(map[inode]))

AllocBlock(inode, need) ==
  /\ next_block + Granted(inode, need) <= NR_BLOCKS
  /\ map' = [map EXCEPT ![inode] = @ \o Run(next_block, Granted(inode, need))]
  /\ next_block' = next_block + Granted(inode, need)
  /\ UNCHANGED <<size, entry, next_inode>>

\* Of m new pointers the first w are stored: one of level 1 at once, the others
\* when their pointer block is written.
Kept(old, m) == {w \in 0 .. m : w < m => old + w >= LEVEL1_LIMIT}
Partly(blocks, first, m, w) ==
  blocks \o Run(first, w) \o [k \in 1 .. m - w |-> Unset]

\* The process dies in __alloc_block, at the latest when the scan of the bitmap
\* finds no block and runs out of the mapping: m blocks are counted, and another
\* one may be taken.
AllocDies(inode, need) ==
  /\ \E m \in 0 .. Granted(inode, need) :
       /\ \E w \in Kept(Len(map[inode]), m) :
            map' = [map EXCEPT ![inode] = Partly(@, next_block, m, w)]
       /\ next_block' \in next_block + m ..
                         next_block + Lowest(m + 1, Granted(inode, need))
  /\ next_block' <= NR_BLOCKS
  /\ UNCHANGED <<size, entry, next_inode, disk>>
  /\ NoProcess

\* Level 3 goes on in the pointer block of the last pointer.  If the root never
\* got the number of that block, another one is read, changed and written.
AllocStrays(inode, need) ==
  /\ Granted(inode, need) > 0 /\ next_block < NR_BLOCKS
  /\ Len(map[inode]) > LEVEL2_LIMIT /\ map[inode][Len(map[inode])] = Unset
  /\ GoesAstray

\* 2^20 blocks and size zero stand for 2^32 bytes.
SizeOf(inode, blocks) ==
  IF size[inode] = 0 /\ Len(blocks) = W \div BS THEN W ELSE size[inode]

\* vsfs_get_inode_info: the struct file of a descriptor, refreshed.
Refreshed(f) ==
  [f EXCEPT !.block = map'[f.inode], !.blocks = Len(map'[f.inode]),
            !.size = SizeOf(f.inode, map'[f.inode])]

----------------------------------------------------------------------------
(* The directory *)

BlockOfEntry(i) == map[Root][i \div BS + 1]

\* The search of vsfs_creat.
Listed(name) ==
  \E i \in 0 .. entry - 1, inode \in Inodes :
    disk[BlockOfEntry(i)][i % BS] = Entry(name, inode)

\* The search of vsfs_open and vsfs_stat subtracts the number of the directory
\* block where its index is due, and so looks before the buffer once the two
\* differ: at the buffers of earlier calls, or at no memory.
Slot(i) == i - BS * BlockOfEntry(i)
Inside(i) == Slot(i) \in Slots
AllInside == \A i \in 0 .. entry - 1 : Inside(i)
Matches(i, name, inode) ==
  Inside(i) /\ disk[BlockOfEntry(i)][Slot(i)] = Entry(name, inode)
Found(name) ==
  {inode \in Inodes : \E i \in 0 .. entry - 1 :
     /\ Matches(i, name, inode)
     /\ \A j \in 0 .. i - 1, other \in Inodes : ~Matches(j, name, other)}
Leftover(name) ==
  {inode \in Inodes : \E b \in Blocks, s \in Slots :
     disk[b][s] = Entry(name, inode)}
Lookup(name) ==
  Found(name) \union IF AllInside THEN {} ELSE Leftover(name)

\* The directory is full: its next block is taken.
DirFull == entry >= BS * Len(map[Root])

\* Where the entry is written: into the new block, or into the block whose
\* NUMBER is the index of the directory block.
EntryBlock == IF DirFull THEN next_block ELSE entry \div BS
EntrySlot == IF DirFull THEN entry - BS * Len(map[Root]) ELSE entry % BS

\* Mutant: the block of the directory is given to the file as well.
Mut_DirBlockAgain == next_block

FirstOfFile == IF DirFull THEN next_block + 1 ELSE next_block

AtLimit == DirFull /\ Len(map[Root]) >= DIR_LIMIT

DirMap == [map EXCEPT ![Root] = IF DirFull THEN Append(@, next_block) ELSE @]
WithEntry(name) ==
  [disk EXCEPT ![EntryBlock][EntrySlot] = Entry(name, next_inode)]

\* The entry is written, the file gets its blocks; there are more inodes than
\* entries.
NewFile(name, blocks) ==
  /\ disk' = WithEntry(name)
  /\ map' = [DirMap EXCEPT ![next_inode] = Run(FirstOfFile, blocks)]
  /\ size' = [size EXCEPT ![next_inode] = 0]
  /\ entry' = entry + 1
  /\ next_block' = FirstOfFile + blocks
  /\ next_inode' = next_inode + 1

\* The cache is unmapped on every way out and inode_reg left as it is.
vsfs_creat(name, block_num) ==
  /\ pc = "idle"
  /\ \E sb \in Addrs : Attached(sb) /\ inode_reg' = sb /\ sb_cached' = NULL
  /\ \/ (Listed(name) \/ AtLimit) /\ Return /\ UNCHANGED <<cache, disk>>
     \/ /\ ~Listed(name) /\ ~AtLimit /\ next_inode < NR_INODES
        /\ FirstOfFile + block_num <= NR_BLOCKS
        /\ NewFile(name, block_num) /\ Return
  /\ UNCHANGED <<fds, tail, history>>

\* The process dies in vsfs_creat with the inode taken: before the directory has
\* its new block, before the entry is counted, or while the file gets its blocks.
CreatDies(name, block_num) ==
  /\ pc = "idle" /\ \E sb \in Addrs : Attached(sb)
  /\ ~Listed(name) /\ ~AtLimit /\ next_inode < NR_INODES
  /\ \/ /\ next_block' \in {next_block, FirstOfFile}
        /\ UNCHANGED <<map, size, entry, disk>>
     \/ /\ FirstOfFile <= NR_BLOCKS /\ next_block' = FirstOfFile
        /\ map' = DirMap /\ disk' \in {disk, WithEntry(name)}
        /\ UNCHANGED <<size, entry>>
     \/ /\ FirstOfFile <= NR_BLOCKS
        /\ disk' = WithEntry(name) /\ entry' = entry + 1
        /\ size' = [size EXCEPT ![next_inode] = 0]
        /\ \E m \in 0 .. block_num :
             /\ \E w \in Kept(0, m) :
                  map' = [DirMap EXCEPT ![next_inode] = Partly(<<>>, FirstOfFile, m, w)]
             /\ next_block' \in FirstOfFile + m .. FirstOfFile + Lowest(m + 1, block_num)
  /\ next_block' <= NR_BLOCKS
  /\ next_inode' = next_inode + 1
  /\ NoProcess

vsfs_stat(name) ==
  /\ pc = "idle"
  /\ \E sb \in Addrs :
       /\ Attached(sb) /\ inode_reg' = sb
       /\ \/ Lookup(name) # {} /\ sb_cached' = sb /\ Return
          \/ Found(name) = {} /\ sb_cached' = NULL /\ Return
  /\ UNCHANGED <<cache, disk, fds, tail, history>>

----------------------------------------------------------------------------
(* vsfs_open and vsfs_close *)

Opened(target, mode) ==
  [inode |-> target, flags |-> mode, offset |-> 0, block |-> map[target],
   blocks |-> Len(map[target]), size |-> SizeOf(target, map[target])]

IsOpen(inode) == \E k \in DOMAIN fds : fds[k].inode = inode

\* A failed open frees the list of all descriptors.
vsfs_open(name, flags) ==
  /\ pc = "idle" /\ tail = "valid" /\ Len(fds) < MaxFds
  /\ \E sb \in Addrs : Attached(sb) /\ inode_reg' = sb /\ sb_cached' = sb
  /\ \/ \E inode \in Lookup(name) :
          /\ fds' = Append(fds, Opened(inode, flags)) /\ Return
          /\ history' = IF IsOpen(inode) THEN "shared" ELSE history
     \/ Found(name) = {} /\ fds' = <<>> /\ Return /\ history' = "alone"
  /\ UNCHANGED <<cache, disk, tail>>

\* The newest descriptor is closed; any other order, and an open with the tail
\* freed, is in VsfsOpTable.
vsfs_close ==
  /\ pc = "idle" /\ inode_reg' = NULL
  /\ \/ fds = <<>> /\ Return /\ UNCHANGED <<sb_cached, fds, tail, history>>
     \/ /\ fds # <<>> /\ Return
        /\ fds' = SubSeq(fds, 1, Len(fds) - 1)
        /\ \/ /\ Len(fds) = 1 /\ sb_cached' = NULL /\ tail' = "valid"
              /\ history' = "alone"
           \/ Len(fds) > 1 /\ tail' = "freed" /\ UNCHANGED <<sb_cached, history>>
  /\ UNCHANGED <<cache, disk>>

----------------------------------------------------------------------------
(* vsfs_write *)

Refused(k, n) ==
  \/ fds[k].flags = "O_RDONLY" \/ sb_cached = NULL \/ fds[k].offset + n > LIMIT

WriteRefused(k, n) ==
  /\ pc = "idle" /\ k \in DOMAIN fds /\ Refused(k, n) /\ Return
  /\ UNCHANGED <<cache, disk, sb_cached, inode_reg, fds, tail, history>>

Needed(k, n) == CeilBlocks(fds[k].offset + n)

Shortage(k, n) == Needed(k, n) - Len(map[fds[k].inode])

\* Mutant: the struct file is not refreshed.
Mut_NotRefreshed(k, n) ==
  \/ /\ Shortage(k, n) >= 0 /\ AllocBlock(fds[k].inode, Shortage(k, n))
     /\ UNCHANGED fds
  \/ Shortage(k, n) < 0 /\ UNCHANGED <<cache, fds>>

\* Blocks are allocated, and the struct file refreshed, if the inode has no more
\* than the write needs.
WriteAlloc(k, n) ==
  \/ /\ Shortage(k, n) >= 0 /\ AllocBlock(fds[k].inode, Shortage(k, n))
     /\ fds' = [fds EXCEPT ![k] = Refreshed(@)]
  \/ Shortage(k, n) < 0 /\ UNCHANGED <<cache, fds>>

vsfs_write(k, n) ==
  /\ pc = "idle" /\ k \in DOMAIN fds /\ ~Refused(k, n)
  /\ \/ /\ WriteAlloc(k, n)
        /\ inode_reg' = sb_cached /\ pc' = "write"
        /\ call' = [fd |-> k, left |-> n]
        /\ UNCHANGED <<disk, sb_cached, tail, history>>
     \/ /\ Shortage(k, n) >= 0
        /\ \/ AllocDies(fds[k].inode, Shortage(k, n))
           \/ AllocStrays(fds[k].inode, Shortage(k, n))

\* Whether an index of struct file names a block: past the end of the allocated
\* array, and where the pointer was never stored, it is any number.
Known(f, i) == i < Len(f.block) /\ f.block[i + 1] # Unset
BlockAt(f, i) == IF Known(f, i) THEN {f.block[i + 1]} ELSE Blocks

\* Mutant: a transfer that starts inside a block starts in the next one.
Mut_IndexRoundedUp(f) == CeilBlocks(f.offset)

Index(f) == f.offset \div BS
Skip(f) == f.offset % BS

Current == fds[call.fd]
Piece == Lowest(BS - Skip(Current), call.left)
Changed(b, data) ==
  [s \in Slots |-> IF s >= Skip(Current) /\ s < Skip(Current) + Piece
                   THEN data[s] ELSE disk[b][s]]

\* One turn of __write_dblock: a whole block is written, a part of one is read,
\* changed and written back.
WriteBlock(data) ==
  /\ pc = "write" /\ call.left > 0 /\ Known(Current, Index(Current))
  /\ LET b == Current.block[Index(Current) + 1]
     IN  disk' = [disk EXCEPT ![b] = Changed(b, data)]
  /\ fds' = [fds EXCEPT ![call.fd].offset = @ + Piece]
  /\ call' = [call EXCEPT !.left = @ - Piece]
  /\ UNCHANGED <<cache, sb_cached, inode_reg, tail, pc, history>>

\* A block number that was never set: any block is written, or none.
WriteStrays ==
  /\ pc = "write" /\ call.left > 0 /\ ~Known(Current, Index(Current))
  /\ GoesAstray

\* Mutant: the size does not wrap to 32 bits.
Mut_SizeNotWrapped ==
  /\ pc = "write" /\ call.left = 0
  /\ size' = [size EXCEPT ![fds[call.fd].inode] = fds[call.fd].offset]
  /\ pc' = "idle" /\ call' = NULL
  /\ UNCHANGED <<map, entry, next_block, next_inode, disk, sb_cached,
                 inode_reg, fds, tail, history>>

\* Mutant: the size is added to.
Mut_SizeAdded ==
  /\ pc = "write" /\ call.left = 0
  /\ size' = [size EXCEPT ![fds[call.fd].inode] = (@ + fds[call.fd].offset) % W]
  /\ pc' = "idle" /\ call' = NULL
  /\ UNCHANGED <<map, entry, next_block, next_inode, disk, sb_cached,
                 inode_reg, fds, tail, history>>

\* The file ends where the write ended, also when it was longer.
WriteEnd ==
  /\ pc = "write" /\ call.left = 0
  /\ size' = [size EXCEPT ![fds[call.fd].inode] = fds[call.fd].offset % W]
  /\ pc' = "idle" /\ call' = NULL
  /\ UNCHANGED <<map, entry, next_block, next_inode, disk, sb_cached,
                 inode_reg, fds, tail, history>>

----------------------------------------------------------------------------
(* vsfs_read *)

ReadRefused(k) ==
  /\ pc = "idle" /\ Return
  /\ k \in DOMAIN fds => fds[k].flags = "O_WRONLY"
  /\ UNCHANGED <<cache, disk, sb_cached, inode_reg, fds, tail, history>>

\* Cells that are read: at most what is left up to the size in struct file, and
\* no more than its block count allows; with the offset beyond the size what is
\* left wraps to a huge number.
Left(f, n) ==
  IF f.size < f.offset THEN BS * f.blocks ELSE Lowest(n, f.size - f.offset)
InBlocks(f) ==
  IF Index(f) < f.blocks THEN BS * f.blocks - f.offset ELSE 0
Readable(f, n) == Lowest(Left(f, n), InBlocks(f))

\* Every block is read to the start of the buffer: the last one stays there.
\* The rest of the buffer is cleared, up to what was asked for.
Buffer(f, n, b) ==
  LET len == Readable(f, n) IN
  [s \in Slots |-> IF s >= len /\ s < len + n - Left(f, n) THEN Zeroed
                   ELSE disk[b][s]]
LastBlock(f, n) == BlockAt(f, (f.offset + Readable(f, n) - 1) \div BS)

AtEnd(f) == f.size = f.offset

\* At the end of the file vsfs_read returns -1, otherwise n.  The access time is
\* stored through inode_reg, which has to be valid.
vsfs_read(k, n) ==
  /\ pc = "idle" /\ k \in DOMAIN fds /\ fds[k].flags # "O_WRONLY" /\ Valid
  /\ \/ AtEnd(fds[k]) /\ UNCHANGED fds
     \/ /\ ~AtEnd(fds[k])
        /\ fds' = [fds EXCEPT ![k].offset = @ + Readable(fds[k], n)]
  /\ Return
  /\ UNCHANGED <<cache, disk, sb_cached, inode_reg, tail, history>>

----------------------------------------------------------------------------
(* vsfs_lseek, vsfs_print_block_nbr *)

\* Without a mapping inode_reg becomes the offset of its field in it.
Repaired ==
  IF inode_reg # NULL THEN inode_reg
  ELSE IF sb_cached = NULL THEN Wild ELSE sb_cached

LseekFails(k) ==
  /\ pc = "idle" /\ Return
  /\ \/ k \notin DOMAIN fds /\ UNCHANGED fds
     \/ k \in DOMAIN fds /\ (UNCHANGED fds \/ \* beyond the limit or the size
          fds' = [fds EXCEPT ![k].offset = fds[k].size]) \* SEEK_END moved it
  /\ inode_reg' = IF fds = <<>> THEN inode_reg ELSE Repaired
  /\ UNCHANGED <<cache, disk, sb_cached, tail, history>>

\* SEEK_SET beyond the size: the blocks missing from the count in struct file
\* are allocated, four billion of them when it counts more than are needed, and
\* the count is raised by the need once more.
Missing(f, offset) ==
  IF CeilBlocks(offset) >= f.blocks THEN CeilBlocks(offset) - f.blocks
  ELSE MAXFILE
Extended(f, offset) ==
  [Refreshed(f) EXCEPT !.blocks = @ + CeilBlocks(offset), !.size = offset,
                       !.offset = offset]

SeekBeyond(k, offset) ==
  /\ pc = "idle" /\ k \in DOMAIN fds
  /\ offset > fds[k].size /\ offset <= W
  /\ inode_reg' = Repaired /\ inode_reg' = sb_cached
  /\ AllocBlock(fds[k].inode, Missing(fds[k], offset))
  /\ fds' = [fds EXCEPT ![k] = Extended(@, offset)]
  /\ Return
  /\ UNCHANGED <<disk, sb_cached, tail, history>>

SeekDies(k, offset) ==
  /\ pc = "idle" /\ k \in DOMAIN fds
  /\ offset > fds[k].size /\ offset <= W /\ Repaired = sb_cached
  /\ \/ AllocDies(fds[k].inode, Missing(fds[k], offset))
     \/ AllocStrays(fds[k].inode, Missing(fds[k], offset))

\* All other seeks that succeed end inside the file.
SeekInside(k, offset) ==
  /\ pc = "idle" /\ k \in DOMAIN fds /\ offset <= fds[k].size
  /\ inode_reg' = Repaired
  /\ fds' = [fds EXCEPT ![k].offset = offset]
  /\ Return
  /\ UNCHANGED <<cache, disk, sb_cached, tail, history>>

vsfs_lseek(k, offset) == SeekInside(k, offset) \/ SeekBeyond(k, offset)

\* Printing the third level ends with inode_reg NULL.
vsfs_print_block_nbr(k) ==
  /\ pc = "idle" /\ k \in DOMAIN fds
  /\ Repaired = sb_cached
  /\ inode_reg' = IF Len(map[fds[k].inode]) > LEVEL2_LIMIT THEN NULL
                  ELSE Repaired
  /\ UNCHANGED <<cache, disk, sb_cached, fds, tail, pc, call, history>>

----------------------------------------------------------------------------
(* A program that makes any calls *)

Flags == {"O_RDONLY", "O_WRONLY", "O_RDWR"}
Fds == 1 .. MaxFds

CallFd(k) ==
  \/ ReadRefused(k) \/ LseekFails(k) \/ vsfs_print_block_nbr(k)
  \/ \E n \in Lengths :
       vsfs_read(k, n) \/ WriteRefused(k, n) \/ vsfs_write(k, n)
  \/ \E offset \in Offsets : vsfs_lseek(k, offset) \/ SeekDies(k, offset)

\* Calls that may or must end the process.  vsfs_write, vsfs_close and
\* vsfs_print_block_nbr use a descriptor they did not find.  creat, open and stat
\* search by an inode_reg whose mapping is gone, open and stat also before the
\* buffer.  vsfs_read, and a vsfs_lseek that allocates, use an inode_reg that
\* vsfs_close or vsfs_print_block_nbr has set to NULL, or that vsfs_creat left
\* without its mapping.  vsfs_read with the offset beyond the size clears more
\* than the buffer.
Faults ==
  /\ pc = "idle"
  /\ \/ Len(fds) < MaxFds
     \/ \E sb \in Mappings : InodeReg(sb) # sb
     \/ ~AllInside
     \/ fds # <<>> /\ ~Valid
     \/ \E k \in DOMAIN fds : fds[k].size < fds[k].offset
  /\ Exit

Call ==
  \/ \E name \in Names, n \in BlockNums : vsfs_creat(name, n) \/ CreatDies(name, n)
  \/ \E name \in Names : vsfs_stat(name)
  \/ \E name \in Names, flags \in Flags : vsfs_open(name, flags)
  \/ vsfs_close \/ Faults \/ StaleHit \/ \E k \in Fds : CallFd(k)

Work == (\E data \in [Slots -> Values] : WriteBlock(data)) \/ WriteStrays \/ WriteEnd

\* A file whose size reaches a pointer that was never stored contains the data
\* of any block, or is none that can be read.
Holes ==
  \E i \in Inodes : \E k \in DOMAIN map[i] :
    map[i][k] = Unset /\ BS * (k - 1) < SizeOf(i, map[i])

Astray == history = "strayed" \/ Holes

Next == ~Astray /\ (Start \/ Exit \/ Call \/ Work)

Spec == Init /\ [][Next]_vars

----------------------------------------------------------------------------
(* Properties *)

OpenFiles ==
  [inode : Inodes, flags : Flags, offset : Nat,
   block : Seq(Pointers), blocks : Nat, size : 0 .. W]

\* Every variable has its type; the write under way stays below its limit.
TypeOK ==
  /\ map \in [Inodes -> Seq(Pointers)] /\ map[Root] \in Seq(Blocks)
  /\ size \in [Inodes -> 0 .. W - 1]
  /\ entry \in Nat /\ next_block \in 1 .. NR_BLOCKS
  /\ next_inode \in 1 .. NR_INODES
  /\ disk \in [Blocks -> [Slots -> Cells]]
  /\ sb_cached \in Addrs \union {NULL}
  /\ inode_reg \in Addrs \union {NULL, Wild}
  /\ fds \in Seq(OpenFiles) /\ Len(fds) <= MaxFds
  /\ tail \in {"valid", "freed"} /\ pc \in {"idle", "write", "gone"}
  /\ call \in [fd : Fds, left : 0 .. LIMIT] \union {NULL}
  /\ history \in {"alone", "shared", "strayed"}

\* A file is never longer than its blocks: not after a write that died, a size
\* that wrapped, a seek, or a descriptor whose copy of the inode is stale.
\* vsfs_read, which trusts the size, would go on for ever.
SizeBacked == \A i \in Inodes \ {Root} : size[i] <= BS * Len(map[i])

IsPrefixOf(s, t) == Len(s) <= Len(t) /\ \A k \in DOMAIN s : s[k] = t[k]

\* The block map of an open file is part of the map of its inode, and all of it
\* as long as no file was open twice: writes of others grow the inode and leave
\* the map behind.
BlockMapsCurrent ==
  \A k \in DOMAIN fds :
    LET f == fds[k] IN
    /\ IsPrefixOf(f.block, map[f.inode])
    /\ history = "alone" => Len(f.block) = Len(map[f.inode])

RangeOf(s) == {s[k] : k \in DOMAIN s}

\* A death has left the inode with pointers that were never stored.
Torn(inode) == Unset \in RangeOf(map[inode])

\* Until the process has a file open twice, a write changes only blocks of its
\* file, and no write goes by a block number that was never set, unless the
\* file is torn.
WritesStayInFile ==
  [][pc = "write" /\ history = "alone" /\ ~Torn(fds[call.fd].inode) =>
       /\ history' # "strayed"
       /\ \A b \in Blocks : disk'[b] # disk[b] =>
            b \in RangeOf(map[fds[call.fd].inode])]_vars

=============================================================================
