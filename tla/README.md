# A verified model of vsfs

vsfs is a small Unix-like file system on an NVMe device, driven from user space
through SPDK (`src/src/inc`, `src/src/ufs`, `src/src/spdkapi`). This directory
holds TLA+ modules of its core, TLC configurations that check them on small
instances, and proofs of the main results for every size, checked by TLAPS.

File names below are relative to `src/src/` of the repository.

## 1. The system

### Parts, state and operations

| part | code | state | operations |
|---|---|---|---|
| mkfs | `ufs/vsfs_init.c` 8-236 | the device | superblock, inode bitmap, inode region, data bitmap, root directory, written in this order at a running block count |
| mount, unmount | `ufs/vsfs_init.c` 238-483 | device, shared memory `<name>_cached`, transfer buffers | mount copies superblock, bitmaps and inode region into shared memory and zeroes the open file table; unmount copies them out and writes them back |
| free bitmaps | `inc/vsfs_bitmap.h` | bitmaps and free counters in shared memory | `get_free_inode`, `get_free_dblock`, `put_inode`, `put_dblock` (never called) |
| block allocation | `inc/vsfsio_spdk.h` 86-223 | `blocks`, `l1[49]`, `l2[5]`, `l3[1]` of an inode; pointer blocks on the device; two DMA buffers | `__alloc_block` continues at level 1, 2 or 3 |
| directory | `inc/vsfsio_spdk.h` 248-418 | inode 0, its data blocks on the device | `vsfs_creat`; there is no unlink |
| open file table | `inc/vsfsio_spdk.h` 424-803 | `optab` in shared memory: counter and 341 entries; descriptor list and `file_t` heap of each process | `vsfs_open`, `vsfs_close` |
| file I/O | `inc/vsfsio_spdk.h` 1129-1542 | table entry (offset, cached block map), inode size, data blocks | `vsfs_write`, `vsfs_read`, `vsfs_lseek` |
| lookup, statistics | `inc/vsfsio_spdk.h` 812-1007, 1544-1618 | copies of the inode | `vsfs_stat`, `vsfs_get_inode_info`, `vsfs_print_block_nbr` |
| shared memory helpers | `inc/vsfs_shmfunc.h` | pointers of the process into mappings | `shm_oandm`, `shm_close` |
| SPDK layer | `spdkapi/spdk.c` | two queue pairs, completion flags on the stack of the caller | `init_spdk`, `read_spdk`, `write_spdk`, `trim_spdk`, `exit_spdk`, `get_device_info` |
| shell | `ufs/ufs_sh.c` | one process, one call at a time | mkfs, mount, unmount, create, read, write, ls |
| shared-memory variant | `inc/vsfsio.h`, `shm/shm_mkfs.c`, `shm/shm_mount.c`, `shm/shm_unlink.c` | the device itself in shared memory, a cache of the bitmaps, the open file table | the same operations, earlier code, on the inode itself |
| earlier copies | `spdkapi/*vsfsio_spdk.h`, `spdkapi/*vsfs_init.c`; `mkfs.vsfs.c`, `mount_spdk.c` | - | near-duplicates |
| tests, benchmarks | `test/`, `spdkapi/test*.c`, `spdkapi/myfio.c` | - | programs that call the library |

### How they interact

mkfs, mount and unmount are commands that run as processes of their own; the
shell maps what mount left in shared memory. Between mount and unmount the
bitmaps and the inode region change only in shared memory, while pointer blocks,
directory blocks and file data go straight to the device. Nothing is locked: the
entries of the table carry a `lock` field that is set to 0 and never read.
Shared memory outlives every process and is not removed by unmount; it is lost
with the power. Every transfer is submitted and then polled to completion; its
status is not looked at. A process reaches the cache through two global
pointers, `sb_cached` and `inode_reg`, which every call repairs or borrows in
its own way, and a file through a copy of its inode in the table entry.

### What is hard

- *Failure.* Inodes and bitmaps are in shared memory, pointers to them partly in
  a private DMA buffer, names on the device: a death at any point leaves a
  different combination. unmount writes three regions of many blocks without a
  journal. A transfer that failed looks like one that was done.
- *Ordering.* unmount may run beside a call of the shell; the order in which it
  copies and writes the regions is all that protects the device. The device
  answers in any order, and trims are not waited for.
- *Concurrency.* Processes share bitmaps and the open file table without locks;
  close moves entries other descriptors point to.
- *Stale state.* Descriptors of one file have copies of its block map, block
  count and size that only the descriptor that allocates refreshes; `inode_reg`
  outlives its mapping.
- *Boundaries.* Three pointer levels entered anywhere, a directory that grows, a
  bitmap longer than the data region, sizes and block counts cut to 32 bits,
  start blocks to 16, unsigned differences.
- *Liveness.* Polling without limit; a read loop that ends only when the offset
  meets the size exactly.

The list with the line where each of these bites is under `hazards` in
`PROJECT.json`, with the properties that cover it.

### What makes each part correct

- mkfs: every region lies where the superblock says; the regions tile the device.
- allocation: no block serves twice, no pointer names a free block, growing
  never moves a block, nothing is overwritten by a pointer block.
- directory: an entry is where a lookup reads; a name belongs to one used inode.
- open file table: the counter accounts for every entry and stays in the table;
  a descriptor names its file; close returns.
- mount, unmount: at every moment the bitmap on the device covers the inodes
  there; an undisturbed unmount saves the cache; nothing saved is lost.
- file I/O: no file is longer than its blocks; a write changes its own file only;
  all calls together are a store of named files.
- shell: `read` prints the file, commands come back to the prompt.
- SPDK layer: a device of atomic blocks; a transfer returns, and nothing of it
  completes after it has returned.

## 2. The modules

| module | what it is | uses |
|---|---|---|
| `VsfsAlloc` | bitmap, pointer tree, growth of files and directory | |
| `VsfsOpTable` | `vsfs_open` and `vsfs_close`, step by step, several processes | |
| `VsfsMkfs` | layout and placement | |
| `VsfsMount` | mkfs, mount, unmount, the shell beside them | |
| `BlockDevice` | abstract: a device of atomic blocks | |
| `SpdkIo` | submission, polling, completion | implements `BlockDevice` |
| `FileStore` | abstract: named files | |
| `VsfsFile` | all calls of the library, one process after the other | |
| `UfsShell` | the shell's commands and other programs, composed | extends `VsfsFile`, implements `FileStore` |
| `VsfsShm` | the shared-memory variant and its tools | implements `FileStore` |

`...MC` modules hold instances and bounds, `..._proofs` the theorems.

### VsfsAlloc: bitmap, pointer tree, directory growth

| state | code |
|---|---|
| `dbitmap`, `ibitmap` | the bits of the cached bitmaps that are 1 (free) |
| `entry`, `blocks`, `l1`, `l2`, `l3` | the cached inode region |
| `disk` | every data block, read as a pointer block |
| `ptr_reg`, `l3_ptr_reg`, `i`, `j`, `count_down`, `pc` | buffers, loop counters and place of the running `__alloc_block` |
| `torn`, `abandoned`, `misplaced` | history: inodes whose allocation died, level-3 roots replaced, inodes whose entry went elsewhere |

One step takes at most one block or does at most one transfer. `Crash` may come
between any two: shared memory and device stay, buffers and call are gone. It
also stands for the scan of an exhausted bitmap, which leaves the mapping. Taking
a block is several stores: `CrashTaking` is a death with the bit cleared and the
pointer not stored, or stored in level 1 and not counted; `CrashEntry` one with
the directory entry written and not counted. The counter `nr_free_dblock`, lowered
after the bit is cleared, is left out: it is only printed.

`get_free_dblock` passes the number of data blocks times 4096 as the length of the
bitmap. `ScanBits` is that length in bits, cut to 32 bits of bytes. As a rule it is
longer than the bitmap: the scan finds the bits behind the data region (finding of
`alloc_region`). If the number of data blocks is a multiple of 2^20 or a little above one,
it is shorter (`ScanShort`): the scan returns 0, which callers store as a
block, although the comment at `inc/vsfs_bitmap.h` 36 calls it an error value: block 0,
the root directory's, then goes into files, and no property of the trees holds.
`RegionAssumption` of `VsfsAllocMC`, under which the properties are checked and proved,
excludes such devices. The
callers are `CreatTakeInode`, `CreatGrowDir`, `CreatAddEntry` (`vsfs_creat`) and
`Grow` (`vsfs_write`, `vsfs_lseek`, which ask for at most `MaxNeed` blocks; the
unsigned underflow of `vsfs_lseek` is in VsfsFile). `BlockOf` reads the tree the
way `vsfs_get_inode_info` does. What directory blocks hold is data; an entry
written into a wrong block replaces the pointer at its place.

### VsfsOpTable: vsfs_open and vsfs_close on the shared table

Each process is a program counter over the steps that touch the shared table:
append a node, test the limit, fill the entry, take its address, raise the
counter; unlink a node, free the `file_t`, drop the reference, move the last
entry, lower the counter. `(*op_counter)++` and `--` are plain increments of
shared memory. With `AtomicCount` they are one step (one instruction, processes
on one core); without it a load and a store. The descriptor list is the set of
its nodes; `dangling` holds the processes whose `tail` was freed. `Fault` is a
memory error the code makes itself (following the NULL at the end of the list,
freeing what is not there), `Killed` a death from outside, `Remount` the table
zeroed by the next mount. Filling and copying an entry are one step each, so
with several processes only the counter is checked and not what an entry holds.

`LIFO` restricts callers to what `test/testopen.c` does: close the newest
descriptor first and all before opening again.

### VsfsMkfs: layout and placement

`write_superblock` computes offsets and lengths; the writers place the regions
by the running count `lba_cnt`. The module has both, so that their agreement is
a property and not an assumption. A submission may fail, mkfs may be killed
between any two writes, and it may be run again on what is left. A write beyond
the end of the device is lost silently.

### VsfsMount: device, cache and commands

| state | code |
|---|---|
| `d_ibitmap`, `d_dbitmap`, `d_iregion`, `d_entry`, `slots` | the regions and the directory block on the device |
| `c_*`, `shm` | the cache in shared memory |
| `b_*` | the buffers of the running command |
| `command`, `left` | its place, and the inodes or blocks it has still to copy or to write |
| `shell`, `ino`, `taken` | the shell's call, the block taken off the bitmap and not stored yet |
| `mixed`, `saved` | history: where halves of two states met; that an unmount copied, or wrote, the cache as it is |

mkfs, mount and unmount go region by region in the order of the code. Copies of
memory go inode by inode and block by block, transfers block by block, in any
order, and `CommandDies` or `PowerLoss` can come between any two; the shell's
calls (`vsfs_creat`, and growth of a file) run beside an unmount. Taken as given:

- mount is given while the shell is idle. mount copies over the live cache, and
  a block taken during the copy would be given back by it.
- The device does the writes it accepts, in the order they were given.
- Files stay within their direct pointers and names within one directory block;
  deeper trees are VsfsAlloc's.

### SpdkIo and BlockDevice: the device layer

| state | code |
|---|---|
| `qpair`, `type` | `target.qpair[]` of each process, and the one its call polls |
| `in_flight` | commands submitted on a queue pair, with the blocks still to move (`todo`) and the answer (`status`) |
| `buffer`, `disk` | the DMA buffer of each process, the device |
| `pc` | attached or not, in the poll loop or not |

`Submit` takes the lowest free request of the queue pair's pool. The device
(`MoveBlock`, `Succeed`, `FailRequest`, `Abort`) serves requests of all queues in
any order, block by block, and may report an error after any part of them.
`Poll` is one turn of the loop that finds something finished: all callbacks of
the queue run, `io_complete` ends the loop whatever the status, `trim_complete`
does not. Processes die in mid-transfer; what they had in flight is done or
dropped. The SPDK library itself is external and modelled by what `spdk.c` uses.

`BlockDevice` has `Begin`, `Move` (one block, atomically), `Fail` and `End`; a
transfer ends with blocks missing only after `Fail`. The refinement maps
requests to transfers by forgetting queues and pools, and trims to the set of
blocks that may still be zeroed at any time.

### VsfsFile, FileStore, UfsShell: the calls, the store, the shell

| state of VsfsFile | code |
|---|---|
| `map`, `size`, `entry`, `next_block`, `next_inode` | inode region, pointer blocks and bitmaps; nothing gives a block or inode back, so a bitmap is its first free bit; a pointer the device never got is `Unset` |
| `disk` | the data region, in cells, `BS` to a block |
| `sb_cached`, `inode_reg` | the two pointers; an address is where a mapping is or was |
| `fds` | descriptors with their `file_t`: offset, flags, copied block map, block count and size |
| `tail` | whether the list's tail was freed by a close |
| `pc`, `call` | the write under way, the only call split into steps |
| `history` | `"shared"`: the process opened a file twice; `"strayed"`: it used a block number or an inode address that is wrong |

Every call has the code's refusals, its effect on pointers and its faults
(`Faults`: the process dies), the search of `vsfs_open` that looks before its buffer
(`Lookup`), the unsigned difference of `vsfs_lseek` (`Missing`), the limit of a
write that the macro mis-expands (`LIMIT`), the size that wraps (`W`). Cell by
cell, `vsfs_read` puts every block at the start of the buffer.

*Deaths inside a call.* `vsfs_write` is split between its block transfers.
A death inside `__alloc_block` or `vsfs_creat`, the scan of an exhausted bitmap
included, is one step to any state it can leave: `AllocDies` leaves `m` blocks
counted, of which the last ones past level 1 have no pointer on the device
(`Partly`: counted at line 156 or 206, written at 158, 208 or 212), and perhaps one
more taken; `CreatDies` leaves the inode taken, the directory grown or not, the
entry written, counted or neither, and the file's blocks in such a state. The next
program reads those pointers like any others.

*Where the model ends.* A step that writes to a block or an inode it does not
mean can change anything, and the model has no state for that: `history` becomes
`"strayed"` and nothing follows (`GoesAstray`). There are three such steps.
`WriteStrays`: a write by an index behind its descriptor's block map, or
by a pointer that is `Unset`. `AllocStrays`: an allocation that goes on in level 3
of a file whose root lacks the number of the pointer block. `StaleHit`: a call that
uses `inode_reg` of an earlier mapping where the new one overlaps it. The model
also ends where the size of a file reaches an `Unset` pointer (`Holes`): its
contents are then whatever block the pointer names. `Astray` is all of these.

`UfsShell` adds the shell's position (`cmd`) and what `read` printed, and runs
the shell and any other program (`OtherNext`: any calls in any order, as tests
and benchmarks make them) one after the other on the same cache, dying anywhere.
What programs write may contain zeros; what `cmd_write` writes is a block of zeros
with a shorter text at its start (`TextBlocks`). `cmd_read` prints each block up to
its first zero, and where there is none `printf` runs on behind the buffer
(`runs_on` of `Text`; what it prints there, or that it faults, is open).

`FileStore` is what the users of such a library count on: `Create`, `Overwrite`
(one block of one file), `Resize` (the end moves, the rest stays), and `Break`.
UfsShell implements it with the store's state computed from the code's: it is
sound while the directory's blocks are the first of the device (`InPlace`) and the
model has not ended. So the refinement lists what can damage names or files:

1. a directory block that is not at its index, so that `vsfs_creat` takes an index
   for a block number (finding of `alloc_entry`);
2. a write by a stale block map (a file that the process has open twice);
3. the use of a file that a death in an allocation left with pointers never
   stored: a write through them, a seek or write that makes the size reach them, or
   an allocation that goes on in its level 3. One more case needs no further
   call: an empty file of exactly 2^20 blocks counts as 2^32 bytes long, so such a
   file is damaged by the death itself;
4. an `inode_reg` left from an earlier mapping that hits the new one elsewhere.

Everything else, deaths in mid-call included, loses at most what was being done.
Taken as given: transfers succeed (SpdkIo shows what happens otherwise), one
process runs at a time, the cache is not mounted anew, and the device is not one
with a short scan (`ScanShort` of VsfsAlloc).

Left out: programs that open `.` or `..` and write to the directory; names, times
and modes; a mount under open files (VsfsMount has it without descriptors).

### VsfsShm: the shared-memory variant

The same calls on the inode itself: no copies of block maps, no pointer pairs,
but other edges: the start block of a write in 16 bits (`WRAP`), a failed open
that frees the descriptor list and keeps it (`table = "freed"`), a creat that
ends with the cache pointer NULL, an inode number 0 when inodes run out. The
tools run when no program does, and each may die between its parts
(`shm_mkfs(parts)`, `shm_unlink(parts)`); an object without its superblock counts
as none. `shm_mount` copies the bitmaps as mkfs made them over a live cache.

`inc/vsfs_bitmap.h` 17-22 lays out the cache with the inodes between the two
bitmaps, which `shm_mount.c` does not: `get_free_dblock` reads and writes memory
of no known content. The model takes the outcomes apart: either the calls return
free blocks in ascending order, which ones is open (`FreeBlocks`), or anything
may happen and nothing is known any more (`luck = "bad"`). Uses of freed
descriptors end there too. The newest descriptor is closed only; other orders are
VsfsOpTable's. The store's `state` is sound while the directory is in place, luck
holds and no tool ran over files (`history`).

## 3. What the runs check

| run | instance | shows |
|---|---|---|
| `alloc_tree` | 4 inodes, levels of 2, 2 and 4 blocks, bitmap of 11 bits, directory of two blocks, deaths anywhere | `TreesDisjoint`, `DirectPointersExclusive`, `NoPointerToFree`, `BlocksNeverMove`, `PointerWritesHarmless`, also when entries land in other files' blocks and deaths come between bit, pointer and count; `BlocksAccountedFor`: without a death nothing leaks but level-3 roots |
| `alloc_region` (violated) | 3 inodes, region of 12 blocks, 14 bits, no deaths | `BlocksInDataRegion`: blocks past the data region are handed out |
| `alloc_entry` (violated) | 4 inodes, region of 6 blocks, no deaths | `EntryWhereLookupReads`: entries miss the directory once a file has a block |
| `optab_count` | 2 processes with deaths and failures on 2 entries; or 1 orderly process on 3, split counter updates | `CountExact`, `OvershootBounded`; for the orderly process `SoundWhenAlone`, `ReturnsWhenAlone` |
| `optab_names` (violated) | 1 process, any order | `DescriptorNamesItsFile`: the moved entry |
| `optab_close` (violated) | 1 process, three descriptors | `CloseReturns`: the middle one kills the process |
| `mkfs_layout` | devices of 1 to 20 blocks | `RegionsTile`, `FormattedAsDeclared` |
| `mkfs_device` (violated) | the same | `LayoutOnDevice`: bytes taken for blocks |
| `mount_crash` | 2 files, 3 data blocks, regions of two blocks, unmount beside the shell | `BitmapCoversDevice`, `BitmapCoversCache`, `OneOwner`; `NamesSound`, `UnmountSaves`, `DeviceOnlyGrows` where the history variables say nothing interfered |
| `spdk_io` | 2 processes, 2 queues, 2 blocks, pools of 2 | `NoLateCompletion`; `Implements` (BlockDevice); `TransferReturns` under fairness |
| `ufs_shell` | blocks of 2 cells, 6 blocks, 4 inodes, 3 names, 5 calls | `SizeBacked`, `BlockMapsCurrent`, `ReadPrintsFile`, `WritesStayInFile`; `Implements` (FileStore); `CommandReturns` under fairness |
| `shm_files` | blocks of 2 cells, 5 blocks, 4 inodes, 5 calls, 3 tools | `SizeBacked`, `WritesLandInPlace`; `Implements` (FileStore) |

The violated runs are disagreements between code and its comments or headers;
`findings` in `PROJECT.json` quotes them.

*Why the bounds are enough.* Each level of the pointer tree has at least two
pointers and at least one boundary to its neighbour, so every "first, inner,
last" position and every pair of adjacent levels occurs, and `MaxNeed` lets one
call cross two boundaries. Bitmaps are one or two bits longer than the data
region and small enough to be exhausted; `alloc_tree` keeps four blocks free
once all inodes are used (`SpareBlocks`), the other files see the device used up;
deaths inside an allocation hit one inode, any number of times (`MaxTorn` = 1).
The table of descriptors is filled, overshot and drained. Devices range from too
small to several bitmap blocks and past the wrap of the block count (`WORD` =
32). Every transfer of VsfsMount has two blocks and can be cut; two files compete
for two blocks.

`spdk_io`: the first process makes every call on both queues, the second reads
and writes block 0, so their transfers overlap; one trim is under way at a time,
and with a transfer it fills the pool of its queue.

`ufs_shell`: `BS` = 2, so that cells of one block are told apart; `W` = 6, so
that a size wraps after three blocks; `LIMIT` = 7, one cell above `W`, as the code's
limit is above 2^32; `MAXFILE` = 4, one block more than `W` has; level 1 of one
block, with level 2 empty (`LEVEL2_LIMIT` = 1) so that a file of two blocks already
has its second pointer in a level that deaths can tear and level-3 allocations
stray in; one `Dots`
entry, so that the third file fills the directory's first block; 6 blocks, which
run out. `MaxCalls` = 5 commands or calls are enough for create, open, seek beyond,
write and a read, for two descriptors of a file, or for a death in an allocation
(which counts two) and the use of what it left. Names are given out in order
and the first mapping of a process is at the first address, both without loss.
Descriptors opened after the first call are read-write; zeros are written only by
the shell, behind its text.

`shm_files`: the same with `WRAP` = 2 and `LEVEL1` = 1, so that one file of three
blocks is in level 1, beyond it and past the 16 bits; `LIMIT` = 6; `MaxTools` = 3:
mkfs, mount and one more that hits a live object.

*Symmetry* is used in `optab_count` only, where the processes are
interchangeable. *Deadlock* is not checked for VsfsAlloc, where the bitmap or
the inodes run out and no operation gives one back; for `spdk_io`, where every
process may have ended; for VsfsShm, where nothing follows undefined behaviour.
Everywhere else it is.

*Fairness.* `SpdkIo` assumes that a process in the poll loop polls
(`WF(Poll)`: the loop of `read_spdk` and `write_spdk` does nothing else) and that
the device goes on with a transfer it accepted (`WF(ServeTransfer)`: NVMe devices
answer every command, if with an error, and the driver resets one that does not).
Nothing is assumed of trims or of other processes. `UfsShell` assumes
`WF(InCommand)`: the shell is one thread and goes on within a command. `InCommand`
has the steps between two inputs of the user; `WriteCall`, which waits in `scanf` for
the text (`ufs/ufs_sh.c` 151), is not one of them, and `CommandReturns` speaks of
commands that are not waiting there. That reading comes to an end is then a property
of the code, since a turn of the loop may leave the offset where it was. Other
programs, tools and users of the shell need never do anything.

*Mutants.* For each property of a passing run there is a mutated definition
(`Mut_...`, next to the one it replaces) under which TLC finds it violated: a
dropped guard, a missing write, an order exchanged.

## 4. What is proved

Each `*_proofs` module proves `Init => IInv`, `IInv /\ [Next]_vars => IInv'` and
`IInv => property` for every value of the constants under the module's named
assumptions.

- **VsfsAlloc_proofs**: `TypeCorrect`, `NoPointerToFreeBlock`,
  `DirectPointersAreExclusive`, `TreesKeepShape`, `TreesAreDisjoint`, `BlocksStay`,
  `WritesAreHarmless`, `AllBlocksAccountedFor`, for every device that
  `RegionAssumption` admits. `TypeOK` is not
  inductive: that the block count stays below the last level needs to know where
  in the tree the loop counters stand. `IInv` adds, for each place of
  `__alloc_block`, the equation between `blocks`, `i`, `j` and `count_down`, and
  that the blocks still to come fit. The second theorem needs only that a bit is
  cleared before its block number is stored, and that nothing sets one.
  The theorems about trees must hold while a call is between reading a pointer
  block and writing it back, so their invariant speaks of what blocks hold through
  the call's buffers (`Mem`). `Unique`: no two places, in inodes, on the device or
  in the buffers, hold the same block. `Written`: a file that no death tore has a
  block behind every pointer its count covers. `Faithful`: what the file had before
  the call is in the buffers as it is on the device. `Progress`, `Fresh` and
  `Stored` say how far the call is, that `vsfs_creat` fills an empty inode, and
  which pointers of the inode are there. All of this is claimed until a directory
  block is misplaced (finding of `alloc_entry`). `Accounted` is the same tree read
  from the side of the blocks; it needs the ghost set `abandoned`, the level-3
  roots that the code overwrites. A death inside a step (`CrashTaking`) is reduced by
  lemmas to what it leaves of the invariant: a block no pointer names, or one
  behind a pointer that no count covers.
- **VsfsOpTable_proofs**: `TypeCorrect`, `CountIsExact`, `OvershootIsBounded`,
  for any number of processes, under `AtomicCount`
  (without it they are false for two). `CountExact` alone does not bound the counter; `IInv` adds the
  overshoot bound, which counts the opens between limit test and increment, and
  that no call is between a load and a store. The proofs rest on lemmas about
  the cardinality of a set of processes when one of them moves.
  `OrderlyKeepsDescriptors` and `OrderlyNeverFaults` need no such assumption: they
  are about a process alone that closes its newest descriptor first. Their
  invariant `AloneInv` says that its descriptors stand on top of each other in the
  table (`Stacked`) from a base that earlier processes, dead without closing, left
  behind, and what the open or close under way has already done to the top.
- **VsfsMkfs_proofs**: `TypeCorrect`, `LayoutTiles`, `MkfsPutsRegions`. `IInv`
  says which count belongs to which place in the code and that every block below
  the count holds what the layout announces for it. The arithmetic of the
  layout (ceiling division, products) is in lemmas of its own.
- **VsfsMount_proofs**: `TypeCorrect`, `DeviceCovered`, `CacheCovered`,
  `BlocksHaveOneOwner`, `UnmountIsComplete`, `NamesAreSound`, `DeviceNeverShrinks`,
  for any number of inodes and blocks and any sharing of
  region blocks between them. `IInv` adds the buffers of the command: the bitmap
  in shared memory covers the inodes on the device, in the cache and in the
  buffers, since bits only leave it while an unmount copies; for each stage of a
  copy or transfer, what the parts done have in common (`PartsDone`); and that
  the block a call has taken is nobody's. The order of copies and writes in
  unmount and of the two clears in mkfs is exactly what the steps use. For an
  unmount that was not disturbed, `SavedParts` says which parts of the buffers and
  of the device are already those of the cache. `NInv` has the soundness of names
  for device, cache and buffers, with what a copy in parts has so far.
- **SpdkIo_proofs**: `TypeCorrect`, `NoCompletionIsLate`, `LayerIsBlockDevice`,
  for any device, any number of processes, queues and pool entries. The last is
  the refinement of `BlockDevice`, step by step: initial states map to initial
  states and each action of SpdkIo to one of the device or to a stutter. It needs
  that a process has at most one transfer in flight, or else two requests of a
  process might map to the same transfer; that is `NoLateCompletion`, which is
  inductive together with the types.
- **VsfsFile_proofs**: `TypeCorrect`, `SizeIsBacked`, `BlockMapsAreCurrent`,
  `WritesStay`, for any block size, limits, numbers and programs. A size is
  backed because the write under way fits the blocks of its inode from its
  allocation on (`WriteFits`), and fits until it ends because nothing takes
  blocks away from an inode a descriptor names: `vsfs_creat` gives blocks to the
  next free inode only, and entries and descriptors name older ones
  (`EntriesOlder`, `FilesOlder`). A copied map is a prefix of its inode's; that
  it is all of it needs that the process has every file open once (`Alone`). The
  pointers of a torn file that were never stored are `Unset` entries of its map:
  the first three theorems hold for such files too, `WritesStay` leaves them out.
- **UfsShell_proofs**: `ShellSizeIsBacked`, `ShellBlockMapsAreCurrent`,
  `ShellWritesStay`: every step of the shell and of other programs is a step of
  VsfsFile or leaves its variables, so the composition inherits its theorems.
  `ReadCommandPrintsFile` rests on `Session`: while the command runs, its one
  descriptor's copy is fresh and what was printed is, text by text, the file as
  far as the offset; it needs no assumption about zeros in the file. `ShellImplementsStore` is the refinement of `FileStore`. It needs that a
  block has one place in one inode (`BlocksDistinct`), so that a write reaches one
  cell of one file, and that no two entries share a name or an inode (`NamesOnce`).
  Each step is first shown to be one of the five things a call does to the cells
  (`Storage`: nothing, one block, the end of a write, more blocks for an inode, a
  new entry; a death in a call is one of the last two), then each of those to be a step of the store or a stutter.
- **VsfsShm_proofs**: `TypeCorrect`, `SizesBacked`, `WritesLand`,
  `ShmImplementsStore`, for any block size, limits and pointer levels, all tools and deaths included. Here too the
  write under way fits its inode (`Fits`): the blocks that are missing are
  granted, or the inode has all the levels can name, which reach the limit. That
  a write lands where its offset says rests on `StartMatches`: the 16-bit start
  block is the block of the offset as long as it counts, and each turn that does
  not end the write ends a block. The quotient and ceiling facts are lemmas.
  The refinement of `FileStore` needs besides that a start block that did wrap is
  still a block of the same file (`StartBelow`), that a block has one place
  (`BlocksDistinct`), and what the directory promises while no defect has struck
  (`Kept`).

The assumptions on constants say no more than the macros do: block size and
widths are positive, the levels reach the limit (`BS * MAXFILE >= LIMIT`), the
limit is at least 2^32, the directory's blocks are within the levels, and 2^32 is a
whole number of blocks (4096 divides it). `RegionAssumption` of VsfsAllocMC: the scan of the bitmap does not end inside it. Two
are about contents. `DataAssumption` of VsfsFile: no cell a program writes is taken
for a directory entry, and `Unset` is no block number. `JunkAssumption` of VsfsShm: what a cell of a new device holds is not taken for an
entry, which keeps the model values for the two apart.

Only model-checked: `TransferReturns` and `CommandReturns`, liveness under fairness,
out of the prover's reach. Every other property of a passing run is stated by a
theorem. No recursive definition occurs.

## 5. What is not modelled, and why

- The earlier copies in `spdkapi/` (`__vsfsio_spdk.h`, `vsfsio_spdk.h`,
  `vsfs_init.c`, `__vsfs_init.c`): they differ from `inc/vsfsio_spdk.h` and
  `ufs/vsfs_init.c` in buffers and messages, and the current code is modelled.
- `mkfs.vsfs.c` and `mount_spdk.c`: built by nothing.
- What tests and benchmarks measure and print; the calls they make are
  `OtherNext` of UfsShell and the descriptor discipline of VsfsOpTable.
- Several processes on the bitmaps: they are not locked and two processes can
  take the same block at once; the shell is one process. UfsShell and VsfsShm
  run processes one after the other; VsfsOpTable has them interleaved.
- What callers do with a stale buffer after a transfer that failed silently:
  SpdkIo shows that it happens and only then; the other modules assume accepted
  transfers are done.
- Two processes with an unlocked counter in two steps: `CountExact` is false then
  (`AtomicCount`).
- The free counters: `get_free_dblock` lowers them in a store of its own after the
  bit is cleared, so a death in between leaves them wrong for ever, unmount does not
  write them back, and nothing but the `p` command reads them.
- What a stray write changes: the model ends there (section 2).
- Devices whose bitmap scan ends too soon (`ScanShort`): VsfsAlloc has the behaviour, no
  run or theorem is about them.
- A mount under open files: VsfsFile has no mount, VsfsMount no descriptors.
- Names, times and modes; what `ls`, `p`, `pwd` and `help` print.

## 6. Plan

All modules of the plan are written, and every invariant, action property and
refinement that a passing run checks is proved. What could follow:

1. VsfsMount: what holds of names after every failure, the mixed states included,
   which `NamesSound` leaves out.
2. VsfsMkfs, UfsShell: a variant for the loops of mkfs and of `read`, a quantity
   each turn lowers, as an action property: the part of termination that is
   within the prover's reach.
3. A mount under open files: VsfsFile with the mount of VsfsMount.

## 7. Running it

    tlc -config VsfsAlloc_tree.cfg VsfsAllocMC.tla
    tlapm VsfsAlloc_proofs.tla

Every run takes from a few seconds to a few minutes with two workers.
