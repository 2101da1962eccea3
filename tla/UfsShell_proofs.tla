--------------------------- MODULE UfsShell_proofs ---------------------------
(***************************************************************************)
(* What VsfsFile_proofs shows of a process that makes any calls holds of   *)
(* the shell and the programs that run between its runs: every step of     *)
(* theirs is a call of the library, a step inside vsfs_write or the death  *)
(* of the process, and preserves the invariant of VsfsFile.                *)
(*                                                                         *)
(* cmd_read prints the file it opened: within a command the process has    *)
(* one descriptor, its copy of the inode is fresh, and the blocks up to    *)
(* the offset are printed (Session).                                       *)
(*                                                                         *)
(* Shell and programs implement FileStore.  What they do to cache and disk *)
(* is one of a few kinds of step (Storage), a death in the middle of a     *)
(* call included.  No stored pointer is in two places of the pointer trees *)
(* (BlocksDistinct), so a write to a file changes no other file and no     *)
(* entry, and a new entry falls on no other; no name and no inode has two  *)
(* entries (NamesOnce), so the file of a name is one.                      *)
(***************************************************************************)
EXTENDS UfsShell, VsfsFile_proofs

USE Numbers

\* The first descriptor, which the commands use, is one of those allowed.
LEMMA FirstFd == ASSUME IInv, 1 \in DOMAIN fds PROVE 1 \in Fds
<1>1. fds \in Seq(OpenFiles) /\ Len(fds) <= MaxFds
  BY DEF IInv, FilesOK, FdsType
<1>2. 1 \in 1 .. Len(fds) /\ Len(fds) \in Nat
  BY <1>1, LenProperties
<1> QED BY <1>1, <1>2, Numbers DEF Fds

\* A text is data, and a turn inside the write of the shell is one of any write.
LEMMA WriteWorkIsWork == ASSUME WriteWork PROVE Work
BY DEF WriteWork, Work, TextBlocks

LEMMA WorkInv == ASSUME IInv, Work PROVE IInv'
<1>1. CASE WriteStrays
  BY <1>1, AstrayInv DEF WriteStrays
<1> QED BY <1>1, WriteBlockInv, WriteEndInv DEF Work

LEMMA CommandInv == ASSUME IInv, InCommand PROVE IInv'
<1>1. CASE SeekStart
  <2>1. SeekInside(1, 0) /\ 1 \in DOMAIN fds
    BY <1>1 DEF SeekStart, SeekInside
  <2>2. 1 \in Fds /\ 0 \in Nat
    BY <2>1, FirstFd
  <2> QED BY ONLY IInv, <2>1, <2>2, SeekInsideInv
<1>2. CASE ReadLoop
  <2>1. vsfs_read(1, BS) /\ 1 \in DOMAIN fds
    BY <1>2 DEF ReadLoop, vsfs_read
  <2>2. 1 \in Fds /\ BS \in Nat
    BY <2>1, FirstFd, Numbers
  <2> QED BY ONLY IInv, <2>1, <2>2, ReadInv
<1>3. CASE CloseFile
  BY <1>3, CloseInv DEF CloseFile
<1>4. CASE WriteWork
  BY <1>4, WriteWorkIsWork, WorkInv
<1> QED BY <1>1, <1>2, <1>3, <1>4 DEF InCommand

LEMMA WriteCallInv == ASSUME IInv, WriteCall PROVE IInv'
<1>1. vsfs_write(1, BS) /\ 1 \in DOMAIN fds
  BY DEF WriteCall, vsfs_write
<1>2. 1 \in Fds /\ BS \in Nat
  BY <1>1, FirstFd, Numbers
<1> QED BY ONLY IInv, <1>1, <1>2, WriteInv

LEMMA ShellStepInv ==
  ASSUME IInv, [ShellNext \/ OtherNext]_svars
  PROVE  IInv'
<1>1. CASE env_init \/ OtherProgram
  BY <1>1, StartInv DEF env_init, OtherProgram
<1>2. CASE Quit
  BY <1>2, ExitInv DEF Quit
<1>3. CASE CreateDone \/ UNCHANGED svars
  BY <1>3, StutterInv DEF CreateDone, svars
<1>4. CASE StaleCommand
  BY <1>4, AstrayInv DEF StaleCommand, StaleHit
<1>5. CASE WriteCall \/ InCommand
  BY <1>5, WriteCallInv, CommandInv
<1>6. ASSUME NEW name \in Names, cmd_create(name)
      PROVE  IInv'
  <2>1. vsfs_creat(name, 0) \/ CreatDies(name, 0)
    BY <1>6 DEF cmd_create
  <2>2. 0 \in 0 .. MAXFILE
    BY Numbers
  <2> QED BY ONLY IInv, <1>6, <2>1, <2>2, CreatInv, CreatDiesInv
<1>7. ASSUME NEW name \in Names, OpenFor(name, "seek") \/ OpenFor(name, "write")
      PROVE  IInv'
  <2>1. vsfs_open(name, "O_RDWR") /\ "O_RDWR" \in Flags
    BY <1>7 DEF OpenFor, Flags
  <2> QED BY <2>1, OpenInv
<1>8. CASE ~Astray /\ cmd = "other" /\ (Call \/ Work) /\ Then("other")
  BY <1>8, NextInv DEF Next
<1> QED BY <1>1, <1>2, <1>3, <1>4, <1>5, <1>6, <1>7, <1>8 DEF ShellNext, OtherNext

LEMMA ShellInvariant == ShellSpec => []IInv
<1>1. ShellInit => IInv
  BY InitInv DEF ShellInit
<1> QED BY <1>1, ShellStepInv, PTL DEF ShellSpec

\* Whatever sequence of shells and programs runs, and however they die, no file
\* is longer than its blocks: cmd_read's loop always reaches the end of the file.
THEOREM ShellSizeIsBacked == ShellSpec => []SizeBacked
<1>1. IInv => SizeBacked
  BY DEF IInv, CacheOK
<1> QED BY <1>1, ShellInvariant, PTL

\* The block map of every descriptor of the shell and of every other program is
\* part of the map of its inode, and complete unless a file is open twice.
THEOREM ShellBlockMapsAreCurrent == ShellSpec => []BlockMapsCurrent
<1>1. IInv => BlockMapsCurrent
  BY DEF IInv, FilesOK
<1> QED BY <1>1, ShellInvariant, PTL

\* cmd_write, and the write of any program that has no file open twice, changes
\* blocks of its file and no others, unless a death has left the file with pointers
\* that were never stored.
THEOREM ShellWritesStay == ShellSpec => WritesStayInFile
<1>1. ASSUME IInv, ShellNext \/ OtherNext PROVE Stays
  <2>1. CASE pc # "write"
    BY <2>1 DEF Stays
  <2>2. CASE env_init \/ OtherProgram \/ Quit
    BY <1>1, <2>2, StepStays DEF env_init, OtherProgram, Quit
  <2>3. CASE CreateDone
    <3>1. UNCHANGED <<disk, history>>
      BY <2>3 DEF CreateDone, vars
    <3> QED BY <1>1, <3>1, StepStays
  <2>4. CASE pc = "write" /\ InCommand
    <3>1. Work
      BY <2>4, WriteWorkIsWork
         DEF InCommand, SeekStart, SeekInside, ReadLoop, vsfs_read, CloseFile, vsfs_close
    <3> QED BY <1>1, <3>1, StepStays
  <2>5. ASSUME pc = "write"
        PROVE  ~\/ StaleCommand \/ WriteCall
                \/ \E name \in Names :
                     cmd_create(name) \/ OpenFor(name, "seek") \/ OpenFor(name, "write")
    BY <2>5 DEF StaleCommand, StaleHit, WriteCall, vsfs_write, cmd_create, vsfs_creat,
                CreatDies, OpenFor, vsfs_open
  <2>6. CASE pc = "write" /\ (Call \/ Work)
    BY <1>1, <2>6, CallsAreIdle, StepStays
  <2> QED BY <1>1, <2>1, <2>2, <2>3, <2>4, <2>5, <2>6 DEF ShellNext, OtherNext
<1>2. IInv /\ [ShellNext \/ OtherNext]_svars => [Stays]_vars
  BY <1>1 DEF svars
<1>3. WritesStayInFile <=> [][Stays]_vars
  BY DEF WritesStayInFile, Stays
<1> QED BY <1>2, <1>3, ShellInvariant, PTL DEF ShellSpec

----------------------------------------------------------------------------
(* What a read command prints *)

InFile == {"seek", "reading", "close"}

\* The descriptor is as vsfs_open or vsfs_lseek filled it and the inode has not
\* changed since.
Fresh(f) ==
  /\ f.block = map[f.inode] /\ f.blocks = Len(f.block)
  /\ f.size = SizeOf(f.inode, f.block)

\* The first q blocks are printed and the offset is behind them.
SoFarTo(f, q) ==
  /\ printed = [k \in 1 .. q |-> BlockText(f.inode, k)]
  /\ f.offset = Lowest(BS * q, f.size) /\ q <= CeilBlocks(f.size)
SoFar(f) == \E q \in Nat : SoFarTo(f, q)

Session ==
  /\ cmd = "none" => pc = "gone"
  /\ pc = "gone" => fds = <<>>
  /\ cmd \in {"prompt", "creating"} => fds = <<>>
  /\ cmd \in {"prompt", "creating", "write"} \union InFile => pc = "idle"
  /\ cmd \in {"write", "writing"} \union InFile => Len(fds) = 1
  /\ cmd \in InFile => Fresh(fds[1])
  /\ cmd = "seek" => printed = <<>>
  /\ cmd \in {"reading", "close"} => SoFar(fds[1])
  /\ cmd = "close" => AtEnd(fds[1])

\* W is a whole number of blocks.
LEMMA LargestSize == BS * (W \div BS) = W /\ W \div BS \in Nat
<1>1. W % BS = 0
  BY FileAssumption DEF FileAssumption
<1> QED BY <1>1, Division

\* The first descriptor names an inode whose blocks back its size.
LEMMA FreshFile ==
  ASSUME IInv, NEW f, 1 \in DOMAIN fds, f = fds[1], Fresh(f)
  PROVE  /\ f \in OpenFiles /\ f.inode \in Inodes /\ f.inode # Root
         /\ map[f.inode] \in Seq(Pointers) /\ Len(map[f.inode]) \in Nat
         /\ DOMAIN map[f.inode] = 1 .. Len(map[f.inode])
         /\ f.size \in Nat /\ f.offset \in Nat
         /\ f.size <= BS * Len(map[f.inode])
<1>1. f \in OpenFiles /\ f.inode \in 1 .. next_inode - 1
  <2>1. fds \in Seq(OpenFiles) /\ 1 \in 1 .. Len(fds)
    BY LenProperties DEF IInv, FilesOK, FdsType
  <2> QED BY <2>1, ElementOfSeq DEF IInv, FilesOK, FilesOlder
<1>2. next_inode \in 1 .. NR_INODES
  BY DEF IInv, CacheOK, CacheType
<1>3. f.inode \in Inodes /\ f.inode # Root
  BY <1>1, <1>2 DEF Inodes, Root
<1>4. /\ map[f.inode] \in Seq(Pointers) /\ Len(map[f.inode]) \in Nat
      /\ DOMAIN map[f.inode] = 1 .. Len(map[f.inode])
  <2>1. map[f.inode] \in Seq(Pointers)
    BY <1>3 DEF IInv, CacheOK, CacheType
  <2> QED BY <2>1, LenProperties
<1>5. f.size \in Nat /\ f.offset \in Nat
  BY <1>1 DEF OpenFiles
<1>6. size[f.inode] <= BS * Len(map[f.inode])
  BY <1>3 DEF IInv, CacheOK, SizeBacked
<1>7. f.size = SizeOf(f.inode, map[f.inode])
  BY DEF Fresh
<1>8. CASE f.size = W /\ Len(map[f.inode]) = W \div BS
  <2>1. BS * Len(map[f.inode]) = W
    BY <1>8, LargestSize
  <2> QED BY <1>1, <1>3, <1>4, <1>5, <1>8, <2>1
<1>9. CASE f.size = size[f.inode]
  BY <1>1, <1>3, <1>4, <1>5, <1>6, <1>9
<1> QED BY <1>7, <1>8, <1>9 DEF SizeOf

\* A cell at the start of block q and the ones after it in that block.
LEMMA CellsOfBlock ==
  ASSUME NEW q \in Nat, NEW s \in 0 .. BS - 1
  PROVE  (BS * q + s) \div BS = q /\ (BS * q + s) % BS = s
<1> DEFINE x == BS * q + s
           d == x \div BS
<1>1. x \in Nat /\ BS * q \in Nat
  OBVIOUS
<1>2. d \in Nat /\ x % BS \in 0 .. BS - 1 /\ x = BS * d + (x % BS)
  BY <1>1, Division
<1>3. ~(d < q)
  <2> SUFFICES ASSUME d + 1 <= q PROVE FALSE
    BY <1>2
  <2>1. BS * (d + 1) <= BS * q
    BY <1>2, Multiples
  <2>2. BS * (d + 1) = BS * d + BS
    BY <1>2
  <2> QED BY <1>1, <1>2, <2>1, <2>2
<1>4. ~(q < d)
  <2> SUFFICES ASSUME q + 1 <= d PROVE FALSE
    BY <1>2
  <2>1. BS * (q + 1) <= BS * d
    BY <1>2, Multiples
  <2>2. BS * (q + 1) = BS * q + BS
    OBVIOUS
  <2> QED BY <1>1, <1>2, <2>1, <2>2
<1>5. d = q
  BY <1>2, <1>3, <1>4
<1> QED BY <1>1, <1>2, <1>5

\* The number of blocks of a file that ends at x.
LEMMA LastOfFile ==
  ASSUME NEW x \in Nat, NEW q \in Nat
  PROVE  /\ BS * q < x => q + 1 <= CeilBlocks(x)
         /\ x <= BS * q => CeilBlocks(x) <= q
<1>1. CeilBlocks(x) \in Nat /\ x <= BS * CeilBlocks(x)
  BY Ceiling
<1>2. PICK c \in Nat : c = CeilBlocks(x)
  BY <1>1
<1>3. ASSUME BS * q < x PROVE q + 1 <= c
  <2> SUFFICES ASSUME c <= q PROVE FALSE
    OBVIOUS
  <2>1. BS * c <= BS * q /\ BS * c \in Nat /\ BS * q \in Nat
    BY Multiples
  <2> QED BY ONLY <1>1, <1>2, <1>3, <2>1, x \in Nat
<1>4. ASSUME x <= BS * q PROVE c <= q
  <2>1. PICK y \in Nat : y = x + BS - 1
    OBVIOUS
  <2>2. BS * (q + 1) = BS * q + BS /\ q + 1 \in Nat /\ BS * q \in Nat
    OBVIOUS
  <2>3. y < BS * (q + 1)
    BY <1>4, <2>1, <2>2
  <2>4. y \div BS \in Nat /\ y \div BS < q + 1
    BY <2>2, <2>3, IndexBelow
  <2> QED BY <1>2, <2>1, <2>4 DEF CeilBlocks
<1> QED BY <1>2, <1>3, <1>4

\* What vsfs_read of a block returns before the end of the file: the cells up to
\* the end of the block or of the file, from the block the offset is in.
LEMMA ReadCells ==
  ASSUME IInv, ~Holes, NEW f, 1 \in DOMAIN fds, f = fds[1], Fresh(f),
         f.offset < f.size, NEW q \in Nat, f.offset = BS * q
  PROVE  /\ Readable(f, BS) = Lowest(BS, f.size - f.offset)
         /\ Left(f, BS) = Lowest(BS, f.size - f.offset)
         /\ LastBlock(f, BS) = {map[f.inode][q + 1]}
<1>1. /\ f.inode \in Inodes /\ Len(map[f.inode]) \in Nat
      /\ DOMAIN map[f.inode] = 1 .. Len(map[f.inode])
      /\ f.size \in Nat /\ f.offset \in Nat
      /\ f.size <= BS * Len(map[f.inode])
      /\ f.block = map[f.inode] /\ f.blocks = Len(map[f.inode])
      /\ f.size = SizeOf(f.inode, map[f.inode])
  BY FreshFile DEF Fresh
<1> DEFINE m == Len(map[f.inode])
           left == Lowest(BS, f.size - f.offset)
<1>2. BS * m \in Nat /\ f.offset < BS * m
  BY <1>1
<1>3. f.offset \div BS = q /\ q < m
  <2>1. f.offset \div BS < m
    BY <1>1, <1>2, IndexBelow
  <2>2. (BS * q + 0) \div BS = q
    BY CellsOfBlock
  <2> QED BY <2>1, <2>2
<1>4. left \in 1 .. BS /\ left <= f.size - f.offset
  BY <1>1 DEF Lowest
<1>5. Left(f, BS) = left /\ InBlocks(f) = BS * m - f.offset
  BY <1>1, <1>3 DEF Left, InBlocks, Index
<1>6. left <= BS * m - f.offset
  <2> HIDE DEF left, m
  <2>1. f.size <= BS * m
    BY <1>1 DEF m
  <2>2. BS * m \in Nat /\ left \in Nat
    BY <1>2, <1>4
  <2> QED BY ONLY <1>1, <1>4, <2>1, <2>2
<1>7. Readable(f, BS) = left
  <2> HIDE DEF left, m
  <2>1. Readable(f, BS) = Lowest(left, BS * m - f.offset)
    BY <1>5 DEF Readable
  <2>2. left \in Int
    BY <1>4
  <2> QED BY <1>1, <1>2, <1>6, <2>1, <2>2 DEF Lowest
<1>8. (f.offset + left - 1) \div BS = q
  <2>1. left - 1 \in 0 .. BS - 1 /\ f.offset + left - 1 = BS * q + (left - 1)
    BY <1>1, <1>4
  <2> QED BY <2>1, CellsOfBlock
<1>9. Known(f, q)
  <2>1. q + 1 \in DOMAIN map[f.inode] /\ BS * ((q + 1) - 1) < SizeOf(f.inode, map[f.inode])
    BY <1>1, <1>3
  <2>2. map[f.inode][q + 1] # Unset
    BY <1>1, <2>1 DEF Holes
  <2> QED BY <1>1, <1>3, <2>2 DEF Known
<1>10. LastBlock(f, BS) = {map[f.inode][q + 1]}
  BY <1>1, <1>7, <1>8, <1>9 DEF LastBlock, BlockAt
<1> QED BY <1>5, <1>7, <1>10

\* Of that block the cells of the file are printed, and zeros behind them.
LEMMA ShownBlock ==
  ASSUME NEW f, NEW q \in Nat, f.size \in Nat, f.offset = BS * q, f.offset < f.size,
         f.size = SizeOf(f.inode, map[f.inode]),
         Readable(f, BS) = Lowest(BS, f.size - f.offset),
         Left(f, BS) = Lowest(BS, f.size - f.offset)
  PROVE  Shown(f, map[f.inode][q + 1]) = BlockText(f.inode, q + 1)
<1> DEFINE b == map[f.inode][q + 1]
           n == Lowest(BS, f.size - f.offset)
<1>1. n \in 1 .. BS /\ BS * q \in Nat
      /\ \A s \in 0 .. BS - 1 : BS * q + s < f.size <=> s < n
  BY DEF Lowest
<1>2. Readable(f, BS) = n /\ Left(f, BS) = n
  OBVIOUS
<1>3. (q + 1) - 1 = q
  OBVIOUS
<1> HIDE DEF n
<1>4. ASSUME NEW s \in Slots
      PROVE  (IF s >= n /\ s < n + BS - n THEN Zeroed ELSE disk[b][s])
               = (IF BS * ((q + 1) - 1) + s < SizeOf(f.inode, map[f.inode])
                  THEN disk[b][s] ELSE Zeroed)
  <2>1. s \in 0 .. BS - 1
    BY DEF Slots
  <2>2. s < n + BS - n
    BY <1>1, <2>1
  <2>3. BS * ((q + 1) - 1) + s < SizeOf(f.inode, map[f.inode]) <=> s < n
    BY <1>1, <1>3, <2>1
  <2>4. s >= n <=> ~(s < n)
    BY <1>1, <2>1
  <2> QED BY <2>2, <2>3, <2>4
<1>5. Buffer(f, BS, b) =
        [s \in Slots |-> IF BS * ((q + 1) - 1) + s < SizeOf(f.inode, map[f.inode])
                         THEN disk[b][s] ELSE Zeroed]
  BY <1>2, <1>4 DEF Buffer
<1> QED BY <1>5 DEF Shown, BlockText

\* A call returns to the program or ends it, and a process that is gone has no
\* descriptors.
LEMMA Ends ==
  ASSUME Call \/ Work, pc # "gone", pc' = "gone"
  PROVE  fds' = <<>>
<1>1. NoProcess
  BY DEF Call, CallFd, vsfs_creat, CreatDies, vsfs_stat, vsfs_open, vsfs_close, Faults,
         StaleHit, GoesAstray, process, ReadRefused, LseekFails, vsfs_print_block_nbr,
         vsfs_read, WriteRefused, vsfs_write, AllocDies, AllocStrays, vsfs_lseek,
         SeekInside, SeekBeyond, SeekDies, Work, WriteBlock, WriteStrays, WriteEnd, Exit,
         Return
<1> QED BY <1>1 DEF NoProcess

LEMMA OneFile ==
  ASSUME IInv, Len(fds) = 1
  PROVE  1 \in DOMAIN fds /\ fds[1] \in OpenFiles /\ DOMAIN fds = {1}
<1>1. fds \in Seq(OpenFiles)
  BY DEF IInv, FilesOK, FdsType
<1>2. DOMAIN fds = 1 .. 1
  BY <1>1, LenProperties
<1> QED BY <1>1, <1>2, ElementOfSeq

\* An open starts a command with one descriptor, as the inode is.
LEMMA OpenSession ==
  ASSUME IInv, Session, NEW name \in Names, NEW next \in {"seek", "write"},
         OpenFor(name, next)
  PROVE  Session'
<1>1. /\ cmd = "prompt" /\ pc = "idle" /\ fds = <<>> /\ pc' = "idle"
      /\ printed' = <<>> /\ map' = map /\ size' = size
      /\ cmd' = IF fds' # <<>> THEN next ELSE "prompt"
  BY DEF OpenFor, vsfs_open, Session, cache, Return
<1>2. CASE fds' = <<>>
  BY <1>1, <1>2 DEF Session, InFile
<1>3. CASE fds' # <<>>
  <2>1. PICK inode \in Lookup(name) : fds' = Append(fds, Opened(inode, "O_RDWR"))
    BY <1>3 DEF OpenFor, vsfs_open
  <2>2. fds' = <<Opened(inode, "O_RDWR")>>
    BY <1>1, <2>1
  <2>3. Len(fds') = 1 /\ fds'[1] = Opened(inode, "O_RDWR")
    BY <2>2
  <2>4. Fresh(fds[1])'
    BY <1>1, <2>3 DEF Fresh, Opened, SizeOf
  <2> QED BY <1>1, <1>3, <2>3, <2>4 DEF Session, InFile
<1> QED BY <1>2, <1>3

LEMMA SeekSession == ASSUME IInv, Session, SeekStart PROVE Session'
<1>1. /\ cmd = "seek" /\ cmd' \in {"none", "reading"} /\ pc = "idle" /\ pc' = "idle"
      /\ printed' = printed /\ map' = map /\ size' = size
      /\ fds' = [fds EXCEPT ![1].offset = 0] /\ Len(fds) = 1
  BY DEF SeekStart, SeekInside, Then, Session, InFile, cache, Return
<1>2. cmd' = "reading" /\ printed' = <<>>
  BY <1>1 DEF SeekStart, Then, Session
<1>3. 1 \in DOMAIN fds /\ fds[1] \in OpenFiles /\ Fresh(fds[1])
  BY <1>1, OneFile DEF Session, InFile
<1>4. fds \in Seq(OpenFiles)
  BY DEF IInv, FilesOK, FdsType
<1> DEFINE g == [fds[1] EXCEPT !.offset = 0]
<1>5. /\ g \in OpenFiles /\ g.offset = 0 /\ g.block = fds[1].block
      /\ g.blocks = fds[1].blocks /\ g.size = fds[1].size /\ g.inode = fds[1].inode
  BY <1>3 DEF OpenFiles
<1>6. fds' = [fds EXCEPT ![1] = g]
  BY <1>1
<1>7. Len(fds') = 1 /\ fds'[1] = g
  <2> HIDE DEF g
  <2> QED BY <1>1, <1>3, <1>4, <1>5, <1>6, Update
<1>8. Fresh(fds[1])'
  <2> HIDE DEF g
  <2> QED BY <1>1, <1>3, <1>5, <1>7 DEF Fresh, SizeOf
<1>9. SoFar(fds[1])'
  <2> HIDE DEF g
  <2>1. fds'[1].offset = 0 /\ fds'[1].size \in Nat
    BY <1>3, <1>5, <1>7 DEF OpenFiles
  <2>2. printed' = [k \in 1 .. 0 |-> BlockText(fds[1].inode, k)']
    BY <1>2
  <2>3. BS * 0 = 0 /\ 0 <= CeilBlocks(fds'[1].size)
    BY <2>1, Ceiling
  <2>4. SoFarTo(fds[1], 0)'
    BY <1>5, <1>7, <2>1, <2>2, <2>3 DEF SoFarTo, Lowest
  <2> QED BY <2>4 DEF SoFar
<1> QED BY <1>1, <1>2, <1>7, <1>8, <1>9, <1>3 DEF Session, InFile

\* Printing on behind the first q blocks of a file.
LEMMA PrintOn ==
  ASSUME NEW inode, NEW q \in Nat
  PROVE  Append([k \in 1 .. q |-> BlockText(inode, k)], BlockText(inode, q + 1))
           = [k \in 1 .. q + 1 |-> BlockText(inode, k)]
<1>1. PICK S : S = {BlockText(inode, k) : k \in 1 .. q + 1}
  OBVIOUS
<1>2. \A k \in 1 .. q + 1 : BlockText(inode, k) \in S
  BY <1>1
<1> DEFINE F == [k \in 1 .. q |-> BlockText(inode, k)]
           H == [k \in 1 .. q + 1 |-> BlockText(inode, k)]
           x == BlockText(inode, q + 1)
<1>3. F \in [1 .. q -> S] /\ H \in [1 .. q + 1 -> S] /\ x \in S
  BY <1>2
<1>4. F \in Seq(S) /\ H \in Seq(S) /\ Len(F) = q /\ Len(H) = q + 1
  <2> HIDE DEF F, H, x
  <2> QED BY <1>3, SMT
<1>5. \A k \in 1 .. q + 1 : H[k] = IF k <= q THEN F[k] ELSE x
  OBVIOUS
<1> HIDE DEF F, H, x
<1>6. /\ Append(F, x) \in Seq(S) /\ Len(Append(F, x)) = q + 1
      /\ \A k \in 1 .. q : Append(F, x)[k] = F[k]
      /\ Append(F, x)[q + 1] = x
  BY <1>3, <1>4, AppendProperties
<1>7. \A k \in 1 .. q + 1 : Append(F, x)[k] = H[k]
  BY <1>5, <1>6
<1>8. Append(F, x) = H
  BY <1>4, <1>6, <1>7, SeqEqual
<1> QED BY <1>8 DEF F, H, x

\* A turn of the loop prints the next block of the file.
LEMMA ReadSession == ASSUME IInv, Session, ~Holes, ReadLoop PROVE Session'
<1>1. /\ cmd = "reading" /\ pc = "idle" /\ pc' = "idle" /\ UNCHANGED <<map, size, disk>>
      /\ Len(fds) = 1 /\ Fresh(fds[1]) /\ SoFar(fds[1])
  BY DEF ReadLoop, vsfs_read, Session, InFile, cache, Return
<1>2. /\ 1 \in DOMAIN fds /\ fds[1] \in OpenFiles
      /\ fds \in Seq(OpenFiles)
  BY <1>1, OneFile DEF IInv, FilesOK, FdsType
<1>3. PICK f : f = fds[1]
  OBVIOUS
<1>4. /\ f \in OpenFiles /\ f.inode \in Inodes /\ f.size \in Nat /\ f.offset \in Nat
      /\ f.size = SizeOf(f.inode, map[f.inode])
  BY <1>1, <1>2, <1>3, FreshFile DEF Fresh
<1>5. PICK q \in Nat : SoFarTo(f, q)
  BY <1>1, <1>3 DEF SoFar
<1>6. \A inode, k : BlockText(inode, k)' = BlockText(inode, k)
  BY <1>1 DEF BlockText, SizeOf
<1>7. CASE AtEnd(fds[1])
  <2>1. fds' = fds /\ cmd' = "close" /\ printed' = printed
    BY <1>7 DEF ReadLoop, vsfs_read
  <2>2. Fresh(fds[1])' /\ AtEnd(fds[1])'
    BY <1>1, <1>7, <2>1 DEF Fresh, SizeOf, AtEnd
  <2>3. SoFarTo(fds[1], q)'
    BY <1>3, <1>5, <1>6, <2>1 DEF SoFarTo
  <2> QED BY <1>1, <2>1, <2>2, <2>3 DEF Session, InFile, SoFar
<1>8. CASE ~AtEnd(fds[1])
  <2>1. f.offset = BS * q /\ f.offset < f.size
    <3>1. BS * q \in Nat /\ f.offset = Lowest(BS * q, f.size) /\ f.offset # f.size
      BY <1>3, <1>5, <1>8 DEF SoFarTo, AtEnd
    <3> QED BY <1>4, <3>1 DEF Lowest
  <2>2. PICK n : n = Lowest(BS, f.size - f.offset)
    OBVIOUS
  <2>3. /\ Readable(f, BS) = n /\ Left(f, BS) = n
        /\ LastBlock(f, BS) = {map[f.inode][q + 1]}
    BY <1>1, <1>2, <1>3, <2>1, <2>2, ReadCells
  <2>4. PICK b : b = map[f.inode][q + 1]
    OBVIOUS
  <2>5. Shown(f, b) = BlockText(f.inode, q + 1)
    BY <1>4, <2>1, <2>2, <2>3, <2>4, ShownBlock
  <2>6. /\ cmd' = "reading" /\ printed' = Append(printed, Shown(f, b))
        /\ fds' = [fds EXCEPT ![1].offset = @ + n]
    <3>1. /\ cmd' = cmd
          /\ \E c \in LastBlock(f, BS) : printed' = Append(printed, Shown(f, c))
          /\ fds' = [fds EXCEPT ![1].offset = @ + Readable(f, BS)]
      BY <1>3, <1>8 DEF ReadLoop, vsfs_read
    <3>2. LastBlock(f, BS) = {b}
      BY <2>3, <2>4
    <3> QED BY <1>1, <2>3, <3>1, <3>2
  <2>7. n \in Nat /\ f.offset + n = Lowest(BS * (q + 1), f.size)
    <3>1. BS * (q + 1) = BS * q + BS /\ BS * q \in Nat
      OBVIOUS
    <3> QED BY <1>4, <2>1, <2>2, <3>1 DEF Lowest
  <2>8. PICK g : g = [f EXCEPT !.offset = f.offset + n]
    OBVIOUS
  <2>9. /\ g \in OpenFiles /\ g.offset = f.offset + n /\ g.block = f.block
        /\ g.blocks = f.blocks /\ g.size = f.size /\ g.inode = f.inode
    <3>1. PICK x \in Nat : x = f.offset + n
      BY <1>4, <2>7
    <3>2. f \in OpenFiles /\ g = [f EXCEPT !.offset = x]
      BY <1>4, <2>8, <3>1
    <3> QED BY ONLY <3>1, <3>2 DEF OpenFiles
  <2>10. fds' = [fds EXCEPT ![1] = g]
    BY <1>3, <2>6, <2>8
  <2>11. Len(fds') = 1 /\ fds'[1] = g
    BY <1>1, <1>2, <2>9, <2>10, Update
  <2>12. Fresh(fds[1])'
    BY <1>1, <1>3, <2>9, <2>11 DEF Fresh, SizeOf
  <2>13. printed' = [k \in 1 .. q + 1 |-> BlockText(f.inode, k)]
    BY <1>5, <2>5, <2>6, PrintOn DEF SoFarTo
  <2>14. q + 1 \in Nat /\ q + 1 <= CeilBlocks(f.size)
    BY <1>4, <2>1, LastOfFile
  <2>15. SoFarTo(fds[1], q + 1)'
    BY <1>6, <2>7, <2>9, <2>11, <2>13, <2>14 DEF SoFarTo
  <2> QED BY <1>1, <2>6, <2>11, <2>12, <2>14, <2>15 DEF Session, InFile, SoFar
<1> QED BY <1>7, <1>8

\* A step that leaves the process, or no command of the shell, keeps the rest.
LEMMA GoneSession ==
  ASSUME pc' = "gone", fds' = <<>>, cmd' = "none"
  PROVE  Session'
BY DEF Session, InFile

\* A step that ends the model leaves the shell where it is.
LEMMA AstraySession ==
  ASSUME Session, GoesAstray, UNCHANGED shell
  PROVE  Session'
BY DEF Session, InFile, GoesAstray, cache, process, shell, Fresh, SoFar, SoFarTo, BlockText,
       SizeOf, AtEnd

LEMMA CallSession == ASSUME IInv, Session, WriteCall PROVE Session'
<1>1. vsfs_write(1, BS) /\ pc = "idle" /\ Len(fds) = 1
  BY DEF WriteCall, vsfs_write, Session
<1>2. CASE pc' = "gone"
  <2>1. fds' = <<>>
    BY <1>1, <1>2 DEF vsfs_write, AllocDies, AllocStrays, GoesAstray, process, NoProcess
  <2> QED BY <1>2, <2>1, GoneSession DEF WriteCall, Then
<1>3. CASE pc' # "gone"
  <2>1. cmd' = "writing"
    BY <1>3 DEF WriteCall, Then
  <2>2. fds' = fds \/ fds' = [fds EXCEPT ![1] = Refreshed(@)]
    BY <1>1, <1>3
       DEF vsfs_write, WriteAlloc, AllocDies, AllocStrays, GoesAstray, process, NoProcess
  <2>3. fds \in Seq(OpenFiles)
    BY DEF IInv, FilesOK, FdsType
  <2>4. Len(fds') = 1
    BY <1>1, <2>2, <2>3
  <2> QED BY <1>3, <2>1, <2>4 DEF Session, InFile
<1> QED BY <1>2, <1>3

LEMMA WriteSession == ASSUME IInv, Session, WriteWork PROVE Session'
<1>1. CASE WriteStrays
  BY <1>1, AstraySession DEF WriteStrays, WriteWork
<1>2. CASE ~WriteStrays
  <2>1. (\E data \in TextBlocks : WriteBlock(data)) \/ WriteEnd
    BY <1>2 DEF WriteWork
  <2>2. cmd = "writing" /\ cmd' = cmd /\ pc' # "gone" /\ Len(fds) = 1
    BY <2>1 DEF WriteWork, WriteBlock, WriteEnd, shell, Session
  <2>3. fds' = fds \/ fds' = [fds EXCEPT ![call.fd].offset = @ + Piece]
    BY <2>1 DEF WriteBlock, WriteEnd
  <2>4. fds \in Seq(OpenFiles)
    BY DEF IInv, FilesOK, FdsType
  <2>5. Len(fds') = 1
    BY <2>2, <2>3, <2>4
  <2> QED BY <2>2, <2>5 DEF Session, InFile
<1> QED BY <1>1, <1>2

LEMMA CloseSession == ASSUME IInv, Session, CloseFile PROVE Session'
<1>1. /\ cmd \in {"close", "writing"} /\ cmd' = "prompt" /\ vsfs_close /\ Len(fds) = 1
  BY DEF CloseFile, Session, InFile
<1>2. fds # <<>>
  <2>1. fds = <<>> => Len(fds) = 0
    OBVIOUS
  <2> QED BY <1>1, <2>1
<1>3. pc = "idle" /\ pc' = "idle" /\ fds' = SubSeq(fds, 1, 0)
  BY <1>1, <1>2 DEF vsfs_close, Return
<1>4. fds' = <<>>
  <2>1. fds \in Seq(OpenFiles)
    BY DEF IInv, FilesOK, FdsType
  <2> QED BY <1>3, <2>1
<1> QED BY <1>1, <1>3, <1>4 DEF Session, InFile

LEMMA SessionStep ==
  ASSUME IInv, Session, [ShellNext \/ OtherNext]_svars
  PROVE  Session'
<1>1. CASE env_init \/ OtherProgram
  BY <1>1 DEF env_init, OtherProgram, Start, Then, Session, InFile
<1>2. CASE Quit
  BY <1>2, GoneSession DEF Quit, Exit, NoProcess, Then
<1>3. CASE CreateDone
  BY <1>3 DEF CreateDone, vars, Then, Session, InFile
<1>4. CASE UNCHANGED svars
  BY <1>4 DEF svars, vars, shell, Session, InFile, Fresh, SoFar, SoFarTo, BlockText, AtEnd,
              SizeOf
<1>5. CASE StaleCommand
  BY <1>5, AstraySession DEF StaleCommand, StaleHit
<1>6. CASE WriteCall \/ InCommand
  BY <1>6, SeekSession, ReadSession, CallSession, WriteSession, CloseSession
     DEF InCommand, Astray
<1>7. ASSUME NEW name \in Names, cmd_create(name)
      PROVE  Session'
  <2>1. CASE vsfs_creat(name, 0)
    BY <1>7, <2>1 DEF cmd_create, vsfs_creat, Return, Then, Session, InFile
  <2>2. CASE CreatDies(name, 0)
    BY <1>7, <2>2, GoneSession DEF cmd_create, CreatDies, NoProcess, Then
  <2> QED BY <1>7, <2>1, <2>2 DEF cmd_create
<1>8. ASSUME NEW name \in Names, OpenFor(name, "seek") \/ OpenFor(name, "write")
      PROVE  Session'
  BY <1>8, OpenSession
<1>9. CASE cmd = "other" /\ (Call \/ Work) /\ Then("other")
  <2>1. CASE pc' # "gone"
    BY <1>9, <2>1 DEF Then, Session, InFile
  <2>2. CASE pc' = "gone" /\ pc # "gone"
    BY <1>9, <2>2, Ends, GoneSession DEF Then
  <2>3. pc # "gone"
    BY <1>9, CallsAreIdle DEF Work, WriteBlock, WriteStrays, WriteEnd
  <2> QED BY <2>1, <2>2, <2>3
<1> QED BY <1>1, <1>2, <1>3, <1>4, <1>5, <1>6, <1>7, <1>8, <1>9 DEF ShellNext, OtherNext

\* At the end of the loop of cmd_read every block of the file is printed, up to its
\* size, once and in order, with each text cut at its first zero; where a block has no
\* zero the printing ran on behind the buffer.
THEOREM ReadCommandPrintsFile == ShellSpec => []ReadPrintsFile
<1>1. ShellInit => Session
  BY DEF ShellInit, Init, Session, InFile
<1>2. IInv /\ Session => ReadPrintsFile
  <2> SUFFICES ASSUME IInv, Session, cmd = "close"
               PROVE  LET inode == fds[1].inode
                      IN  printed = [k \in 1 .. CeilBlocks(SizeOf(inode, map[inode])) |->
                                       BlockText(inode, k)]
    BY DEF ReadPrintsFile
  <2>1. Fresh(fds[1]) /\ SoFar(fds[1]) /\ AtEnd(fds[1]) /\ Len(fds) = 1
    BY DEF Session, InFile
  <2>2. PICK f : f = fds[1]
    OBVIOUS
  <2>3. f.size \in Nat /\ f.offset = f.size /\ f.size = SizeOf(f.inode, map[f.inode])
    BY <2>1, <2>2, OneFile, FreshFile DEF Fresh, AtEnd
  <2>4. PICK q \in Nat : SoFarTo(f, q)
    BY <2>1, <2>2 DEF SoFar
  <2>5. f.size <= BS * q
    BY <2>3, <2>4 DEF SoFarTo, Lowest
  <2>6. q = CeilBlocks(f.size)
    BY <2>3, <2>4, <2>5, LastOfFile, Ceiling DEF SoFarTo
  <2> QED BY <2>2, <2>3, <2>4, <2>6 DEF SoFarTo
<1> QED BY <1>1, <1>2, SessionStep, ShellInvariant, PTL DEF ShellSpec

----------------------------------------------------------------------------
(* What a step does to the storage *)

Quiet ==
  UNCHANGED <<map, size, entry, disk>>
    /\ next_block <= next_block' /\ next_inode <= next_inode'

\* A turn of __write_dblock.
Turn == \E data \in [Slots -> Values] : WriteBlock(data)

\* Behind the first old pointers of t come the blocks from first on, up to last,
\* or pointers that were never stored.
Continues(t, old, first, last) ==
  \A k \in DOMAIN t : k > old =>
    t[k] = Unset \/ (t[k] = first + (k - old) - 1 /\ t[k] < last)

\* An inode gets more pointers.
Grows(inode, t) ==
  /\ map' = [map EXCEPT ![inode] = t] /\ IsPrefixOf(map[inode], t)
  /\ Continues(t, Len(map[inode]), next_block, next_block')
  /\ next_block <= next_block'
  /\ UNCHANGED <<size, entry, next_inode, disk>>

\* The directory may get a block, and an entry that is not counted.
DirTaken(name) ==
  /\ FirstOfFile <= NR_BLOCKS /\ next_block' = FirstOfFile
  /\ map' = DirMap /\ disk' \in {disk, WithEntry(name)}
  /\ UNCHANGED <<size, entry>> /\ next_inode <= next_inode'

\* A file gets a name and the pointers t.
Made(name, t) ==
  /\ ~Listed(name) /\ next_inode < NR_INODES /\ FirstOfFile <= NR_BLOCKS
  /\ Continues(t, 0, FirstOfFile, next_block') /\ FirstOfFile <= next_block'
  /\ disk' = WithEntry(name) /\ map' = [DirMap EXCEPT ![next_inode] = t]
  /\ size' = [size EXCEPT ![next_inode] = 0]
  /\ entry' = entry + 1 /\ next_inode' = next_inode + 1

Storage ==
  \/ Quiet \/ Turn \/ WriteEnd \/ GoesAstray
  \/ \E inode \in Inodes \ {Root}, t \in Seq(Pointers) : Grows(inode, t)
  \/ \E name \in Names : DirTaken(name) \/ \E t \in Seq(Pointers) : Made(name, t)

LEMMA FdFile ==
  ASSUME IInv, NEW k \in DOMAIN fds
  PROVE  fds[k] \in OpenFiles /\ fds[k].inode \in Inodes \ {Root}
<1>1. fds[k] \in OpenFiles
  <2>1. fds \in Seq(OpenFiles) /\ k \in 1 .. Len(fds)
    BY LenProperties DEF IInv, FilesOK, FdsType
  <2> QED BY <2>1, ElementOfSeq
<1>2. fds[k].inode \in 1 .. next_inode - 1 /\ next_inode \in 1 .. NR_INODES
  BY DEF IInv, FilesOK, FilesOlder, CacheOK, CacheType
<1> QED BY <1>1, <1>2 DEF Inodes, Root

\* An allocation continues the pointers of its inode.
LEMMA RunContinues ==
  ASSUME NEW s \in Seq(Pointers), NEW first \in Nat, NEW n \in Nat, first + n <= NR_BLOCKS,
         NEW last \in Nat, first + n <= last
  PROVE  /\ s \o Run(first, n) \in Seq(Pointers) /\ IsPrefixOf(s, s \o Run(first, n))
         /\ Len(s \o Run(first, n)) = Len(s) + n
         /\ Continues(s \o Run(first, n), Len(s), first, last)
<1> DEFINE r == Run(first, n)
           t == s \o r
<1>1. r \in Seq(Pointers) /\ Len(r) = n /\ Len(s) \in Nat
  BY RunType, BlocksArePointers, LenProperties
<1>2. \A k \in 1 .. n : r[k] = first + k - 1
  BY DEF Run
<1> HIDE DEF r
<1>3. /\ t \in Seq(Pointers) /\ Len(t) = Len(s) + n /\ IsPrefixOf(s, t)
      /\ \A k \in 1 .. Len(s) + n : t[k] = IF k <= Len(s) THEN s[k] ELSE r[k - Len(s)]
  BY <1>1, Extension, ConcatProperties
<1>4. DOMAIN t = 1 .. Len(s) + n
  BY <1>3, LenProperties
<1>5. Continues(t, Len(s), first, last)
  <2> SUFFICES ASSUME NEW k \in DOMAIN t, k > Len(s)
               PROVE  t[k] = first + (k - Len(s)) - 1 /\ t[k] < last
    BY DEF Continues
  <2>1. k - Len(s) \in 1 .. n /\ k \in 1 .. Len(s) + n
    BY <1>1, <1>4
  <2>2. t[k] = r[k - Len(s)]
    BY <1>1, <1>3, <2>1
  <2>3. t[k] = first + (k - Len(s)) - 1
    BY <1>2, <2>1, <2>2
  <2> QED BY <2>1, <2>3
<1> QED BY <1>3, <1>5 DEF r

LEMMA PartlyContinues ==
  ASSUME NEW s \in Seq(Pointers), NEW first \in Nat, NEW m \in Nat, NEW w \in 0 .. m,
         first + m <= NR_BLOCKS, NEW last \in Nat, first + m <= last
  PROVE  /\ Partly(s, first, m, w) \in Seq(Pointers)
         /\ IsPrefixOf(s, Partly(s, first, m, w))
         /\ Continues(Partly(s, first, m, w), Len(s), first, last)
<1> DEFINE r == s \o Run(first, w)
           u == [k \in 1 .. m - w |-> Unset]
           t == r \o u
<1>1. w \in Nat /\ first + w <= NR_BLOCKS /\ first + w <= last /\ m - w \in Nat
  OBVIOUS
<1>2. /\ r \in Seq(Pointers) /\ Len(r) = Len(s) + w /\ Len(s) \in Nat
      /\ Continues(r, Len(s), first, last)
  BY <1>1, RunContinues, LenProperties
<1>3. u \in Seq(Pointers) /\ Len(u) = m - w
  <2>1. u \in [1 .. m - w -> Pointers]
    BY DEF Pointers
  <2> QED BY <1>1, <2>1, SMT
<1>4. \A k \in 1 .. m - w : u[k] = Unset
  OBVIOUS
<1> HIDE DEF r, u
<1>5. /\ t \in Seq(Pointers) /\ Len(t) = Len(r) + Len(u)
      /\ \A k \in 1 .. Len(r) + Len(u) : t[k] = IF k <= Len(r) THEN r[k] ELSE u[k - Len(r)]
  BY <1>2, <1>3, ConcatProperties
<1>6. DOMAIN t = 1 .. Len(s) + m /\ DOMAIN r = 1 .. Len(s) + w
  <2> HIDE DEF t
  <2>1. DOMAIN t = 1 .. Len(t) /\ DOMAIN r = 1 .. Len(r)
    BY <1>2, <1>5, LenProperties
  <2>2. Len(t) = Len(s) + m
    BY <1>1, <1>2, <1>3, <1>5
  <2> QED BY <1>2, <2>1, <2>2
<1>7. Continues(t, Len(s), first, last)
  <2> SUFFICES ASSUME NEW k \in DOMAIN t, k > Len(s)
               PROVE  t[k] = Unset \/ (t[k] = first + (k - Len(s)) - 1 /\ t[k] < last)
    BY DEF Continues
  <2>1. k \in 1 .. Len(s) + m /\ k \in 1 .. Len(r) + Len(u)
    BY <1>2, <1>3, <1>6
  <2>2. CASE k <= Len(r)
    <3>1. k \in DOMAIN r /\ t[k] = r[k]
      BY <1>2, <1>5, <1>6, <2>1, <2>2
    <3> QED BY <1>2, <3>1 DEF Continues
  <2>3. CASE ~(k <= Len(r))
    <3>1. k - Len(r) \in 1 .. m - w
      BY <1>1, <1>2, <2>1, <2>3
    <3> QED BY <1>4, <1>5, <2>1, <2>3, <3>1
  <2> QED BY <2>2, <2>3
<1>8. Partly(s, first, m, w) = t
  BY DEF Partly, r, u
<1> QED BY <1>5, <1>7, <1>8, PartlyType

LEMMA Free ==
  ASSUME IInv
  PROVE  /\ next_block \in 1 .. NR_BLOCKS /\ next_inode \in 1 .. NR_INODES
         /\ \A i \in Inodes : map[i] \in Seq(Pointers) /\ Len(map[i]) \in Nat
BY LenProperties DEF IInv, CacheOK, CacheType

LEMMA AllocStorage ==
  ASSUME IInv, IInv', NEW inode \in Inodes \ {Root}, NEW need \in Nat,
         \/ AllocBlock(inode, need) /\ disk' = disk
         \/ AllocDies(inode, need) \/ AllocStrays(inode, need)
  PROVE  Storage
<1>1. CASE AllocStrays(inode, need)
  BY <1>1 DEF AllocStrays, Storage
<1>2. /\ Granted(inode, need) \in Nat /\ next_block \in Nat /\ next_block' \in Nat
      /\ next_block' <= NR_BLOCKS
      /\ map[inode] \in Seq(Pointers) /\ Len(map[inode]) \in Nat
  <2>1. CacheOK /\ inode \in Inodes /\ (next_block \in 1 .. NR_BLOCKS)'
    BY DEF IInv, CacheOK, CacheType
  <2>2. Granted(inode, need) \in Nat
    BY <2>1, GrantedType
  <2> QED BY <2>1, <2>2, Free
<1>3. CASE AllocBlock(inode, need) /\ disk' = disk
  <2> DEFINE t == map[inode] \o Run(next_block, Granted(inode, need))
  <2>1. /\ t \in Seq(Pointers) /\ IsPrefixOf(map[inode], t)
        /\ Continues(t, Len(map[inode]), next_block, next_block')
    <3>1. PICK g \in Nat : g = Granted(inode, need)
      BY <1>2
    <3>2. next_block + g <= NR_BLOCKS /\ next_block + g <= next_block'
      BY <1>2, <1>3, <3>1 DEF AllocBlock
    <3> QED BY ONLY <1>2, <3>1, <3>2, RunContinues
  <2>2. map' = [map EXCEPT ![inode] = t] /\ next_block <= next_block'
        /\ UNCHANGED <<size, entry, next_inode, disk>>
    BY <1>2, <1>3 DEF AllocBlock
  <2> HIDE DEF t
  <2>3. Grows(inode, t)
    BY <2>1, <2>2 DEF Grows
  <2> QED BY <2>1, <2>3 DEF Storage
<1>4. CASE AllocDies(inode, need)
  <2>0. PICK m \in 0 .. Granted(inode, need) :
          /\ \E w \in Kept(Len(map[inode]), m) :
               map' = [map EXCEPT ![inode] = Partly(@, next_block, m, w)]
          /\ next_block' \in next_block + m ..
                             next_block + Lowest(m + 1, Granted(inode, need))
    BY <1>4 DEF AllocDies
  <2>1. PICK w \in Kept(Len(map[inode]), m) :
          map' = [map EXCEPT ![inode] = Partly(@, next_block, m, w)]
    BY <2>0
  <2>2. /\ m \in Nat /\ w \in 0 .. m /\ next_block + m <= next_block'
        /\ next_block <= next_block' /\ next_block + m <= NR_BLOCKS
    <3>1. next_block + Lowest(m + 1, Granted(inode, need)) \in Int
      BY <1>2 DEF Lowest
    <3> QED BY <1>2, <2>0, <2>1, <3>1 DEF Kept
  <2> DEFINE t == Partly(map[inode], next_block, m, w)
  <2>3. /\ t \in Seq(Pointers) /\ IsPrefixOf(map[inode], t)
        /\ Continues(t, Len(map[inode]), next_block, next_block')
    BY <1>2, <2>2, PartlyContinues
  <2>4. map' = [map EXCEPT ![inode] = t] /\ UNCHANGED <<size, entry, next_inode, disk>>
    BY <1>4, <2>1 DEF AllocDies
  <2> HIDE DEF t
  <2>5. Grows(inode, t)
    BY <2>2, <2>3, <2>4 DEF Grows
  <2> QED BY <2>3, <2>5 DEF Storage
<1> QED BY <1>1, <1>3, <1>4

LEMMA QuietStep ==
  ASSUME IInv, UNCHANGED <<cache, disk>>
  PROVE  Storage
BY Free DEF cache, Quiet, Storage

LEMMA WriteStorage ==
  ASSUME IInv, IInv', NEW k \in Fds, NEW n \in Nat, vsfs_write(k, n)
  PROVE  Storage
<1>1. k \in DOMAIN fds
  BY DEF vsfs_write
<1>2. fds[k] \in OpenFiles /\ fds[k].inode \in Inodes \ {Root}
  BY <1>1, FdFile
<1>3. fds[k].offset + n \in Nat
  BY <1>2 DEF OpenFiles
<1>4. Shortage(k, n) >= 0 => Shortage(k, n) \in Nat
  <2>1. Needed(k, n) \in Nat
    BY <1>3, Ceiling DEF Needed
  <2>2. Len(map[fds[k].inode]) \in Nat
    BY <1>2, Free
  <2> QED BY <2>1, <2>2 DEF Shortage
<1>5. CASE /\ Shortage(k, n) >= 0
           /\ \/ AllocDies(fds[k].inode, Shortage(k, n))
              \/ AllocStrays(fds[k].inode, Shortage(k, n))
  BY <1>2, <1>4, <1>5, AllocStorage
<1>6. CASE WriteAlloc(k, n) /\ disk' = disk
  <2>1. CASE Shortage(k, n) >= 0 /\ AllocBlock(fds[k].inode, Shortage(k, n))
    BY <1>2, <1>4, <1>6, <2>1, AllocStorage
  <2>2. CASE UNCHANGED cache
    BY <1>6, <2>2, QuietStep
  <2> QED BY <1>6, <2>1, <2>2 DEF WriteAlloc
<1> QED BY <1>5, <1>6 DEF vsfs_write

LEMMA SeekStorage ==
  ASSUME IInv, IInv', NEW k \in Fds, NEW offset \in Nat,
         SeekBeyond(k, offset) \/ SeekDies(k, offset)
  PROVE  Storage
<1>1. k \in DOMAIN fds
  BY DEF SeekBeyond, SeekDies
<1>2. fds[k] \in OpenFiles /\ fds[k].inode \in Inodes \ {Root}
  BY <1>1, FdFile
<1>3. Missing(fds[k], offset) \in Nat
  BY <1>2, MissingType
<1> QED BY <1>2, <1>3, AllocStorage DEF SeekBeyond, SeekDies

\* The first pointers of a new file.
LEMMA NewRun ==
  ASSUME NEW first \in Nat, NEW n \in Nat, first + n <= NR_BLOCKS
  PROVE  Run(first, n) \in Seq(Pointers) /\ Continues(Run(first, n), 0, first, first + n)
<1>1. Run(first, n) \in Seq(Pointers)
  BY RunType, BlocksArePointers
<1>2. \A k \in 1 .. n : Run(first, n)[k] = first + (k - 0) - 1
  BY DEF Run
<1>3. DOMAIN Run(first, n) = 1 .. n
  BY DEF Run
<1> QED BY <1>1, <1>2, <1>3 DEF Continues

LEMMA CreatStorage ==
  ASSUME IInv, IInv', NEW name \in Names, NEW n \in Nat,
         vsfs_creat(name, n) \/ CreatDies(name, n)
  PROVE  Storage
<1>1. /\ next_inode \in Nat /\ next_block \in Nat /\ FirstOfFile \in Nat
      /\ next_block <= FirstOfFile /\ next_block' \in Nat
  BY Free, FirstType DEF IInv, CacheOK, CacheType
<1>2. CASE UNCHANGED <<cache, disk>>
  BY <1>2, QuietStep
<1>3. CASE /\ ~Listed(name) /\ next_inode < NR_INODES
           /\ FirstOfFile + n <= NR_BLOCKS /\ NewFile(name, n)
  <2> DEFINE t == Run(FirstOfFile, n)
  <2>1. t \in Seq(Pointers) /\ Continues(t, 0, FirstOfFile, next_block')
    BY <1>1, <1>3, NewRun DEF NewFile
  <2>2. map' = [DirMap EXCEPT ![next_inode] = t]
    BY <1>3 DEF NewFile
  <2> HIDE DEF t
  <2>3. FirstOfFile <= NR_BLOCKS /\ FirstOfFile <= next_block'
    BY <1>1, <1>3 DEF NewFile
  <2>4. Made(name, t)
    BY <1>3, <2>1, <2>2, <2>3 DEF Made, NewFile
  <2> QED BY <2>1, <2>4 DEF Storage
<1>4. CASE CreatDies(name, n)
  <2>1. ~Listed(name) /\ next_inode < NR_INODES /\ next_inode' = next_inode + 1
        /\ next_block' <= NR_BLOCKS
    BY <1>4 DEF CreatDies
  <2>2. CASE next_block' \in {next_block, FirstOfFile} /\ UNCHANGED <<map, size, entry, disk>>
    BY <1>1, <2>1, <2>2 DEF Quiet, Storage
  <2>3. CASE /\ FirstOfFile <= NR_BLOCKS /\ next_block' = FirstOfFile
             /\ map' = DirMap /\ disk' \in {disk, WithEntry(name)}
             /\ UNCHANGED <<size, entry>>
    BY <1>1, <2>1, <2>3 DEF DirTaken, Storage
  <2>4. ASSUME FirstOfFile <= NR_BLOCKS,
               disk' = WithEntry(name), entry' = entry + 1,
               size' = [size EXCEPT ![next_inode] = 0],
               NEW m \in 0 .. n, NEW w \in Kept(0, m),
               map' = [DirMap EXCEPT ![next_inode] = Partly(<< >>, FirstOfFile, m, w)],
               next_block' \in FirstOfFile + m .. FirstOfFile + Lowest(m + 1, n)
        PROVE  Storage
    <3> DEFINE e == << >>
               t == Partly(e, FirstOfFile, m, w)
    <3>1. /\ m \in Nat /\ w \in 0 .. m /\ FirstOfFile + m <= next_block'
          /\ FirstOfFile <= next_block' /\ FirstOfFile + m <= NR_BLOCKS
      <4>1. FirstOfFile + Lowest(m + 1, n) \in Int
        BY <1>1 DEF Lowest
      <4> QED BY <1>1, <2>1, <2>4, <4>1 DEF Kept
    <3>2. map' = [DirMap EXCEPT ![next_inode] = t]
      BY <2>4
    <3>3. e \in Seq(Pointers) /\ Len(e) = 0
      BY EmptySeq
    <3> HIDE DEF e
    <3>4. t \in Seq(Pointers) /\ Continues(t, 0, FirstOfFile, next_block')
      BY <1>1, <3>1, <3>3, PartlyContinues
    <3> HIDE DEF t
    <3>5. Made(name, t)
      BY <2>1, <2>4, <3>1, <3>2, <3>4 DEF Made
    <3> QED BY <3>4, <3>5 DEF Storage
  <2> QED BY <1>4, <2>2, <2>3, <2>4 DEF CreatDies
<1> QED BY <1>2, <1>3, <1>4 DEF vsfs_creat

LEMMA QuietCalls ==
  ASSUME IInv,
         \/ Start \/ Exit \/ vsfs_close \/ UNCHANGED vars
         \/ \E name \in Names : vsfs_stat(name) \/ \E flags \in Flags : vsfs_open(name, flags)
         \/ \E k \in Fds : \/ ReadRefused(k) \/ LseekFails(k) \/ vsfs_print_block_nbr(k)
                           \/ \E n : vsfs_read(k, n) \/ WriteRefused(k, n) \/ SeekInside(k, n)
  PROVE  Storage
<1>1. UNCHANGED <<cache, disk>>
  BY DEF Start, Exit, vsfs_close, vars, vsfs_stat, vsfs_open, ReadRefused, LseekFails,
     vsfs_print_block_nbr, vsfs_read, WriteRefused, SeekInside, cache
<1> QED BY <1>1, QuietStep

LEMMA WorkStorage == ASSUME Work PROVE Storage
BY DEF Work, WriteStrays, Turn, Storage

LEMMA CallStorage == ASSUME IInv, IInv', Call PROVE Storage
<1>1. ASSUME NEW name \in Names, NEW n \in BlockNums,
             vsfs_creat(name, n) \/ CreatDies(name, n)
      PROVE  Storage
  <2>1. n \in Nat
    BY FileAssumption DEF FileAssumption
  <2> QED BY <1>1, <2>1, CreatStorage
<1>2. ASSUME NEW k \in Fds, CallFd(k)
      PROVE  Storage
  <2>1. ASSUME NEW n \in Lengths, vsfs_write(k, n)
        PROVE  Storage
    <3>1. n \in Nat
      BY FileAssumption DEF FileAssumption
    <3> QED BY <2>1, <3>1, WriteStorage
  <2>2. ASSUME NEW offset \in Offsets, SeekBeyond(k, offset) \/ SeekDies(k, offset)
        PROVE  Storage
    <3>1. offset \in Nat
      BY FileAssumption DEF FileAssumption
    <3> QED BY <2>2, <3>1, SeekStorage
  <2> QED BY <1>2, <2>1, <2>2, QuietCalls DEF CallFd, vsfs_lseek
<1>3. CASE vsfs_close \/ Faults
  BY <1>3, QuietCalls DEF Faults
<1>4. CASE \E name \in Names : vsfs_stat(name) \/ \E flags \in Flags : vsfs_open(name, flags)
  BY <1>4, QuietCalls
<1>5. CASE StaleHit
  BY <1>5 DEF StaleHit, Storage
<1> QED BY <1>1, <1>2, <1>3, <1>4, <1>5 DEF Call

LEMMA ShellStorage ==
  ASSUME IInv, ShellNext \/ OtherNext
  PROVE  Storage
<1>0. IInv'
  BY ShellStepInv
<1>1. CASE env_init \/ OtherProgram \/ Quit
  BY <1>1, QuietCalls DEF env_init, OtherProgram, Quit
<1>2. CASE CreateDone
  BY <1>2, QuietCalls DEF CreateDone
<1>3. CASE StaleCommand
  BY <1>3 DEF StaleCommand, StaleHit, Storage
<1>4. ASSUME 1 \in DOMAIN fds PROVE 1 \in Fds
  BY <1>4, FirstFd
<1>5. CASE InCommand
  <2>1. CASE SeekStart
    BY <1>4, <2>1, QuietCalls DEF SeekStart, SeekInside
  <2>2. CASE ReadLoop
    BY <1>4, <2>2, QuietCalls DEF ReadLoop, vsfs_read
  <2>3. CASE CloseFile
    BY <2>3, QuietCalls DEF CloseFile
  <2>4. CASE WriteWork
    BY <2>4, WriteWorkIsWork, WorkStorage
  <2> QED BY <1>5, <2>1, <2>2, <2>3, <2>4 DEF InCommand
<1>6. CASE WriteCall
  <2>1. vsfs_write(1, BS) /\ 1 \in DOMAIN fds
    BY <1>6 DEF WriteCall, vsfs_write
  <2>2. 1 \in Fds /\ BS \in Nat
    BY <1>4, <2>1, Numbers
  <2> QED BY <1>0, <2>1, <2>2, WriteStorage
<1>7. ASSUME NEW name \in Names, cmd_create(name)
      PROVE  Storage
  <2>1. 0 \in Nat
    OBVIOUS
  <2> QED BY <1>0, <1>7, <2>1, CreatStorage DEF cmd_create
<1>8. ASSUME NEW name \in Names, OpenFor(name, "seek") \/ OpenFor(name, "write")
      PROVE  Storage
  <2>1. vsfs_open(name, "O_RDWR") /\ "O_RDWR" \in Flags
    BY <1>8 DEF OpenFor, Flags
  <2> QED BY <2>1, QuietCalls
<1>9. CASE cmd = "other" /\ (Call \/ Work)
  BY <1>0, <1>9, CallStorage, WorkStorage
<1> QED BY <1>1, <1>2, <1>3, <1>5, <1>6, <1>7, <1>8, <1>9 DEF ShellNext, OtherNext

----------------------------------------------------------------------------
(* No block has two places, no name and no inode two entries *)

\* Of the pointers that were stored, each is in one place and was handed out.
BlocksDistinct ==
  /\ \A i \in Inodes : \A k \in DOMAIN map[i] : map[i][k] # Unset => map[i][k] < next_block
  /\ \A i, j \in Inodes : \A k \in DOMAIN map[i], h \in DOMAIN map[j] :
       map[i][k] # Unset /\ map[i][k] = map[j][h] => i = j /\ k = h

EntryIs(a, name, inode) == disk[BlockOfEntry(a)][a % BS] = Entry(name, inode)

NamesOnce ==
  Sound =>
    \A a, b \in 0 .. entry - 1 : \A name, other \in Names : \A inode, second \in Inodes :
      EntryIs(a, name, inode) /\ EntryIs(b, other, second)
        /\ (name = other \/ inode = second) => a = b

LEMMA Maps ==
  ASSUME IInv
  PROVE  /\ \A i \in Inodes : /\ map[i] \in Seq(Pointers) /\ Len(map[i]) \in Nat
                              /\ DOMAIN map[i] = 1 .. Len(map[i])
                              /\ \A k \in 1 .. Len(map[i]) : map[i][k] \in Pointers
         /\ map[Root] \in Seq(Blocks)
         /\ \A k \in 1 .. Len(map[Root]) : map[Root][k] \in Blocks /\ map[Root][k] # Unset
         /\ Root \in Inodes /\ next_block \in 1 .. NR_BLOCKS /\ entry \in Nat
         /\ next_inode \in 1 .. NR_INODES
         /\ DOMAIN map = Inodes
<1>1. \A i \in Inodes : map[i] \in Seq(Pointers)
  BY DEF IInv, CacheOK, CacheType
<1>2. Root \in Inodes /\ map[Root] \in Seq(Blocks)
  BY DEF Root, Inodes, IInv, CacheOK, CacheType
<1>3. \A k \in 1 .. Len(map[Root]) : map[Root][k] \in Blocks /\ map[Root][k] # Unset
  BY <1>2, ElementOfSeq, DataAssumption DEF DataAssumption
<1> QED BY <1>1, <1>2, <1>3, LenProperties, ElementOfSeq DEF IInv, CacheOK, CacheType

\* A stored pointer is a block.
LEMMA StoredIsBlock ==
  ASSUME IInv, NEW i \in Inodes, NEW k \in DOMAIN map[i], map[i][k] # Unset
  PROVE  map[i][k] \in Blocks
BY Maps DEF Pointers

LEMMA OnePlace ==
  ASSUME BlocksDistinct, NEW i \in Inodes, NEW j \in Inodes,
         NEW k \in DOMAIN map[i], NEW h \in DOMAIN map[j],
         map[i][k] # Unset, map[i][k] = map[j][h]
  PROVE  i = j /\ k = h
BY DEF BlocksDistinct

\* What an inode's blocks are after it grows.
LEMMA GrownMap ==
  ASSUME IInv, NEW inode \in Inodes, NEW t \in Seq(Pointers), Grows(inode, t)
  PROVE  /\ \A i \in Inodes : i # inode => map'[i] = map[i]
         /\ map'[inode] = t /\ DOMAIN t = 1 .. Len(t) /\ Len(t) \in Nat
         /\ Len(map[inode]) <= Len(t)
         /\ \A k \in 1 .. Len(map[inode]) : t[k] = map[inode][k]
<1>1. map' = [map EXCEPT ![inode] = t] /\ IsPrefixOf(map[inode], t)
  BY DEF Grows
<1>2. DOMAIN map[inode] = 1 .. Len(map[inode])
  BY Maps
<1> QED BY <1>1, <1>2, Maps, LenProperties DEF IsPrefixOf

\* The directory's blocks, with the new one if it is full.
LEMMA DirRoot ==
  ASSUME IInv, FirstOfFile <= NR_BLOCKS
  PROVE  /\ \A i \in Inodes \ {Root} : DirMap[i] = map[i]
         /\ DOMAIN DirMap = Inodes
         /\ \A k \in 1 .. Len(map[Root]) : DirMap[Root][k] = map[Root][k]
         /\ ~DirFull => /\ DirMap[Root] = map[Root] /\ FirstOfFile = next_block
                        /\ entry \div BS + 1 \in 1 .. Len(map[Root])
         /\ DirFull => /\ DOMAIN DirMap[Root] = 1 .. Len(map[Root]) + 1
                       /\ DirMap[Root][Len(map[Root]) + 1] = next_block
                       /\ FirstOfFile = next_block + 1 /\ next_block \in Blocks
                       /\ entry = BS * Len(map[Root])
<1> USE Maps
<1>1. /\ DOMAIN DirMap = Inodes /\ \A i \in Inodes \ {Root} : DirMap[i] = map[i]
      /\ DirMap[Root] = IF DirFull THEN Append(map[Root], next_block) ELSE map[Root]
  BY DEF DirMap
<1>2. PICK s : s = map[Root] /\ s \in Seq(Blocks) /\ Len(s) \in Nat
  OBVIOUS
<1>3. CASE DirFull
  <2>1. next_block \in Blocks /\ FirstOfFile = next_block + 1
    BY <1>3 DEF FirstOfFile, Blocks
  <2>2. DirMap[Root] = Append(s, next_block)
    BY <1>1, <1>2, <1>3
  <2>3. /\ Append(s, next_block) \in Seq(Blocks)
        /\ Len(Append(s, next_block)) = Len(s) + 1
        /\ \A k \in 1 .. Len(s) : Append(s, next_block)[k] = s[k]
        /\ Append(s, next_block)[Len(s) + 1] = next_block
    BY <1>2, <2>1, AppendProperties
  <2>4. DOMAIN Append(s, next_block) = 1 .. Len(s) + 1
    BY <2>3, LenProperties
  <2>5. entry = BS * Len(s)
    <3>1. BS * Len(s) \in Nat
      BY <1>2
    <3> QED BY <1>2, <1>3, <3>1 DEF DirFull, IInv, CacheOK, EntriesFit
  <2> QED BY <1>1, <1>2, <1>3, <2>1, <2>2, <2>3, <2>4, <2>5
<1>4. CASE ~DirFull
  <2>1. BS * Len(s) \in Nat
    BY <1>2
  <2>2. entry < BS * Len(s)
    BY <1>2, <1>4, <2>1 DEF DirFull
  <2>3. entry \div BS \in Nat /\ entry \div BS < Len(s)
    BY <1>2, <2>2, IndexBelow
  <2>4. entry \div BS + 1 \in 1 .. Len(s)
    BY <1>2, <2>3
  <2> QED BY <1>1, <1>2, <1>4, <2>4 DEF FirstOfFile
<1> QED BY <1>3, <1>4

\* The maps a new file leaves.
LEMMA MadeMaps ==
  ASSUME IInv, NEW name \in Names, NEW t \in Seq(Pointers), Made(name, t)
  PROVE  /\ next_inode \in Inodes \ {Root}
         /\ \A i \in Inodes : i \notin {Root, next_inode} => map'[i] = map[i]
         /\ map'[next_inode] = t /\ map'[Root] = DirMap[Root]
<1>1. next_inode \in Inodes \ {Root}
  BY Maps DEF Made, Inodes, Root
<1>2. map' = [DirMap EXCEPT ![next_inode] = t] /\ FirstOfFile <= NR_BLOCKS
  BY DEF Made
<1> QED BY <1>1, <1>2, DirRoot, Maps

LEMMA FreshBlocks ==
  ASSUME IInv, IInv'
  PROVE  /\ next_block \in Nat /\ next_block' \in Nat
         /\ \A x \in next_block .. next_block' - 1 : x # Unset
<1>1. next_block \in 1 .. NR_BLOCKS
  BY DEF IInv, CacheOK, CacheType
<1>2. next_block' \in 1 .. NR_BLOCKS
  BY DEF IInv, CacheOK, CacheType
<1>3. PICK a, b \in 1 .. NR_BLOCKS : a = next_block /\ b = next_block'
  BY <1>1, <1>2
<1>4. ASSUME NEW x \in a .. b - 1 PROVE x # Unset
  <2>1. a \in Nat /\ a >= 1 /\ b \in Nat /\ b <= NR_BLOCKS /\ NR_BLOCKS \in Nat
    BY Numbers
  <2>2. x \in Int /\ a <= x /\ x <= b - 1
    BY ONLY <1>4, <2>1
  <2>3. x \in 0 .. NR_BLOCKS - 1
    BY ONLY <2>1, <2>2
  <2> QED BY <2>3, DataAssumption DEF DataAssumption, Blocks
<1>5. a \in Nat /\ b \in Nat
  BY <1>3
<1> QED BY <1>3, <1>4, <1>5

\* Pointers that are kept, never stored, or new and each in one place.
LEMMA StillDistinct ==
  ASSUME IInv, IInv', BlocksDistinct, next_block <= next_block',
         \A i \in Inodes : \A k \in DOMAIN map'[i] :
           \/ k \in DOMAIN map[i] /\ map'[i][k] = map[i][k]
           \/ map'[i][k] = Unset
           \/ map'[i][k] \in next_block .. next_block' - 1,
         \A i, j \in Inodes : \A k \in DOMAIN map'[i], h \in DOMAIN map'[j] :
           map'[i][k] \in next_block .. next_block' - 1 /\ map'[i][k] = map'[j][h]
             => i = j /\ k = h
  PROVE  BlocksDistinct'
<1>1. next_block \in Nat /\ next_block' \in Nat
  BY FreshBlocks
<1>2. \A i \in Inodes : \A k \in DOMAIN map[i] : map[i][k] # Unset => map[i][k] \in Nat
  BY StoredIsBlock DEF Blocks
<1>3. ASSUME NEW i \in Inodes, NEW k \in DOMAIN map'[i], map'[i][k] # Unset
      PROVE  map'[i][k] < next_block'
  <2>1. CASE k \in DOMAIN map[i] /\ map'[i][k] = map[i][k]
    BY <1>1, <1>2, <1>3, <2>1 DEF BlocksDistinct
  <2>2. CASE map'[i][k] \in next_block .. next_block' - 1
    BY <1>1, <2>2
  <2> QED BY <1>3, <2>1, <2>2
<1>4. ASSUME NEW i \in Inodes, NEW j \in Inodes, NEW k \in DOMAIN map'[i],
             NEW h \in DOMAIN map'[j], map'[i][k] # Unset, map'[i][k] = map'[j][h]
      PROVE  i = j /\ k = h
  <2>1. CASE map'[i][k] \in next_block .. next_block' - 1
    BY <1>4, <2>1
  <2>2. CASE map'[i][k] \notin next_block .. next_block' - 1
    <3>1. k \in DOMAIN map[i] /\ map'[i][k] = map[i][k]
      BY <1>4, <2>2
    <3>2. h \in DOMAIN map[j] /\ map'[j][h] = map[j][h]
      BY <1>4, <2>2
    <3>3. map[i][k] # Unset /\ map[i][k] = map[j][h]
      BY <1>4, <3>1, <3>2
    <3> QED BY ONLY BlocksDistinct, <3>1, <3>2, <3>3, i \in Inodes, j \in Inodes, OnePlace
  <2> QED BY <2>1, <2>2
<1> QED BY <1>3, <1>4 DEF BlocksDistinct

LEMMA GrowsDistinct ==
  ASSUME IInv, IInv', BlocksDistinct, NEW inode \in Inodes \ {Root},
         NEW t \in Seq(Pointers), Grows(inode, t)
  PROVE  BlocksDistinct'
<1>1. /\ \A i \in Inodes : i # inode => map'[i] = map[i]
      /\ map'[inode] = t /\ DOMAIN t = 1 .. Len(t) /\ Len(t) \in Nat
      /\ \A k \in 1 .. Len(map[inode]) : t[k] = map[inode][k]
  BY GrownMap
<1>2. /\ Continues(t, Len(map[inode]), next_block, next_block') /\ next_block <= next_block'
  BY DEF Grows
<1>3. PICK m \in Nat : m = Len(map[inode]) /\ DOMAIN map[inode] = 1 .. m
  BY Maps
<1>4. /\ next_block \in Nat /\ next_block' \in Nat
      /\ \A x \in next_block .. next_block' - 1 : x # Unset
  BY FreshBlocks
<1>5. ASSUME NEW i \in Inodes, NEW k \in DOMAIN map'[i]
      PROVE  \/ k \in DOMAIN map[i] /\ map'[i][k] = map[i][k]
             \/ map'[i][k] = Unset
             \/ /\ i = inode /\ k \in Nat /\ map'[i][k] = next_block + (k - m) - 1
                /\ map'[i][k] \in next_block .. next_block' - 1
  <2>1. CASE i # inode
    BY <1>1, <1>5, <2>1
  <2>2. CASE i = inode /\ k <= m
    <3>1. k \in 1 .. m
      BY <1>1, <1>3, <1>5, <2>2
    <3> QED BY <1>1, <1>3, <2>2, <3>1
  <2>3. CASE i = inode /\ ~(k <= m)
    <3>1. k \in DOMAIN t /\ k \in Nat /\ k > m /\ map'[i][k] = t[k]
      BY <1>1, <1>5, <2>3
    <3>2. t[k] = Unset \/ (t[k] = next_block + (k - m) - 1 /\ t[k] < next_block')
      BY <1>2, <1>3, <3>1 DEF Continues
    <3> QED BY <1>3, <1>4, <2>3, <3>1, <3>2
  <2> QED BY <2>1, <2>2, <2>3
<1>6. ASSUME NEW i \in Inodes, NEW k \in DOMAIN map'[i],
             map'[i][k] \in next_block .. next_block' - 1
      PROVE  i = inode /\ k \in Nat /\ map'[i][k] = next_block + (k - m) - 1
  <2>1. map'[i][k] # Unset
    BY <1>4, <1>6
  <2>2. ~(k \in DOMAIN map[i] /\ map'[i][k] = map[i][k])
    BY <1>4, <1>6, <2>1, StoredIsBlock DEF BlocksDistinct, Blocks
  <2> QED BY <1>5, <2>1, <2>2
<1>7. ASSUME NEW i \in Inodes, NEW j \in Inodes, NEW k \in DOMAIN map'[i],
             NEW h \in DOMAIN map'[j],
             map'[i][k] \in next_block .. next_block' - 1, map'[i][k] = map'[j][h]
      PROVE  i = j /\ k = h
  <2>1. /\ i = inode /\ k \in Nat /\ map'[i][k] = next_block + (k - m) - 1
        /\ j = inode /\ h \in Nat /\ map'[j][h] = next_block + (h - m) - 1
    BY <1>6, <1>7
  <2>2. next_block + (k - m) - 1 = next_block + (h - m) - 1
    BY <1>7, <2>1
  <2>3. k = h
    <3>1. next_block \in Nat /\ m \in Nat /\ k \in Nat /\ h \in Nat
      BY <1>3, <1>4, <2>1
    <3> QED BY ONLY <2>2, <3>1
  <2> QED BY <2>1, <2>3
<1> QED BY <1>2, <1>5, <1>7, StillDistinct

\* A new file, or none yet.
LEMMA MadeDistinct ==
  ASSUME IInv, IInv', BlocksDistinct, NEW name \in Names,
         DirTaken(name) \/ \E t \in Seq(Pointers) : Made(name, t)
  PROVE  BlocksDistinct'
<1>1. PICK first : first = FirstOfFile
  OBVIOUS
<1>2. PICK m \in Nat : m = Len(map[Root]) /\ DOMAIN map[Root] = 1 .. m
  BY Maps
<1>3. /\ next_block \in Nat /\ next_block' \in Nat
      /\ \A x \in next_block .. next_block' - 1 : x # Unset
  BY FreshBlocks
<1>4. /\ FirstOfFile <= NR_BLOCKS /\ first \in Nat /\ first <= next_block'
      /\ next_block <= first /\ (DirFull => next_block < first)
  <2>1. FirstOfFile <= NR_BLOCKS /\ first <= next_block'
    BY <1>1, FirstType DEF DirTaken, Made
  <2> QED BY <1>1, <2>1, FirstType
<1>5. ASSUME NEW k \in DOMAIN DirMap[Root]
      PROVE  \/ k \in DOMAIN map[Root] /\ DirMap[Root][k] = map[Root][k]
             \/ DirFull /\ k = m + 1 /\ DirMap[Root][k] = next_block
  <2>1. CASE DirFull
    <3>1. k \in 1 .. m + 1 /\ DirMap[Root][m + 1] = next_block
      BY <1>2, <1>4, <1>5, <2>1, DirRoot
    <3>2. k # m + 1 => k \in 1 .. m
      BY <3>1
    <3> QED BY <1>2, <1>4, <2>1, <3>1, <3>2, DirRoot
  <2>2. CASE ~DirFull
    BY <1>4, <1>5, <2>2, DirRoot
  <2> QED BY <2>1, <2>2
<1>6. ASSUME NEW i \in Inodes, NEW k \in DOMAIN map'[i]
      PROVE  \/ k \in DOMAIN map[i] /\ map'[i][k] = map[i][k]
             \/ map'[i][k] = Unset
             \/ i = Root /\ DirFull /\ k = m + 1 /\ map'[i][k] = next_block
             \/ /\ i = next_inode /\ i # Root /\ k \in Nat
                /\ map'[i][k] = first + (k - 0) - 1
                /\ first <= map'[i][k] /\ map'[i][k] < next_block'
  <2>1. CASE DirTaken(name)
    <3>1. map' = DirMap
      BY <2>1 DEF DirTaken
    <3> QED BY <1>4, <1>5, <1>6, <3>1, DirRoot
  <2>2. ASSUME NEW t \in Seq(Pointers), Made(name, t)
        PROVE  \/ k \in DOMAIN map[i] /\ map'[i][k] = map[i][k]
               \/ map'[i][k] = Unset
               \/ i = Root /\ DirFull /\ k = m + 1 /\ map'[i][k] = next_block
               \/ /\ i = next_inode /\ i # Root /\ k \in Nat
                  /\ map'[i][k] = first + (k - 0) - 1
                  /\ first <= map'[i][k] /\ map'[i][k] < next_block'
    <3>1. /\ next_inode \in Inodes \ {Root}
          /\ i \notin {Root, next_inode} => map'[i] = map[i]
          /\ map'[next_inode] = t /\ map'[Root] = DirMap[Root]
      BY <2>2, MadeMaps
    <3>2. CASE i = next_inode
      <4>1. k \in DOMAIN t /\ k \in Nat /\ k > 0 /\ map'[i][k] = t[k]
        BY <1>6, <3>1, <3>2, LenProperties
      <4>2. t[k] = Unset \/ (t[k] = first + (k - 0) - 1 /\ t[k] < next_block')
        BY <1>1, <2>2, <4>1 DEF Made, Continues
      <4> QED BY <1>4, <3>1, <3>2, <4>1, <4>2
    <3>3. CASE i # next_inode
      BY <1>5, <1>6, <3>1, <3>3
    <3> QED BY <3>2, <3>3
  <2> QED BY <2>1, <2>2
<1>7. ASSUME NEW i \in Inodes, NEW k \in DOMAIN map'[i],
             map'[i][k] \in next_block .. next_block' - 1
      PROVE  \/ i = Root /\ DirFull /\ k = m + 1 /\ map'[i][k] = next_block
             \/ /\ i = next_inode /\ i # Root /\ k \in Nat
                /\ map'[i][k] = first + (k - 0) - 1 /\ first <= map'[i][k]
  <2>1. map'[i][k] # Unset
    BY <1>3, <1>7
  <2>2. ~(k \in DOMAIN map[i] /\ map'[i][k] = map[i][k])
    BY <1>3, <1>7, <2>1, StoredIsBlock DEF BlocksDistinct, Blocks
  <2> QED BY <1>6, <2>1, <2>2
<1>8. ASSUME NEW i \in Inodes, NEW j \in Inodes, NEW k \in DOMAIN map'[i],
             NEW h \in DOMAIN map'[j],
             map'[i][k] \in next_block .. next_block' - 1, map'[i][k] = map'[j][h]
      PROVE  i = j /\ k = h
  BY <1>3, <1>4, <1>7, <1>8
<1>9. ASSUME NEW i \in Inodes, NEW k \in DOMAIN map'[i]
      PROVE  \/ k \in DOMAIN map[i] /\ map'[i][k] = map[i][k]
             \/ map'[i][k] = Unset
             \/ map'[i][k] \in next_block .. next_block' - 1
  <2>1. CASE DirFull /\ map'[i][k] = next_block
    BY <1>3, <1>4, <2>1
  <2>2. CASE k \in Nat /\ map'[i][k] = first + (k - 0) - 1
             /\ first <= map'[i][k] /\ map'[i][k] < next_block'
    <3>1. PICK v \in Int : v = first + (k - 0) - 1
      BY <1>4, <2>2
    <3>2. next_block <= v /\ v < next_block'
      <4>1. first <= v /\ v < next_block' /\ next_block <= first
        BY <1>4, <2>2, <3>1
      <4>2. next_block \in Nat /\ first \in Nat
        BY <1>3, <1>4
      <4> QED BY ONLY <3>1, <4>1, <4>2
    <3> QED BY <1>3, <2>2, <3>1, <3>2
  <2> QED BY <1>6, <2>1, <2>2
<1> QED BY <1>3, <1>4, <1>8, <1>9, StillDistinct

LEMMA DistinctStep == ASSUME IInv, IInv', BlocksDistinct, Storage PROVE BlocksDistinct'
<1>1. CASE Quiet \/ Turn \/ WriteEnd \/ GoesAstray
  <2>1. map' = map /\ next_block <= next_block'
    BY <1>1, Maps DEF Quiet, Turn, WriteBlock, WriteEnd, GoesAstray, cache
  <2>2. next_block \in Nat /\ next_block' \in Nat
    BY FreshBlocks
  <2>3. \A i \in Inodes : \A k \in DOMAIN map[i] : map[i][k] # Unset => map[i][k] \in Nat
    BY StoredIsBlock DEF Blocks
  <2> QED BY <2>1, <2>2, <2>3 DEF BlocksDistinct
<1> QED BY <1>1, GrowsDistinct, MadeDistinct DEF Storage

\* No block of the directory moves.
LEMMA RootKept ==
  ASSUME IInv, Storage, NEW k \in DOMAIN map[Root]
  PROVE  k \in DOMAIN map'[Root] /\ map'[Root][k] = map[Root][k]
<1>1. k \in 1 .. Len(map[Root]) /\ Len(map[Root]) \in Nat
  BY Maps
<1>2. CASE Quiet \/ Turn \/ WriteEnd \/ GoesAstray
  BY <1>2 DEF Quiet, Turn, WriteBlock, WriteEnd, GoesAstray, cache
<1>3. ASSUME NEW inode \in Inodes \ {Root}, NEW t \in Seq(Pointers), Grows(inode, t)
      PROVE  map'[Root] = map[Root]
  BY <1>3, GrownMap, Maps
<1>4. ASSUME FirstOfFile <= NR_BLOCKS, map'[Root] = DirMap[Root]
      PROVE  k \in DOMAIN map'[Root] /\ map'[Root][k] = map[Root][k]
  BY <1>1, <1>4, DirRoot
<1>5. ASSUME NEW name \in Names, DirTaken(name) \/ \E t \in Seq(Pointers) : Made(name, t)
      PROVE  FirstOfFile <= NR_BLOCKS /\ map'[Root] = DirMap[Root]
  BY <1>5, MadeMaps DEF DirTaken, Made
<1> QED BY <1>2, <1>3, <1>4, <1>5 DEF Storage

\* What is not sound does not become sound.
LEMMA SoundBefore == ASSUME IInv, ~Astray, Storage, Sound' PROVE Sound
<1>1. InPlace
  BY RootKept DEF Sound, InPlace
<1> QED BY <1>1 DEF Sound

\* The blocks the entries are in.
LEMMA EntryBlocks ==
  ASSUME IInv, NEW a \in 0 .. entry - 1
  PROVE  /\ a \div BS + 1 \in DOMAIN map[Root] /\ a % BS \in Slots
         /\ BlockOfEntry(a) \in Blocks
         /\ InPlace => BlockOfEntry(a) = a \div BS
<1>1. PICK m \in Nat : m = Len(map[Root]) /\ DOMAIN map[Root] = 1 .. m
  BY Maps
<1>2. entry \in Nat /\ entry <= BS * m /\ BS * m \in Nat
  BY <1>1, Maps DEF IInv, CacheOK, EntriesFit
<1>3. a \in Nat /\ a < BS * m
  BY <1>2
<1>4. a \div BS \in Nat /\ a \div BS < m
  BY <1>1, <1>3, IndexBelow
<1>5. a \div BS + 1 \in 1 .. m
  BY <1>1, <1>4
<1>6. a % BS \in Slots
  BY <1>3, Division DEF Slots
<1>7. BlockOfEntry(a) \in Blocks
  BY <1>1, <1>5, Maps DEF BlockOfEntry
<1>8. InPlace => BlockOfEntry(a) = a \div BS
  <2>1. (a \div BS + 1) - 1 = a \div BS
    BY <1>4
  <2> QED BY <1>1, <1>5, <2>1 DEF InPlace, BlockOfEntry
<1> QED BY <1>1, <1>5, <1>6, <1>7, <1>8

\* The block of an entry is in no file.
LEMMA EntryApart ==
  ASSUME IInv, BlocksDistinct, NEW a \in 0 .. entry - 1,
         NEW i \in Inodes \ {Root}, NEW k \in DOMAIN map[i]
  PROVE  map[i][k] # BlockOfEntry(a)
<1>1. a \div BS + 1 \in DOMAIN map[Root] /\ Root \in Inodes
  BY EntryBlocks, Maps
<1>2. map[Root][a \div BS + 1] # Unset
  BY <1>1, Maps
<1> QED BY <1>1, <1>2, OnePlace DEF BlockOfEntry

\* vsfs_creat writes the new entry where a search will look for it, and on no
\* other and no file, if the directory is in place.
LEMMA NewEntry ==
  ASSUME IInv, BlocksDistinct, InPlace, FirstOfFile <= NR_BLOCKS
  PROVE  /\ EntryBlock \in Blocks /\ EntrySlot \in Slots
         /\ EntryBlock = DirMap[Root][entry \div BS + 1] /\ EntrySlot = entry % BS
         /\ \A i \in Inodes \ {Root} : \A k \in DOMAIN map[i] : map[i][k] # EntryBlock
         /\ \A a \in 0 .. entry - 1 : ~(BlockOfEntry(a) = EntryBlock /\ a % BS = EntrySlot)
<1>1. entry \in Nat /\ Root \in Inodes
  BY Maps
<1>2. PICK m \in Nat : m = Len(map[Root]) /\ DOMAIN map[Root] = 1 .. m
  BY Maps
<1>3. CASE DirFull
  <2>1. entry = BS * m /\ DirMap[Root][m + 1] = next_block /\ next_block \in Blocks
    BY <1>2, <1>3, DirRoot
  <2>2. entry = BS * m + 0 /\ 0 \in 0 .. BS - 1
    BY <2>1
  <2>3. entry \div BS = m /\ entry % BS = 0
    BY <2>2, CellsOfBlock
  <2>4. EntryBlock = next_block /\ EntrySlot = 0
    BY <1>2, <1>3, <2>1 DEF EntryBlock, EntrySlot
  <2>5. \A i \in Inodes : \A k \in DOMAIN map[i] : map[i][k] # next_block
    <3>1. next_block # Unset /\ next_block \in Nat
      BY <2>1, DataAssumption DEF DataAssumption, Blocks
    <3>2. ASSUME NEW i \in Inodes, NEW k \in DOMAIN map[i], map[i][k] # Unset
          PROVE  map[i][k] # next_block
      <4>1. map[i][k] \in Nat /\ map[i][k] < next_block
        BY <3>2, StoredIsBlock DEF BlocksDistinct, Blocks
      <4> QED BY <3>1, <4>1
    <3> QED BY <3>1, <3>2
  <2>6. 0 \in Slots
    BY DEF Slots
  <2>7. \A a \in 0 .. entry - 1 : BlockOfEntry(a) # next_block
    BY <1>1, <2>5, EntryBlocks DEF BlockOfEntry
  <2> QED BY <2>1, <2>3, <2>4, <2>5, <2>6, <2>7
<1>4. CASE ~DirFull
  <2>1. entry \div BS + 1 \in 1 .. m /\ DirMap[Root] = map[Root]
    BY <1>2, <1>4, DirRoot
  <2>2. entry \div BS \in Nat /\ entry % BS \in 0 .. BS - 1
        /\ entry = BS * (entry \div BS) + (entry % BS)
    BY <1>1, Division
  <2>3. map[Root][entry \div BS + 1] = entry \div BS
    <3>1. (entry \div BS + 1) - 1 = entry \div BS
      BY <2>2
    <3> QED BY <1>2, <2>1, <3>1 DEF InPlace
  <2>4. EntryBlock = entry \div BS /\ EntrySlot = entry % BS
    BY <1>4 DEF EntryBlock, EntrySlot
  <2>5. map[Root][entry \div BS + 1] # Unset
    BY <1>2, <2>1, Maps
  <2>6. \A i \in Inodes \ {Root} : \A k \in DOMAIN map[i] : map[i][k] # entry \div BS
    BY <1>1, <1>2, <2>1, <2>3, <2>5, OnePlace
  <2>7. entry \div BS \in Blocks /\ entry % BS \in Slots
    BY <1>1, <1>2, <2>1, <2>2, <2>3, Maps DEF Slots
  <2>8. ASSUME NEW a \in 0 .. entry - 1, BlockOfEntry(a) = entry \div BS, a % BS = entry % BS
        PROVE  FALSE
    <3>1. a \div BS = entry \div BS
      BY <2>8, EntryBlocks
    <3>2. a \in Nat /\ a = BS * (a \div BS) + (a % BS)
      BY <1>1, Division
    <3>3. a = entry
      BY <2>2, <2>8, <3>1, <3>2
    <3> QED BY <1>1, <3>3
  <2> QED BY <2>1, <2>3, <2>4, <2>6, <2>7, <2>8
<1> QED BY <1>3, <1>4

\* The block a turn of __write_dblock changes.
LEMMA WrittenBlock ==
  ASSUME IInv, NEW data, WriteBlock(data)
  PROVE  /\ Current.inode \in Inodes \ {Root} /\ Index(Current) \in Nat
         /\ Index(Current) + 1 \in DOMAIN map[Current.inode]
         /\ map[Current.inode][Index(Current) + 1] \in Blocks
         /\ \A d \in Blocks : d # map[Current.inode][Index(Current) + 1] => disk'[d] = disk[d]
         /\ UNCHANGED cache
<1>1. PICK f : f = Current
  OBVIOUS
<1>2. /\ pc = "write" /\ call.left > 0 /\ Index(f) < Len(f.block)
      /\ f.block[Index(f) + 1] # Unset /\ UNCHANGED cache
      /\ \E changed : disk' = [disk EXCEPT ![f.block[Index(f) + 1]] = changed]
  BY <1>1 DEF WriteBlock, Known
<1>3. call.fd \in DOMAIN fds
  BY <1>2 DEF IInv, CallOK, WriteFits
<1>4. /\ f \in OpenFiles /\ f.inode \in Inodes \ {Root}
      /\ IsPrefixOf(f.block, map[f.inode])
  BY <1>1, <1>3, FdFile DEF Current, IInv, FilesOK, BlockMapsCurrent
<1>5. f.offset \in Nat /\ f.block \in Seq(Pointers)
  BY <1>4 DEF OpenFiles
<1>6. Index(f) \in Nat /\ Index(f) < Len(f.block)
  BY <1>2, <1>5, Division DEF Index
<1>7. Index(f) + 1 \in 1 .. Len(f.block) /\ DOMAIN f.block = 1 .. Len(f.block)
  BY <1>5, <1>6, LenProperties
<1>8. map[f.inode][Index(f) + 1] = f.block[Index(f) + 1]
  BY <1>4, <1>7 DEF IsPrefixOf
<1>9. Index(f) + 1 \in DOMAIN map[f.inode]
  <2>1. Len(f.block) <= Len(map[f.inode]) /\ Len(f.block) \in Nat
    BY <1>4, <1>5, LenProperties DEF IsPrefixOf
  <2>2. Len(map[f.inode]) \in Nat /\ DOMAIN map[f.inode] = 1 .. Len(map[f.inode])
    BY <1>4, Maps
  <2> QED BY <1>7, <2>1, <2>2
<1>10. map[f.inode][Index(f) + 1] \in Blocks
  BY <1>2, <1>4, <1>8, <1>9, StoredIsBlock
<1>11. disk \in [Blocks -> [Slots -> Cells]]
  BY DEF IInv, DiskOK, DiskType
<1>12. \A d \in Blocks : d # map[f.inode][Index(f) + 1] => disk'[d] = disk[d]
  BY <1>2, <1>8, <1>11
<1> QED BY <1>1, <1>2, <1>4, <1>6, <1>9, <1>10, <1>12

EntryStays(a) == \A name, inode : EntryIs(a, name, inode)' <=> EntryIs(a, name, inode)

\* An entry that is written falls on no other.
LEMMA EntriesStay ==
  ASSUME IInv, BlocksDistinct, InPlace, FirstOfFile <= NR_BLOCKS, NEW name \in Names,
         map'[Root] = DirMap[Root], disk' = WithEntry(name)
  PROVE  /\ \A a \in 0 .. entry - 1 : EntryStays(a)
         /\ \A d \in Blocks : d # EntryBlock => disk'[d] = disk[d]
         /\ disk'[EntryBlock][EntrySlot] = Entry(name, next_inode)
<1>1. /\ EntryBlock \in Blocks /\ EntrySlot \in Slots
      /\ \A a \in 0 .. entry - 1 : ~(BlockOfEntry(a) = EntryBlock /\ a % BS = EntrySlot)
  BY NewEntry
<1>2. PICK c, s, e : c = EntryBlock /\ s = EntrySlot /\ e = Entry(name, next_inode)
  OBVIOUS
<1>3. disk' = [disk EXCEPT ![c][s] = e] /\ disk \in [Blocks -> [Slots -> Cells]]
      /\ c \in Blocks /\ s \in Slots
  BY <1>1, <1>2 DEF WithEntry, IInv, DiskOK, DiskType
<1>4. /\ \A d \in Blocks : d # c => disk'[d] = disk[d]
      /\ disk'[c][s] = e
      /\ \A t \in Slots : t # s => disk'[c][t] = disk[c][t]
  BY <1>3
<1>5. \A k \in 1 .. Len(map[Root]) : map'[Root][k] = map[Root][k]
  BY DirRoot
<1>6. ASSUME NEW a \in 0 .. entry - 1
      PROVE  EntryStays(a)
  <2>1. a \div BS + 1 \in DOMAIN map[Root] /\ a % BS \in Slots /\ BlockOfEntry(a) \in Blocks
    BY EntryBlocks
  <2>2. map'[Root][a \div BS + 1] = map[Root][a \div BS + 1]
    BY <1>5, <2>1, Maps
  <2>3. PICK d, t : d = BlockOfEntry(a) /\ t = a % BS
    OBVIOUS
  <2>4. BlockOfEntry(a)' = d
    BY <2>2, <2>3 DEF BlockOfEntry
  <2>5. disk'[d][t] = disk[d][t]
    <3>1. ~(d = c /\ t = s) /\ d \in Blocks /\ t \in Slots
      BY <1>1, <1>2, <2>1, <2>3
    <3> QED BY <1>4, <3>1
  <2> QED BY <2>3, <2>4, <2>5 DEF EntryIs, EntryStays
<1> QED BY <1>2, <1>4, <1>6

\* Only a call of vsfs_creat that goes to the end counts an entry.
LEMMA DirectoryKept ==
  ASSUME IInv, BlocksDistinct, InPlace,
         \/ Quiet \/ Turn \/ WriteEnd
         \/ \E inode \in Inodes \ {Root}, t \in Seq(Pointers) : Grows(inode, t)
         \/ \E name \in Names : DirTaken(name)
  PROVE  /\ entry' = entry
         /\ \A a \in 0 .. entry - 1 : EntryStays(a)
<1>1. CASE Quiet \/ WriteEnd
  BY <1>1 DEF Quiet, WriteEnd, EntryIs, EntryStays, BlockOfEntry
<1>2. CASE \E inode \in Inodes \ {Root}, t \in Seq(Pointers) : Grows(inode, t)
  <2>1. map'[Root] = map[Root] /\ entry' = entry /\ disk' = disk
    BY <1>2, GrownMap, Maps DEF Grows
  <2> QED BY <2>1 DEF EntryIs, EntryStays, BlockOfEntry
<1>3. CASE Turn
  <2>1. PICK data \in [Slots -> Values] : WriteBlock(data)
    BY <1>3 DEF Turn
  <2>2. /\ Current.inode \in Inodes \ {Root}
        /\ Index(Current) + 1 \in DOMAIN map[Current.inode]
        /\ \A d \in Blocks : d # map[Current.inode][Index(Current) + 1] => disk'[d] = disk[d]
        /\ map' = map /\ entry' = entry
    BY <2>1, WrittenBlock DEF cache
  <2>3. ASSUME NEW a \in 0 .. entry - 1
        PROVE  EntryStays(a)
    <3>1. PICK b : b = BlockOfEntry(a)
      OBVIOUS
    <3>2. b \in Blocks
      BY <3>1, EntryBlocks
    <3>3. map[Current.inode][Index(Current) + 1] # b
      BY <2>2, <3>1, EntryApart
    <3>4. BlockOfEntry(a)' = b /\ disk'[b] = disk[b]
      BY <2>2, <3>1, <3>2, <3>3 DEF BlockOfEntry
    <3> QED BY <3>1, <3>4 DEF EntryIs, EntryStays
  <2> QED BY <2>2, <2>3
<1>4. ASSUME NEW name \in Names, DirTaken(name)
      PROVE  entry' = entry /\ \A a \in 0 .. entry - 1 : EntryStays(a)
  <2>1. FirstOfFile <= NR_BLOCKS /\ map' = DirMap /\ entry' = entry
    BY <1>4 DEF DirTaken
  <2>2. CASE disk' = WithEntry(name)
    BY <2>1, <2>2, EntriesStay
  <2>3. CASE disk' = disk
    <3>1. ASSUME NEW a \in 0 .. entry - 1
          PROVE  BlockOfEntry(a)' = BlockOfEntry(a)
      <4>1. a \div BS + 1 \in 1 .. Len(map[Root])
        BY EntryBlocks, Maps
      <4> QED BY <2>1, <4>1, DirRoot DEF BlockOfEntry
    <3> QED BY <2>1, <2>3, <3>1 DEF EntryIs, EntryStays
  <2> QED BY <1>4, <2>2, <2>3 DEF DirTaken
<1> QED BY <1>1, <1>2, <1>3, <1>4

\* vsfs_creat adds one entry and changes no other block.
LEMMA DirectoryGrown ==
  ASSUME IInv, BlocksDistinct, InPlace, NEW name \in Names, NEW t \in Seq(Pointers),
         Made(name, t)
  PROVE  /\ entry' = entry + 1
         /\ \A a \in 0 .. entry - 1 : EntryStays(a)
         /\ \A a, other, inode : a = entry =>
              (EntryIs(a, other, inode)' <=> Entry(name, next_inode) = Entry(other, inode))
         /\ \A d \in Blocks : d # EntryBlock => disk'[d] = disk[d]
<1>1. map'[Root] = DirMap[Root] /\ FirstOfFile <= NR_BLOCKS /\ disk' = WithEntry(name)
      /\ entry' = entry + 1
  BY MadeMaps DEF Made
<1>2. /\ EntryBlock = map'[Root][entry \div BS + 1] /\ EntrySlot = entry % BS
      /\ disk'[EntryBlock][EntrySlot] = Entry(name, next_inode)
  BY <1>1, NewEntry, EntriesStay
<1>3. ASSUME NEW a, NEW other, NEW inode, a = entry
      PROVE  EntryIs(a, other, inode)' <=> Entry(name, next_inode) = Entry(other, inode)
  <2>1. map'[Root][a \div BS + 1] = EntryBlock /\ a % BS = EntrySlot
    BY <1>2, <1>3
  <2> QED BY <1>2, <2>1 DEF EntryIs, BlockOfEntry
<1> QED BY <1>1, <1>3, EntriesStay

----------------------------------------------------------------------------
(* The names and the contents of the files *)

Named(name, inode) == \E a \in 0 .. entry - 1 : EntryIs(a, name, inode)

\* The store the directory stands for: each name has one file, none the root.
FilesAre ==
  /\ StoreFiles = [n \in DOMAIN StoreFiles |-> StoreFiles[n]]
  /\ DOMAIN StoreFiles = {n \in Names : \E x \in Inodes : Named(n, x)}
  /\ \A n \in Names, x \in Inodes : Named(n, x) =>
       /\ StoreFiles[n] = Content(x) /\ x # Root /\ x < next_inode
       /\ \A m \in Names : Named(m, x) => m = n

LEMMA SameEntry ==
  ASSUME NEW n, NEW m, NEW x, NEW y, Entry(n, x) = Entry(m, y)
  PROVE  n = m /\ x = y
<1>1. Entry(n, x).name = n /\ Entry(n, x).inode = x
  BY DEF Entry
<1>2. Entry(m, y).name = m /\ Entry(m, y).inode = y
  BY DEF Entry
<1> QED BY <1>1, <1>2

\* An entry names an inode that was taken.
LEMMA EntryInode ==
  ASSUME IInv, NEW a \in 0 .. entry - 1, NEW n \in Names, NEW x \in Inodes, EntryIs(a, n, x)
  PROVE  x # Root /\ x < next_inode
<1>1. a % BS \in Slots /\ BlockOfEntry(a) \in Blocks
  BY EntryBlocks
<1>2. disk[BlockOfEntry(a)][a % BS] = Entry(n, x)
  BY DEF EntryIs
<1>3. x \in 1 .. next_inode - 1
  BY <1>1, <1>2 DEF IInv, DiskOK, EntriesOlder
<1>4. next_inode \in Nat
  BY Maps
<1> QED BY <1>3, <1>4 DEF Root

LEMMA OneEntry ==
  ASSUME NamesOnce, Sound, NEW a \in 0 .. entry - 1, NEW b \in 0 .. entry - 1,
         NEW n \in Names, NEW m \in Names, NEW x \in Inodes, NEW y \in Inodes,
         EntryIs(a, n, x), EntryIs(b, m, y), n = m \/ x = y
  PROVE  a = b /\ n = m /\ x = y
<1>1. a = b
  BY DEF NamesOnce
<1>2. Entry(n, x) = Entry(m, y)
  BY <1>1 DEF EntryIs
<1> QED BY <1>1, <1>2, SameEntry

LEMMA FilesAreNamed == ASSUME IInv, NamesOnce, Sound PROVE FilesAre
<1>1. /\ StoreFiles = [n \in DOMAIN StoreFiles |-> StoreFiles[n]]
      /\ DOMAIN StoreFiles = {n \in Names : Listed(n)}
      /\ \A n \in Names : Listed(n) => StoreFiles[n] = Content(InodeNamed(n))
  BY DEF StoreFiles
<1>2. \A n \in Names : Listed(n) <=> \E x \in Inodes : Named(n, x)
  BY DEF Listed, Named, EntryIs
<1>3. ASSUME NEW n \in Names, NEW x \in Inodes, Named(n, x)
      PROVE  /\ InodeNamed(n) = x /\ x # Root /\ x < next_inode
             /\ \A m \in Names : Named(m, x) => m = n
  <2>1. PICK a \in 0 .. entry - 1 : EntryIs(a, n, x)
    BY <1>3 DEF Named
  <2>2. \A y \in Inodes : Named(n, y) => y = x
    BY <2>1, OneEntry DEF Named
  <2>3. InodeNamed(n) = CHOOSE y \in Inodes : Named(n, y)
    BY DEF InodeNamed, Named, EntryIs
  <2>4. InodeNamed(n) = x
    BY <1>3, <2>2, <2>3
  <2>5. \A m \in Names : Named(m, x) => m = n
    BY <2>1, OneEntry DEF Named
  <2> QED BY <2>1, <2>4, <2>5, EntryInode
<1>4. ASSUME NEW n \in Names, NEW x \in Inodes, Named(n, x)
      PROVE  StoreFiles[n] = Content(x)
  <2>1. Listed(n) /\ InodeNamed(n) = x
    BY <1>2, <1>3, <1>4
  <2> QED BY <1>1, <2>1
<1>5. DOMAIN StoreFiles = {n \in Names : \E x \in Inodes : Named(n, x)}
  BY <1>1, <1>2
<1> HIDE DEF Named
<1> QED BY <1>1, <1>3, <1>4, <1>5 DEF FilesAre

\* Names and inodes stay in one entry each.
LEMMA NamesOnceStep ==
  ASSUME IInv, IInv', BlocksDistinct, NamesOnce, ~Astray, Storage
  PROVE  NamesOnce'
<1> SUFFICES ASSUME Sound' PROVE NamesOnce'
  BY DEF NamesOnce
<1>1. Sound
  BY SoundBefore
<1>2. CASE \/ Quiet \/ Turn \/ WriteEnd
           \/ \E inode \in Inodes \ {Root}, t \in Seq(Pointers) : Grows(inode, t)
           \/ \E name \in Names : DirTaken(name)
  <2>1. entry' = entry /\ \A a \in 0 .. entry - 1 : EntryStays(a)
    BY <1>1, <1>2, DirectoryKept DEF Sound
  <2> HIDE DEF EntryIs
  <2>2. ASSUME NEW a \in 0 .. entry' - 1, NEW b \in 0 .. entry' - 1,
               NEW n \in Names, NEW m \in Names, NEW x \in Inodes, NEW y \in Inodes,
               EntryIs(a, n, x)', EntryIs(b, m, y)', n = m \/ x = y
        PROVE  a = b
    <3>1. a \in 0 .. entry - 1 /\ b \in 0 .. entry - 1
      BY <2>1
    <3>2. EntryIs(a, n, x) /\ EntryIs(b, m, y)
      BY <2>1, <2>2, <3>1 DEF EntryStays
    <3> QED BY <1>1, <2>2, <3>1, <3>2, OneEntry
  <2> QED BY <2>2 DEF NamesOnce
<1>3. ASSUME NEW name \in Names, NEW t \in Seq(Pointers), Made(name, t)
      PROVE  NamesOnce'
  <2>1. /\ entry' = entry + 1
        /\ \A a \in 0 .. entry - 1 : EntryStays(a)
        /\ \A a, other, inode : a = entry =>
             (EntryIs(a, other, inode)' <=> Entry(name, next_inode) = Entry(other, inode))
    BY <1>1, <1>3, DirectoryGrown DEF Sound
  <2>2. ~Listed(name) /\ entry \in Nat /\ next_inode \in Nat
    BY <1>3, Maps DEF Made
  <2>3. ASSUME NEW a \in 0 .. entry' - 1, NEW n \in Names, NEW x \in Inodes,
               EntryIs(a, n, x)'
        PROVE  \/ a \in 0 .. entry - 1 /\ EntryIs(a, n, x)
               \/ a = entry /\ n = name /\ x = next_inode
    <3>1. CASE a = entry
      <4>1. Entry(name, next_inode) = Entry(n, x)
        BY <2>1, <2>3, <3>1
      <4> QED BY <3>1, <4>1, SameEntry
    <3>2. CASE a # entry
      <4>1. a \in 0 .. entry - 1
        BY <2>1, <2>2, <3>2
      <4> QED BY <2>1, <2>3, <4>1 DEF EntryStays
    <3> QED BY <3>1, <3>2
  <2>4. ASSUME NEW a \in 0 .. entry - 1, NEW n \in Names, NEW x \in Inodes,
               EntryIs(a, n, x)
        PROVE  n # name /\ x # next_inode
    <3>1. n # name
      BY <2>2, <2>4 DEF Listed, EntryIs
    <3>2. x < next_inode
      BY <2>4, EntryInode
    <3> QED BY <2>2, <3>1, <3>2
  <2> HIDE DEF EntryIs
  <2>5. ASSUME NEW a \in 0 .. entry' - 1, NEW b \in 0 .. entry' - 1,
               NEW n \in Names, NEW m \in Names, NEW x \in Inodes, NEW y \in Inodes,
               EntryIs(a, n, x)', EntryIs(b, m, y)', n = m \/ x = y
        PROVE  a = b
    <3>1. CASE a \in 0 .. entry - 1 /\ EntryIs(a, n, x)
      <4>1. n # name /\ x # next_inode
        BY <2>4, <3>1
      <4>2. b \in 0 .. entry - 1 /\ EntryIs(b, m, y)
        BY <2>3, <2>5, <4>1
      <4> QED BY <1>1, <2>5, <3>1, <4>2, OneEntry
    <3>2. CASE a = entry /\ n = name /\ x = next_inode
      <4>1. ~(b \in 0 .. entry - 1 /\ EntryIs(b, m, y))
        BY <2>4, <2>5, <3>2
      <4> QED BY <2>3, <2>5, <3>2, <4>1
    <3> QED BY <2>3, <2>5, <3>1, <3>2
  <2> QED BY <2>5 DEF NamesOnce
<1>4. ~GoesAstray
  BY DEF GoesAstray, Sound, Astray
<1> QED BY <1>2, <1>3, <1>4 DEF Storage

LEMMA StoreInit ==
  ASSUME ShellInit
  PROVE  BlocksDistinct /\ NamesOnce /\ \A n \in Names : ~Listed(n)
<1>1. IInv /\ Init
  BY InitInv DEF ShellInit
<1>2. /\ map = [i \in Inodes |-> IF i = Root THEN <<0>> ELSE <<>>]
      /\ disk = [b \in Blocks |-> [s \in Slots |-> Junk]] /\ next_block = 1
  BY <1>1 DEF Init
<1>3. \A i \in Inodes : \A k \in DOMAIN map[i] : i = Root /\ k = 1 /\ map[i][k] = 0
  BY <1>2
<1>4. BlocksDistinct
  BY <1>2, <1>3 DEF BlocksDistinct
<1>5. ASSUME NEW a \in 0 .. entry - 1, NEW n \in Names, NEW x \in Inodes
      PROVE  ~EntryIs(a, n, x)
  <2>1. a % BS \in Slots /\ BlockOfEntry(a) \in Blocks
    BY <1>1, EntryBlocks
  <2>2. disk[BlockOfEntry(a)][a % BS] = Junk
    BY <1>2, <2>1
  <2>3. Entry(n, x) # Junk
    BY DataAssumption
  <2> QED BY <2>2, <2>3 DEF EntryIs
<1>6. NamesOnce
  <2> HIDE DEF EntryIs
  <2> QED BY <1>5 DEF NamesOnce
<1>7. \A n \in Names : ~Listed(n)
  BY <1>5 DEF Listed, EntryIs
<1> QED BY <1>4, <1>6, <1>7

\* A file is backed by blocks and every cell of it is in one that was stored.
ContentOK ==
  \A x \in Inodes \ {Root} :
    /\ SizeOf(x, map[x]) \in Nat /\ SizeOf(x, map[x]) <= BS * Len(map[x])
    /\ Content(x) \in Seq(Cells) /\ Len(Content(x)) = SizeOf(x, map[x])
    /\ \A k \in 1 .. SizeOf(x, map[x]) :
         /\ Content(x)[k] = CellAt(x, k)
         /\ (k - 1) \div BS + 1 \in DOMAIN map[x] /\ (k - 1) % BS \in Slots
         /\ map[x][(k - 1) \div BS + 1] \in Blocks

LEMMA ContentIsOK == ASSUME IInv, Sound PROVE ContentOK
<1> SUFFICES ASSUME NEW x \in Inodes \ {Root}
             PROVE  /\ SizeOf(x, map[x]) \in Nat /\ SizeOf(x, map[x]) <= BS * Len(map[x])
                    /\ Content(x) \in Seq(Cells) /\ Len(Content(x)) = SizeOf(x, map[x])
                    /\ \A k \in 1 .. SizeOf(x, map[x]) :
                         /\ Content(x)[k] = CellAt(x, k)
                         /\ (k - 1) \div BS + 1 \in DOMAIN map[x] /\ (k - 1) % BS \in Slots
                         /\ map[x][(k - 1) \div BS + 1] \in Blocks
  BY DEF ContentOK
<1>1. PICK n : n = SizeOf(x, map[x])
  OBVIOUS
<1>2. PICK m \in Nat : m = Len(map[x]) /\ DOMAIN map[x] = 1 .. m
  BY Maps
<1>3. n \in Nat /\ n <= BS * m
  <2>1. n \in 0 .. W
    BY <1>1, SizeOfType DEF IInv, CacheOK
  <2>2. size[x] <= BS * m
    BY <1>2 DEF IInv, CacheOK, SizeBacked
  <2>3. CASE m = W \div BS /\ n = W
    BY <2>1, <2>3, LargestSize
  <2>4. CASE n = size[x]
    BY <2>1, <2>2, <2>4
  <2> QED BY <1>1, <1>2, <2>3, <2>4 DEF SizeOf
<1>4. ASSUME NEW k \in 1 .. n
      PROVE  /\ (k - 1) \div BS + 1 \in DOMAIN map[x] /\ (k - 1) % BS \in Slots
             /\ map[x][(k - 1) \div BS + 1] \in Blocks
  <2>1. PICK c \in Nat : c = k - 1 /\ c < BS * m /\ c < n
    BY <1>2, <1>3
  <2>2. PICK j \in Nat : j = c \div BS
    BY <2>1, Division
  <2>3. j < m /\ c % BS \in 0 .. BS - 1 /\ c = BS * j + (c % BS)
    BY <1>2, <2>1, <2>2, IndexBelow, Division
  <2>4. j + 1 \in DOMAIN map[x] /\ (j + 1) - 1 = j
    BY <1>2, <2>3
  <2>5. BS * j < n
    <3>1. BS * j \in Nat /\ c % BS \in Nat /\ BS * j + (c % BS) < n
      BY <2>1, <2>3
    <3> QED BY ONLY <1>3, <3>1
  <2>6. map[x][j + 1] # Unset
    BY <1>1, <2>4, <2>5 DEF Sound, Astray, Holes
  <2>7. map[x][j + 1] \in Blocks
    BY <2>4, <2>6, StoredIsBlock
  <2> QED BY <2>1, <2>2, <2>3, <2>4, <2>7 DEF Slots
<1>5. ASSUME NEW k \in 1 .. n
      PROVE  CellAt(x, k) \in Cells
  BY <1>4 DEF CellAt, IInv, DiskOK, DiskType
<1>6. Content(x) = [k \in 1 .. n |-> CellAt(x, k)]
  BY <1>1 DEF Content
<1>7. PICK g : g = Content(x)
  OBVIOUS
<1>8. g \in [1 .. n -> Cells] /\ \A k \in 1 .. n : g[k] = CellAt(x, k)
  BY <1>5, <1>6, <1>7
<1>9. g \in Seq(Cells) /\ Len(g) = n
  BY <1>3, <1>8, SMT
<1> QED BY <1>1, <1>2, <1>3, <1>4, <1>7, <1>8, <1>9

\* With the directory as it was, what the step does to one inode it does to one file,
\* or to none.
LEMMA OneFileChanged ==
  ASSUME FilesAre, FilesAre', Sound, Sound', NEW x \in Inodes,
         \A n, y : Named(n, y)' <=> Named(n, y),
         \A y \in Inodes \ {Root} : y # x => Content(y)' = Content(y)
  PROVE  \/ StoreFiles' = StoreFiles
         \/ \E name \in DOMAIN StoreFiles :
              /\ x # Root
              /\ DOMAIN StoreFiles' = DOMAIN StoreFiles
              /\ \A n \in DOMAIN StoreFiles \ {name} : StoreFiles'[n] = StoreFiles[n]
              /\ StoreFiles[name] = Content(x) /\ StoreFiles'[name] = Content(x)'
<1> HIDE DEF Named
<1>1. PICK old, new : old = StoreFiles /\ new = StoreFiles'
  OBVIOUS
<1>2. /\ old = [n \in DOMAIN old |-> old[n]] /\ new = [n \in DOMAIN new |-> new[n]]
      /\ DOMAIN old = {n \in Names : \E y \in Inodes : Named(n, y)}
      /\ DOMAIN new = {n \in Names : \E y \in Inodes : Named(n, y)'}
      /\ \A n \in Names, y \in Inodes : Named(n, y) =>
           /\ old[n] = Content(y) /\ y # Root /\ \A m \in Names : Named(m, y) => m = n
      /\ \A n \in Names, y \in Inodes : Named(n, y)' => new[n] = Content(y)'
  BY <1>1 DEF FilesAre
<1>3. DOMAIN new = DOMAIN old
  BY <1>2
<1>4. ASSUME NEW n \in DOMAIN old, ~Named(n, x)
      PROVE  new[n] = old[n]
  <2>1. PICK y \in Inodes : Named(n, y) /\ n \in Names
    BY <1>2
  <2>2. y # x /\ y # Root
    BY <1>2, <1>4, <2>1
  <2> QED BY <1>2, <2>1, <2>2
<1>5. CASE \E n \in DOMAIN old : Named(n, x)
  <2>1. PICK n \in DOMAIN old : Named(n, x) /\ n \in Names
    BY <1>2, <1>5
  <2>2. /\ x # Root /\ old[n] = Content(x) /\ new[n] = Content(x)'
        /\ \A m \in Names : Named(m, x) => m = n
    BY <1>2, <2>1
  <2>3. \A m \in DOMAIN old \ {n} : new[m] = old[m]
    BY <1>2, <1>4, <2>2
  <2> QED BY <1>1, <1>3, <2>1, <2>2, <2>3
<1>6. CASE ~\E n \in DOMAIN old : Named(n, x)
  <2>1. new = old
    BY <1>2, <1>3, <1>4, <1>6
  <2> QED BY <1>1, <2>1
<1> QED BY <1>5, <1>6

\* A step that changes no entry leaves the names as they are.
LEMMA NamesKept ==
  ASSUME entry' = entry, \A a \in 0 .. entry - 1 : EntryStays(a)
  PROVE  \A n, y : Named(n, y)' <=> Named(n, y)
<1> HIDE DEF EntryIs
<1> QED BY DEF Named, EntryStays

StoreStep == Store!Next \/ UNCHANGED <<StoreState, StoreFiles>>

\* Blocks are added, or the size is set: of the file there was, what is kept is the same.
LEMMA ResizeStep ==
  ASSUME IInv, IInv', BlocksDistinct, FilesAre, FilesAre', Sound, Sound',
         \/ WriteEnd
         \/ \E inode \in Inodes \ {Root}, t \in Seq(Pointers) : Grows(inode, t)
  PROVE  StoreStep
<1>1. ContentOK /\ ContentOK'
  BY ContentIsOK, PTL
<1>2. PICK x \in Inodes :
        /\ x # Root
        /\ \A y \in Inodes \ {Root} : y # x => map'[y] = map[y] /\ size'[y] = size[y]
        /\ \A k \in DOMAIN map[x] : map'[x][k] = map[x][k]
        /\ disk' = disk
  <2>1. CASE WriteEnd
    <3>1. /\ pc = "write" /\ map' = map /\ disk' = disk
          /\ size' = [size EXCEPT ![fds[call.fd].inode] = fds[call.fd].offset % W]
      BY <2>1 DEF WriteEnd
    <3>2. call.fd \in DOMAIN fds
      BY <3>1 DEF IInv, CallOK, WriteFits
    <3>3. fds[call.fd].inode \in Inodes \ {Root}
      BY <3>2, FdFile
    <3>4. size \in [Inodes -> 0 .. W - 1]
      BY DEF IInv, CacheOK, CacheType
    <3>5. \A y \in Inodes : y # fds[call.fd].inode => size'[y] = size[y]
      BY <3>1, <3>4
    <3> QED BY <3>1, <3>3, <3>5
  <2>2. ASSUME NEW inode \in Inodes \ {Root}, NEW t \in Seq(Pointers), Grows(inode, t)
        PROVE  \E x \in Inodes :
                 /\ x # Root
                 /\ \A y \in Inodes \ {Root} : y # x => map'[y] = map[y] /\ size'[y] = size[y]
                 /\ \A k \in DOMAIN map[x] : map'[x][k] = map[x][k]
                 /\ disk' = disk
    <3>1. /\ \A i \in Inodes : i # inode => map'[i] = map[i]
          /\ \A k \in 1 .. Len(map[inode]) : map'[inode][k] = map[inode][k]
      BY <2>2, GrownMap
    <3>2. DOMAIN map[inode] = 1 .. Len(map[inode])
      BY Maps
    <3>3. size' = size /\ disk' = disk
      BY <2>2 DEF Grows
    <3> QED BY <3>1, <3>2, <3>3
  <2> QED BY <2>1, <2>2
<1>3. \A n, y : Named(n, y)' <=> Named(n, y)
  <2>1. entry' = entry /\ \A a \in 0 .. entry - 1 : EntryStays(a)
    BY DirectoryKept DEF Sound
  <2> QED BY <2>1, NamesKept
<1>4. ASSUME NEW y \in Inodes \ {Root}, y # x PROVE Content(y)' = Content(y)
  BY <1>2, <1>4 DEF Content, CellAt, SizeOf
<1>5. ASSUME NEW k \in 1 .. Len(Content(x)), k <= Len(Content(x)')
      PROVE  Content(x)'[k] = Content(x)[k]
  <2>1. PICK n, m : n = SizeOf(x, map[x]) /\ m = SizeOf(x, map[x])'
    OBVIOUS
  <2>2. n \in Nat /\ m \in Nat /\ k \in 1 .. n /\ k \in 1 .. m
    <3>1. n \in Nat /\ Len(Content(x)) = n
      BY <1>1, <1>2, <2>1 DEF ContentOK
    <3>2. m \in Nat /\ Len(Content(x)') = m
      BY <1>1, <1>2, <2>1 DEF ContentOK
    <3> QED BY <1>5, <3>1, <3>2
  <2>3. Content(x)[k] = CellAt(x, k) /\ (k - 1) \div BS + 1 \in DOMAIN map[x]
    BY <1>1, <1>2, <2>1, <2>2 DEF ContentOK
  <2>4. Content(x)'[k] = CellAt(x, k)'
    BY <1>1, <1>2, <2>1, <2>2 DEF ContentOK
  <2>5. CellAt(x, k)' = CellAt(x, k)
    BY <1>2, <2>3 DEF CellAt
  <2> QED BY <2>3, <2>4, <2>5
<1>6. CASE StoreFiles' = StoreFiles
  BY <1>6 DEF StoreStep, StoreState
<1>7. ASSUME NEW name \in DOMAIN StoreFiles,
             /\ DOMAIN StoreFiles' = DOMAIN StoreFiles
             /\ \A n \in DOMAIN StoreFiles \ {name} : StoreFiles'[n] = StoreFiles[n]
             /\ StoreFiles[name] = Content(x) /\ StoreFiles'[name] = Content(x)'
      PROVE  StoreStep
  <2>1. Store!Resize(name)
    BY <1>5, <1>7 DEF Store!Resize, Store!Unchanged
  <2>2. StoreState = "sound" /\ StoreState' = "sound"
    BY DEF StoreState
  <2> QED BY <2>1, <2>2 DEF Store!Next, StoreStep
<1> QED BY <1>2, <1>3, <1>4, <1>6, <1>7, OneFileChanged

\* A turn of __write_dblock overwrites one block of one file, from the block the offset
\* is in; in a file that ends before it nothing changes.
LEMMA OverwriteStep ==
  ASSUME IInv, IInv', BlocksDistinct, FilesAre, FilesAre', Sound, Sound', Turn
  PROVE  StoreStep
<1>1. ContentOK
  BY ContentIsOK
<1>2. PICK data \in [Slots -> Values] : WriteBlock(data)
  BY DEF Turn
<1>3. PICK x, q : x = Current.inode /\ q = Index(Current)
  OBVIOUS
<1>4. /\ x \in Inodes \ {Root} /\ q \in Nat /\ q + 1 \in DOMAIN map[x]
      /\ map[x][q + 1] \in Blocks
      /\ \A d \in Blocks : d # map[x][q + 1] => disk'[d] = disk[d]
      /\ map' = map /\ size' = size
  BY <1>2, <1>3, WrittenBlock DEF cache
<1>5. \A n, y : Named(n, y)' <=> Named(n, y)
  <2>1. entry' = entry /\ \A a \in 0 .. entry - 1 : EntryStays(a)
    BY DirectoryKept DEF Sound
  <2> QED BY <2>1, NamesKept
\* A cell of any file that is not in that block of this file is kept.
<1>6. ASSUME NEW y \in Inodes \ {Root}, NEW k \in 1 .. SizeOf(y, map[y]),
             y # x \/ (k - 1) \div BS # q
      PROVE  CellAt(y, k)' = CellAt(y, k)
  <2>1. PICK j \in Nat : /\ j = (k - 1) \div BS /\ j + 1 \in DOMAIN map[y]
                         /\ map[y][j + 1] \in Blocks
    <3>1. /\ SizeOf(y, map[y]) \in Nat /\ (k - 1) \div BS + 1 \in DOMAIN map[y]
          /\ map[y][(k - 1) \div BS + 1] \in Blocks
      BY <1>1 DEF ContentOK
    <3>2. k - 1 \in Nat
      BY <3>1
    <3> QED BY <3>1, <3>2, Division
  <2>2. map[y][j + 1] \in Blocks /\ map[y][j + 1] # Unset
    BY <2>1, DataAssumption DEF DataAssumption
  <2>3. y = x => j + 1 # q + 1
    BY <1>4, <1>6, <2>1
  <2>4. map[y][j + 1] # map[x][q + 1]
    BY <1>4, <2>1, <2>2, <2>3, OnePlace
  <2>5. disk'[map[y][j + 1]] = disk[map[y][j + 1]]
    BY <1>4, <2>2, <2>4
  <2> QED BY <1>4, <2>1, <2>5 DEF CellAt
<1>7. ASSUME NEW y \in Inodes \ {Root},
             \A k \in 1 .. SizeOf(y, map[y]) : CellAt(y, k)' = CellAt(y, k)
      PROVE  Content(y)' = Content(y)
  <2>1. SizeOf(y, map[y])' = SizeOf(y, map[y])
    BY <1>4 DEF SizeOf
  <2> QED BY <1>7, <2>1 DEF Content
<1>8. \A y \in Inodes \ {Root} : y # x => Content(y)' = Content(y)
  BY <1>6, <1>7
<1>9. PICK n \in Nat : n = SizeOf(x, map[x]) /\ Len(Content(x)) = n
  BY <1>1, <1>4 DEF ContentOK
<1>10. CASE StoreFiles' = StoreFiles
  BY <1>10 DEF StoreStep, StoreState
<1>11. CASE n \div BS < q
  <2>1. ASSUME NEW k \in 1 .. n PROVE (k - 1) \div BS # q
    <3>0. PICK c \in Nat : c = k - 1
      OBVIOUS
    <3>1. PICK j, h \in Nat : j = c \div BS /\ h = n \div BS
      BY Division
    <3>2. c = BS * j + (c % BS) /\ n = BS * h + (n % BS) /\ c % BS \in Nat
          /\ n % BS \in 0 .. BS - 1
      BY <3>1, Division
    <3>3. ASSUME j = q PROVE FALSE
      <4>1. BS * (h + 1) <= BS * j
        BY <1>4, <1>11, <3>1, <3>3, Multiples
      <4>2. BS * (h + 1) = BS * h + BS /\ BS * h \in Nat /\ BS * j \in Nat
        OBVIOUS
      <4>3. c < n /\ c = BS * j + (c % BS) /\ n = BS * h + (n % BS)
        BY <3>0, <3>2
      <4> QED BY <3>2, <4>1, <4>2, <4>3
    <3> QED BY <3>0, <3>1, <3>3
  <2>2. \A y \in Inodes \ {Root} : y # Root => Content(y)' = Content(y)
    BY <1>6, <1>7, <1>8, <1>9, <2>1
  <2>3. Root \in Inodes
    BY Maps
  <2>4. StoreFiles' = StoreFiles
    BY <1>5, <2>2, <2>3, OneFileChanged
  <2> QED BY <1>10, <2>4
<1>12. ASSUME ~(n \div BS < q), NEW name \in DOMAIN StoreFiles,
              /\ DOMAIN StoreFiles' = DOMAIN StoreFiles
              /\ \A m \in DOMAIN StoreFiles \ {name} : StoreFiles'[m] = StoreFiles[m]
              /\ StoreFiles[name] = Content(x) /\ StoreFiles'[name] = Content(x)'
       PROVE  StoreStep
  <2>1. SizeOf(x, map[x])' = n
    BY <1>4, <1>9 DEF SizeOf
  <2>2. ContentOK'
    BY ContentIsOK, PTL
  <2>3. Len(Content(x)') = n /\ \A k \in 1 .. n : Content(x)'[k] = CellAt(x, k)'
    BY <1>4, <2>1, <2>2 DEF ContentOK
  <2>4. \A k \in 1 .. n : Content(x)[k] = CellAt(x, k)
    BY <1>1, <1>4, <1>9 DEF ContentOK
  <2>5. ASSUME NEW k \in 1 .. n, k \notin q * BS + 1 .. q * BS + BS
        PROVE  Content(x)'[k] = Content(x)[k]
    <3>0. PICK c \in Nat : c = k - 1
      OBVIOUS
    <3>1. PICK j \in Nat : j = c \div BS
      BY Division
    <3>2. c = BS * j + (c % BS) /\ c % BS \in 0 .. BS - 1
      BY <3>1, Division
    <3>3. q * BS = BS * q /\ BS * q \in Nat /\ BS * j \in Nat
      BY <1>4
    <3>4. j # q
      BY <2>5, <3>0, <3>2, <3>3
    <3>5. CellAt(x, k)' = CellAt(x, k)
      BY <1>4, <1>6, <1>9, <3>0, <3>1, <3>4
    <3> QED BY <2>3, <2>4, <3>5
  <2>6. q \in 0 .. n \div BS
    BY <1>4, <1>12, Division
  <2>7. Store!Overwrite(name, q * BS)
    BY <1>9, <1>12, <2>3, <2>5 DEF Store!Overwrite, Store!Unchanged
  <2>8. \E b \in 0 .. Len(StoreFiles[name]) \div BS : Store!Overwrite(name, b * BS)
    BY <1>9, <1>12, <2>6, <2>7
  <2>9. StoreState = "sound" /\ StoreState' = "sound"
    BY DEF StoreState
  <2> QED BY <2>8, <2>9 DEF Store!Next, StoreStep
<1> QED BY <1>4, <1>5, <1>8, <1>10, <1>11, <1>12, OneFileChanged

\* vsfs_creat dies before the entry is counted: no file is changed.
LEMMA TakenStep ==
  ASSUME IInv, IInv', BlocksDistinct, FilesAre, FilesAre', Sound, Sound',
         NEW name \in Names, DirTaken(name)
  PROVE  StoreStep
<1>1. /\ FirstOfFile <= NR_BLOCKS /\ map' = DirMap /\ size' = size
      /\ disk' \in {disk, WithEntry(name)}
  BY DEF DirTaken
<1>2. \A n, y : Named(n, y)' <=> Named(n, y)
  <2>1. entry' = entry /\ \A a \in 0 .. entry - 1 : EntryStays(a)
    BY DirectoryKept DEF Sound
  <2> QED BY <2>1, NamesKept
<1>3. \A d \in Blocks : d # EntryBlock => disk'[d] = disk[d]
  BY <1>1, EntriesStay DEF Sound
<1>4. ASSUME NEW y \in Inodes \ {Root}
      PROVE  Content(y)' = Content(y)
  <2>1. map'[y] = map[y] /\ SizeOf(y, map[y])' = SizeOf(y, map[y])
    BY <1>1, DirRoot DEF SizeOf
  <2>2. ASSUME NEW k \in 1 .. SizeOf(y, map[y])
        PROVE  CellAt(y, k)' = CellAt(y, k)
    <3>1. PICK d : d = map[y][(k - 1) \div BS + 1]
      OBVIOUS
    <3>2. d \in Blocks /\ (k - 1) \div BS + 1 \in DOMAIN map[y]
      BY <3>1, ContentIsOK DEF ContentOK
    <3>3. d # EntryBlock
      BY <1>1, <3>1, <3>2, NewEntry DEF Sound
    <3> QED BY <1>3, <2>1, <3>1, <3>2, <3>3 DEF CellAt
  <2> QED BY <2>1, <2>2 DEF Content
<1>5. Root \in Inodes
  BY Maps
<1>6. StoreFiles' = StoreFiles
  BY <1>2, <1>4, <1>5, OneFileChanged
<1> QED BY <1>6 DEF StoreStep, StoreState

\* vsfs_creat gives a new name an empty file, or one of the largest size, and leaves
\* the others alone.
LEMMA CreateStep ==
  ASSUME IInv, IInv', BlocksDistinct, FilesAre, FilesAre', Sound, Sound',
         NEW name \in Names, NEW t \in Seq(Pointers), Made(name, t)
  PROVE  StoreStep
<1>1. /\ entry' = entry + 1
      /\ \A a \in 0 .. entry - 1 : EntryStays(a)
      /\ \A a, other, inode : a = entry =>
           (EntryIs(a, other, inode)' <=> Entry(name, next_inode) = Entry(other, inode))
      /\ \A d \in Blocks : d # EntryBlock => disk'[d] = disk[d]
  BY DirectoryGrown DEF Sound
<1>2. entry \in Nat /\ next_inode \in Nat /\ size \in [Inodes -> 0 .. W - 1]
  BY Maps DEF IInv, CacheOK, CacheType
<1>3. /\ next_inode \in Inodes \ {Root}
      /\ \A i \in Inodes : i \notin {Root, next_inode} => map'[i] = map[i]
  BY MadeMaps
<1>4. size' = [size EXCEPT ![next_inode] = 0] /\ ~Listed(name)
  BY DEF Made
<1>5. PICK x : x = next_inode
  OBVIOUS
<1>6. ASSUME NEW m, NEW y
      PROVE  Named(m, y)' <=> Named(m, y) \/ (m = name /\ y = x)
  <2>1. ASSUME NEW a \in 0 .. entry' - 1, EntryIs(a, m, y)'
        PROVE  Named(m, y) \/ (m = name /\ y = x)
    <3>1. CASE a = entry
      <4>1. Entry(name, next_inode) = Entry(m, y)
        BY <1>1, <2>1, <3>1
      <4> QED BY <1>5, <4>1, SameEntry
    <3>2. CASE a # entry
      <4>1. a \in 0 .. entry - 1
        BY <1>1, <1>2, <3>2
      <4>2. EntryIs(a, m, y)
        BY <1>1, <2>1, <4>1 DEF EntryStays
      <4> QED BY <4>1, <4>2 DEF Named
    <3> QED BY <3>1, <3>2
  <2> HIDE DEF EntryIs
  <2>2. ASSUME NEW a \in 0 .. entry - 1, EntryIs(a, m, y)
        PROVE  Named(m, y)'
    <3>1. EntryIs(a, m, y)' /\ a \in 0 .. entry' - 1
      BY <1>1, <1>2, <2>2 DEF EntryStays
    <3> QED BY <3>1 DEF Named
  <2>3. ASSUME m = name, y = x PROVE Named(m, y)'
    <3>1. PICK a : a = entry
      OBVIOUS
    <3>2. EntryIs(a, m, y)' /\ a \in 0 .. entry' - 1
      BY <1>1, <1>2, <1>5, <2>3, <3>1
    <3> QED BY <3>2 DEF Named
  <2> QED BY <2>1, <2>2, <2>3 DEF Named
<1>7. ASSUME NEW y \in Inodes, y # Root, y # x
      PROVE  Content(y)' = Content(y)
  <2>1. map'[y] = map[y] /\ size'[y] = size[y]
    BY <1>2, <1>3, <1>4, <1>5, <1>7
  <2>2. SizeOf(y, map[y])' = SizeOf(y, map[y])
    BY <2>1 DEF SizeOf
  <2>3. ASSUME NEW k \in 1 .. SizeOf(y, map[y])
        PROVE  CellAt(y, k)' = CellAt(y, k)
    <3>1. /\ (k - 1) \div BS + 1 \in DOMAIN map[y]
          /\ map[y][(k - 1) \div BS + 1] \in Blocks
      BY <1>7, ContentIsOK DEF ContentOK
    <3>2. PICK d : d = map[y][(k - 1) \div BS + 1]
      OBVIOUS
    <3>3. d \in Blocks /\ d # EntryBlock
      BY <1>7, <3>1, <3>2, NewEntry DEF Sound, Made
    <3>4. disk'[d] = disk[d]
      BY <1>1, <3>3
    <3> QED BY <2>1, <3>2, <3>4 DEF CellAt
  <2> QED BY <2>2, <2>3 DEF Content
<1>8. Len(Content(x)') \in {0, W}
  <2>1. Len(Content(x)') = SizeOf(x, map[x])'
    <3>1. ContentOK'
      BY ContentIsOK, PTL
    <3> QED BY <1>3, <1>5, <3>1 DEF ContentOK
  <2>2. size'[x] = 0
    BY <1>2, <1>3, <1>4, <1>5
  <2> QED BY <2>1, <2>2 DEF SizeOf
<1> HIDE DEF Named
<1>9. PICK old, new : old = StoreFiles /\ new = StoreFiles'
  OBVIOUS
<1>10. /\ DOMAIN old = {m \in Names : \E y \in Inodes : Named(m, y)}
       /\ DOMAIN new = {m \in Names : \E y \in Inodes : Named(m, y)'}
       /\ \A m \in Names, y \in Inodes : Named(m, y) =>
            old[m] = Content(y) /\ y # Root /\ y < next_inode
       /\ \A m \in Names, y \in Inodes : Named(m, y)' => new[m] = Content(y)'
  BY <1>9 DEF FilesAre
<1>11. name \notin DOMAIN old
  BY <1>4, <1>10 DEF Listed, Named, EntryIs
<1>12. DOMAIN new = DOMAIN old \union {name}
  BY <1>3, <1>5, <1>6, <1>10
<1>13. ASSUME NEW m \in DOMAIN old PROVE new[m] = old[m]
  <2>1. PICK y \in Inodes : m \in Names /\ Named(m, y)
    BY <1>10
  <2>2. y # Root /\ y # x
    BY <1>2, <1>5, <1>10, <2>1
  <2> QED BY <1>6, <1>7, <1>10, <2>1, <2>2
<1>14. new[name] = Content(x)'
  BY <1>3, <1>5, <1>6, <1>10
<1>15. Store!Create(name)
  BY <1>8, <1>9, <1>11, <1>12, <1>13, <1>14 DEF Store!Create, Store!Unchanged
<1>16. StoreState = "sound" /\ StoreState' = "sound"
  BY DEF StoreState
<1> QED BY <1>15, <1>16 DEF Store!Next, StoreStep

\* Every step of the shell and of other programs is a step of the store, or none.
LEMMA StorageStep ==
  ASSUME IInv, IInv', BlocksDistinct, NamesOnce, NamesOnce', ~Astray, Storage
  PROVE  StoreStep
<1>1. CASE ~Sound
  BY <1>1, SoundBefore DEF StoreStep, StoreState, StoreFiles
<1>2. CASE Sound /\ ~Sound'
  <2>1. StoreState = "sound" /\ StoreState' = "broken" /\ StoreFiles' = <<>>
    BY <1>2 DEF StoreState, StoreFiles
  <2> QED BY <2>1 DEF StoreStep, Store!Next, Store!Break
<1>3. CASE Sound /\ Sound'
  <2>1. FilesAre /\ FilesAre'
    BY <1>3, FilesAreNamed, PTL
  <2>2. CASE Quiet
    <3>1. UNCHANGED <<map, size, entry, disk>>
      BY <2>2 DEF Quiet
    <3>2. \A y : Content(y)' = Content(y)
      BY <3>1 DEF Content, CellAt, SizeOf
    <3>3. \A n, y : Named(n, y)' <=> Named(n, y)
      BY <3>1 DEF Named, EntryIs, BlockOfEntry
    <3>4. Root \in Inodes
      BY Maps
    <3>5. StoreFiles' = StoreFiles
      BY <1>3, <2>1, <3>2, <3>3, <3>4, OneFileChanged
    <3> QED BY <1>3, <3>5 DEF StoreStep, StoreState
  <2>3. ~GoesAstray
    BY <1>3 DEF GoesAstray, Sound, Astray
  <2> QED BY <1>3, <2>1, <2>2, <2>3, ResizeStep, OverwriteStep, TakenStep, CreateStep
          DEF Storage
<1> QED BY <1>1, <1>2, <1>3

\* The shell, the programs that run between its runs and their deaths implement the
\* store of named files: nothing is lost and no file changes but the one written to.
\* This holds as long as the directory blocks are in place, no call has used a block
\* number or an address that is wrong and no size reaches a pointer never stored.
THEOREM ShellImplementsStore == ShellSpec => Implements
<1> DEFINE Inv == IInv /\ BlocksDistinct /\ NamesOnce
<1>1. ShellInit => Inv /\ Store!Init
  <2> SUFFICES ASSUME ShellInit PROVE Inv /\ Store!Init
    OBVIOUS
  <2>1. BlocksDistinct /\ NamesOnce /\ \A n \in Names : ~Listed(n)
    BY StoreInit
  <2>2. IInv /\ Init
    BY InitInv DEF ShellInit
  <2>3. Sound
    <3>1. map = [i \in Inodes |-> IF i = Root THEN <<0>> ELSE <<>>] /\ history = "alone"
      BY <2>2 DEF Init
    <3>2. \A i \in Inodes : \A k \in DOMAIN map[i] : i = Root /\ k = 1 /\ map[i][k] = 0
      BY <3>1
    <3>3. 0 # Unset
      BY DataAssumption DEF DataAssumption, Blocks
    <3>4. InPlace
      BY <3>2 DEF InPlace, Inodes, Root
    <3> QED BY <3>1, <3>2, <3>3, <3>4 DEF Sound, Astray, Holes
  <2>4. StoreState = "sound"
    BY <2>3 DEF StoreState
  <2>5. StoreFiles = <<>>
    <3>1. {n \in Names : Listed(n)} = {}
      BY <2>1
    <3>2. StoreFiles = [n \in {} |-> Content(InodeNamed(n))]
      BY <2>3, <3>1 DEF StoreFiles
    <3> QED BY <3>2
  <2> QED BY <2>1, <2>2, <2>4, <2>5 DEF Store!Init
<1>2. Inv /\ [ShellNext \/ OtherNext]_svars => Inv' /\ [Store!Next]_(Store!vars)
  <2> SUFFICES ASSUME Inv, [ShellNext \/ OtherNext]_svars
               PROVE  Inv' /\ [Store!Next]_(Store!vars)
    OBVIOUS
  <2>1. IInv'
    BY ShellStepInv
  <2>2. CASE ShellNext \/ OtherNext
    <3>1. Storage /\ ~Astray
      BY <2>2, ShellStorage DEF ShellNext, OtherNext
    <3>2. BlocksDistinct' /\ NamesOnce'
      BY <2>1, <3>1, DistinctStep, NamesOnceStep
    <3>3. StoreStep
      BY <2>1, <3>1, <3>2, StorageStep
    <3> QED BY <2>1, <3>2, <3>3 DEF StoreStep, Store!vars
  <2>3. CASE UNCHANGED svars
    <3>1. UNCHANGED vars
      BY <2>3 DEF svars
    <3>2. BlocksDistinct' /\ NamesOnce' /\ UNCHANGED <<StoreState, StoreFiles>>
      BY <3>1 DEF vars, BlocksDistinct, NamesOnce, EntryIs, BlockOfEntry, Sound, InPlace,
                  Astray, Holes, SizeOf, StoreState, StoreFiles, Listed, Content, CellAt,
                  InodeNamed
    <3> QED BY <2>1, <3>2 DEF Store!vars
  <2> QED BY <2>2, <2>3
<1> HIDE DEF Inv
<1> QED BY <1>1, <1>2, PTL DEF ShellSpec, Implements, Store!Spec

=============================================================================
