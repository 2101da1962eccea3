--------------------------- MODULE VsfsShm_proofs ---------------------------
(***************************************************************************)
(* VsfsShm for any number of blocks, inodes and names, any block size and  *)
(* limits, any programs and tools: types, sizes backed by blocks, writes   *)
(* that land where their offset says, and the store of named files that    *)
(* the variant implements.                                                 *)
(*                                                                         *)
(* All work is on the inode itself, so no map can be stale; what has to be *)
(* shown is that a write under way fits the inode (Fits) and that its      *)
(* 16-bit start block is the block of its offset as long as it has not     *)
(* wrapped (StartMatches).  For the store: a start block that did wrap is  *)
(* still one of the file's (StartBelow), no block has two places           *)
(* (BlocksDistinct), and while the directory is kept in place, names and   *)
(* inodes are in one entry each, of an inode the cache holds for taken,    *)
(* and each descriptor has a file with a name (Kept).  Every step is then  *)
(* of one of five kinds (Storage), which map to steps of FileStore.        *)
(***************************************************************************)
EXTENDS VsfsShm, SequenceTheorems, WellFoundedInduction, TLAPS

LEMMA Numbers ==
  /\ BS \in Nat \ {0} /\ W \in Nat \ {0} /\ LIMIT \in Nat /\ LEVEL1 \in Nat
  /\ WRAP \in Nat \ {0} /\ MAXFILE \in Nat /\ DIR_LIMIT \in Nat /\ MaxFds \in Nat
  /\ NR_BLOCKS \in Nat \ {0} /\ NR_INODES \in Nat \ {0} /\ Dots \in 0 .. BS
BY ShmAssumption DEF ShmAssumption

USE Numbers

OpenFiles == [inode : Inodes, flags : Flags, offset : Nat]
Calls == [fd : DOMAIN fds, value : Values, left : Nat, start : 0 .. WRAP + LEVEL1]

\* The parts of TypeOK.
ObjectsType ==
  /\ device \in {"none", "made"} /\ optab \in {"none", "made"}
  /\ dev_inodes \subseteq Inodes
  /\ free_inodes # NULL => free_inodes \subseteq Inodes
FlagsType ==
  /\ sb \in {"no", "yes"} /\ sb_cached \in {"no", "yes"}
  /\ table \in {"none", "list", "cut", "freed"}
  /\ luck \in {"good", "bad"} /\ history \in {"kept", "lost"}
MapType ==
  map \in [Inodes -> Seq(Blocks)] /\ \A i \in Inodes : Len(map[i]) <= MAXFILE
SizeType == size \in [Inodes -> Nat] /\ \A i \in Inodes \ {Root} : size[i] < W
DiskType == disk \in [Blocks -> [Slots -> Cells]]
FdsType == fds \in Seq(OpenFiles) /\ Len(fds) <= MaxFds

\* The write under way ends inside the blocks of its inode.
Fits ==
  fds[call.fd].offset + call.left <= BS * Len(map[fds[call.fd].inode])

\* Within level 1 and before it wraps, the start block is that of the offset.
StartMatches ==
  call.left > 0 /\ call.start < LEVEL1 /\ fds[call.fd].offset < WRAP * BS =>
    call.start = fds[call.fd].offset \div BS

CallType ==
  /\ pc \in {"gone", "idle", "write"}
  /\ pc # "write" => call = NULL
  /\ pc = "write" => call \in Calls /\ Fits /\ StartMatches

FilesOK == MapType /\ SizeType /\ SizeBacked

IInv == ObjectsType /\ FlagsType /\ FilesOK /\ DiskType /\ FdsType /\ CallType

----------------------------------------------------------------------------
(* Arithmetic of blocks *)

LEMMA Multiples ==
  ASSUME NEW a \in Nat, NEW b \in Nat, a <= b
  PROVE  BS * a \in Nat /\ BS * b \in Nat /\ BS * a <= BS * b
<1>1. PICK c \in Nat : b = a + c
  OBVIOUS
<1>2. BS * b = BS * a + BS * c
  BY <1>1
<1>3. BS * c \in Nat /\ BS * a \in Nat
  OBVIOUS
<1> QED BY <1>2, <1>3

LEMMA Division ==
  ASSUME NEW x \in Nat
  PROVE  /\ x \div BS \in Nat /\ x % BS \in 0 .. BS - 1
         /\ x = BS * (x \div BS) + (x % BS)
OBVIOUS

LEMMA Quotient ==
  ASSUME NEW q \in Nat, NEW r \in 0 .. BS - 1
  PROVE  (BS * q + r) \div BS = q
<1> DEFINE x == BS * q + r
<1>1. BS * q \in Nat /\ x \in Nat
  OBVIOUS
<1>2. /\ x \div BS \in Nat /\ x % BS \in 0 .. BS - 1
      /\ x = BS * (x \div BS) + (x % BS)
  BY <1>1, Division
<1>3. ASSUME x \div BS < q PROVE FALSE
  <2>1. BS * ((x \div BS) + 1) <= BS * q
    BY <1>2, <1>3, Multiples
  <2>2. BS * ((x \div BS) + 1) = BS * (x \div BS) + BS
    BY <1>2
  <2> QED BY <1>1, <1>2, <2>1, <2>2
<1>4. ASSUME q < x \div BS PROVE FALSE
  <2>1. BS * (q + 1) <= BS * (x \div BS)
    BY <1>2, <1>4, Multiples
  <2>2. BS * (q + 1) = BS * q + BS
    OBVIOUS
  <2> QED BY <1>1, <1>2, <2>1, <2>2
<1> QED BY <1>2, <1>3, <1>4

\* The blocks for x cells are enough, and no more than any number that is.
LEMMA Ceiling ==
  ASSUME NEW x \in Nat
  PROVE  /\ CeilBlocks(x) \in Nat /\ x <= BS * CeilBlocks(x)
         /\ \A n \in Nat : x <= BS * n => CeilBlocks(x) <= n
<1> DEFINE y == x + BS - 1
<1>1. y \in Nat
  OBVIOUS
<1>2. /\ y \div BS \in Nat /\ y % BS \in 0 .. BS - 1
      /\ y = BS * (y \div BS) + (y % BS)
  BY <1>1, Division
<1>3. CeilBlocks(x) = y \div BS
  BY DEF CeilBlocks
<1>4. ASSUME NEW n \in Nat, x <= BS * n, n < y \div BS PROVE FALSE
  <2>1. BS * (n + 1) <= BS * (y \div BS)
    BY <1>2, <1>4, Multiples
  <2>2. BS * (n + 1) = BS * n + BS /\ BS * n \in Nat
    OBVIOUS
  <2> QED BY <1>2, <1>4, <2>1, <2>2
<1>5. \A n \in Nat : x <= BS * n => CeilBlocks(x) <= n
  BY <1>2, <1>3, <1>4
<1> QED BY <1>2, <1>3, <1>5

\* An offset before the end of the blocks is in one of them.
LEMMA IndexBelow ==
  ASSUME NEW x \in Nat, NEW n \in Nat, x < BS * n
  PROVE  x \div BS \in Nat /\ x \div BS < n
<1>1. /\ x \div BS \in Nat /\ x % BS \in 0 .. BS - 1
      /\ x = BS * (x \div BS) + (x % BS)
  BY Division
<1>2. SUFFICES ASSUME n <= x \div BS PROVE FALSE
  BY <1>1
<1>3. BS * n <= BS * (x \div BS)
  BY <1>1, <1>2, Multiples
<1> QED BY <1>1, <1>3

LEMMA Remainder ==
  ASSUME NEW x \in Nat
  PROVE  x % W \in Nat /\ x % W < W /\ x % W <= x
OBVIOUS

LEMMA Update ==
  ASSUME NEW S, NEW s \in Seq(S), NEW k \in DOMAIN s, NEW x \in S
  PROVE  /\ [s EXCEPT ![k] = x] \in Seq(S) /\ Len([s EXCEPT ![k] = x]) = Len(s)
         /\ DOMAIN [s EXCEPT ![k] = x] = DOMAIN s
         /\ \A j \in DOMAIN s :
              [s EXCEPT ![k] = x][j] = IF j = k THEN x ELSE s[j]
<1>1. k \in 1 .. Len(s)
  BY LenProperties
<1> QED BY <1>1, ExceptSeq, LenProperties

----------------------------------------------------------------------------
(* Allocation *)

LEMMA MapLengths ==
  ASSUME MapType, NEW i \in Inodes
  PROVE  map[i] \in Seq(Blocks) /\ Len(map[i]) \in Nat /\ Len(map[i]) <= MAXFILE
BY LenProperties DEF MapType

LEMMA FreeType ==
  ASSUME NEW n \in Nat, NEW new \in FreeBlocks(n)
  PROVE  new \in Seq(Blocks) /\ Len(new) = n
<1>1. new \in [1 .. n -> Unused] /\ Unused \subseteq Blocks
  BY DEF FreeBlocks, Unused
<1>2. new \in [1 .. n -> Blocks]
  BY <1>1
<1> QED BY <1>2, SMT

LEMMA GrantedType ==
  ASSUME MapType, NEW inode \in Inodes, NEW need \in Nat
  PROVE  /\ Granted(inode, need) \in Nat
         /\ Len(map[inode]) + Granted(inode, need) <= MAXFILE
         /\ \/ Granted(inode, need) = need
            \/ Len(map[inode]) + Granted(inode, need) = MAXFILE
<1>1. Len(map[inode]) \in Nat /\ Len(map[inode]) <= MAXFILE
  BY MapLengths
<1> DEFINE rest == MAXFILE - Len(map[inode])
<1>2. rest \in Nat /\ Len(map[inode]) + rest = MAXFILE
  BY <1>1
<1>3. Granted(inode, need) = IF need < rest THEN need ELSE rest
  BY DEF Granted, Lowest
<1>4. CASE need < rest
  BY <1>1, <1>2, <1>3, <1>4
<1>5. CASE ~(need < rest)
  BY <1>1, <1>2, <1>3, <1>5
<1> QED BY <1>4, <1>5

\* An inode gets blocks, the others keep theirs.
LEMMA Allocation ==
  ASSUME MapType, NEW inode \in Inodes, NEW need \in Nat, AllocBlock(inode, need)
  PROVE  /\ MapType'
         /\ \A i \in Inodes \ {inode} : map'[i] = map[i]
         /\ Len(map'[inode]) \in Nat /\ Len(map'[inode]) >= Len(map[inode])
         /\ \/ Len(map'[inode]) = Len(map[inode]) + need
            \/ Len(map'[inode]) = MAXFILE
<1> DEFINE n == Granted(inode, need)
<1>1. n \in Nat /\ Len(map[inode]) + n <= MAXFILE
      /\ (n = need \/ Len(map[inode]) + n = MAXFILE)
  BY GrantedType
<1> HIDE DEF n
<1>2. PICK new \in FreeBlocks(n) : map' = [map EXCEPT ![inode] = @ \o new]
  BY DEF AllocBlock, n
<1>3. new \in Seq(Blocks) /\ Len(new) = n
  BY <1>1, FreeType
<1>4. map[inode] \in Seq(Blocks) /\ Len(map[inode]) \in Nat
  BY MapLengths
<1>5. map[inode] \o new \in Seq(Blocks) /\ Len(map[inode] \o new) = Len(map[inode]) + n
  BY <1>3, <1>4, ConcatProperties
<1>6. /\ map'[inode] = map[inode] \o new
      /\ \A i \in Inodes \ {inode} : map'[i] = map[i]
      /\ DOMAIN map' = Inodes
  BY <1>2 DEF MapType
<1>7. \A i \in Inodes : map'[i] \in Seq(Blocks) /\ Len(map'[i]) <= MAXFILE
  BY <1>1, <1>5, <1>6, MapLengths
<1>8. map' \in [Inodes -> Seq(Blocks)]
  <2>1. map' = [i \in Inodes |-> map'[i]]
    BY <1>2 DEF MapType
  <2> QED BY <1>7, <2>1
<1> QED BY <1>1, <1>4, <1>5, <1>6, <1>7, <1>8 DEF MapType

\* Sizes stay backed when inodes only grow and the one whose size changes has
\* the blocks for it.
LEMMA StillBacked ==
  ASSUME FilesOK, MapType', NEW inode \in Inodes, NEW s \in Nat,
         \A i \in Inodes \ {inode} : map'[i] = map[i],
         size' = [size EXCEPT ![inode] = s],
         s < W, s <= BS * Len(map'[inode])
  PROVE  FilesOK'
<1>1. \A i \in Inodes : size'[i] = IF i = inode THEN s ELSE size[i]
  BY DEF FilesOK, SizeType
<1>2. size' \in [Inodes -> Nat]
  BY DEF FilesOK, SizeType
<1>3. SizeType'
  BY <1>1, <1>2 DEF FilesOK, SizeType
<1>4. SizeBacked'
  <2> SUFFICES ASSUME NEW i \in Inodes PROVE size'[i] <= BS * Len(map'[i])
    BY DEF SizeBacked
  <2>1. CASE i = inode
    BY <1>1, <2>1
  <2>2. CASE i # inode
    BY <1>1, <2>2 DEF FilesOK, SizeBacked
  <2> QED BY <2>1, <2>2
<1> QED BY <1>3, <1>4 DEF FilesOK

\* Sizes unchanged, one inode has grown.
LEMMA GrownBacked ==
  ASSUME FilesOK, MapType', NEW inode \in Inodes,
         \A i \in Inodes \ {inode} : map'[i] = map[i],
         Len(map'[inode]) >= Len(map[inode]), size' = size
  PROVE  FilesOK'
<1>1. SizeBacked'
  <2> SUFFICES ASSUME NEW i \in Inodes PROVE size[i] <= BS * Len(map'[i])
    BY DEF SizeBacked
  <2>1. size[i] <= BS * Len(map[i]) /\ size[i] \in Nat
    BY DEF FilesOK, SizeBacked, SizeType
  <2>2. Len(map[i]) \in Nat /\ Len(map'[i]) \in Nat /\ Len(map[i]) <= Len(map'[i])
    <3>1. Len(map'[i]) \in Nat
      BY LenProperties DEF MapType
    <3> QED BY <3>1, MapLengths DEF FilesOK
  <2> DEFINE a == Len(map[i])  b == Len(map'[i])
  <2>3. BS * a <= BS * b /\ BS * a \in Nat /\ BS * b \in Nat
    BY <2>2, Multiples
  <2> QED BY ONLY <2>1, <2>3
<1> QED BY <1>1 DEF FilesOK, SizeType

LEMMA FilesSame == ASSUME FilesOK, UNCHANGED inodes PROVE FilesOK'
BY DEF inodes, FilesOK, MapType, SizeType, SizeBacked

LEMMA FileSizeType ==
  ASSUME FilesOK, NEW inode \in Inodes
  PROVE  FileSize(inode) \in Nat
BY DEF FilesOK, SizeType, FileSize

LEMMA FdType ==
  ASSUME FdsType, NEW k \in DOMAIN fds
  PROVE  /\ fds \in Seq(OpenFiles) /\ fds[k] \in OpenFiles
         /\ fds[k].inode \in Inodes /\ fds[k].offset \in Nat
<1>1. fds[k] \in OpenFiles
  BY ElementOfSeq, LenProperties DEF FdsType
<1> QED BY <1>1 DEF OpenFiles, FdsType

LEMMA OffsetMoved ==
  ASSUME FdsType, NEW k \in DOMAIN fds, NEW o \in Nat,
         fds' = [fds EXCEPT ![k].offset = o]
  PROVE  /\ FdsType' /\ DOMAIN fds' = DOMAIN fds
         /\ fds'[k].inode = fds[k].inode /\ fds'[k].offset = o
<1> DEFINE f == [fds[k] EXCEPT !.offset = o]
<1>1. fds[k] \in OpenFiles /\ fds \in Seq(OpenFiles)
  BY FdType
<1>2. f \in OpenFiles /\ f.inode = fds[k].inode /\ f.offset = o
  BY <1>1 DEF OpenFiles
<1>3. fds' = [fds EXCEPT ![k] = f]
  OBVIOUS
<1> HIDE DEF f
<1>4. /\ fds' \in Seq(OpenFiles) /\ Len(fds') = Len(fds) /\ DOMAIN fds' = DOMAIN fds
      /\ fds'[k] = f
  BY <1>1, <1>2, <1>3, Update
<1> QED BY <1>2, <1>4 DEF FdsType

----------------------------------------------------------------------------
(* Tools, start and end of a process *)

LEMMA RootType == Root \in Inodes /\ 0 \in Blocks
BY DEF Root, Inodes, Blocks

LEMMA MaxfilePositive == MAXFILE >= 1
<1>1. BS * MAXFILE >= LIMIT /\ LIMIT >= W
  BY ShmAssumption DEF ShmAssumption
<1>2. ASSUME MAXFILE = 0 PROVE FALSE
  BY <1>1, <1>2
<1> QED BY <1>2

LEMMA NoFilesType ==
  ASSUME map' = NoFiles, size' = [i \in Inodes |-> 0]
  PROVE  FilesOK'
<1>1. << >> \in Seq(Blocks) /\ Len(<< >>) = 0
  BY EmptySeq
<1>2. MapType'
  BY <1>1 DEF NoFiles, MapType
<1>3. SizeType' /\ SizeBacked'
  BY <1>1 DEF NoFiles, SizeType, SizeBacked
<1> QED BY <1>2, <1>3 DEF FilesOK

LEMMA FreshType ==
  ASSUME map' = [NoFiles EXCEPT ![Root] = << 0 >>],
         size' = [i \in Inodes |-> IF i = Root THEN Dots ELSE 0]
  PROVE  FilesOK'
<1>1. /\ << >> \in Seq(Blocks) /\ Len(<< >>) = 0
      /\ << 0 >> \in Seq(Blocks) /\ Len(<< 0 >>) = 1
  BY RootType, EmptySeq
<1>2. /\ map' \in [Inodes -> Seq(Blocks)]
      /\ \A i \in Inodes : Len(map'[i]) = IF i = Root THEN 1 ELSE 0
  <2>1. /\ DOMAIN map' = Inodes
        /\ \A i \in Inodes : map'[i] = IF i = Root THEN << 0 >> ELSE << >>
    BY RootType DEF NoFiles
  <2>2. map' = [i \in Inodes |-> map'[i]]
    BY DEF NoFiles
  <2>3. ASSUME NEW i \in Inodes
        PROVE  map'[i] \in Seq(Blocks) /\ Len(map'[i]) = IF i = Root THEN 1 ELSE 0
    <3>1. CASE i = Root
      BY <1>1, <2>1, <3>1
    <3>2. CASE i # Root
      BY <1>1, <2>1, <3>2
    <3> QED BY <3>1, <3>2
  <2>4. \A i \in Inodes : map'[i] \in Seq(Blocks)
    BY <2>3
  <2>5. map' \in [Inodes -> Seq(Blocks)]
    BY ONLY <2>2, <2>4
  <2> QED BY <2>3, <2>5
<1>3. MapType'
  BY <1>2, MaxfilePositive DEF MapType
<1>4. SizeType'
  BY DEF SizeType
<1>5. SizeBacked'
  BY <1>2 DEF SizeBacked
<1> QED BY <1>3, <1>4, <1>5 DEF FilesOK

LEMMA BlankType == Blank \in [Slots -> Cells]
BY DEF Blank, Cells

LEMMA HistoryType ==
  ASSUME FlagsType, FilesGone
  PROVE  history' \in {"kept", "lost"}
BY DEF FlagsType, FilesGone

LEMMA ToolKeeps ==
  ASSUME IInv, Tool, FilesGone
  PROVE  FlagsType' /\ FdsType' /\ CallType'
<1>1. /\ pc = "gone" /\ UNCHANGED <<process, pc, call, luck>>
  BY DEF Tool
<1>2. FlagsType'
  BY <1>1, HistoryType DEF IInv, FlagsType, process
<1>3. FdsType' /\ CallType'
  BY <1>1 DEF IInv, FdsType, CallType, process
<1> QED BY <1>2, <1>3

LEMMA MkfsInv == ASSUME IInv, NEW parts \in 1 .. 5, shm_mkfs(parts) PROVE IInv'
<1>1. FlagsType' /\ FdsType' /\ CallType'
  BY ToolKeeps DEF shm_mkfs
<1>2. ObjectsType'
  BY DEF shm_mkfs, IInv, ObjectsType
<1>3. FilesOK'
  <2>1. CASE parts > 2
    BY <2>1, FreshType DEF shm_mkfs
  <2>2. CASE ~(parts > 2)
    BY <2>2, FilesSame DEF shm_mkfs, IInv, inodes
  <2> QED BY <2>1, <2>2
<1>4. DiskType'
  BY BlankType DEF shm_mkfs, IInv, DiskType
<1> QED BY <1>1, <1>2, <1>3, <1>4 DEF IInv

LEMMA MountInv == ASSUME IInv, shm_mount PROVE IInv'
<1>1. FlagsType' /\ FdsType' /\ CallType'
  BY ToolKeeps DEF shm_mount
<1>2. ObjectsType'
  BY DEF shm_mount, IInv, ObjectsType
<1>3. FilesOK' /\ DiskType'
  BY FilesSame DEF shm_mount, IInv, DiskType
<1> QED BY <1>1, <1>2, <1>3 DEF IInv

LEMMA UnlinkInv == ASSUME IInv, NEW parts \in 1 .. 3, shm_unlink(parts) PROVE IInv'
<1>1. FlagsType' /\ FdsType' /\ CallType'
  BY ToolKeeps DEF shm_unlink
<1>2. ObjectsType'
  BY DEF shm_unlink, IInv, ObjectsType
<1>3. FilesOK'
  BY NoFilesType DEF shm_unlink
<1>4. DiskType'
  BY BlankType DEF shm_unlink, DiskType
<1> QED BY <1>1, <1>2, <1>3, <1>4 DEF IInv

LEMMA StartInv == ASSUME IInv, Start PROVE IInv'
<1>1. ObjectsType' /\ FlagsType'
  BY DEF Start, IInv, ObjectsType, FlagsType, objects, process
<1>2. FilesOK' /\ DiskType' /\ FdsType' /\ CallType'
  BY FilesSame DEF Start, IInv, DiskType, FdsType, CallType, process
<1> QED BY <1>1, <1>2 DEF IInv

LEMMA ExitInv == ASSUME IInv, Exit PROVE IInv'
<1>1. ObjectsType' /\ FlagsType' /\ CallType'
  BY DEF Exit, IInv, ObjectsType, FlagsType, CallType, objects
<1>2. FilesOK' /\ DiskType'
  BY FilesSame DEF Exit, IInv, DiskType
<1>3. FdsType'
  <2>1. fds' = << >> /\ << >> \in Seq(OpenFiles) /\ Len(<< >>) = 0
    BY EmptySeq DEF Exit
  <2> QED BY <2>1 DEF FdsType
<1> QED BY <1>1, <1>2, <1>3 DEF IInv

LEMMA UndefinedInv == ASSUME IInv, Undefined PROVE IInv'
<1>1. ObjectsType' /\ FlagsType'
  BY DEF Undefined, IInv, ObjectsType, FlagsType, objects, process
<1>2. FilesOK' /\ DiskType' /\ FdsType' /\ CallType'
  BY FilesSame DEF Undefined, IInv, DiskType, FdsType, CallType, process
<1> QED BY <1>1, <1>2 DEF IInv

LEMMA StutterInv == ASSUME IInv, UNCHANGED vars PROVE IInv'
<1>1. ObjectsType' /\ FlagsType'
  BY DEF vars, IInv, ObjectsType, FlagsType
<1>2. FilesOK' /\ DiskType' /\ FdsType'
  BY FilesSame DEF vars, IInv, DiskType, FdsType, inodes
<1>3. CallType'
  BY DEF vars, IInv, CallType, Fits, StartMatches, Calls
<1> QED BY <1>1, <1>2, <1>3 DEF IInv

----------------------------------------------------------------------------
(* vsfs_creat *)

LEMMA Returned == ASSUME IInv, pc = "idle", Return PROVE CallType'
BY DEF Return, IInv, CallType

LEMMA LeastInode ==
  ASSUME NEW S \in SUBSET Inodes, S # {}
  PROVE  \E i \in S : \A j \in S : i <= j
<1>1. S \subseteq Nat
  BY DEF Inodes
<1> DEFINE R == OpToRel(<, Nat)
<1>2. IsWellFoundedOn(R, Nat)
  BY NatLessThanWellFounded
<1> HIDE DEF R
<1>3. PICK i \in S : \A j \in S : ~(<<j, i>> \in R)
  BY <1>1, <1>2, WFMin
<1>4. \A j \in S : j < i => <<j, i>> \in R
  BY <1>1 DEF R, OpToRel
<1>5. \A j \in S : ~(j < i)
  BY ONLY <1>3, <1>4
<1>6. \A j \in S : i <= j
  BY ONLY <1>1, <1>5
<1> QED BY ONLY <1>6

LEMMA FreeInodeType ==
  ASSUME ObjectsType, free_inodes # NULL
  PROVE  FreeInode \in Inodes
<1>1. free_inodes \subseteq Inodes
  BY DEF ObjectsType
<1>2. CASE free_inodes = {}
  BY <1>2, RootType DEF FreeInode
<1>3. CASE free_inodes # {}
  <2>1. \E i \in free_inodes : \A j \in free_inodes : i <= j
    BY <1>1, <1>3, LeastInode
  <2> QED BY <1>1, <1>3, <2>1 DEF FreeInode
<1> QED BY <1>2, <1>3

\* The directory has room for one entry more, in its last block or a new one.
LEMMA RoomForEntry ==
  ASSUME FilesOK, NEW m \in Nat,
         m = IF DirFull THEN Len(map[Root]) + 1 ELSE Len(map[Root])
  PROVE  entry + 1 <= BS * m
<1> DEFINE l == Len(map[Root])
<1>1. l \in Nat /\ entry \in Nat /\ entry <= BS * l
  BY RootType, MapLengths DEF FilesOK, SizeType, SizeBacked, entry
<1> HIDE DEF l
<1>2. BS * (l + 1) = BS * l + BS /\ BS * l \in Nat
  BY <1>1
<1>3. CASE DirFull
  BY <1>1, <1>2, <1>3 DEF l
<1>4. CASE ~DirFull
  <2>1. entry < BS * l
    BY <1>1, <1>2, <1>4 DEF DirFull, l
  <2> QED BY <1>1, <1>2, <1>4, <2>1 DEF l
<1> QED BY <1>3, <1>4

LEMMA FileMade ==
  ASSUME IInv, free_inodes # NULL, NEW name \in Names, NEW n \in 0 .. MAXFILE,
         DirFull => Len(map[Root]) < DIR_LIMIT,
         NEW new \in FreeBlocks(NewBlocks(n)), NewFile(name, n, new)
  PROVE  FilesOK' /\ DiskType' /\ free_inodes' \subseteq Inodes
         /\ history' \in {"kept", "lost"}
<1> DEFINE inode == FreeInode
           root == IF DirFull THEN Append(map[Root], new[1]) ELSE map[Root]
           file == IF DirFull THEN Tail(new) ELSE new
           block == IF DirFull THEN new[1] ELSE entry \div BS
           slot == IF DirFull THEN entry - BS * Len(map[Root]) ELSE entry % BS
<1>1. /\ disk' = [disk EXCEPT ![block][slot] = Entry(name, inode)]
      /\ map' = [map EXCEPT ![Root] = root, ![inode] = file]
      /\ size' = [size EXCEPT ![Root] = @ + 1, ![inode] = NewSize(n)]
      /\ free_inodes' = free_inodes \ {inode}
      /\ history' = IF inode = Root THEN "lost" ELSE history
  BY DEF NewFile
<1>2. FilesOK /\ MapType /\ SizeType /\ DiskType /\ ObjectsType /\ FlagsType
  BY DEF IInv, FilesOK
<1>3. inode \in Inodes /\ Root \in Inodes
  BY <1>2, FreeInodeType, RootType
<1>4. /\ NewBlocks(n) \in Nat /\ NewBlocks(n) = IF DirFull THEN n + 1 ELSE n
      /\ new \in Seq(Blocks) /\ Len(new) = NewBlocks(n)
  <2>1. NewBlocks(n) \in Nat /\ NewBlocks(n) = IF DirFull THEN n + 1 ELSE n
    BY DEF NewBlocks
  <2> QED BY <2>1, FreeType
<1>5. map[Root] \in Seq(Blocks) /\ Len(map[Root]) \in Nat /\ Len(map[Root]) <= MAXFILE
  BY <1>2, <1>3, MapLengths
<1>6. /\ root \in Seq(Blocks) /\ Len(root) \in Nat /\ Len(root) <= MAXFILE
      /\ Len(root) = IF DirFull THEN Len(map[Root]) + 1 ELSE Len(map[Root])
      /\ file \in Seq(Blocks) /\ Len(file) = n
  <2>1. CASE DirFull
    <3>1. new # << >> /\ new[1] \in Blocks
      BY <1>4, <2>1
    <3>2. Tail(new) \in Seq(Blocks) /\ Len(Tail(new)) = Len(new) - 1
      BY <1>4, <3>1, HeadTailProperties
    <3>3. /\ Append(map[Root], new[1]) \in Seq(Blocks)
          /\ Len(Append(map[Root], new[1])) = Len(map[Root]) + 1
      BY <1>5, <3>1, AppendProperties
    <3>4. Len(map[Root]) < DIR_LIMIT /\ DIR_LIMIT <= MAXFILE
      BY <2>1, ShmAssumption DEF ShmAssumption
    <3> QED BY <1>4, <1>5, <2>1, <3>2, <3>3, <3>4
  <2>2. CASE ~DirFull
    BY <1>4, <1>5, <2>2
  <2> QED BY <2>1, <2>2
<1>7. DiskType'
  <2>1. Entry(name, inode) \in Cells
    BY <1>3 DEF Entry, Cells
  <2> HIDE DEF block, slot, inode
  <2> QED BY <1>1, <1>2, <2>1 DEF DiskType
<1>8. free_inodes' \subseteq Inodes /\ history' \in {"kept", "lost"}
  BY <1>1, <1>2 DEF ObjectsType, FlagsType
<1>9. entry + 1 <= BS * Len(root) /\ size[Root] = entry
  BY <1>2, <1>6, RoomForEntry DEF entry
<1>10. NewSize(n) \in Nat /\ NewSize(n) < W /\ NewSize(n) <= BS * n
  BY Remainder DEF NewSize
<1> HIDE DEF inode, root, file
<1>11. \A i \in Inodes :
         /\ map'[i] = IF i = inode THEN file ELSE IF i = Root THEN root ELSE map[i]
         /\ size'[i] = IF i = inode THEN NewSize(n)
                       ELSE IF i = Root THEN size[Root] + 1 ELSE size[i]
  BY <1>1, <1>2, <1>3 DEF MapType, SizeType
<1>12. MapType'
  <2>1. \A i \in Inodes : map'[i] \in Seq(Blocks) /\ Len(map'[i]) <= MAXFILE
    BY <1>2, <1>6, <1>11, MapLengths
  <2>2. map' = [i \in Inodes |-> map'[i]]
    BY <1>1, <1>2 DEF MapType
  <2> QED BY <2>1, <2>2 DEF MapType
<1>13. SizeType'
  <2>1. \A i \in Inodes : size'[i] \in Nat /\ (i # Root => size'[i] < W)
    BY <1>2, <1>10, <1>11 DEF SizeType
  <2>2. size' = [i \in Inodes |-> size'[i]]
    BY <1>1, <1>2 DEF SizeType
  <2> QED BY <2>1, <2>2 DEF SizeType
<1>14. SizeBacked'
  <2> SUFFICES ASSUME NEW i \in Inodes PROVE size'[i] <= BS * Len(map'[i])
    BY DEF SizeBacked
  <2>1. CASE i = inode
    BY <1>6, <1>10, <1>11, <2>1
  <2>2. CASE i # inode /\ i = Root
    BY <1>9, <1>11, <2>2
  <2>3. CASE i # inode /\ i # Root
    BY <1>2, <1>11, <2>3 DEF FilesOK, SizeBacked
  <2> QED BY <2>1, <2>2, <2>3
<1> QED BY <1>7, <1>8, <1>12, <1>13, <1>14 DEF FilesOK

LEMMA CreatInv ==
  ASSUME IInv, NEW name \in Names, NEW n \in 0 .. MAXFILE, vsfs_creat(name, n)
  PROVE  IInv'
<1>1. /\ Running /\ Creatable(name) /\ Return
      /\ sb_cached' = "no" /\ UNCHANGED <<sb, table, fds>>
  BY DEF vsfs_creat
<1>2. PICK new \in FreeBlocks(NewBlocks(n)) : NewFile(name, n, new)
  BY DEF vsfs_creat
<1>3. free_inodes # NULL /\ (DirFull => Len(map[Root]) < DIR_LIMIT)
  BY <1>1 DEF Creatable, Mounted
<1>4. /\ FilesOK' /\ DiskType' /\ free_inodes' \subseteq Inodes
      /\ history' \in {"kept", "lost"}
  BY <1>2, <1>3, FileMade
<1>5. CallType'
  BY <1>1, Returned DEF Running
<1>6. ObjectsType' /\ FlagsType' /\ FdsType'
  BY <1>1, <1>4 DEF Running, IInv, ObjectsType, FlagsType, FdsType
<1> QED BY <1>4, <1>5, <1>6 DEF IInv

----------------------------------------------------------------------------
(* vsfs_open and vsfs_close *)

LEMMA OpenInv ==
  ASSUME IInv, NEW name \in Names, NEW flags \in Flags, vsfs_open(name, flags)
  PROVE  IInv'
<1>1. /\ Running /\ Return /\ Len(fds) < MaxFds /\ sb_cached' = "yes"
      /\ UNCHANGED <<free_inodes, inodes, disk, history>>
  BY DEF vsfs_open
<1>2. fds \in Seq(OpenFiles) /\ Len(fds) \in Nat
  BY LenProperties DEF IInv, FdsType
<1>3. FdsType' /\ sb' \in {"no", "yes"} /\ table' \in {"list", "freed"}
  <2>1. ASSUME NEW inode \in Found(name), sb' = "yes" /\ table' = "list",
               fds' = Append(fds, [inode |-> inode, flags |-> flags, offset |-> 0])
        PROVE  FdsType' /\ sb' \in {"no", "yes"} /\ table' \in {"list", "freed"}
    <3> DEFINE f == [inode |-> inode, flags |-> flags, offset |-> 0]
    <3>1. f \in OpenFiles
      BY DEF OpenFiles, Found
    <3> HIDE DEF f
    <3>2. fds' = Append(fds, f)
      BY <2>1 DEF f
    <3>3. fds' \in Seq(OpenFiles) /\ Len(fds') = Len(fds) + 1
      BY <1>2, <3>1, <3>2, AppendProperties
    <3> QED BY <1>1, <1>2, <2>1, <3>3 DEF FdsType
  <2>2. ASSUME fds' = << >>, sb' = "no", table' = "freed"
        PROVE  FdsType' /\ sb' \in {"no", "yes"} /\ table' \in {"list", "freed"}
    <3>1. << >> \in Seq(OpenFiles) /\ Len(<< >>) = 0
      BY EmptySeq
    <3> QED BY <2>2, <3>1 DEF FdsType
  <2> QED BY <2>1, <2>2 DEF vsfs_open
<1>4. ObjectsType' /\ FlagsType' /\ DiskType'
  BY <1>1, <1>3 DEF Running, IInv, ObjectsType, FlagsType, DiskType
<1>5. FilesOK' /\ CallType'
  BY <1>1, FilesSame, Returned DEF Running, IInv
<1> QED BY <1>3, <1>4, <1>5 DEF IInv

LEMMA CloseInv == ASSUME IInv, vsfs_close PROVE IInv'
<1>1. /\ Running /\ Return /\ fds # << >>
      /\ fds' = SubSeq(fds, 1, Len(fds) - 1)
      /\ UNCHANGED <<free_inodes, inodes, disk, history>>
      /\ sb' \in {sb, "no"} /\ sb_cached' \in {sb_cached, "no"}
      /\ table' \in {"cut", "freed"}
  BY DEF vsfs_close
<1>2. FdsType'
  <2>1. fds \in Seq(OpenFiles) /\ Len(fds) \in Nat \ {0} /\ Len(fds) <= MaxFds
    BY <1>1, LenProperties, EmptySeq DEF IInv, FdsType
  <2>2. /\ SubSeq(fds, 1, Len(fds) - 1) \in Seq(OpenFiles)
        /\ Len(SubSeq(fds, 1, Len(fds) - 1)) = Len(fds) - 1
    <3>1. \A i \in 1 .. Len(fds) - 1 : fds[i] \in OpenFiles
      BY <2>1, ElementOfSeq
    <3> DEFINE n == Len(fds) - 1
    <3>2. n \in Nat /\ n \in Int
      BY <2>1
    <3> HIDE DEF n
    <3>3. \A i \in 1 .. n : fds[i] \in OpenFiles
      BY <3>1 DEF n
    <3>4. /\ SubSeq(fds, 1, n) \in Seq(OpenFiles)
          /\ Len(SubSeq(fds, 1, n)) = IF 1 <= n THEN n - 1 + 1 ELSE 0
      BY <3>2, <3>3, SubSeqProperties
    <3>5. (IF 1 <= n THEN n - 1 + 1 ELSE 0) = n
      BY <3>2
    <3> QED BY <3>4, <3>5 DEF n
  <2> QED BY <1>1, <2>1, <2>2 DEF FdsType
<1>3. ObjectsType' /\ FlagsType' /\ DiskType'
  BY <1>1 DEF Running, IInv, ObjectsType, FlagsType, DiskType
<1>4. FilesOK' /\ CallType'
  BY <1>1, FilesSame, Returned DEF Running, IInv
<1> QED BY <1>2, <1>3, <1>4 DEF IInv

----------------------------------------------------------------------------
(* vsfs_read and vsfs_lseek *)

\* A call that returns at once, moves an offset and keeps the files.
LEMMA Moved ==
  ASSUME IInv, Running, Return, NEW k \in DOMAIN fds, NEW o \in Nat,
         fds' = [fds EXCEPT ![k].offset = o],
         UNCHANGED <<free_inodes, disk, sb, sb_cached, table, history>>, FilesOK'
  PROVE  IInv'
<1>1. FdsType'
  BY OffsetMoved DEF IInv
<1>2. ObjectsType' /\ FlagsType' /\ DiskType'
  BY DEF Running, IInv, ObjectsType, FlagsType, DiskType
<1>3. CallType'
  BY Returned DEF Running
<1> QED BY <1>1, <1>2, <1>3 DEF IInv

LEMMA ReadInv ==
  ASSUME IInv, NEW k \in Fds, NEW n \in Nat, vsfs_read(k, n)
  PROVE  IInv'
<1> DEFINE size_left == FileSize(fds[k].inode) - fds[k].offset
           o == fds[k].offset + Lowest(n, size_left)
<1>1. /\ Running /\ Return /\ k \in DOMAIN fds
      /\ size_left > 0 /\ fds' = [fds EXCEPT ![k].offset = o]
      /\ UNCHANGED <<free_inodes, inodes, disk, sb, sb_cached, table, history>>
  BY DEF vsfs_read
<1>2. fds[k].inode \in Inodes /\ fds[k].offset \in Nat
  BY <1>1, FdType DEF IInv
<1>3. FileSize(fds[k].inode) \in Nat
  BY <1>2, FileSizeType DEF IInv
<1>4. o \in Nat
  BY <1>1, <1>2, <1>3 DEF Lowest
<1> HIDE DEF o, size_left
<1>5. FilesOK'
  BY <1>1, FilesSame DEF IInv
<1> QED BY <1>1, <1>4, <1>5, Moved

LEMMA SeekInsideInv ==
  ASSUME IInv, NEW k \in Fds, NEW offset \in Nat, SeekInside(k, offset)
  PROVE  IInv'
<1>1. FilesOK'
  BY FilesSame DEF SeekInside, IInv
<1> QED BY <1>1, Moved DEF SeekInside

LEMMA SeekBeyondInv ==
  ASSUME IInv, NEW k \in Fds, NEW offset \in Nat, SeekBeyond(k, offset)
  PROVE  IInv'
<1> DEFINE inode == fds[k].inode
           need == Missing(inode, offset)
<1>1. /\ Running /\ Return /\ k \in DOMAIN fds /\ offset <= W
      /\ AllocBlock(inode, need)
      /\ size' = [size EXCEPT ![inode] = offset % W]
      /\ fds' = [fds EXCEPT ![k].offset = offset]
      /\ UNCHANGED <<free_inodes, disk, sb, sb_cached, table, history>>
  BY DEF SeekBeyond, Beyond
<1>2. FilesOK /\ MapType /\ inode \in Inodes
  BY <1>1, FdType DEF IInv, FilesOK
<1>3. Len(map[inode]) \in Nat
  BY <1>2, MapLengths
<1>4. CeilBlocks(offset) \in Nat /\ offset <= BS * CeilBlocks(offset)
  BY Ceiling
<1>5. need = IF CeilBlocks(offset) >= Len(map[inode])
             THEN CeilBlocks(offset) - Len(map[inode]) ELSE MAXFILE
  BY DEF Missing
<1>6. need \in Nat
  BY <1>3, <1>4, <1>5
<1> HIDE DEF need, inode
<1>7. /\ MapType'
      /\ \A i \in Inodes \ {inode} : map'[i] = map[i]
      /\ Len(map'[inode]) \in Nat
      /\ Len(map'[inode]) = Len(map[inode]) + need \/ Len(map'[inode]) = MAXFILE
  BY <1>1, <1>2, <1>6, Allocation
<1>8. offset <= BS * Len(map'[inode])
  <2>1. CASE Len(map'[inode]) = MAXFILE
    BY <1>1, <2>1, ShmAssumption DEF ShmAssumption
  <2>2. CASE Len(map'[inode]) # MAXFILE
    <3>1. Len(map'[inode]) = Len(map[inode]) + need /\ Len(map'[inode]) <= MAXFILE
      BY <1>2, <1>7, <2>2 DEF MapType
    <3>2. Len(map'[inode]) = CeilBlocks(offset)
      BY <1>3, <1>4, <1>5, <1>6, <2>2, <3>1
    <3> QED BY <1>4, <3>2
  <2> QED BY <2>1, <2>2
<1>9. offset % W \in Nat /\ offset % W < W /\ offset % W <= BS * Len(map'[inode])
  <2>1. offset % W \in Nat /\ offset % W < W /\ offset % W <= offset
    BY Remainder
  <2>2. BS * Len(map'[inode]) \in Nat
    BY <1>7, Multiples
  <2> QED BY <1>8, <2>1, <2>2
<1>10. FilesOK'
  BY <1>1, <1>2, <1>7, <1>9, StillBacked
<1> QED BY <1>1, <1>10, Moved

----------------------------------------------------------------------------
(* vsfs_write *)

\* What is done of a write when it starts: the inode has the blocks.
LEMMA WriteGrows ==
  ASSUME IInv, NEW k \in Fds, NEW v \in Values, NEW n \in Nat, vsfs_write(k, v, n)
  PROVE  /\ k \in DOMAIN fds
         /\ FilesOK'
         /\ fds[k].offset + n <= BS * Len(map'[fds[k].inode])
<1> DEFINE inode == fds[k].inode
           end == fds[k].offset + n
           c == CeilBlocks(end)
<1>1. /\ k \in DOMAIN fds /\ end <= LIMIT /\ size' = size
      /\ \/ Len(map[inode]) <= c /\ AllocBlock(inode, c - Len(map[inode]))
         \/ Len(map[inode]) > c /\ UNCHANGED map
  BY DEF vsfs_write, Writable, Needed
<1>2. FilesOK /\ MapType /\ inode \in Inodes /\ end \in Nat
  BY <1>1, FdType DEF IInv, FilesOK
<1> HIDE DEF inode, end
<1>3. c \in Nat /\ end <= BS * c /\ Len(map[inode]) \in Nat
  BY <1>2, Ceiling, MapLengths
<1> HIDE DEF c
<1>4. FilesOK' /\ end <= BS * Len(map'[inode])
  <2>1. CASE Len(map[inode]) <= c /\ AllocBlock(inode, c - Len(map[inode]))
    <3>1. c - Len(map[inode]) \in Nat
      BY <1>3, <2>1
    <3>2. /\ MapType'
          /\ \A i \in Inodes \ {inode} : map'[i] = map[i]
          /\ Len(map'[inode]) >= Len(map[inode])
          /\ \/ Len(map'[inode]) = Len(map[inode]) + (c - Len(map[inode]))
             \/ Len(map'[inode]) = MAXFILE
      BY <1>2, <2>1, <3>1, Allocation
    <3>3. FilesOK'
      BY <1>1, <1>2, <3>2, GrownBacked
    <3>4. CASE Len(map'[inode]) = MAXFILE
      BY <1>1, <1>2, <3>3, <3>4, ShmAssumption DEF ShmAssumption
    <3>5. CASE Len(map'[inode]) # MAXFILE
      <4>1. Len(map'[inode]) = c
        BY <1>3, <3>2, <3>5
      <4> QED BY <1>3, <3>3, <4>1
    <3> QED BY <3>4, <3>5
  <2>2. CASE Len(map[inode]) > c /\ UNCHANGED map
    <3>1. FilesOK'
      BY <1>1, <1>2, <2>2, FilesSame DEF inodes
    <3>2. BS * c <= BS * Len(map[inode]) /\ BS * c \in Nat /\ BS * Len(map[inode]) \in Nat
      BY <1>3, <2>2, Multiples
    <3> QED BY <1>2, <1>3, <2>2, <3>1, <3>2
  <2> QED BY <1>1, <2>1, <2>2
<1> QED BY <1>1, <1>4 DEF inode, end

\* The start block of a new write is cut to 16 bits, which changes nothing for
\* offsets below 2^16 blocks.
LEMMA StartBlock ==
  ASSUME NEW o \in Nat
  PROVE  /\ (o \div BS) % WRAP \in 0 .. WRAP + LEVEL1
         /\ o < WRAP * BS => (o \div BS) % WRAP = o \div BS
<1>1. o \div BS \in Nat
  BY Division
<1> DEFINE q == o \div BS
<1>2. o < WRAP * BS => q < WRAP
  <2>1. WRAP * BS = BS * WRAP
    OBVIOUS
  <2> QED BY <2>1, IndexBelow
<1> HIDE DEF q
<1>3. q % WRAP \in 0 .. WRAP - 1
  BY <1>1 DEF q
<1>4. q < WRAP => q % WRAP = q
  BY <1>1 DEF q
<1> QED BY <1>2, <1>3, <1>4 DEF q

LEMMA WriteInv ==
  ASSUME IInv, NEW k \in Fds, NEW v \in Values, NEW n \in Nat, vsfs_write(k, v, n)
  PROVE  IInv'
<1>1. /\ Running /\ pc' = "write"
      /\ call' = [fd |-> k, value |-> v, left |-> n,
                  start |-> (fds[k].offset \div BS) % WRAP]
      /\ UNCHANGED <<free_inodes, size, disk, process, history>>
  BY DEF vsfs_write
<1>2. k \in DOMAIN fds /\ FilesOK' /\ fds[k].offset + n <= BS * Len(map'[fds[k].inode])
  BY WriteGrows
<1>3. fds[k].offset \in Nat
  BY <1>2, FdType DEF IInv
<1>4. ObjectsType' /\ FlagsType' /\ DiskType' /\ FdsType'
  BY <1>1 DEF Running, IInv, ObjectsType, FlagsType, DiskType, FdsType, process
<1>5. fds' = fds
  BY <1>1 DEF process
<1>6. call' \in Calls'
  <2>1. (fds[k].offset \div BS) % WRAP \in 0 .. WRAP + LEVEL1
    BY <1>3, StartBlock
  <2> QED BY <1>1, <1>2, <1>5, <2>1 DEF Calls
<1>7. Fits'
  BY <1>1, <1>2, <1>5 DEF Fits
<1>8. StartMatches'
  BY <1>1, <1>3, <1>5, StartBlock DEF StartMatches
<1> QED BY <1>1, <1>2, <1>4, <1>6, <1>7, <1>8 DEF IInv, CallType

LEMMA CallParts ==
  ASSUME IInv, pc = "write"
  PROVE  /\ call \in Calls /\ call.fd \in DOMAIN fds /\ call.value \in Values
         /\ call.left \in Nat /\ call.start \in 0 .. WRAP + LEVEL1
         /\ Fits /\ StartMatches
         /\ fds[call.fd].inode \in Inodes /\ fds[call.fd].offset \in Nat
<1>1. call \in Calls /\ Fits /\ StartMatches
  BY DEF IInv, CallType
<1>2. /\ call.fd \in DOMAIN fds /\ call.value \in Values
      /\ call.left \in Nat /\ call.start \in 0 .. WRAP + LEVEL1
  BY <1>1 DEF Calls
<1> QED BY <1>1, <1>2, FdType DEF IInv

\* A turn of the loop fills the block to its end unless the write ends in it.
LEMMA TurnLength ==
  ASSUME NEW o \in Nat, NEW left \in Nat \ {0}, NEW len,
         len = Lowest(BS - (o % BS), left)
  PROVE  /\ len \in Nat /\ left - len \in Nat
         /\ left - len > 0 => (o + len) \div BS = (o \div BS) + 1
<1> DEFINE q == o \div BS
           r == o % BS
<1>1. q \in Nat /\ r \in 0 .. BS - 1 /\ o = BS * q + r
  BY Division
<1>2. len = IF BS - r < left THEN BS - r ELSE left
  BY DEF Lowest
<1> HIDE DEF q, r
<1>3. len \in Nat /\ left - len \in Nat
  BY <1>1, <1>2
<1>4. ASSUME left - len > 0 PROVE (o + len) \div BS = q + 1
  <2>1. len = BS - r
    BY <1>1, <1>2, <1>4
  <2>2. o + len = BS * (q + 1) + 0
    <3>1. BS * (q + 1) = BS * q + BS /\ BS * q \in Nat
      BY <1>1
    <3> QED BY <1>1, <2>1, <3>1
  <2>3. (BS * (q + 1) + 0) \div BS = q + 1
    <3>1. q + 1 \in Nat /\ 0 \in 0 .. BS - 1
      BY <1>1
    <3> QED BY <3>1, Quotient
  <2> QED BY <2>2, <2>3
<1> QED BY <1>3, <1>4 DEF q

LEMMA WriteBlockInv == ASSUME IInv, WriteBlock PROVE IInv'
<1> DEFINE f == fds[call.fd]
           skip == f.offset % BS
           len == Lowest(BS - skip, call.left)
<1>1. /\ pc = "write" /\ call.left > 0
      /\ disk' = [disk EXCEPT ![map[f.inode][Index(f) + 1]] =
           [s \in Slots |-> IF s >= skip /\ s < skip + len THEN call.value ELSE @[s]]]
      /\ fds' = [fds EXCEPT ![call.fd].offset = f.offset + len]
      /\ call' = [call EXCEPT !.left = call.left - len, !.start = NextStart]
      /\ UNCHANGED <<objects, inodes, sb, sb_cached, table, pc, luck, history>>
  BY DEF WriteBlock
<1>2. /\ call \in Calls /\ call.fd \in DOMAIN fds /\ call.value \in Values
      /\ call.left \in Nat /\ call.start \in 0 .. WRAP + LEVEL1
      /\ Fits /\ StartMatches /\ f.inode \in Inodes /\ f.offset \in Nat
  BY <1>1, CallParts
<1>3. /\ len \in Nat /\ call.left - len \in Nat
      /\ call.left - len > 0 => (f.offset + len) \div BS = (f.offset \div BS) + 1
  BY <1>1, <1>2, TurnLength
<1>4. DiskType'
  <2> HIDE DEF len, skip, f
  <2>1. call.value \in Cells
    BY <1>2 DEF Cells
  <2> QED BY <1>1, <2>1 DEF IInv, DiskType
<1> HIDE DEF len
<1>5. /\ FdsType' /\ DOMAIN fds' = DOMAIN fds
      /\ fds'[call.fd].inode = f.inode /\ fds'[call.fd].offset = f.offset + len
  <2>1. f.offset + len \in Nat
    BY <1>2, <1>3
  <2> QED BY <1>1, <1>2, <2>1, OffsetMoved DEF IInv
<1> HIDE DEF f, skip
<1>6. /\ call'.fd = call.fd /\ call'.left = call.left - len /\ call'.start = NextStart
      /\ call'.value = call.value
  BY <1>1, <1>2 DEF Calls
<1>7. NextStart \in 0 .. WRAP + LEVEL1
  BY <1>2 DEF NextStart
<1>8. call' \in Calls'
  BY <1>1, <1>2, <1>3, <1>5, <1>7 DEF Calls
<1>9. Fits'
  <2>1. f.offset + call.left <= BS * Len(map[f.inode])
    BY <1>2 DEF Fits, f
  <2>2. (f.offset + len) + (call.left - len) = f.offset + call.left
    BY <1>2, <1>3
  <2> QED BY <1>1, <1>5, <1>6, <2>1, <2>2 DEF Fits, inodes
<1>10. StartMatches'
  <2> SUFFICES ASSUME call.left - len > 0, NextStart < LEVEL1,
                      f.offset + len < WRAP * BS
               PROVE  NextStart = (f.offset + len) \div BS
    BY <1>5, <1>6 DEF StartMatches
  <2>1. call.start < LEVEL1 /\ NextStart = call.start + 1
    BY <1>2 DEF NextStart
  <2>2. f.offset < WRAP * BS
    <3>1. WRAP * BS \in Nat
      OBVIOUS
    <3> QED BY <1>2, <1>3, <3>1
  <2>3. call.start = f.offset \div BS
    BY <1>1, <1>2, <2>1, <2>2 DEF StartMatches, f
  <2> QED BY <1>3, <2>1, <2>3
<1>11. ObjectsType' /\ FlagsType' /\ FilesOK'
  BY <1>1, FilesSame DEF IInv, ObjectsType, FlagsType, objects
<1>12. CallType'
  BY <1>1, <1>8, <1>9, <1>10 DEF CallType
<1> QED BY <1>4, <1>5, <1>11, <1>12 DEF IInv

LEMMA WriteEndInv == ASSUME IInv, WriteEnd PROVE IInv'
<1> DEFINE f == fds[call.fd]
<1>1. /\ pc = "write" /\ call.left = 0
      /\ size' = [size EXCEPT ![f.inode] = f.offset % W]
      /\ pc' = "idle" /\ call' = NULL
      /\ UNCHANGED <<objects, map, disk, process, luck, history>>
  BY DEF WriteEnd
<1>2. Fits /\ f.inode \in Inodes /\ f.offset \in Nat
  BY <1>1, CallParts
<1>3. MapType' /\ Len(map'[f.inode]) \in Nat /\ map' = map
  BY <1>1, <1>2, MapLengths DEF IInv, FilesOK, MapType
<1>4. f.offset <= BS * Len(map'[f.inode])
  BY <1>1, <1>2, <1>3 DEF Fits
<1> HIDE DEF f
<1>5. /\ f.offset % W \in Nat /\ f.offset % W < W
      /\ f.offset % W <= BS * Len(map'[f.inode])
  <2>1. f.offset % W \in Nat /\ f.offset % W < W /\ f.offset % W <= f.offset
    BY <1>2, Remainder
  <2>2. BS * Len(map'[f.inode]) \in Nat
    BY <1>3, Multiples
  <2> QED BY <1>2, <1>4, <2>1, <2>2
<1>6. FilesOK'
  BY <1>1, <1>2, <1>3, <1>5, StillBacked DEF IInv
<1>7. ObjectsType' /\ FlagsType' /\ DiskType'
  BY <1>1 DEF IInv, ObjectsType, FlagsType, DiskType, objects, process
<1>8. FdsType' /\ CallType'
  BY <1>1 DEF IInv, FdsType, CallType, process
<1> QED BY <1>6, <1>7, <1>8 DEF IInv

----------------------------------------------------------------------------
(* The specification *)

LEMMA InitInv == ASSUME Init PROVE IInv
<1>1. ObjectsType /\ FlagsType /\ CallType
  BY DEF Init, ObjectsType, FlagsType, CallType
<1>2. << >> \in Seq(Blocks) /\ Len(<< >>) = 0 /\ << >> \in Seq(OpenFiles)
  BY EmptySeq
<1>3. MapType /\ SizeType /\ SizeBacked
  BY <1>2 DEF Init, NoFiles, MapType, SizeType, SizeBacked
<1>4. DiskType
  BY BlankType DEF Init, DiskType
<1>5. FdsType
  BY <1>2 DEF Init, FdsType
<1> QED BY <1>1, <1>3, <1>4, <1>5 DEF IInv, FilesOK

LEMMA Bounds ==
  BlockNums \subseteq 0 .. MAXFILE /\ Lengths \subseteq Nat /\ Offsets \subseteq Nat
BY ShmAssumption DEF ShmAssumption

LEMMA CallInv == ASSUME IInv, Call PROVE IInv'
<1>1. ASSUME NEW name \in Names, NEW n \in BlockNums, vsfs_creat(name, n) PROVE IInv'
  BY <1>1, CreatInv, Bounds
<1>2. ASSUME NEW name \in Names, NEW flags \in Flags, vsfs_open(name, flags) PROVE IInv'
  BY <1>2, OpenInv
<1>3. CASE vsfs_close
  BY <1>3, CloseInv
<1>4. ASSUME NEW k \in Fds, NEW n \in Lengths, vsfs_read(k, n) PROVE IInv'
  BY <1>4, ReadInv, Bounds
<1>5. ASSUME NEW k \in Fds, NEW n \in Lengths, NEW v \in Values, vsfs_write(k, v, n)
      PROVE  IInv'
  BY <1>5, WriteInv, Bounds
<1>6. ASSUME NEW k \in Fds, NEW offset \in Offsets, vsfs_lseek(k, offset) PROVE IInv'
  BY <1>6, SeekInsideInv, SeekBeyondInv, Bounds DEF vsfs_lseek
<1> QED BY <1>1, <1>2, <1>3, <1>4, <1>5, <1>6 DEF Call

LEMMA NextInv == ASSUME IInv, [Next]_vars PROVE IInv'
<1>1. CASE Tools
  BY <1>1, MkfsInv, MountInv, UnlinkInv DEF Tools
<1>2. CASE Start \/ Exit \/ Undefined
  BY <1>2, StartInv, ExitInv, UndefinedInv
<1>3. CASE Call
  BY <1>3, CallInv
<1>4. CASE WriteBlock \/ WriteEnd
  BY <1>4, WriteBlockInv, WriteEndInv
<1>5. CASE UNCHANGED vars
  BY <1>5, StutterInv
<1> QED BY <1>1, <1>2, <1>3, <1>4, <1>5 DEF Next

\* IInv holds in every state: types, backed sizes, and what is known of a write
\* under way.
THEOREM Invariant == Spec => []IInv
<1>1. Init => IInv
  BY InitInv
<1>2. IInv /\ [Next]_vars => IInv'
  BY NextInv
<1> QED BY <1>1, <1>2, PTL DEF Spec

\* Every variable has its type, for programs and tools in any order, also after
\* undefined behaviour.
THEOREM TypeCorrect == Spec => []TypeOK
<1>1. ASSUME IInv PROVE TypeOK
  <2>1. /\ map \in [Inodes -> Seq(Blocks)] /\ size \in [Inodes -> Nat]
        /\ \A i \in Inodes \ {Root} : size[i] < W
    BY <1>1 DEF IInv, FilesOK, MapType, SizeType
  <2>2. pc \in {"gone", "idle", "write"} /\ (call # NULL => call \in Calls)
    BY <1>1 DEF IInv, CallType
  <2> QED
    BY <1>1, <2>1, <2>2
    DEF TypeOK, IInv, ObjectsType, FlagsType, DiskType, FdsType, OpenFiles, Calls
<1> QED BY <1>1, Invariant, PTL

\* No inode is longer than its blocks, whatever shm_mkfs, shm_mount, creat, seek
\* and a write that dies leave behind: vsfs_read never follows a pointer that
\* was not set.
THEOREM SizesBacked == Spec => []SizeBacked
<1>1. IInv => SizeBacked
  BY DEF IInv, FilesOK
<1> QED BY <1>1, Invariant, PTL

LEMMA StepLands ==
  ASSUME IInv, [Next]_vars, pc = "write", fds[call.fd].offset < WRAP * BS,
         NEW b \in Blocks, disk'[b] # disk[b]
  PROVE  b = map[fds[call.fd].inode][fds[call.fd].offset \div BS + 1]
<1> DEFINE f == fds[call.fd]
<1>1. CASE WriteBlock
  <2>1. /\ call.left > 0
        /\ \E cells : disk' = [disk EXCEPT ![map[f.inode][Index(f) + 1]] = cells]
    BY <1>1 DEF WriteBlock
  <2>2. Index(f) = f.offset \div BS
    BY <2>1, CallParts DEF Index, StartMatches
  <2>3. PICK cells : disk' = [disk EXCEPT ![map[f.inode][Index(f) + 1]] = cells]
    BY <2>1
  <2>4. DOMAIN disk = Blocks
    BY DEF IInv, DiskType
  <2>5. b = map[f.inode][Index(f) + 1]
    BY <2>3, <2>4
  <2> QED BY <2>2, <2>5
<1>2. CASE ~WriteBlock
  <2>1. ~Tools /\ ~Start
    BY DEF Tools, shm_mkfs, shm_mount, shm_unlink, Tool, Start
  <2>2. ~Call
    BY DEF Call, vsfs_creat, vsfs_open, vsfs_close, vsfs_read, vsfs_write, vsfs_lseek,
           SeekInside, SeekBeyond, Running
  <2>3. Exit \/ Undefined \/ WriteEnd \/ UNCHANGED vars
    BY <1>2, <2>1, <2>2 DEF Next
  <2>4. disk' = disk
    BY <2>3 DEF Exit, Undefined, WriteEnd, vars
  <2> QED BY <2>4
<1> QED BY <1>1, <1>2

\* A write to the first 2^16 blocks of a file changes the block its offset is in
\* and no other, for any block size and any number of direct pointers: __write_dblock
\* leaves level 1 with its 16-bit counter on the block of the offset.
THEOREM WritesLand == Spec => WritesLandInPlace
<1>1. IInv /\ [Next]_vars =>
        [pc = "write" /\ fds[call.fd].offset < WRAP * BS =>
           \A b \in Blocks : disk'[b] # disk[b] =>
             b = map[fds[call.fd].inode][fds[call.fd].offset \div BS + 1]]_vars
  BY StepLands
<1> QED BY <1>1, Invariant, PTL DEF Spec, WritesLandInPlace

----------------------------------------------------------------------------
(* The store of named files: what the directory says while it is kept *)

EntryIs(a, name, inode) == Cell(a) = Entry(name, inode)
Named(name, inode) == \E a \in 0 .. entry - 1 : EntryIs(a, name, inode)

\* No block has two places.
BlocksDistinct ==
  \A i, j \in Inodes : \A k \in DOMAIN map[i], h \in DOMAIN map[j] :
    map[i][k] = map[j][h] => i = j /\ k = h

GoneEmpty == pc = "gone" => fds = <<>>

\* The start block is not behind that of the offset, wrapped or not.
StartBelow ==
  pc = "write" /\ call.left > 0 => call.start <= fds[call.fd].offset \div BS

\* A name and an inode have one entry.
EntriesOnce ==
  \A a, b \in 0 .. entry - 1 : \A name, other \in Names : \A inode, second \in Inodes :
    EntryIs(a, name, inode) /\ EntryIs(b, other, second)
      /\ (name = other \/ inode = second) => a = b

\* The cache does not give away an inode that has a name.
NamesTaken ==
  \A n \in Names, x \in Inodes : Named(n, x) =>
    x # Root /\ (free_inodes # NULL => x \notin free_inodes)

FdsNamed ==
  \A k \in DOMAIN fds : \E n \in Names, x \in Inodes : x = fds[k].inode /\ Named(n, x)

\* Without a name there was never a write.
Nameless ==
  (\A n \in Names : ~Listed(n)) => \A b \in Blocks, s \in Slots : disk[b][s] = Junk

InStep == history = "kept" /\ InPlace
Kept == InStep => EntriesOnce /\ NamesTaken /\ FdsNamed /\ Nameless

----------------------------------------------------------------------------
(* The places of the blocks *)

LEMMA Maps ==
  ASSUME IInv
  PROVE  /\ \A i \in Inodes : /\ map[i] \in Seq(Blocks) /\ Len(map[i]) \in Nat
                              /\ DOMAIN map[i] = 1 .. Len(map[i])
                              /\ \A k \in 1 .. Len(map[i]) : map[i][k] \in Blocks
         /\ Root \in Inodes /\ entry \in Nat /\ DOMAIN map = Inodes
         /\ size \in [Inodes -> Nat]
<1>1. \A i \in Inodes : map[i] \in Seq(Blocks)
  BY DEF IInv, FilesOK, MapType
<1> QED
  BY <1>1, RootType, LenProperties, ElementOfSeq
  DEF IInv, FilesOK, MapType, SizeType, entry

\* Free blocks are in no inode, and a run of them has none twice.
LEMMA UnusedApart ==
  ASSUME NEW u \in Unused, NEW i \in Inodes, NEW k \in DOMAIN map[i]
  PROVE  u \in Blocks /\ map[i][k] # u
BY DEF Unused

LEMMA FreeOnce ==
  ASSUME NEW n \in Nat, NEW new \in FreeBlocks(n)
  PROVE  /\ new \in Seq(Blocks) /\ Len(new) = n /\ DOMAIN new = 1 .. n
         /\ \A k \in 1 .. n : new[k] \in Unused
         /\ \A j, k \in 1 .. n : new[j] = new[k] => j = k
<1>1. new \in [1 .. n -> Unused] /\ \A j, k \in 1 .. n : j < k => new[j] < new[k]
  BY DEF FreeBlocks
<1>2. \A k \in 1 .. n : new[k] \in Nat
  BY <1>1, UnusedApart DEF Unused, Blocks
<1>3. ASSUME NEW j \in 1 .. n, NEW k \in 1 .. n, new[j] = new[k], j # k PROVE FALSE
  <2>1. CASE j < k
    BY <1>1, <1>2, <1>3, <2>1
  <2>2. CASE k < j
    BY <1>1, <1>2, <1>3, <2>2
  <2> QED BY <1>3, <2>1, <2>2
<1> QED BY <1>1, <1>3, FreeType

\* What one step does to the files: nothing, ...
FdsFrom ==
  \A k \in DOMAIN fds' :
    \/ \E h \in DOMAIN fds : fds'[k].inode = fds[h].inode
    \/ \E n \in Names : Named(n, fds'[k].inode)

Quiet == UNCHANGED <<map, size, disk, free_inodes, history>> /\ FdsFrom

\* ... free blocks after the others of one inode, or its size, ...
Grows(x) ==
  /\ \A i \in Inodes : i # x => map'[i] = map[i] /\ size'[i] = size[i]
  /\ \A k \in DOMAIN map[x] : k \in DOMAIN map'[x] /\ map'[x][k] = map[x][k]
  /\ \A k \in DOMAIN map'[x] \ DOMAIN map[x] : map'[x][k] \in Unused
  /\ \A k, h \in DOMAIN map'[x] \ DOMAIN map[x] : map'[x][k] = map'[x][h] => k = h
  /\ UNCHANGED <<disk, free_inodes, history>> /\ FdsFrom
  /\ \E k \in DOMAIN fds : x = fds[k].inode

\* ... a new file, one block, or all of them.
Made(name, n) ==
  /\ Creatable(name) /\ fds' = fds
  /\ \E new \in FreeBlocks(NewBlocks(n)) : NewFile(name, n, new)

Storage ==
  \/ Quiet \/ WriteBlock \/ Tools
  \/ \E x \in Inodes : Grows(x)
  \/ \E name \in Names, n \in BlockNums : Made(name, n)

\* What an allocation leaves.
LEMMA AllocGrows ==
  ASSUME IInv, NEW x \in Inodes, NEW need \in Nat, AllocBlock(x, need)
  PROVE  /\ \A i \in Inodes : i # x => map'[i] = map[i]
         /\ \A k \in DOMAIN map[x] : k \in DOMAIN map'[x] /\ map'[x][k] = map[x][k]
         /\ \A k \in DOMAIN map'[x] \ DOMAIN map[x] : map'[x][k] \in Unused
         /\ \A k, h \in DOMAIN map'[x] \ DOMAIN map[x] : map'[x][k] = map'[x][h] => k = h
<1>1. PICK n \in Nat : n = Granted(x, need)
  BY GrantedType DEF IInv, FilesOK
<1>2. PICK t \in FreeBlocks(n) : map' = [map EXCEPT ![x] = @ \o t]
  BY <1>1 DEF AllocBlock
<1>3. /\ t \in Seq(Blocks) /\ Len(t) = n
      /\ \A k \in 1 .. n : t[k] \in Unused
      /\ \A j, k \in 1 .. n : t[j] = t[k] => j = k
  BY FreeOnce
<1>4. PICK s \in Seq(Blocks) : s = map[x] /\ Len(s) \in Nat /\ DOMAIN s = 1 .. Len(s)
  BY Maps
<1>5. PICK m \in Nat : m = Len(s)
  BY <1>4
<1>6. /\ s \o t \in Seq(Blocks) /\ Len(s \o t) = m + n
      /\ \A k \in 1 .. m + n : (s \o t)[k] = IF k <= m THEN s[k] ELSE t[k - m]
  <2>1. /\ s \o t \in Seq(Blocks) /\ Len(s \o t) = Len(s) + Len(t)
        /\ \A k \in 1 .. Len(s) + Len(t) :
             (s \o t)[k] = IF k <= Len(s) THEN s[k] ELSE t[k - Len(s)]
    <3>1. s \in Seq(Blocks) /\ t \in Seq(Blocks)
      BY <1>3
    <3> QED BY ONLY <3>1, ConcatProperties
  <2> QED BY <1>3, <1>5, <2>1
<1>7. DOMAIN (s \o t) = 1 .. m + n
  BY <1>6, LenProperties
<1>8. /\ \A i \in Inodes : i # x => map'[i] = map[i]
      /\ map'[x] = s \o t
  BY <1>2, <1>4, Maps
<1>9. PICK r : r = map'[x]
  OBVIOUS
<1>10. /\ DOMAIN r = 1 .. m + n /\ DOMAIN s = 1 .. m
       /\ \A k \in 1 .. m + n : r[k] = IF k <= m THEN s[k] ELSE t[k - m]
  BY <1>4, <1>5, <1>6, <1>7, <1>8, <1>9
<1>11. \A k \in 1 .. m : k \in 1 .. m + n /\ r[k] = s[k]
  BY <1>10
<1>12. ASSUME NEW k \in 1 .. m + n, k \notin 1 .. m
       PROVE  k - m \in 1 .. n /\ r[k] = t[k - m]
  BY <1>10, <1>12
<1>13. ASSUME NEW k \in DOMAIN r \ DOMAIN s, NEW h \in DOMAIN r \ DOMAIN s, r[k] = r[h]
       PROVE  k = h
  <2>1. /\ k - m \in 1 .. n /\ r[k] = t[k - m]
        /\ h - m \in 1 .. n /\ r[h] = t[h - m]
    BY <1>10, <1>12
  <2>2. k - m = h - m
    BY <1>3, <1>13, <2>1
  <2>3. k \in Nat /\ h \in Nat
    BY <1>10
  <2> QED BY <2>2, <2>3
<1>14. \A k \in DOMAIN r \ DOMAIN s : r[k] \in Unused
  BY <1>3, <1>10, <1>12
<1> QED BY <1>4, <1>8, <1>9, <1>10, <1>11, <1>13, <1>14

LEMMA FdsSame == ASSUME fds' = fds PROVE FdsFrom
BY DEF FdsFrom

\* A descriptor of a file is moved.
LEMMA FdMoved ==
  ASSUME IInv, NEW k \in DOMAIN fds, NEW o \in Nat, fds' = [fds EXCEPT ![k].offset = o]
  PROVE  FdsFrom /\ fds'[k].inode = fds[k].inode
<1>1. /\ DOMAIN fds' = DOMAIN fds
      /\ \A h \in DOMAIN fds : h # k => fds'[h] = fds[h]
      /\ fds'[k].inode = fds[k].inode
  <2>1. fds'[k].inode = fds[k].inode /\ DOMAIN fds' = DOMAIN fds
    BY OffsetMoved DEF IInv
  <2> QED BY <2>1
<1> QED BY <1>1 DEF FdsFrom

LEMMA OpenQuiet ==
  ASSUME IInv, NEW name \in Names, NEW flags \in Flags, vsfs_open(name, flags)
  PROVE  Quiet
<1>1. UNCHANGED <<map, size, disk, free_inodes, history>>
  BY DEF vsfs_open, inodes
<1>2. fds \in Seq(OpenFiles) /\ Len(fds) \in Nat /\ DOMAIN fds = 1 .. Len(fds)
  BY LenProperties DEF IInv, FdsType
<1>3. ASSUME NEW inode \in Found(name),
             fds' = Append(fds, [inode |-> inode, flags |-> flags, offset |-> 0])
      PROVE  FdsFrom
  <2>1. PICK f : f = [inode |-> inode, flags |-> flags, offset |-> 0]
    OBVIOUS
  <2>2. f \in OpenFiles /\ f.inode = inode
    BY <2>1 DEF OpenFiles, Found
  <2>3. /\ fds' \in Seq(OpenFiles) /\ Len(fds') = Len(fds) + 1
        /\ \A k \in 1 .. Len(fds) : fds'[k] = fds[k]
        /\ fds'[Len(fds) + 1] = f
    BY <1>2, <1>3, <2>1, <2>2, AppendProperties
  <2>4. DOMAIN fds' = 1 .. Len(fds) + 1
    BY <2>3, LenProperties
  <2>5. Named(name, inode)
    BY DEF Found, Named, EntryIs
  <2>6. ASSUME NEW k \in DOMAIN fds'
        PROVE  \/ \E h \in DOMAIN fds : fds'[k].inode = fds[h].inode
               \/ fds'[k].inode = inode
    <3>1. CASE k = Len(fds) + 1
      BY <2>2, <2>3, <3>1
    <3>2. CASE k # Len(fds) + 1
      <4>1. k \in 1 .. Len(fds)
        BY <1>2, <2>4, <3>2
      <4> QED BY <1>2, <2>3, <4>1
    <3> QED BY <3>1, <3>2
  <2> HIDE DEF Named
  <2> QED BY <2>5, <2>6 DEF FdsFrom
<1>4. ASSUME fds' = << >> PROVE FdsFrom
  BY <1>4 DEF FdsFrom
<1> QED BY <1>1, <1>3, <1>4 DEF vsfs_open, Quiet

LEMMA CloseQuiet == ASSUME IInv, vsfs_close PROVE Quiet
<1>1. /\ UNCHANGED <<map, size, disk, free_inodes, history>>
      /\ fds # << >> /\ fds' = SubSeq(fds, 1, Len(fds) - 1)
  BY DEF vsfs_close, inodes
<1>2. /\ fds \in Seq(OpenFiles) /\ Len(fds) \in Nat \ {0} /\ DOMAIN fds = 1 .. Len(fds)
  BY <1>1, LenProperties, EmptySeq DEF IInv, FdsType
<1>3. \A k \in DOMAIN fds' : k \in DOMAIN fds /\ fds'[k] = fds[k]
  BY <1>1, <1>2
<1> QED BY <1>1, <1>3 DEF Quiet, FdsFrom

LEMMA ProcessQuiet == ASSUME Start \/ Exit \/ Undefined \/ UNCHANGED vars PROVE Quiet
<1>1. CASE Start
  BY <1>1, FdsSame DEF Start, Quiet, inodes, objects, process
<1>2. CASE Exit
  BY <1>2 DEF Exit, Quiet, inodes, objects, FdsFrom
<1>3. CASE Undefined
  BY <1>3, FdsSame DEF Undefined, Quiet, inodes, objects, process
<1>4. CASE UNCHANGED vars
  BY <1>4, FdsSame DEF vars, Quiet
<1> QED BY <1>1, <1>2, <1>3, <1>4

LEMMA MoveQuiet ==
  ASSUME IInv, NEW k \in Fds, NEW n \in Nat, vsfs_read(k, n) \/ SeekInside(k, n)
  PROVE  Quiet
<1>1. PICK o : o = fds[k].offset + Lowest(n, FileSize(fds[k].inode) - fds[k].offset)
  OBVIOUS
<1>2. CASE vsfs_read(k, n)
  <2>1. /\ k \in DOMAIN fds /\ FileSize(fds[k].inode) - fds[k].offset > 0
        /\ fds' = [fds EXCEPT ![k].offset = o]
        /\ UNCHANGED <<map, size, disk, free_inodes, history>>
    BY <1>1, <1>2 DEF vsfs_read, inodes
  <2>2. fds[k].inode \in Inodes /\ fds[k].offset \in Nat
    BY <2>1, FdType DEF IInv
  <2>3. FileSize(fds[k].inode) \in Nat
    BY <2>2, FileSizeType DEF IInv
  <2>4. o \in Nat
    BY <1>1, <2>1, <2>2, <2>3 DEF Lowest
  <2> QED BY <2>1, <2>4, FdMoved DEF Quiet
<1>3. CASE SeekInside(k, n)
  <2>1. /\ k \in DOMAIN fds /\ fds' = [fds EXCEPT ![k].offset = n]
        /\ UNCHANGED <<map, size, disk, free_inodes, history>>
    BY <1>3 DEF SeekInside, inodes
  <2> QED BY <2>1, FdMoved DEF Quiet
<1> QED BY <1>2, <1>3

LEMMA WriteStorage ==
  ASSUME IInv, NEW k \in Fds, NEW v \in Values, NEW n \in Nat, vsfs_write(k, v, n)
  PROVE  Quiet \/ \E x \in Inodes : Grows(x)
<1>1. PICK x, c : x = fds[k].inode /\ c = Needed(k, n)
  OBVIOUS
<1>2. /\ k \in DOMAIN fds
      /\ \/ Len(map[x]) <= c /\ AllocBlock(x, c - Len(map[x]))
         \/ UNCHANGED map
      /\ UNCHANGED <<free_inodes, size, disk, history, fds>>
  BY <1>1 DEF vsfs_write, Writable, process
<1>3. x \in Inodes /\ fds[k].offset + n \in Nat
  BY <1>1, <1>2, FdType DEF IInv
<1>4. c \in Nat /\ Len(map[x]) \in Nat
  BY <1>1, <1>3, Ceiling, Maps DEF Needed
<1>5. CASE Len(map[x]) <= c /\ AllocBlock(x, c - Len(map[x]))
  <2>1. c - Len(map[x]) \in Nat
    BY <1>4, <1>5
  <2>2. /\ \A i \in Inodes : i # x => map'[i] = map[i]
        /\ \A h \in DOMAIN map[x] : h \in DOMAIN map'[x] /\ map'[x][h] = map[x][h]
        /\ \A h \in DOMAIN map'[x] \ DOMAIN map[x] : map'[x][h] \in Unused
        /\ \A h, j \in DOMAIN map'[x] \ DOMAIN map[x] : map'[x][h] = map'[x][j] => h = j
    BY <1>3, <1>5, <2>1, AllocGrows
  <2>3. FdsFrom /\ (\A i \in Inodes : size'[i] = size[i]) /\ \E h \in DOMAIN fds : x = fds[h].inode
    BY <1>1, <1>2, FdsSame
  <2> QED BY <1>2, <1>3, <2>2, <2>3 DEF Grows
<1>6. CASE UNCHANGED map
  BY <1>2, <1>6, FdsSame DEF Quiet
<1> QED BY <1>2, <1>5, <1>6

LEMMA SeekStorage ==
  ASSUME IInv, NEW k \in Fds, NEW offset \in Nat, SeekBeyond(k, offset)
  PROVE  \E x \in Inodes : Grows(x)
<1>1. PICK x, need : x = fds[k].inode /\ need = Missing(x, offset)
  OBVIOUS
<1>2. /\ k \in DOMAIN fds /\ AllocBlock(x, need)
      /\ size' = [size EXCEPT ![x] = offset % W]
      /\ fds' = [fds EXCEPT ![k].offset = offset]
      /\ UNCHANGED <<free_inodes, disk, history>>
  BY <1>1 DEF SeekBeyond, Beyond
<1>3. x \in Inodes
  BY <1>1, <1>2, FdType DEF IInv
<1>4. need \in Nat
  <2>1. CeilBlocks(offset) \in Nat /\ Len(map[x]) \in Nat
    BY <1>3, Ceiling, Maps
  <2> QED BY <1>1, <2>1 DEF Missing
<1>5. /\ \A i \in Inodes : i # x => map'[i] = map[i]
      /\ \A h \in DOMAIN map[x] : h \in DOMAIN map'[x] /\ map'[x][h] = map[x][h]
      /\ \A h \in DOMAIN map'[x] \ DOMAIN map[x] : map'[x][h] \in Unused
      /\ \A h, j \in DOMAIN map'[x] \ DOMAIN map[x] : map'[x][h] = map'[x][j] => h = j
  BY <1>2, <1>3, <1>4, AllocGrows
<1>6. \A i \in Inodes : i # x => size'[i] = size[i]
  BY <1>2, Maps
<1>7. FdsFrom
  BY <1>2, FdMoved
<1> QED BY <1>1, <1>2, <1>3, <1>5, <1>6, <1>7 DEF Grows

LEMMA EndStorage ==
  ASSUME IInv, WriteEnd
  PROVE  \E x \in Inodes : Grows(x)
<1>1. PICK x : x = fds[call.fd].inode
  OBVIOUS
<1>2. /\ pc = "write" /\ size' = [size EXCEPT ![x] = fds[call.fd].offset % W]
      /\ UNCHANGED <<map, disk, fds, free_inodes, history>>
  BY <1>1 DEF WriteEnd, objects, process
<1>3. x \in Inodes /\ call.fd \in DOMAIN fds
  BY <1>1, <1>2, CallParts
<1>4. \A i \in Inodes : i # x => size'[i] = size[i]
  BY <1>2, Maps
<1> QED BY <1>1, <1>2, <1>3, <1>4, FdsSame DEF Grows

LEMMA StepStorage == ASSUME IInv, [Next]_vars PROVE Storage
<1>1. CASE Tools \/ WriteBlock
  BY <1>1 DEF Storage
<1>2. CASE Start \/ Exit \/ Undefined \/ UNCHANGED vars
  BY <1>2, ProcessQuiet DEF Storage
<1>3. CASE WriteEnd
  BY <1>3, EndStorage DEF Storage
<1>4. ASSUME NEW name \in Names, NEW n \in BlockNums, vsfs_creat(name, n) PROVE Storage
  <2>1. Made(name, n)
    BY <1>4 DEF vsfs_creat, Made
  <2> QED BY <2>1 DEF Storage
<1>5. ASSUME NEW name \in Names, NEW flags \in Flags, vsfs_open(name, flags) PROVE Storage
  BY <1>5, OpenQuiet DEF Storage
<1>6. CASE vsfs_close
  BY <1>6, CloseQuiet DEF Storage
<1>7. ASSUME NEW k \in Fds, NEW n \in Lengths, vsfs_read(k, n) PROVE Storage
  BY <1>7, MoveQuiet, Bounds DEF Storage
<1>8. ASSUME NEW k \in Fds, NEW n \in Lengths, NEW v \in Values, vsfs_write(k, v, n)
      PROVE  Storage
  BY <1>8, WriteStorage, Bounds DEF Storage
<1>9. ASSUME NEW k \in Fds, NEW offset \in Offsets, vsfs_lseek(k, offset) PROVE Storage
  BY <1>9, MoveQuiet, SeekStorage, Bounds DEF vsfs_lseek, Storage
<1> QED BY <1>1, <1>2, <1>3, <1>4, <1>5, <1>6, <1>7, <1>8, <1>9 DEF Next, Call

----------------------------------------------------------------------------
(* A process that is gone, a write under way *)

LEMMA GoneStep == ASSUME GoneEmpty, [Next]_vars PROVE GoneEmpty'
<1>1. CASE Tools
  BY <1>1 DEF Tools, shm_mkfs, shm_mount, shm_unlink, Tool, process, GoneEmpty
<1>2. CASE Start \/ Exit \/ Undefined \/ UNCHANGED vars \/ WriteBlock \/ WriteEnd
  BY <1>2 DEF Start, Exit, Undefined, vars, WriteBlock, WriteEnd, process, GoneEmpty
<1>3. CASE Call
  <2>1. pc' # "gone"
    BY <1>3
    DEF Call, vsfs_creat, vsfs_open, vsfs_close, vsfs_read, vsfs_write, vsfs_lseek,
        SeekInside, SeekBeyond, Running, Return
  <2> QED BY <2>1 DEF GoneEmpty
<1> QED BY <1>1, <1>2, <1>3 DEF Next

LEMMA BelowStep == ASSUME IInv, StartBelow, [Next]_vars PROVE StartBelow'
<1>1. CASE pc' # "write"
  BY <1>1 DEF StartBelow
<1>2. ASSUME NEW k \in Fds, NEW v \in Values, NEW n \in Lengths, vsfs_write(k, v, n)
      PROVE  StartBelow'
  <2>1. PICK o : o = fds[k].offset
    OBVIOUS
  <2>2. /\ k \in DOMAIN fds /\ fds' = fds
        /\ call' = [fd |-> k, value |-> v, left |-> n, start |-> (o \div BS) % WRAP]
    BY <1>2, <2>1 DEF vsfs_write, Writable, process
  <2>3. PICK d \in Nat : d = o \div BS
    BY <2>1, <2>2, FdType, Division DEF IInv
  <2>4. d % WRAP <= d
    OBVIOUS
  <2>5. call'.start = d % WRAP /\ call'.fd = k
    BY <2>2, <2>3
  <2>6. fds'[call'.fd].offset \div BS = d
    BY <2>1, <2>2, <2>3, <2>5
  <2> QED BY <2>4, <2>5, <2>6 DEF StartBelow
<1>3. CASE WriteBlock
  <2>1. PICK o, len : /\ o = fds[call.fd].offset
                      /\ len = Lowest(BS - (o % BS), call.left)
    OBVIOUS
  <2>2. /\ pc = "write" /\ call.left > 0
        /\ fds' = [fds EXCEPT ![call.fd].offset = o + len]
        /\ call' = [call EXCEPT !.left = call.left - len, !.start = NextStart]
    BY <1>3, <2>1 DEF WriteBlock
  <2>3. /\ call \in Calls /\ call.fd \in DOMAIN fds /\ o \in Nat
        /\ call.left \in Nat \ {0} /\ call.start \in Nat
    BY <2>1, <2>2, CallParts
  <2>4. /\ len \in Nat /\ call.left - len \in Nat
        /\ call.left - len > 0 => (o + len) \div BS = (o \div BS) + 1
    BY <2>1, <2>3, TurnLength
  <2>5. o + len \in Nat
    BY <2>3, <2>4
  <2>6. fds'[call.fd].offset = o + len
    BY <2>2, <2>3, <2>5, OffsetMoved DEF IInv
  <2>7. call'.fd = call.fd /\ call'.left = call.left - len /\ call'.start = NextStart
    BY <2>2, <2>3 DEF Calls
  <2>8. PICK d \in Nat : d = o \div BS
    BY <2>3, Division
  <2>9. call.start <= d
    BY <2>1, <2>2, <2>8 DEF StartBelow
  <2>10. NextStart <= d + 1
    BY <2>3, <2>8, <2>9 DEF NextStart
  <2> QED BY <2>4, <2>6, <2>7, <2>8, <2>10 DEF StartBelow
<1>4. CASE UNCHANGED vars
  BY <1>4 DEF vars, StartBelow
<1>5. CASE \/ Tools \/ Start \/ Exit \/ Undefined \/ WriteEnd
  <2>1. pc' # "write"
    BY <1>5
    DEF Tools, shm_mkfs, shm_mount, shm_unlink, Tool, Start, Exit, Undefined, WriteEnd
  <2> QED BY <1>1, <2>1
<1>6. CASE Call /\ ~\E k \in Fds, v \in Values, n \in Lengths : vsfs_write(k, v, n)
  <2>1. pc' # "write"
    BY <1>6
    DEF Call, vsfs_creat, vsfs_open, vsfs_close, vsfs_read, vsfs_lseek,
        SeekInside, SeekBeyond, Running, Return
  <2> QED BY <1>1, <2>1
<1> QED BY <1>2, <1>3, <1>4, <1>5, <1>6 DEF Next

----------------------------------------------------------------------------
(* No block gets two places *)

\* Where the blocks are after vsfs_creat: in their old places or in one new.
LEMMA MadeMaps ==
  ASSUME IInv, NEW name \in Names, NEW n \in Nat,
         free_inodes # NULL, NEW new \in FreeBlocks(NewBlocks(n)), NewFile(name, n, new)
  PROVE  /\ FreeInode \in Inodes
         /\ \A i \in Inodes : i \notin {Root, FreeInode} =>
              map'[i] = map[i] /\ size'[i] = size[i]
         /\ DOMAIN map'[FreeInode] = 1 .. n /\ Len(map'[FreeInode]) = n
         /\ \A k \in 1 .. n : map'[FreeInode][k] = IF DirFull THEN new[k + 1] ELSE new[k]
         /\ FreeInode # Root /\ ~DirFull => map'[Root] = map[Root]
         /\ FreeInode # Root /\ DirFull =>
              /\ DOMAIN map'[Root] = 1 .. Len(map[Root]) + 1
              /\ map'[Root][Len(map[Root]) + 1] = new[1]
              /\ \A k \in 1 .. Len(map[Root]) : map'[Root][k] = map[Root][k]
         /\ FreeInode # Root => size'[Root] = size[Root] + 1
         /\ size'[FreeInode] = NewSize(n)
<1>1. PICK x, m, root, file :
        /\ x = FreeInode /\ m = Len(map[Root])
        /\ root = IF DirFull THEN Append(map[Root], new[1]) ELSE map[Root]
        /\ file = IF DirFull THEN Tail(new) ELSE new
  OBVIOUS
<1>2. /\ map' = [map EXCEPT ![Root] = root, ![x] = file]
      /\ size' = [size EXCEPT ![Root] = @ + 1, ![x] = NewSize(n)]
  BY <1>1 DEF NewFile
<1>3. x \in Inodes /\ Root \in Inodes /\ m \in Nat
  BY <1>1, FreeInodeType, Maps DEF IInv
<1>4. /\ map'[x] = file /\ size'[x] = NewSize(n)
      /\ x # Root => map'[Root] = root /\ size'[Root] = size[Root] + 1
      /\ \A i \in Inodes : i \notin {Root, x} => map'[i] = map[i] /\ size'[i] = size[i]
  BY <1>2, <1>3, Maps
<1>5. PICK l \in Nat : l = NewBlocks(n) /\ l = IF DirFull THEN n + 1 ELSE n
  BY DEF NewBlocks
<1>6. new \in Seq(Blocks) /\ Len(new) = l /\ DOMAIN new = 1 .. l
  BY <1>5, FreeOnce
<1>7. /\ file \in Seq(Blocks) /\ Len(file) = n
      /\ \A k \in 1 .. n : file[k] = IF DirFull THEN new[k + 1] ELSE new[k]
  <2>1. CASE DirFull
    <3>1. new # << >> /\ file = Tail(new)
      BY <1>1, <1>5, <1>6, <2>1
    <3>2. /\ Tail(new) \in Seq(Blocks) /\ Len(Tail(new)) = Len(new) - 1
          /\ \A k \in 1 .. Len(Tail(new)) : Tail(new)[k] = new[k + 1]
      BY <1>6, <3>1, HeadTailProperties
    <3> QED BY <1>5, <1>6, <2>1, <3>1, <3>2
  <2>2. CASE ~DirFull
    BY <1>1, <1>5, <1>6, <2>2
  <2> QED BY <2>1, <2>2
<1>8. DOMAIN file = 1 .. n
  BY <1>7, LenProperties
<1>9. ASSUME DirFull
      PROVE  /\ DOMAIN root = 1 .. m + 1 /\ root[m + 1] = new[1]
             /\ \A k \in 1 .. m : root[k] = map[Root][k]
  <2>1. new[1] \in Blocks
    BY <1>5, <1>6, <1>9
  <2>2. PICK s \in Seq(Blocks) : s = map[Root] /\ Len(s) = m
    BY <1>1, Maps
  <2>3. /\ Append(s, new[1]) \in Seq(Blocks) /\ Len(Append(s, new[1])) = m + 1
        /\ \A k \in 1 .. m : Append(s, new[1])[k] = s[k]
        /\ Append(s, new[1])[m + 1] = new[1]
    BY <2>1, <2>2, AppendProperties
  <2>4. root = Append(s, new[1])
    BY <1>1, <1>9, <2>2
  <2> QED BY <2>2, <2>3, <2>4, LenProperties
<1> QED BY <1>1, <1>3, <1>4, <1>7, <1>8, <1>9

LEMMA OnePlace ==
  ASSUME BlocksDistinct, NEW i \in Inodes, NEW j \in Inodes,
         NEW k \in DOMAIN map[i], NEW h \in DOMAIN map[j], map[i][k] = map[j][h]
  PROVE  i = j /\ k = h
BY DEF BlocksDistinct

LEMMA DistinctGrown ==
  ASSUME IInv, BlocksDistinct, NEW x \in Inodes, Grows(x)
  PROVE  BlocksDistinct'
<1>1. /\ \A i \in Inodes : i # x => map'[i] = map[i]
      /\ \A k \in DOMAIN map[x] : k \in DOMAIN map'[x] /\ map'[x][k] = map[x][k]
      /\ \A k \in DOMAIN map'[x] \ DOMAIN map[x] : map'[x][k] \in Unused
      /\ \A k, h \in DOMAIN map'[x] \ DOMAIN map[x] : map'[x][k] = map'[x][h] => k = h
  BY DEF Grows
<1>2. ASSUME NEW i \in Inodes, NEW k \in DOMAIN map'[i]
      PROVE  \/ k \in DOMAIN map[i] /\ map'[i][k] = map[i][k]
             \/ i = x /\ k \in DOMAIN map'[x] \ DOMAIN map[x] /\ map'[i][k] \in Unused
  BY <1>1
<1>3. ASSUME NEW i \in Inodes, NEW j \in Inodes,
             NEW k \in DOMAIN map'[i], NEW h \in DOMAIN map'[j], map'[i][k] = map'[j][h]
      PROVE  i = j /\ k = h
  <2>1. CASE k \in DOMAIN map[i] /\ map'[i][k] = map[i][k]
    <3>1. map'[j][h] \notin Unused
      BY <1>3, <2>1, UnusedApart
    <3>2. h \in DOMAIN map[j] /\ map'[j][h] = map[j][h]
      BY <1>2, <3>1
    <3>3. map[i][k] = map[j][h] /\ k \in DOMAIN map[i] /\ h \in DOMAIN map[j]
      BY <1>3, <2>1, <3>2
    <3> QED BY <3>3, OnePlace
  <2>2. CASE i = x /\ k \in DOMAIN map'[x] \ DOMAIN map[x] /\ map'[i][k] \in Unused
    <3>1. ~(h \in DOMAIN map[j] /\ map'[j][h] = map[j][h])
      BY <1>3, <2>2, UnusedApart
    <3>2. j = x /\ h \in DOMAIN map'[x] \ DOMAIN map[x]
      BY <1>2, <3>1
    <3> QED BY <1>1, <1>3, <2>2, <3>2
  <2> QED BY <1>2, <2>1, <2>2
<1> QED BY <1>3 DEF BlocksDistinct

LEMMA DistinctMade ==
  ASSUME IInv, BlocksDistinct, NEW name \in Names, NEW n \in Nat, Made(name, n)
  PROVE  BlocksDistinct'
<1>1. free_inodes # NULL
  BY DEF Made, Creatable, Mounted
<1>2. PICK new \in FreeBlocks(NewBlocks(n)) : NewFile(name, n, new)
  BY DEF Made
<1>3. PICK x : x = FreeInode
  OBVIOUS
<1>4. PICK m \in Nat : m = Len(map[Root]) /\ DOMAIN map[Root] = 1 .. m
  BY Maps
<1>5. /\ x \in Inodes
      /\ \A i \in Inodes : i \notin {Root, x} => map'[i] = map[i]
      /\ DOMAIN map'[x] = 1 .. n
      /\ \A k \in 1 .. n : map'[x][k] = IF DirFull THEN new[k + 1] ELSE new[k]
      /\ x # Root /\ ~DirFull => map'[Root] = map[Root]
      /\ x # Root /\ DirFull =>
           /\ DOMAIN map'[Root] = 1 .. m + 1 /\ map'[Root][m + 1] = new[1]
           /\ \A k \in 1 .. m : map'[Root][k] = map[Root][k]
  BY <1>1, <1>2, <1>3, <1>4, MadeMaps
<1>6. PICK l \in Nat : l = NewBlocks(n) /\ l = IF DirFull THEN n + 1 ELSE n
  BY DEF NewBlocks
<1>7. /\ \A k \in 1 .. l : new[k] \in Unused
      /\ \A j, k \in 1 .. l : new[j] = new[k] => j = k
  BY <1>2, <1>6, FreeOnce
\* Each block is in its old place, in the new file or at the end of the directory.
<1>8. ASSUME NEW i \in Inodes, NEW k \in DOMAIN map'[i]
      PROVE  \/ k \in DOMAIN map[i] /\ map'[i][k] = map[i][k]
             \/ \E h \in 1 .. l : /\ map'[i][k] = new[h]
                                  /\ \/ i = x /\ h = IF DirFull THEN k + 1 ELSE k
                                     \/ DirFull /\ i = Root /\ k = m + 1 /\ h = 1
  <2>1. CASE i = x
    <3>1. k \in 1 .. n /\ map'[i][k] = IF DirFull THEN new[k + 1] ELSE new[k]
      BY <1>5, <1>8, <2>1
    <3> QED BY <1>6, <2>1, <3>1
  <2>2. CASE i # x /\ i = Root /\ DirFull
    <3>1. k \in 1 .. m + 1
      BY <1>5, <1>8, <2>2
    <3>2. CASE k = m + 1
      BY <1>5, <1>6, <2>2, <3>2
    <3>3. CASE k # m + 1
      <4>1. k \in 1 .. m
        BY <3>1, <3>3
      <4> QED BY <1>4, <1>5, <2>2, <4>1
    <3> QED BY <3>2, <3>3
  <2>3. CASE i # x /\ ~(i = Root /\ DirFull)
    BY <1>5, <1>8, <2>3
  <2> QED BY <2>1, <2>2, <2>3
<1>9. ASSUME NEW i \in Inodes, NEW j \in Inodes,
             NEW k \in DOMAIN map'[i], NEW h \in DOMAIN map'[j], map'[i][k] = map'[j][h]
      PROVE  i = j /\ k = h
  <2>1. CASE k \in DOMAIN map[i] /\ map'[i][k] = map[i][k]
    <3>1. map'[j][h] \notin Unused
      BY <1>9, <2>1, UnusedApart
    <3>2. h \in DOMAIN map[j] /\ map'[j][h] = map[j][h]
      BY <1>7, <1>8, <3>1
    <3>3. map[i][k] = map[j][h] /\ k \in DOMAIN map[i] /\ h \in DOMAIN map[j]
      BY <1>9, <2>1, <3>2
    <3> QED BY <3>3, OnePlace
  <2>2. ASSUME NEW p \in 1 .. l, map'[i][k] = new[p],
               \/ i = x /\ p = IF DirFull THEN k + 1 ELSE k
               \/ DirFull /\ i = Root /\ k = m + 1 /\ p = 1
        PROVE  i = j /\ k = h
    <3>1. new[p] \in Unused
      BY <1>7
    <3>2. ~(h \in DOMAIN map[j] /\ map'[j][h] = map[j][h])
      BY <1>9, <2>2, <3>1, UnusedApart
    <3>3. PICK q \in 1 .. l :
            /\ map'[j][h] = new[q]
            /\ \/ j = x /\ q = IF DirFull THEN h + 1 ELSE h
               \/ DirFull /\ j = Root /\ h = m + 1 /\ q = 1
      BY <1>8, <3>2
    <3>4. p = q
      BY <1>7, <1>9, <2>2, <3>3
    <3>5. i = x => k \in Nat \ {0}
      BY <1>5, <1>9
    <3>6. j = x => h \in Nat \ {0}
      BY <1>5, <1>9
    <3> QED BY <2>2, <3>3, <3>4, <3>5, <3>6
  <2> QED BY <1>8, <2>1, <2>2
<1> QED BY <1>9 DEF BlocksDistinct

LEMMA DistinctTools == ASSUME BlocksDistinct, Tools PROVE BlocksDistinct'
<1>1. \/ map' = map \/ map' = NoFiles \/ map' = [NoFiles EXCEPT ![Root] = <<0>>]
  BY DEF Tools, shm_mkfs, shm_mount, shm_unlink, inodes
<1>2. CASE map' = map
  BY <1>2 DEF BlocksDistinct
<1>3. CASE map' = NoFiles
  <2>1. \A i \in Inodes : DOMAIN map'[i] = {}
    BY <1>3 DEF NoFiles
  <2> QED BY <2>1 DEF BlocksDistinct
<1>4. CASE map' = [NoFiles EXCEPT ![Root] = <<0>>]
  <2>1. \A i \in Inodes : \A k \in DOMAIN map'[i] : i = Root /\ k = 1
    BY <1>4, RootType DEF NoFiles
  <2> QED BY <2>1 DEF BlocksDistinct
<1> QED BY <1>1, <1>2, <1>3, <1>4

LEMMA DistinctStep == ASSUME IInv, BlocksDistinct, Storage PROVE BlocksDistinct'
<1>1. CASE Quiet \/ WriteBlock
  <2>1. map' = map
    BY <1>1 DEF Quiet, WriteBlock, inodes
  <2> QED BY <2>1 DEF BlocksDistinct
<1>2. \A n \in BlockNums : n \in Nat
  BY Bounds
<1> QED BY <1>1, <1>2, DistinctGrown, DistinctMade, DistinctTools DEF Storage

----------------------------------------------------------------------------
(* The directory *)

\* What is not kept in place does not come back.
LEMMA InStepBefore == ASSUME IInv, Storage, InStep' PROVE InStep
<1>1. CASE Quiet \/ WriteBlock
  <2>1. map' = map /\ history' = history
    BY <1>1 DEF Quiet, WriteBlock, inodes
  <2> QED BY <2>1 DEF InStep, InPlace
<1>2. ASSUME NEW x \in Inodes, Grows(x) PROVE InStep
  <2>1. \A k \in DOMAIN map[Root] : k \in DOMAIN map'[Root] /\ map'[Root][k] = map[Root][k]
    BY <1>2, RootType DEF Grows
  <2>2. history' = history
    BY <1>2 DEF Grows
  <2> QED BY <2>1, <2>2 DEF InStep, InPlace
<1>3. CASE Tools
  <2>1. FilesGone
    BY <1>3 DEF Tools, shm_mkfs, shm_mount, shm_unlink
  <2> QED BY <2>1 DEF FilesGone, InStep
<1>4. ASSUME NEW name \in Names, NEW n \in BlockNums, Made(name, n) PROVE InStep
  <2>1. free_inodes # NULL /\ n \in Nat
    BY <1>4, Bounds DEF Made, Creatable, Mounted
  <2>2. PICK new \in FreeBlocks(NewBlocks(n)) : NewFile(name, n, new)
    BY <1>4 DEF Made
  <2>3. history = "kept" /\ FreeInode # Root
    BY <2>2 DEF NewFile, InStep
  <2>4. PICK m \in Nat : m = Len(map[Root]) /\ DOMAIN map[Root] = 1 .. m
    BY Maps
  <2>5. \A k \in DOMAIN map[Root] : k \in DOMAIN map'[Root] /\ map'[Root][k] = map[Root][k]
    <3>1. /\ ~DirFull => map'[Root] = map[Root]
          /\ DirFull => /\ DOMAIN map'[Root] = 1 .. m + 1
                        /\ \A k \in 1 .. m : map'[Root][k] = map[Root][k]
      BY <2>1, <2>2, <2>3, <2>4, MadeMaps
    <3> QED BY <2>4, <3>1
  <2> QED BY <2>3, <2>5 DEF InStep, InPlace
<1> QED BY <1>1, <1>2, <1>3, <1>4 DEF Storage

\* Every entry is in the directory block a search looks for it in.
LEMMA CellPlace ==
  ASSUME IInv, InPlace, NEW a \in 0 .. entry - 1
  PROVE  /\ a \div BS \in Blocks /\ a % BS \in Slots
         /\ a \div BS + 1 \in DOMAIN map[Root]
         /\ map[Root][a \div BS + 1] = a \div BS
<1>1. PICK m \in Nat : m = Len(map[Root]) /\ DOMAIN map[Root] = 1 .. m
  BY Maps
<1>2. entry \in Nat /\ entry <= BS * m /\ BS * m \in Nat
  BY <1>1, Maps DEF IInv, FilesOK, SizeBacked, entry
<1>3. a \in Nat /\ a < BS * m
  BY <1>2
<1>4. a \div BS \in Nat /\ a \div BS < m
  BY <1>1, <1>3, IndexBelow
<1>5. a \div BS + 1 \in 1 .. m
  BY <1>1, <1>4
<1>6. map[Root][a \div BS + 1] = a \div BS
  <2>1. (a \div BS + 1) - 1 = a \div BS
    BY <1>4
  <2> QED BY <1>1, <1>5, <2>1 DEF InPlace
<1>7. a \div BS \in Blocks
  BY <1>1, <1>5, <1>6, Maps
<1>8. a % BS \in Slots
  BY <1>3, Division DEF Slots
<1> QED BY <1>1, <1>5, <1>6, <1>7, <1>8

EntriesPlaced ==
  \A a \in 0 .. entry - 1 :
    /\ a \div BS \in Blocks /\ a % BS \in Slots
    /\ a \div BS + 1 \in DOMAIN map[Root]
    /\ map[Root][a \div BS + 1] = a \div BS

LEMMA Placed == ASSUME IInv, InPlace PROVE EntriesPlaced
BY CellPlace DEF EntriesPlaced

\* The block of an entry is in no file.
LEMMA EntryApart ==
  ASSUME IInv, BlocksDistinct, InPlace, NEW a \in 0 .. entry - 1,
         NEW i \in Inodes \ {Root}, NEW k \in DOMAIN map[i]
  PROVE  map[i][k] # a \div BS
BY CellPlace, RootType, OnePlace

\* The block a turn of __write_dblock changes: one of the file's, in place or not.
LEMMA WrittenBlock ==
  ASSUME IInv, StartBelow, NamesTaken, FdsNamed, WriteBlock,
         NEW x, NEW q, x = fds[call.fd].inode, q = Index(fds[call.fd])
  PROVE  /\ x \in Inodes \ {Root} /\ q \in Nat /\ q + 1 \in DOMAIN map[x]
         /\ \A d \in Blocks : d # map[x][q + 1] => disk'[d] = disk[d]
         /\ UNCHANGED <<map, size, free_inodes, history>>
         /\ FdsFrom
<1>1. PICK f, len : /\ f = fds[call.fd]
                    /\ len = Lowest(BS - (f.offset % BS), call.left)
  OBVIOUS
<1>2. /\ pc = "write" /\ call.left > 0
      /\ \E cells : disk' = [disk EXCEPT ![map[x][q + 1]] = cells]
      /\ fds' = [fds EXCEPT ![call.fd].offset = f.offset + len]
      /\ UNCHANGED <<map, size, free_inodes, history>>
  BY <1>1 DEF WriteBlock, objects, inodes
<1>3. /\ call.fd \in DOMAIN fds /\ x \in Inodes /\ f.offset \in Nat
      /\ call.left \in Nat \ {0} /\ call.start \in Nat
      /\ f.offset + call.left <= BS * Len(map[x])
  BY <1>1, <1>2, CallParts DEF Fits
<1>4. PICK m \in Nat : m = Len(map[x]) /\ DOMAIN map[x] = 1 .. m
  BY <1>3, Maps
<1>5. PICK d \in Nat : d = f.offset \div BS /\ d < m
  <2>1. f.offset < BS * m
    <3>1. BS * m \in Nat /\ f.offset + call.left <= BS * m
      BY <1>3, <1>4
    <3> QED BY <1>3, <3>1
  <2> QED BY <1>3, <1>4, <2>1, IndexBelow
<1>6. call.start <= d
  BY <1>1, <1>2, <1>5 DEF StartBelow
<1>7. q \in Nat /\ q < m
  BY <1>1, <1>3, <1>4, <1>5, <1>6 DEF Index
<1>8. q + 1 \in DOMAIN map[x]
  BY <1>4, <1>7
<1>9. \A e \in Blocks : e # map[x][q + 1] => disk'[e] = disk[e]
  <2>1. DOMAIN disk = Blocks
    BY DEF IInv, DiskType
  <2> QED BY <1>2, <2>1
<1>10. x # Root
  <2>1. PICK n \in Names : Named(n, x)
    BY <1>3 DEF FdsNamed
  <2> HIDE DEF Named
  <2> QED BY <1>3, <2>1 DEF NamesTaken
<1>11. FdsFrom
  <2>1. f.offset + len \in Nat
    <3>1. len \in Nat
      BY <1>1, <1>3, TurnLength
    <3> QED BY <1>3, <3>1
  <2> QED BY <1>2, <1>3, <2>1, FdMoved
<1> QED BY <1>2, <1>3, <1>7, <1>8, <1>9, <1>10, <1>11

EntryStays(a) == \A name, inode : EntryIs(a, name, inode)' <=> EntryIs(a, name, inode)

\* The inode of a descriptor has a name and is no directory.
LEMMA FdInode ==
  ASSUME IInv, NamesTaken, FdsNamed, NEW k \in DOMAIN fds
  PROVE  fds[k].inode \in Inodes \ {Root} /\ \E n \in Names : Named(n, fds[k].inode)
<1>1. fds[k].inode \in Inodes
  BY FdType DEF IInv
<1>2. PICK n \in Names : Named(n, fds[k].inode)
  BY DEF FdsNamed
<1> HIDE DEF Named
<1> QED BY <1>1, <1>2 DEF NamesTaken

FdsInodes == \A k \in DOMAIN fds : fds[k].inode \in Inodes

LEMMA FdInodes == ASSUME IInv PROVE FdsInodes
BY FdType DEF IInv, FdsInodes

\* Only vsfs_creat and the tools change the directory.
LEMMA DirectoryKept ==
  ASSUME IInv, BlocksDistinct, StartBelow, Kept, InStep,
         Quiet \/ WriteBlock \/ \E x \in Inodes : Grows(x)
  PROVE  /\ entry' = entry /\ \A a \in 0 .. entry - 1 : EntryStays(a)
         /\ free_inodes' = free_inodes /\ FdsFrom
<1>1. NamesTaken /\ FdsNamed
  BY DEF Kept
<1>2. CASE Quiet
  BY <1>2 DEF Quiet, EntryIs, EntryStays, Cell, entry
<1>3. ASSUME NEW x \in Inodes, Grows(x)
      PROVE  /\ entry' = entry /\ \A a \in 0 .. entry - 1 : EntryStays(a)
             /\ free_inodes' = free_inodes /\ FdsFrom
  <2>1. x # Root
    BY <1>1, <1>3, FdInode DEF Grows
  <2>2. entry' = entry /\ disk' = disk /\ free_inodes' = free_inodes /\ FdsFrom
    BY <1>3, <2>1, RootType DEF Grows, entry
  <2> QED BY <2>2 DEF EntryIs, EntryStays, Cell
<1>4. CASE WriteBlock
  <2>1. PICK x, q : x = fds[call.fd].inode /\ q = Index(fds[call.fd])
    OBVIOUS
  <2>2. /\ x \in Inodes \ {Root} /\ q + 1 \in DOMAIN map[x]
        /\ \A d \in Blocks : d # map[x][q + 1] => disk'[d] = disk[d]
        /\ UNCHANGED <<map, size, free_inodes, history>> /\ FdsFrom
    BY <1>1, <1>4, <2>1, WrittenBlock
  <2>3. ASSUME NEW a \in 0 .. entry - 1 PROVE EntryStays(a)
    <3>1. a \div BS \in Blocks
      BY CellPlace DEF InStep
    <3>2. map[x][q + 1] # a \div BS
      BY <2>2, EntryApart DEF InStep
    <3>3. disk'[a \div BS] = disk[a \div BS]
      BY <2>2, <3>1, <3>2
    <3> QED BY <3>3 DEF EntryIs, EntryStays, Cell
  <2> QED BY <2>2, <2>3 DEF entry
<1> QED BY <1>2, <1>3, <1>4

\* vsfs_creat adds one entry, for an inode that was free, where a search will look
\* for it, and changes no other entry and no file.
LEMMA DirectoryGrown ==
  ASSUME IInv, IInv', BlocksDistinct, InStep, InStep',
         NEW name \in Names, NEW n \in BlockNums, Made(name, n),
         NEW x, x = FreeInode, NEW c, c = entry \div BS
  PROVE  /\ x \in Inodes \ {Root} /\ x \in free_inodes /\ free_inodes' = free_inodes \ {x}
         /\ c \in Blocks
         /\ \A d \in Blocks : d # c => disk'[d] = disk[d]
         /\ \A i \in Inodes \ {Root} : \A k \in DOMAIN map[i] : map[i][k] # c
         /\ entry' = entry + 1
         /\ \A a \in 0 .. entry - 1 : EntryStays(a)
         /\ \A a, other, inode : a = entry =>
              (EntryIs(a, other, inode)' <=> Entry(name, x) = Entry(other, inode))
<1>1. free_inodes # NULL /\ n \in Nat /\ free_inodes \subseteq Inodes
  BY Bounds DEF Made, Creatable, Mounted, IInv, ObjectsType
<1>2. PICK new \in FreeBlocks(NewBlocks(n)) : NewFile(name, n, new)
  BY DEF Made
<1>3. x # Root /\ free_inodes' = free_inodes \ {x}
  BY <1>2 DEF NewFile, InStep
<1>4. PICK m \in Nat : m = Len(map[Root]) /\ DOMAIN map[Root] = 1 .. m
  BY Maps
<1>5. x \in free_inodes
  <2>1. free_inodes # {}
    BY <1>3 DEF FreeInode
  <2>2. \E i \in free_inodes : \A j \in free_inodes : i <= j
    BY <1>1, <2>1, LeastInode
  <2> QED BY <2>1, <2>2 DEF FreeInode
<1>6. /\ size'[Root] = size[Root] + 1
      /\ ~DirFull => map'[Root] = map[Root]
      /\ DirFull => DOMAIN map'[Root] = 1 .. m + 1 /\ map'[Root][m + 1] = new[1]
  BY <1>1, <1>2, <1>3, <1>4, MadeMaps
<1>7. entry' = entry + 1 /\ entry \in Nat
  BY <1>6, Maps DEF entry
<1>8. PICK b, s, e :
        /\ b = IF DirFull THEN new[1] ELSE entry \div BS
        /\ s = IF DirFull THEN entry - BS * m ELSE entry % BS
        /\ e = Entry(name, x)
  OBVIOUS
<1>9. disk' = [disk EXCEPT ![b][s] = e]
  BY <1>2, <1>4, <1>8 DEF NewFile
<1>10. entry \in 0 .. entry' - 1
  BY <1>7
<1>11. /\ c \in Blocks /\ entry % BS \in Slots
       /\ c + 1 \in DOMAIN map'[Root] /\ map'[Root][c + 1] = c
  <2>1. InPlace'
    BY DEF InStep
  <2>2. EntriesPlaced'
    BY <2>1, Placed, PTL
  <2> QED BY <1>10, <2>2 DEF EntriesPlaced
<1>12. b = c /\ s = entry % BS
  <2>1. CASE DirFull
    <3>1. BS * m \in Nat /\ entry <= BS * m /\ entry >= BS * m
      BY <1>4, <2>1, Maps DEF IInv, FilesOK, SizeBacked, entry, DirFull
    <3>2. entry = BS * m + 0 /\ 0 \in 0 .. BS - 1
      BY <1>7, <3>1
    <3>3. c = m
      BY <3>2, Quotient
    <3>4. entry = BS * c + (entry % BS) /\ entry % BS \in 0 .. BS - 1
      BY <1>7, Division
    <3>5. entry % BS = 0
      BY <3>2, <3>3, <3>4
    <3>6. s = 0
      BY <1>8, <2>1, <3>1, <3>2
    <3> QED BY <1>6, <1>8, <1>11, <2>1, <3>3, <3>5, <3>6
  <2>2. CASE ~DirFull
    BY <1>8, <2>2
  <2> QED BY <2>1, <2>2
<1>13. /\ \A d \in Blocks : d # c => disk'[d] = disk[d]
       /\ disk'[c][entry % BS] = e
       /\ \A t \in Slots : t # entry % BS => disk'[c][t] = disk[c][t]
  <2>1. disk \in [Blocks -> [Slots -> Cells]]
    BY DEF IInv, DiskType
  <2>2. PICK t : t = entry % BS
    OBVIOUS
  <2>3. disk' = [disk EXCEPT ![c][t] = e] /\ c \in Blocks /\ t \in Slots
    BY <1>9, <1>11, <1>12, <2>2
  <2> QED BY <2>1, <2>2, <2>3
<1>14. ASSUME NEW i \in Inodes \ {Root}, NEW k \in DOMAIN map[i] PROVE map[i][k] # c
  <2>1. CASE DirFull
    <3>1. new[1] \in Unused
      <4>1. NewBlocks(n) \in Nat /\ 1 \in 1 .. NewBlocks(n)
        BY <1>1, <2>1 DEF NewBlocks
      <4> QED BY <1>2, <4>1, FreeOnce
    <3> QED BY <1>8, <1>12, <2>1, <3>1, UnusedApart
  <2>2. CASE ~DirFull
    <3>1. c + 1 \in DOMAIN map[Root] /\ map[Root][c + 1] = c
      BY <1>6, <1>11, <2>2
    <3> QED BY <3>1, RootType, OnePlace
  <2> QED BY <2>1, <2>2
<1>15. ASSUME NEW a \in 0 .. entry - 1 PROVE EntryStays(a)
  <2>1. a \div BS \in Blocks /\ a % BS \in Slots
    BY CellPlace DEF InStep
  <2>2. ~(a \div BS = c /\ a % BS = entry % BS)
    <3>1. a \in Nat /\ a # entry
      BY <1>7
    <3>2. a = BS * (a \div BS) + (a % BS) /\ entry = BS * (entry \div BS) + (entry % BS)
      BY <1>7, <3>1, Division
    <3> QED BY <3>1, <3>2
  <2>3. PICK d, t : d = a \div BS /\ t = a % BS
    OBVIOUS
  <2>4. disk'[d][t] = disk[d][t]
    BY <1>13, <2>1, <2>2, <2>3
  <2> QED BY <2>3, <2>4 DEF EntryIs, EntryStays, Cell
<1>16. ASSUME NEW a, NEW other, NEW inode, a = entry
       PROVE  EntryIs(a, other, inode)' <=> Entry(name, x) = Entry(other, inode)
  BY <1>8, <1>13, <1>16 DEF EntryIs, Cell
<1> QED BY <1>1, <1>3, <1>5, <1>7, <1>11, <1>13, <1>14, <1>15, <1>16

----------------------------------------------------------------------------
(* The names *)

LEMMA SameEntry ==
  ASSUME NEW n, NEW m, NEW x, NEW y, Entry(n, x) = Entry(m, y)
  PROVE  n = m /\ x = y
<1>1. Entry(n, x).name = n /\ Entry(n, x).inode = x
  BY DEF Entry
<1>2. Entry(m, y).name = m /\ Entry(m, y).inode = y
  BY DEF Entry
<1> QED BY <1>1, <1>2

LEMMA OneEntry ==
  ASSUME EntriesOnce, NEW a \in 0 .. entry - 1, NEW b \in 0 .. entry - 1,
         NEW n \in Names, NEW m \in Names, NEW x \in Inodes, NEW y \in Inodes,
         EntryIs(a, n, x), EntryIs(b, m, y), n = m \/ x = y
  PROVE  a = b /\ n = m /\ x = y
<1>1. a = b
  BY DEF EntriesOnce
<1>2. Entry(n, x) = Entry(m, y)
  BY <1>1 DEF EntryIs
<1> QED BY <1>1, <1>2, SameEntry

LEMMA ListedNamed == \A n : Listed(n) <=> \E x \in Inodes : Named(n, x)
BY DEF Listed, Named, EntryIs

\* A directory that no name is in, on a device that was never written to.
AllJunk == \A b \in Blocks, s \in Slots : disk[b][s] = Junk
NoNames == \A n \in Names, x \in Inodes : ~Named(n, x)

LEMMA JunkHasNoNames == ASSUME IInv, InPlace, AllJunk PROVE NoNames
<1> SUFFICES ASSUME NEW n \in Names, NEW x \in Inodes, NEW a \in 0 .. entry - 1
             PROVE  ~EntryIs(a, n, x)
  BY DEF NoNames, Named
<1>1. a \div BS \in Blocks /\ a % BS \in Slots
  BY CellPlace
<1> QED BY <1>1, JunkAssumption DEF AllJunk, EntryIs, Cell

Untouched == NoNames /\ AllJunk /\ fds = << >>

LEMMA EmptyKept == ASSUME Untouched PROVE Kept
<1>1. EntriesOnce
  <2> SUFFICES ASSUME NEW a \in 0 .. entry - 1, NEW n \in Names, NEW x \in Inodes
               PROVE  ~EntryIs(a, n, x)
    BY DEF EntriesOnce
  <2> QED BY DEF Untouched, NoNames, Named
<1>2. NamesTaken
  <2> HIDE DEF Named
  <2> QED BY DEF Untouched, NoNames, NamesTaken
<1>3. FdsNamed /\ Nameless
  BY DEF Untouched, FdsNamed, Nameless, AllJunk
<1> QED BY <1>1, <1>2, <1>3 DEF Kept

\* A tool that runs over a directory without names leaves one.
LEMMA ToolsEmpty ==
  ASSUME IInv, IInv', GoneEmpty, Kept, Tools, InStep, InStep'
  PROVE  NoNames /\ Untouched'
<1>1. /\ FilesGone /\ Tool
      /\ \/ disk' = disk \/ disk' = [disk EXCEPT ![0] = Blank]
         \/ disk' = [b \in Blocks |-> Blank]
  BY DEF Tools, shm_mkfs, shm_mount, shm_unlink
<1>2. \A n \in Names : ~Listed(n)
  BY <1>1 DEF FilesGone, InStep
<1>3. NoNames
  BY <1>2, ListedNamed DEF NoNames
<1>4. AllJunk
  BY <1>2 DEF Kept, Nameless, AllJunk
<1>5. AllJunk'
  <2>1. disk \in [Blocks -> [Slots -> Cells]]
    BY DEF IInv, DiskType
  <2>2. \A b \in Blocks : disk'[b] = disk[b] \/ disk'[b] = Blank
    BY <1>1, <2>1
  <2>3. \A s \in Slots : Blank[s] = Junk
    BY DEF Blank
  <2> QED BY <1>4, <2>2, <2>3 DEF AllJunk
<1>6. NoNames'
  <2>1. InPlace'
    BY DEF InStep
  <2> QED BY <1>5, <2>1, JunkHasNoNames, PTL
<1>7. fds' = << >>
  BY <1>1 DEF Tool, process, GoneEmpty
<1> QED BY <1>3, <1>5, <1>6, <1>7 DEF Untouched

\* With the directory as it was, what is known of it stays.
LEMMA StaysKept ==
  ASSUME IInv, IInv', BlocksDistinct, StartBelow, Kept, InStep, InStep',
         Quiet \/ WriteBlock \/ \E x \in Inodes : Grows(x)
  PROVE  /\ \A n, x : Named(n, x)' <=> Named(n, x)
         /\ Kept'
<1>1. /\ entry' = entry /\ \A a \in 0 .. entry - 1 : EntryStays(a)
      /\ free_inodes' = free_inodes /\ FdsFrom
  BY DirectoryKept
<1>2. EntriesOnce /\ NamesTaken /\ FdsNamed /\ Nameless
  BY DEF Kept
<1>3. \A n, x : Named(n, x)' <=> Named(n, x)
  <2> HIDE DEF EntryIs
  <2> QED BY <1>1 DEF Named, EntryStays
<1>4. EntriesOnce'
  <2> HIDE DEF EntryIs
  <2>1. ASSUME NEW a \in 0 .. entry' - 1, NEW b \in 0 .. entry' - 1,
               NEW n \in Names, NEW m \in Names, NEW x \in Inodes, NEW y \in Inodes,
               EntryIs(a, n, x)', EntryIs(b, m, y)', n = m \/ x = y
        PROVE  a = b
    <3>1. a \in 0 .. entry - 1 /\ b \in 0 .. entry - 1
      BY <1>1
    <3>2. EntryIs(a, n, x) /\ EntryIs(b, m, y)
      BY <1>1, <2>1, <3>1 DEF EntryStays
    <3> QED BY <1>2, <2>1, <3>1, <3>2, OneEntry
  <2> QED BY <2>1 DEF EntriesOnce
<1> HIDE DEF Named
<1>5. NamesTaken'
  BY <1>1, <1>2, <1>3 DEF NamesTaken
<1>6. FdsNamed'
  <2> SUFFICES ASSUME NEW k \in DOMAIN fds'
               PROVE  \E n \in Names, x \in Inodes : x = fds'[k].inode /\ Named(n, x)'
    BY DEF FdsNamed
  <2>1. FdsInodes'
    BY FdInodes, PTL
  <2>2. \E n \in Names : Named(n, fds'[k].inode)
    BY <1>1, <1>2 DEF FdsFrom, FdsNamed
  <2>3. PICK n, x : n \in Names /\ x = fds'[k].inode /\ Named(n, x)
    BY <2>2
  <2>4. Named(n, x)'
    BY <1>3, <2>3
  <2> QED BY <2>1, <2>3, <2>4 DEF FdsInodes
<1>7. Nameless'
  <2>1. \A n : Listed(n)' <=> Listed(n)
    <3>1. \A n : Listed(n)' <=> \E x \in Inodes : Named(n, x)'
      BY DEF Listed, Named, EntryIs
    <3> QED BY <1>3, <3>1, ListedNamed
  <2>2. CASE Quiet \/ \E x \in Inodes : Grows(x)
    <3>1. disk' = disk
      BY <2>2 DEF Quiet, Grows
    <3> QED BY <1>2, <2>1, <3>1 DEF Nameless
  <2>3. CASE WriteBlock
    <3>1. call.fd \in DOMAIN fds
      BY <2>3, CallParts DEF WriteBlock
    <3>2. PICK n \in Names : Named(n, fds[call.fd].inode) /\ fds[call.fd].inode \in Inodes
      BY <1>2, <3>1, FdInode
    <3>3. Listed(n)'
      BY <2>1, <3>2, ListedNamed
    <3> QED BY <3>2, <3>3 DEF Nameless
  <2> QED BY <2>2, <2>3
<1> QED BY <1>3, <1>4, <1>5, <1>6, <1>7 DEF Kept

\* vsfs_creat gives a name that is in no entry an inode that is in none.
LEMMA GrownKept ==
  ASSUME IInv, IInv', BlocksDistinct, Kept, InStep, InStep',
         NEW name \in Names, NEW n \in BlockNums, Made(name, n),
         NEW x, x = FreeInode
  PROVE  /\ \A m, y : Named(m, y)' <=> Named(m, y) \/ (m = name /\ y = x)
         /\ Kept'
<1>1. /\ x \in Inodes \ {Root} /\ x \in free_inodes /\ free_inodes' = free_inodes \ {x}
      /\ entry' = entry + 1
      /\ \A a \in 0 .. entry - 1 : EntryStays(a)
      /\ \A a, other, inode : a = entry =>
           (EntryIs(a, other, inode)' <=> Entry(name, x) = Entry(other, inode))
  BY DirectoryGrown
<1>2. EntriesOnce /\ NamesTaken /\ FdsNamed /\ entry \in Nat
  BY Maps DEF Kept
<1>3. ~Listed(name) /\ fds' = fds /\ free_inodes # NULL
  BY DEF Made, Creatable, Mounted
<1>4. ASSUME NEW a \in 0 .. entry' - 1, NEW m, NEW y, EntryIs(a, m, y)'
      PROVE  \/ a \in 0 .. entry - 1 /\ EntryIs(a, m, y)
             \/ a = entry /\ m = name /\ y = x
  <2>1. CASE a = entry
    <3>1. Entry(name, x) = Entry(m, y)
      BY <1>1, <1>4, <2>1
    <3> QED BY <2>1, <3>1, SameEntry
  <2>2. CASE a # entry
    <3>1. a \in 0 .. entry - 1
      BY <1>1, <1>2, <2>2
    <3> QED BY <1>1, <1>4, <3>1 DEF EntryStays
  <2> QED BY <2>1, <2>2
<1>5. ASSUME NEW m, NEW y
      PROVE  Named(m, y)' <=> Named(m, y) \/ (m = name /\ y = x)
  <2> HIDE DEF EntryIs
  <2>1. Named(m, y)' => Named(m, y) \/ (m = name /\ y = x)
    BY <1>4 DEF Named
  <2>2. ASSUME NEW a \in 0 .. entry - 1, EntryIs(a, m, y) PROVE Named(m, y)'
    <3>1. EntryIs(a, m, y)' /\ a \in 0 .. entry' - 1
      BY <1>1, <1>2, <2>2 DEF EntryStays
    <3> QED BY <3>1 DEF Named
  <2>3. ASSUME m = name, y = x PROVE Named(m, y)'
    <3>1. PICK a : a = entry
      OBVIOUS
    <3>2. EntryIs(a, m, y)' /\ a \in 0 .. entry' - 1
      BY <1>1, <1>2, <2>3, <3>1
    <3> QED BY <3>2 DEF Named
  <2> QED BY <2>1, <2>2, <2>3 DEF Named
<1>6. \A y \in Inodes : ~Named(name, y)
  BY <1>3, ListedNamed
<1>7. \A m \in Names : ~Named(m, x)
  <2> HIDE DEF Named
  <2> QED BY <1>1, <1>2, <1>3 DEF NamesTaken
<1>8. EntriesOnce'
  <2>1. ASSUME NEW a \in 0 .. entry - 1, NEW m \in Names, NEW y \in Inodes, EntryIs(a, m, y)
        PROVE  m # name /\ y # x
    <3>1. Named(m, y)
      BY <2>1 DEF Named
    <3> HIDE DEF Named
    <3> QED BY <1>6, <1>7, <3>1
  <2> HIDE DEF EntryIs
  <2>2. ASSUME NEW a \in 0 .. entry' - 1, NEW b \in 0 .. entry' - 1,
               NEW p \in Names, NEW m \in Names, NEW z \in Inodes, NEW y \in Inodes,
               EntryIs(a, p, z)', EntryIs(b, m, y)', p = m \/ z = y
        PROVE  a = b
    <3>1. CASE a \in 0 .. entry - 1 /\ EntryIs(a, p, z)
      <4>1. p # name /\ z # x
        BY <2>1, <3>1
      <4>2. b \in 0 .. entry - 1 /\ EntryIs(b, m, y)
        BY <1>4, <2>2, <4>1
      <4> QED BY <1>2, <2>2, <3>1, <4>2, OneEntry
    <3>2. CASE a = entry /\ p = name /\ z = x
      <4>1. ~(b \in 0 .. entry - 1 /\ EntryIs(b, m, y))
        BY <2>1, <2>2, <3>2
      <4> QED BY <1>4, <2>2, <3>2, <4>1
    <3> QED BY <1>4, <2>2, <3>1, <3>2
  <2> QED BY <2>2 DEF EntriesOnce
<1> HIDE DEF Named
<1>9. NamesTaken'
  <2> SUFFICES ASSUME NEW m \in Names, NEW y \in Inodes, Named(m, y)'
               PROVE  y # Root /\ y \notin free_inodes'
    BY DEF NamesTaken
  <2> QED BY <1>1, <1>2, <1>3, <1>5 DEF NamesTaken
<1>10. FdsNamed'
  <2> SUFFICES ASSUME NEW k \in DOMAIN fds
               PROVE  \E m \in Names, y \in Inodes : y = fds'[k].inode /\ Named(m, y)'
    BY <1>3 DEF FdsNamed
  <2>1. PICK m \in Names, y \in Inodes : y = fds'[k].inode /\ Named(m, y)
    BY <1>2, <1>3 DEF FdsNamed
  <2>2. Named(m, y)'
    BY <1>5, <2>1
  <2> QED BY <2>1, <2>2
<1>11. Nameless'
  <2>1. Listed(name)' <=> \E y \in Inodes : Named(name, y)'
    <3>1. \A m : Listed(m)' <=> \E y \in Inodes : Named(m, y)'
      BY DEF Listed, Named, EntryIs
    <3> QED BY <3>1
  <2>2. Named(name, x)' /\ x \in Inodes
    BY <1>1, <1>5
  <2>3. Listed(name)'
    BY <2>1, <2>2
  <2> QED BY <2>3 DEF Nameless
<1> QED BY <1>5, <1>8, <1>9, <1>10, <1>11 DEF Kept

LEMMA KeptStep ==
  ASSUME IInv, IInv', BlocksDistinct, GoneEmpty, StartBelow, Kept, Storage
  PROVE  Kept'
<1>1. CASE ~InStep'
  BY <1>1 DEF Kept
<1>2. CASE InStep'
  <2>1. InStep
    BY <1>2, InStepBefore
  <2>2. CASE Quiet \/ WriteBlock \/ \E x \in Inodes : Grows(x)
    BY <1>2, <2>1, <2>2, StaysKept
  <2>3. CASE Tools
    <3>1. Untouched'
      BY <1>2, <2>1, <2>3, ToolsEmpty
    <3> QED BY <3>1, EmptyKept, PTL
  <2>4. ASSUME NEW name \in Names, NEW n \in BlockNums, Made(name, n) PROVE Kept'
    BY <1>2, <2>1, <2>4, GrownKept
  <2> QED BY <2>2, <2>3, <2>4 DEF Storage
<1> QED BY <1>1, <1>2

----------------------------------------------------------------------------
(* The files *)

\* The store the directory stands for: each name has one file, none the root.
FilesAre ==
  /\ StoreFiles = [n \in DOMAIN StoreFiles |-> StoreFiles[n]]
  /\ DOMAIN StoreFiles = {n \in Names : \E x \in Inodes : Named(n, x)}
  /\ \A n \in Names, x \in Inodes : Named(n, x) =>
       /\ StoreFiles[n] = Content(x) /\ x # Root
       /\ \A m \in Names : Named(m, x) => m = n

\* A search finds the entry a name has.
LEMMA FoundOne ==
  ASSUME IInv, EntriesOnce, NEW n \in Names, NEW x \in Inodes, Named(n, x)
  PROVE  Found(n) = {x}
<1>1. PICK a \in 0 .. entry - 1 : EntryIs(a, n, x)
  BY DEF Named
<1>2. entry \in Nat
  BY Maps
<1>3. ASSUME NEW j \in 0 .. a - 1, NEW other \in Inodes PROVE Cell(j) # Entry(n, other)
  <2>1. j \in 0 .. entry - 1 /\ j # a
    BY <1>1, <1>2
  <2>2. ~EntryIs(j, n, other)
    BY <1>1, <2>1, OneEntry
  <2> QED BY <2>2 DEF EntryIs
<1>4. x \in Found(n)
  BY <1>1, <1>3 DEF Found, EntryIs
<1>5. ASSUME NEW y \in Found(n) PROVE y = x
  <2>1. PICK b \in 0 .. entry - 1 : EntryIs(b, n, y) /\ y \in Inodes
    BY DEF Found, EntryIs
  <2> QED BY <1>1, <2>1, OneEntry
<1> QED BY <1>4, <1>5

LEMMA FilesAreNamed == ASSUME IInv, Kept, Sound PROVE FilesAre
<1>1. EntriesOnce /\ NamesTaken
  BY DEF Kept, Sound, InStep
<1>2. /\ StoreFiles = [n \in DOMAIN StoreFiles |-> StoreFiles[n]]
      /\ DOMAIN StoreFiles = {n \in Names : Listed(n)}
      /\ \A n \in Names : Listed(n) => StoreFiles[n] = Content(InodeNamed(n))
  BY DEF StoreFiles
<1>3. ASSUME NEW n \in Names, NEW x \in Inodes, Named(n, x)
      PROVE  /\ InodeNamed(n) = x /\ x # Root
             /\ \A m \in Names : Named(m, x) => m = n
  <2>1. InodeNamed(n) = x
    BY <1>1, <1>3, FoundOne DEF InodeNamed
  <2>2. \A m \in Names : Named(m, x) => m = n
    BY <1>1, <1>3, OneEntry DEF Named
  <2> HIDE DEF Named
  <2>3. x # Root
    BY <1>1, <1>3 DEF NamesTaken
  <2> QED BY <2>1, <2>2, <2>3
<1>4. ASSUME NEW n \in Names, NEW x \in Inodes, Named(n, x)
      PROVE  StoreFiles[n] = Content(x)
  <2>1. Listed(n) /\ InodeNamed(n) = x
    BY <1>3, <1>4, ListedNamed
  <2> QED BY <1>2, <2>1
<1>5. DOMAIN StoreFiles = {n \in Names : \E x \in Inodes : Named(n, x)}
  BY <1>2, ListedNamed
<1> HIDE DEF Named
<1> QED BY <1>2, <1>3, <1>4, <1>5 DEF FilesAre

CellAt(x, k) == disk[map[x][(k - 1) \div BS + 1]][(k - 1) % BS]

\* W is a whole number of blocks.
LEMMA LargestSize == BS * (W \div BS) = W /\ W \div BS \in Nat
<1>1. W % BS = 0
  BY ShmAssumption DEF ShmAssumption
<1> QED BY <1>1, Division

\* A file is backed by blocks and every cell of it is in one of them.
ContentOK ==
  \A x \in Inodes :
    /\ FileSize(x) \in Nat /\ FileSize(x) <= BS * Len(map[x])
    /\ Content(x) \in Seq(Cells) /\ Len(Content(x)) = FileSize(x)
    /\ \A k \in 1 .. FileSize(x) :
         /\ Content(x)[k] = CellAt(x, k)
         /\ (k - 1) \div BS + 1 \in DOMAIN map[x] /\ (k - 1) % BS \in Slots

LEMMA ContentIsOK == ASSUME IInv PROVE ContentOK
<1> SUFFICES ASSUME NEW x \in Inodes
             PROVE  /\ FileSize(x) \in Nat /\ FileSize(x) <= BS * Len(map[x])
                    /\ Content(x) \in Seq(Cells) /\ Len(Content(x)) = FileSize(x)
                    /\ \A k \in 1 .. FileSize(x) :
                         /\ Content(x)[k] = CellAt(x, k)
                         /\ (k - 1) \div BS + 1 \in DOMAIN map[x] /\ (k - 1) % BS \in Slots
  BY DEF ContentOK
<1>1. PICK n : n = FileSize(x)
  OBVIOUS
<1>2. PICK m \in Nat : m = Len(map[x]) /\ DOMAIN map[x] = 1 .. m
  BY Maps
<1>3. n \in Nat /\ n <= BS * m
  <2>1. n \in Nat /\ size[x] <= BS * m
    BY <1>1, <1>2, FileSizeType DEF IInv, FilesOK, SizeBacked
  <2>2. CASE m = W \div BS /\ n = W
    BY <2>1, <2>2, LargestSize
  <2>3. CASE n = size[x]
    BY <2>1, <2>3
  <2> QED BY <1>1, <1>2, <2>2, <2>3 DEF FileSize
<1>4. ASSUME NEW k \in 1 .. n
      PROVE  (k - 1) \div BS + 1 \in DOMAIN map[x] /\ (k - 1) % BS \in Slots
  <2>1. PICK c \in Nat : c = k - 1 /\ c < BS * m
    BY <1>2, <1>3
  <2>2. c \div BS \in Nat /\ c \div BS < m /\ c % BS \in 0 .. BS - 1
    BY <2>1, <1>2, IndexBelow, Division
  <2> QED BY <1>2, <2>1, <2>2 DEF Slots
<1>5. ASSUME NEW k \in 1 .. n
      PROVE  CellAt(x, k) \in Cells
  <2>1. (k - 1) \div BS + 1 \in DOMAIN map[x] /\ (k - 1) % BS \in Slots
    BY <1>4
  <2>2. map[x][(k - 1) \div BS + 1] \in Blocks
    BY <2>1, Maps
  <2> QED BY <2>1, <2>2 DEF CellAt, IInv, DiskType
<1>6. Content(x) = [k \in 1 .. n |-> CellAt(x, k)]
  BY <1>1 DEF Content, CellAt
<1>7. PICK g : g = Content(x)
  OBVIOUS
<1>8. g \in [1 .. n -> Cells] /\ \A k \in 1 .. n : g[k] = CellAt(x, k)
  BY <1>5, <1>6, <1>7
<1>9. g \in Seq(Cells) /\ Len(g) = n
  BY <1>3, <1>8, SMT
<1> QED BY <1>1, <1>2, <1>3, <1>4, <1>7, <1>8, <1>9

\* With the directory as it was, what the step does to one inode it does to one file,
\* or to none.
LEMMA OneFileChanged ==
  ASSUME FilesAre, FilesAre', Sound, Sound', NEW x \in Inodes,
         \A n, y : Named(n, y)' <=> Named(n, y),
         \A y \in Inodes \ {Root} : y # x => Content(y)' = Content(y)
  PROVE  \/ StoreFiles' = StoreFiles
         \/ \E name \in DOMAIN StoreFiles :
              /\ x # Root
              /\ DOMAIN StoreFiles' = DOMAIN StoreFiles
              /\ \A n \in DOMAIN StoreFiles \ {name} : StoreFiles'[n] = StoreFiles[n]
              /\ StoreFiles[name] = Content(x) /\ StoreFiles'[name] = Content(x)'
<1> HIDE DEF Named
<1>1. PICK old, new : old = StoreFiles /\ new = StoreFiles'
  OBVIOUS
<1>2. /\ old = [n \in DOMAIN old |-> old[n]] /\ new = [n \in DOMAIN new |-> new[n]]
      /\ DOMAIN old = {n \in Names : \E y \in Inodes : Named(n, y)}
      /\ DOMAIN new = {n \in Names : \E y \in Inodes : Named(n, y)'}
      /\ \A n \in Names, y \in Inodes : Named(n, y) =>
           /\ old[n] = Content(y) /\ y # Root /\ \A m \in Names : Named(m, y) => m = n
      /\ \A n \in Names, y \in Inodes : Named(n, y)' => new[n] = Content(y)'
  BY <1>1 DEF FilesAre
<1>3. DOMAIN new = DOMAIN old
  BY <1>2
<1>4. ASSUME NEW n \in DOMAIN old, ~Named(n, x)
      PROVE  new[n] = old[n]
  <2>1. PICK y \in Inodes : Named(n, y) /\ n \in Names
    BY <1>2
  <2>2. y # x /\ y # Root
    BY <1>2, <1>4, <2>1
  <2> QED BY <1>2, <2>1, <2>2
<1>5. CASE \E n \in DOMAIN old : Named(n, x)
  <2>1. PICK n \in DOMAIN old : Named(n, x) /\ n \in Names
    BY <1>2, <1>5
  <2>2. /\ x # Root /\ old[n] = Content(x) /\ new[n] = Content(x)'
        /\ \A m \in Names : Named(m, x) => m = n
    BY <1>2, <2>1
  <2>3. \A m \in DOMAIN old \ {n} : new[m] = old[m]
    BY <1>2, <1>4, <2>2
  <2> QED BY <1>1, <1>3, <2>1, <2>2, <2>3
<1>6. CASE ~\E n \in DOMAIN old : Named(n, x)
  <2>1. new = old
    BY <1>2, <1>3, <1>4, <1>6
  <2> QED BY <1>1, <2>1
<1> QED BY <1>5, <1>6

StoreStep == Store!Next \/ UNCHANGED <<StoreState, StoreFiles>>

\* Blocks are added, or the size is set: of the file there was, what is kept is the same.
LEMMA ResizeStep ==
  ASSUME IInv, IInv', BlocksDistinct, FilesAre, FilesAre', Sound, Sound',
         \A n, y : Named(n, y)' <=> Named(n, y),
         NEW x \in Inodes, Grows(x)
  PROVE  StoreStep
<1>1. ContentOK /\ ContentOK'
  BY ContentIsOK, PTL
<1>2. /\ \A y \in Inodes : y # x => map'[y] = map[y] /\ size'[y] = size[y]
      /\ \A k \in DOMAIN map[x] : map'[x][k] = map[x][k]
      /\ disk' = disk
  BY DEF Grows
<1>3. ASSUME NEW y \in Inodes \ {Root}, y # x PROVE Content(y)' = Content(y)
  BY <1>2, <1>3 DEF Content, FileSize
<1>4. ASSUME NEW k \in 1 .. Len(Content(x)), k <= Len(Content(x)')
      PROVE  Content(x)'[k] = Content(x)[k]
  <2>1. PICK n, m : n = FileSize(x) /\ m = FileSize(x)'
    OBVIOUS
  <2>2. n \in Nat /\ m \in Nat /\ k \in 1 .. n /\ k \in 1 .. m
    <3>1. n \in Nat /\ Len(Content(x)) = n
      BY <1>1, <2>1 DEF ContentOK
    <3>2. m \in Nat /\ Len(Content(x)') = m
      BY <1>1, <2>1 DEF ContentOK
    <3> QED BY <1>4, <3>1, <3>2
  <2>3. Content(x)[k] = CellAt(x, k) /\ (k - 1) \div BS + 1 \in DOMAIN map[x]
    BY <1>1, <2>1, <2>2 DEF ContentOK
  <2>4. Content(x)'[k] = CellAt(x, k)'
    BY <1>1, <2>1, <2>2 DEF ContentOK
  <2>5. CellAt(x, k)' = CellAt(x, k)
    BY <1>2, <2>3 DEF CellAt
  <2> QED BY <2>3, <2>4, <2>5
<1>5. CASE StoreFiles' = StoreFiles
  BY <1>5 DEF StoreStep, StoreState
<1>6. ASSUME NEW name \in DOMAIN StoreFiles,
             /\ DOMAIN StoreFiles' = DOMAIN StoreFiles
             /\ \A n \in DOMAIN StoreFiles \ {name} : StoreFiles'[n] = StoreFiles[n]
             /\ StoreFiles[name] = Content(x) /\ StoreFiles'[name] = Content(x)'
      PROVE  StoreStep
  <2>1. Store!Resize(name)
    BY <1>4, <1>6 DEF Store!Resize, Store!Unchanged
  <2>2. StoreState = "sound" /\ StoreState' = "sound"
    BY DEF StoreState
  <2> QED BY <2>1, <2>2 DEF Store!Next, StoreStep
<1> QED BY <1>3, <1>5, <1>6, OneFileChanged

\* A turn of __write_dblock overwrites one block of one file; in a file that ends
\* before it nothing changes.
LEMMA OverwriteStep ==
  ASSUME IInv, IInv', BlocksDistinct, StartBelow, NamesTaken, FdsNamed,
         FilesAre, FilesAre', Sound, Sound',
         \A n, y : Named(n, y)' <=> Named(n, y), WriteBlock
  PROVE  StoreStep
<1>1. ContentOK
  BY ContentIsOK
<1>2. PICK x, q : x = fds[call.fd].inode /\ q = Index(fds[call.fd])
  OBVIOUS
<1>3. /\ x \in Inodes \ {Root} /\ q \in Nat /\ q + 1 \in DOMAIN map[x]
      /\ \A d \in Blocks : d # map[x][q + 1] => disk'[d] = disk[d]
      /\ map' = map /\ size' = size
  BY <1>2, WrittenBlock
\* A cell of any file that is not in that block of this file is kept.
<1>4. ASSUME NEW y \in Inodes, NEW k \in 1 .. FileSize(y), y # x \/ (k - 1) \div BS # q
      PROVE  CellAt(y, k)' = CellAt(y, k)
  <2>1. PICK j \in Nat : j = (k - 1) \div BS /\ j + 1 \in DOMAIN map[y]
    <3>1. FileSize(y) \in Nat /\ (k - 1) \div BS + 1 \in DOMAIN map[y]
      BY <1>1 DEF ContentOK
    <3>2. k - 1 \in Nat
      BY <3>1
    <3> QED BY <3>1, <3>2, Division
  <2>2. map[y][j + 1] \in Blocks
    BY <2>1, Maps
  <2>3. y = x => j + 1 # q + 1
    BY <1>3, <1>4, <2>1
  <2>4. map[y][j + 1] # map[x][q + 1]
    BY <1>3, <2>1, <2>3, OnePlace
  <2>5. disk'[map[y][j + 1]] = disk[map[y][j + 1]]
    BY <1>3, <2>2, <2>4
  <2> QED BY <1>3, <2>1, <2>5 DEF CellAt
<1>5. ASSUME NEW y \in Inodes,
             \A k \in 1 .. FileSize(y) : CellAt(y, k)' = CellAt(y, k)
      PROVE  Content(y)' = Content(y)
  <2>1. FileSize(y)' = FileSize(y)
    BY <1>3 DEF FileSize
  <2> QED BY <1>5, <2>1 DEF Content, CellAt
<1>6. \A y \in Inodes \ {Root} : y # x => Content(y)' = Content(y)
  BY <1>4, <1>5
<1>7. PICK n \in Nat : n = FileSize(x) /\ Len(Content(x)) = n
  BY <1>1, <1>3 DEF ContentOK
<1>8. CASE StoreFiles' = StoreFiles
  BY <1>8 DEF StoreStep, StoreState
<1>9. CASE n \div BS < q
  <2>1. ASSUME NEW k \in 1 .. n PROVE (k - 1) \div BS # q
    <3>0. PICK c \in Nat : c = k - 1
      OBVIOUS
    <3>1. PICK j, h \in Nat : j = c \div BS /\ h = n \div BS
      BY Division
    <3>2. c = BS * j + (c % BS) /\ n = BS * h + (n % BS) /\ c % BS \in Nat
          /\ n % BS \in 0 .. BS - 1
      BY <3>1, Division
    <3>3. ASSUME j = q PROVE FALSE
      <4>1. BS * (h + 1) <= BS * j
        BY <1>3, <1>9, <3>1, <3>3, Multiples
      <4>2. BS * (h + 1) = BS * h + BS /\ BS * h \in Nat /\ BS * j \in Nat
        OBVIOUS
      <4>3. c < n /\ c = BS * j + (c % BS) /\ n = BS * h + (n % BS)
        BY <3>0, <3>2
      <4> QED BY <3>2, <4>1, <4>2, <4>3
    <3> QED BY <3>0, <3>1, <3>3
  <2>2. \A y \in Inodes \ {Root} : y # Root => Content(y)' = Content(y)
    BY <1>4, <1>5, <1>6, <1>7, <2>1
  <2>3. Root \in Inodes
    BY Maps
  <2>4. StoreFiles' = StoreFiles
    BY <2>2, <2>3, OneFileChanged
  <2> QED BY <1>8, <2>4
<1>10. ASSUME ~(n \div BS < q), NEW name \in DOMAIN StoreFiles,
              /\ DOMAIN StoreFiles' = DOMAIN StoreFiles
              /\ \A m \in DOMAIN StoreFiles \ {name} : StoreFiles'[m] = StoreFiles[m]
              /\ StoreFiles[name] = Content(x) /\ StoreFiles'[name] = Content(x)'
       PROVE  StoreStep
  <2>1. FileSize(x)' = n
    BY <1>3, <1>7 DEF FileSize
  <2>2. ContentOK'
    BY ContentIsOK, PTL
  <2>3. Len(Content(x)') = n /\ \A k \in 1 .. n : Content(x)'[k] = CellAt(x, k)'
    BY <1>3, <2>1, <2>2 DEF ContentOK
  <2>4. \A k \in 1 .. n : Content(x)[k] = CellAt(x, k)
    BY <1>1, <1>3, <1>7 DEF ContentOK
  <2>5. ASSUME NEW k \in 1 .. n, k \notin q * BS + 1 .. q * BS + BS
        PROVE  Content(x)'[k] = Content(x)[k]
    <3>0. PICK c \in Nat : c = k - 1
      OBVIOUS
    <3>1. PICK j \in Nat : j = c \div BS
      BY Division
    <3>2. c = BS * j + (c % BS) /\ c % BS \in 0 .. BS - 1
      BY <3>1, Division
    <3>3. q * BS = BS * q /\ BS * q \in Nat /\ BS * j \in Nat
      BY <1>3
    <3>4. j # q
      BY <2>5, <3>0, <3>2, <3>3
    <3>5. CellAt(x, k)' = CellAt(x, k)
      BY <1>3, <1>4, <1>7, <3>0, <3>1, <3>4
    <3> QED BY <2>3, <2>4, <3>5
  <2>6. q \in 0 .. n \div BS
    BY <1>3, <1>10, Division
  <2>7. Store!Overwrite(name, q * BS)
    BY <1>7, <1>10, <2>3, <2>5 DEF Store!Overwrite, Store!Unchanged
  <2>8. \E b \in 0 .. Len(StoreFiles[name]) \div BS : Store!Overwrite(name, b * BS)
    BY <1>7, <1>10, <2>6, <2>7
  <2>9. StoreState = "sound" /\ StoreState' = "sound"
    BY DEF StoreState
  <2> QED BY <2>8, <2>9 DEF Store!Next, StoreStep
<1> QED BY <1>3, <1>6, <1>8, <1>9, <1>10, OneFileChanged

\* vsfs_creat gives a new name a file of the size it asks for, in 32 bits, and leaves
\* the others alone.
LEMMA CreateStep ==
  ASSUME IInv, IInv', BlocksDistinct, Kept, FilesAre, FilesAre', Sound, Sound',
         NEW name \in Names, NEW n \in BlockNums, Made(name, n)
  PROVE  StoreStep
<1>0. InStep /\ InStep' /\ n \in Nat /\ NamesTaken
  BY Bounds DEF InStep, Sound, Kept
<1>1. PICK x, c : x = FreeInode /\ c = entry \div BS
  OBVIOUS
<1>2. /\ x \in Inodes \ {Root} /\ x \in free_inodes
      /\ \A d \in Blocks : d # c => disk'[d] = disk[d]
      /\ \A i \in Inodes \ {Root} : \A k \in DOMAIN map[i] : map[i][k] # c
  BY <1>0, <1>1, DirectoryGrown
<1>3. \A m, y : Named(m, y)' <=> Named(m, y) \/ (m = name /\ y = x)
  BY <1>0, <1>1, GrownKept
<1>4. ~Listed(name) /\ free_inodes # NULL
  BY DEF Made, Creatable, Mounted
<1>5. /\ \A i \in Inodes : i \notin {Root, x} => map'[i] = map[i] /\ size'[i] = size[i]
      /\ Len(map'[x]) = n /\ size'[x] = NewSize(n)
  <2>1. PICK new \in FreeBlocks(NewBlocks(n)) : NewFile(name, n, new)
    BY DEF Made
  <2> QED BY <1>0, <1>1, <1>4, <2>1, MadeMaps
<1>6. ASSUME NEW y \in Inodes, y # Root, y # x
      PROVE  Content(y)' = Content(y)
  <2>1. map'[y] = map[y] /\ size'[y] = size[y]
    BY <1>5, <1>6
  <2>2. FileSize(y)' = FileSize(y)
    BY <2>1 DEF FileSize
  <2>3. ASSUME NEW k \in 1 .. FileSize(y)
        PROVE  CellAt(y, k)' = CellAt(y, k)
    <3>1. (k - 1) \div BS + 1 \in DOMAIN map[y]
      BY ContentIsOK DEF ContentOK
    <3>2. PICK d : d = map[y][(k - 1) \div BS + 1]
      OBVIOUS
    <3>3. d \in Blocks /\ d # c
      BY <1>2, <1>6, <3>1, <3>2, Maps
    <3>4. disk'[d] = disk[d]
      BY <1>2, <3>3
    <3> QED BY <2>1, <3>2, <3>4 DEF CellAt
  <2> QED BY <2>2, <2>3 DEF Content, CellAt
<1>7. Len(Content(x)') \in {IF m = W \div BS THEN W ELSE NewSize(m) : m \in BlockNums}
  <2>1. Len(Content(x)') = FileSize(x)'
    <3>1. ContentOK'
      BY ContentIsOK, PTL
    <3> QED BY <1>2, <3>1 DEF ContentOK
  <2>2. FileSize(x)' = IF NewSize(n) = 0 /\ n = W \div BS THEN W ELSE NewSize(n)
    BY <1>5 DEF FileSize
  <2>3. n = W \div BS => NewSize(n) = 0
    <3>1. n = W \div BS => n * BS = W
      BY <1>0, LargestSize
    <3>2. W % W = 0
      OBVIOUS
    <3> QED BY <3>1, <3>2 DEF NewSize
  <2> QED BY <2>1, <2>2, <2>3
<1> HIDE DEF Named
<1>8. PICK old, new : old = StoreFiles /\ new = StoreFiles'
  OBVIOUS
<1>9. /\ DOMAIN old = {m \in Names : \E y \in Inodes : Named(m, y)}
      /\ DOMAIN new = {m \in Names : \E y \in Inodes : Named(m, y)'}
      /\ \A m \in Names, y \in Inodes : Named(m, y) => old[m] = Content(y) /\ y # Root
      /\ \A m \in Names, y \in Inodes : Named(m, y)' => new[m] = Content(y)'
  BY <1>8 DEF FilesAre
<1>10. name \notin DOMAIN old
  BY <1>4, <1>9, ListedNamed
<1>11. DOMAIN new = DOMAIN old \union {name}
  BY <1>2, <1>3, <1>9
<1>12. ASSUME NEW m \in DOMAIN old PROVE new[m] = old[m]
  <2>1. PICK y \in Inodes : m \in Names /\ Named(m, y)
    BY <1>9
  <2>2. y # Root /\ y # x
    BY <1>0, <1>2, <1>4, <2>1 DEF NamesTaken
  <2> QED BY <1>3, <1>6, <1>9, <2>1, <2>2
<1>13. new[name] = Content(x)'
  BY <1>2, <1>3, <1>9
<1>14. Store!Create(name)
  BY <1>7, <1>8, <1>10, <1>11, <1>12, <1>13 DEF Store!Create, Store!Unchanged
<1>15. StoreState = "sound" /\ StoreState' = "sound"
  BY DEF StoreState
<1> QED BY <1>14, <1>15 DEF Store!Next, StoreStep

Empty == Sound /\ NoNames
StoreEmpty == StoreFiles = <<>>

LEMMA EmptyStore == ASSUME Empty PROVE StoreEmpty
<1>1. {n \in Names : Listed(n)} = {}
  BY ListedNamed DEF Empty, NoNames
<1>2. StoreFiles = [n \in {} |-> Content(InodeNamed(n))]
  BY <1>1 DEF StoreFiles, Empty
<1> QED BY <1>2 DEF StoreEmpty

\* What is not sound does not become sound.
LEMMA SoundBefore == ASSUME IInv, [Next]_vars, Sound' PROVE Sound
<1>1. luck = "good"
  BY DEF Sound, Next, Tools, shm_mkfs, shm_mount, shm_unlink, Tool, Start, Exit, Call,
         vsfs_creat, vsfs_open, vsfs_close, vsfs_read, vsfs_write, vsfs_lseek,
         SeekInside, SeekBeyond, Running, WriteBlock, WriteEnd, Undefined, vars
<1>2. InStep
  <2>1. Storage /\ InStep'
    BY StepStorage DEF Sound, InStep
  <2> QED BY <2>1, InStepBefore
<1> QED BY <1>1, <1>2 DEF Sound, InStep

\* Every step of programs and tools is a step of the store, or none.
LEMMA StorageStep ==
  ASSUME IInv, IInv', BlocksDistinct, GoneEmpty, StartBelow, Kept, Kept', [Next]_vars
  PROVE  StoreStep
<1>1. CASE ~Sound
  BY <1>1, SoundBefore DEF StoreStep, StoreState, StoreFiles
<1>2. CASE Sound /\ ~Sound'
  <2>1. StoreState = "sound" /\ StoreState' = "broken" /\ StoreFiles' = <<>>
    BY <1>2 DEF StoreState, StoreFiles
  <2> QED BY <2>1 DEF StoreStep, Store!Next, Store!Break
<1>3. CASE Sound /\ Sound'
  <2>1. FilesAre /\ FilesAre'
    BY <1>3, FilesAreNamed, PTL
  <2>2. InStep /\ InStep' /\ NamesTaken /\ FdsNamed
    BY <1>3 DEF Sound, InStep, Kept
  <2>3. ASSUME Quiet \/ WriteBlock \/ \E x \in Inodes : Grows(x)
        PROVE  \A n, x : Named(n, x)' <=> Named(n, x)
    BY <2>2, <2>3, StaysKept
  <2>4. CASE Quiet
    <3>1. UNCHANGED <<map, size, disk>>
      BY <2>4 DEF Quiet
    <3>2. \A y : Content(y)' = Content(y)
      BY <3>1 DEF Content, FileSize
    <3>3. StoreFiles' = StoreFiles
      BY <1>3, <2>1, <2>3, <2>4, <3>2, RootType, OneFileChanged
    <3> QED BY <1>3, <3>3 DEF StoreStep, StoreState
  <2>5. CASE WriteBlock
    BY <1>3, <2>1, <2>2, <2>3, <2>5, OverwriteStep
  <2>6. ASSUME NEW x \in Inodes, Grows(x) PROVE StoreStep
    BY <1>3, <2>1, <2>3, <2>6, ResizeStep
  <2>7. ASSUME NEW name \in Names, NEW n \in BlockNums, Made(name, n) PROVE StoreStep
    BY <1>3, <2>1, <2>7, CreateStep
  <2>8. CASE Tools
    <3>1. Empty /\ Empty'
      BY <1>3, <2>2, <2>8, ToolsEmpty DEF Empty, Untouched
    <3>2. StoreEmpty /\ StoreEmpty'
      BY <3>1, EmptyStore, PTL
    <3> QED BY <1>3, <3>2 DEF StoreStep, StoreState, StoreEmpty
  <2> QED BY <2>4, <2>5, <2>6, <2>7, <2>8, StepStorage DEF Storage
<1> QED BY <1>1, <1>2, <1>3

\* The shared-memory variant implements the store of named files, for any programs that
\* run and die one after the other: nothing is lost and no file changes but the one
\* written to, as long as the directory blocks are in place, no tool has run over the
\* files, an inode was free and every allocation was lucky.
THEOREM ShmImplementsStore == Spec => Implements
<1> DEFINE Inv == IInv /\ BlocksDistinct /\ GoneEmpty /\ StartBelow /\ Kept
<1>1. Init => Inv /\ Store!Init
  <2> SUFFICES ASSUME Init PROVE Inv /\ Store!Init
    OBVIOUS
  <2>1. IInv
    BY InitInv
  <2>2. Sound /\ fds = <<>> /\ BlocksDistinct /\ StartBelow
    BY RootType DEF Init, Sound, InPlace, NoFiles, BlocksDistinct, StartBelow
  <2>3. AllJunk
    BY DEF Init, AllJunk, Blank
  <2>4. NoNames
    BY <2>1, <2>2, <2>3, JunkHasNoNames DEF Sound
  <2>5. GoneEmpty /\ Kept
    BY <2>2, <2>3, <2>4, EmptyKept DEF Untouched, GoneEmpty
  <2>6. StoreState = "sound" /\ StoreFiles = <<>>
    BY <2>2, <2>4, EmptyStore DEF Empty, StoreState, StoreEmpty
  <2> QED BY <2>1, <2>2, <2>5, <2>6 DEF Store!Init
<1>2. Inv /\ [Next]_vars => Inv' /\ [Store!Next]_(Store!vars)
  <2> SUFFICES ASSUME Inv, [Next]_vars
               PROVE  Inv' /\ [Store!Next]_(Store!vars)
    OBVIOUS
  <2>1. IInv' /\ Storage
    BY NextInv, StepStorage
  <2>2. BlocksDistinct' /\ GoneEmpty' /\ StartBelow' /\ Kept'
    BY <2>1, DistinctStep, GoneStep, BelowStep, KeptStep
  <2>3. StoreStep
    BY <2>1, <2>2, StorageStep
  <2> QED BY <2>1, <2>2, <2>3 DEF StoreStep, Store!vars
<1> HIDE DEF Inv
<1> QED BY <1>1, <1>2, PTL DEF Spec, Implements, Store!Spec

=============================================================================
