-------------------------- MODULE VsfsAlloc_proofs --------------------------
(***************************************************************************)
(* Proofs about VsfsAlloc, for every geometry: the types, which include    *)
(* that no inode ever counts more blocks than its three levels can name    *)
(* and that the loops of __alloc_block stay inside their pointer blocks;   *)
(* that no stored pointer names a free block; and, with the pointer trees  *)
(* as a call sees them through its buffers (Mem), that direct pointers are *)
(* exclusive, trees share no block, the blocks of a file never move,       *)
(* pointer blocks are written only where they belong, and every taken      *)
(* block has a place in a tree or was given up with a level-3 root.  The   *)
(* device is none of those whose bitmap is scanned too briefly.            *)
(***************************************************************************)
EXTENDS VsfsAllocMC, FiniteSetTheorems, TLAPS

\* Where the loops of __alloc_block are: the next pointer to write, row i and
\* column j of a level, is that of the block after the last one of the file.
At(first) == blocks[ino] = first + i * PTR_PER_BLOCK + j

Position ==
  /\ pc = "level1" => blocks[ino] <= LEVEL1_LIMIT
  /\ pc = "level2" => blocks[ino] \in LEVEL1_LIMIT .. LEVEL2_LIMIT - 1
  /\ pc = "loop2" => /\ i <= L2_PTR
                     /\ count_down > 0 => At(LEVEL1_LIMIT) /\ j < PTR_PER_BLOCK
  /\ pc = "fill2" => i < L2_PTR /\ At(LEVEL1_LIMIT)
  /\ pc = "level3" => blocks[ino] >= LEVEL2_LIMIT
  /\ pc = "loop3" => /\ i <= PTR_PER_BLOCK
                     /\ count_down > 0 => At(LEVEL2_LIMIT) /\ j < PTR_PER_BLOCK
  /\ pc = "fill3" => i < PTR_PER_BLOCK /\ At(LEVEL2_LIMIT)

\* What is still to be allocated fits, in the inode and in the directory, and
\* vsfs_creat never works on the root directory's own inode.
Room ==
  /\ pc \notin {"idle", "dir", "fini"} => blocks[ino] + count_down <= LEVEL3_LIMIT
  /\ pc = "dir" => op = "creat" /\ (DirFull => blocks[Root] < LEVEL1_LIMIT)
  /\ entry <= blocks[Root] * FILES_PER_BLOCK
  /\ Root \notin ibitmap /\ Root \notin files
  /\ pc # "idle" => ino # Root

IInv == TypeOK /\ Position /\ Room /\ 0 \notin dbitmap /\ NoPointerToFree

----------------------------------------------------------------------------
(* Arithmetic *)

LEMMA Sizes ==
  /\ L1_PTR \in Nat \ {0} /\ L2_PTR \in Nat \ {0} /\ PTR_PER_BLOCK \in Nat \ {0}
  /\ FILES_PER_BLOCK \in Nat /\ FILES_PER_BLOCK >= 2
  /\ NR_INODES \in Nat \ {0} /\ NR_DREGION \in Nat \ {0} /\ NR_DBITS \in Nat
  /\ NR_INODES <= NR_DBITS
  /\ MaxNeed \in Nat /\ MaxNeed <= LEVEL3_LIMIT
  /\ LEVEL1_LIMIT \in Nat /\ LEVEL2_LIMIT \in Nat /\ LEVEL3_LIMIT \in Nat
  /\ LEVEL1_LIMIT = L1_PTR
  /\ LEVEL2_LIMIT = LEVEL1_LIMIT + L2_PTR * PTR_PER_BLOCK
  /\ LEVEL3_LIMIT = LEVEL2_LIMIT + PTR_PER_BLOCK * PTR_PER_BLOCK
  /\ LEVEL1_LIMIT < LEVEL2_LIMIT /\ LEVEL2_LIMIT < LEVEL3_LIMIT
  /\ 0 \in Blocks /\ Root \in Inodes
<1>1. /\ L1_PTR \in Nat \ {0} /\ L2_PTR \in Nat \ {0} /\ PTR_PER_BLOCK \in Nat \ {0}
      /\ L2_PTR * PTR_PER_BLOCK \in Nat \ {0}
      /\ PTR_PER_BLOCK * PTR_PER_BLOCK \in Nat \ {0}
  BY AllocAssumption DEF AllocAssumption
<1>2. /\ LEVEL1_LIMIT \in Nat /\ LEVEL2_LIMIT \in Nat /\ LEVEL3_LIMIT \in Nat
      /\ LEVEL1_LIMIT < LEVEL2_LIMIT /\ LEVEL2_LIMIT < LEVEL3_LIMIT
  BY <1>1 DEF LEVEL1_LIMIT, LEVEL2_LIMIT, LEVEL3_LIMIT
<1>3. MaxNeed \in Nat /\ MaxNeed <= LEVEL3_LIMIT
  BY <1>2, AllocAssumption DEF AllocAssumption
<1>4. 0 \in Blocks /\ Root \in Inodes
  BY AllocAssumption DEF AllocAssumption, Blocks, Inodes, Root
<1> QED BY <1>1, <1>2, <1>3, <1>4, AllocAssumption
        DEF AllocAssumption, LEVEL1_LIMIT, LEVEL2_LIMIT, LEVEL3_LIMIT

\* Row and column of block number x of a level with rows of m pointers.
LEMMA RowColumn ==
  ASSUME NEW x \in Nat, NEW m \in Nat \ {0}
  PROVE  /\ x \div m \in Nat /\ x % m \in 0 .. m - 1
         /\ x = (x \div m) * m + (x % m)
         /\ \A r \in Nat : /\ x < r * m => x \div m < r
                           /\ x <= r * m => x \div m <= r
OBVIOUS

LEMMA NextRow ==
  ASSUME NEW r \in Nat, NEW m \in Nat
  PROVE  (r + 1) * m + 0 = r * m + m
OBVIOUS

LEMMA FullRows ==
  ASSUME NEW r \in Nat, NEW s \in Nat, NEW m \in Nat, r >= s
  PROVE  r * m >= s * m /\ r * m \in Nat /\ s * m \in Nat
OBVIOUS

LEMMA StrictRows ==
  ASSUME NEW r \in Nat, NEW s \in Nat, NEW m \in Nat, r < s
  PROVE  r * m + m <= s * m /\ r * m \in Nat /\ s * m \in Nat
OBVIOUS

----------------------------------------------------------------------------
(* Initial states *)

THEOREM InitInv == Init => IInv
<1> SUFFICES ASSUME Init PROVE IInv
  OBVIOUS
<1>1. TypeOK
  <2>2. /\ dbitmap \in SUBSET Blocks
        /\ ibitmap \in SUBSET Inodes /\ entry \in Nat /\ files \in SUBSET Inodes
        /\ blocks \in [Inodes -> 0 .. LEVEL3_LIMIT]
    BY Sizes DEF Init, Blocks
  <2>3. /\ l1 \in [Inodes -> [0 .. L1_PTR - 1 -> Blocks]]
        /\ l2 \in [Inodes -> [0 .. L2_PTR - 1 -> Blocks]]
        /\ l3 \in [Inodes -> Blocks] /\ disk \in [Blocks -> PointerBlock]
        /\ ptr_reg \in PointerBlock /\ l3_ptr_reg \in PointerBlock
    BY Sizes DEF Init, PointerBlock, Unwritten
  <2> QED BY <2>2, <2>3, Sizes DEF Init, TypeOK
<1>2. Position /\ Room
  <2>1. 2 <= 1 * FILES_PER_BLOCK
    BY Sizes
  <2> QED BY <2>1, Sizes DEF Init, Position, Room, Root
<1>3. 0 \notin dbitmap /\ NoPointerToFree
  BY Sizes DEF Init, NoPointerToFree, Unwritten
<1> QED BY <1>1, <1>2, <1>3 DEF IInv

----------------------------------------------------------------------------
(* Taking a block, and leaving the pointers alone *)

\* The scan comes to every bit, and finds the first free one.
LEMMA FreeBit ==
  ASSUME IInv
  PROVE  \A b \in NextFree : b \in dbitmap /\ \A c \in dbitmap : b <= c
<1>1. ScanBits \in Nat /\ NR_DBITS \in Nat
  <2>1. NR_DREGION % SIZE_WRAP \in Nat
    BY AllocAssumption DEF AllocAssumption
  <2> QED BY <2>1, AllocAssumption DEF AllocAssumption, ScanBits
<1>2. NR_DBITS < ScanBits /\ ~ScanShort
  BY <1>1, RegionAssumption DEF RegionAssumption, ScanShort
<1>3. \A b \in dbitmap : b \in 0 .. NR_DBITS - 1
  BY DEF IInv, TypeOK, Blocks
<1>4. Scanned = dbitmap
  BY <1>1, <1>2, <1>3 DEF Scanned
<1> QED BY <1>2, <1>4 DEF NextFree, IsFirstFree

LEMMA TakeBlock ==
  ASSUME IInv, NEW b \in dbitmap, get_free_dblock(b)
  PROVE  /\ dbitmap' \in SUBSET dbitmap /\ dbitmap' \in SUBSET Blocks
         /\ b \in Blocks /\ b \notin dbitmap' /\ 0 \notin dbitmap'
<1>1. dbitmap \in SUBSET Blocks /\ 0 \notin dbitmap
  BY DEF IInv, TypeOK
<1> QED BY <1>1 DEF get_free_dblock

\* Any step that leaves what is stored alone, and takes no block or one.
LEMMA PointersKept ==
  ASSUME IInv, dbitmap' \in SUBSET dbitmap,
         UNCHANGED <<pointers, disk, buffers, misplaced>>
  PROVE  0 \notin dbitmap' /\ NoPointerToFree'
BY DEF IInv, NoPointerToFree, pointers, buffers

\* What a step in the middle of a call knows.
LEMMA Known ==
  ASSUME IInv
  PROVE  /\ TypeOK /\ Position /\ Room /\ NoPointerToFree
         /\ ino \in Inodes /\ blocks[ino] \in Nat /\ blocks[ino] <= LEVEL3_LIMIT
         /\ i \in Nat /\ j \in Nat /\ j <= PTR_PER_BLOCK
         /\ count_down \in Nat /\ count_down <= MaxNeed /\ need \in Nat
         /\ entry \in Nat /\ blocks[Root] \in Nat
BY Sizes DEF IInv, TypeOK

----------------------------------------------------------------------------
(* vsfs_creat and the start of a call *)

LEMMA CreatTakeInodeStep ==
  ASSUME IInv, NEW k \in 0 .. MaxNeed, CreatTakeInode(k)
  PROVE  IInv'
<1>1. PICK f \in ibitmap : ibitmap' = ibitmap \ {f} /\ ino' = f
  BY DEF CreatTakeInode
<1>2. TypeOK'
  <2>1. f_dblock' \in Nat
    <3>1. FILES_PER_BLOCK \in Nat \ {0} /\ entry \in Nat
      BY Known, Sizes
    <3>2. entry \div FILES_PER_BLOCK \in Nat
      BY <3>1, RowColumn
    <3> QED BY <3>2 DEF CreatTakeInode
  <2> QED BY <1>1, <2>1, Known DEF CreatTakeInode, TypeOK, pointers, buffers, history
<1>3. Position' /\ Room'
  BY <1>1, Known, Sizes DEF CreatTakeInode, Position, Room, DirFull, At
<1>4. 0 \notin dbitmap' /\ NoPointerToFree'
  BY PointersKept DEF CreatTakeInode, history
<1> QED BY <1>2, <1>3, <1>4 DEF IInv

LEMMA CreatGrowDirStep ==
  ASSUME IInv, CreatGrowDir
  PROVE  IInv'
<1>1. PICK b \in dbitmap :
        /\ get_free_dblock(b) /\ f_dblock' = b
        /\ l1' = [l1 EXCEPT ![Root][blocks[Root]] = b]
  BY FreeBit DEF CreatGrowDir
<1>2. blocks[Root] + 1 \in 0 .. LEVEL3_LIMIT /\ blocks[Root] \in 0 .. L1_PTR - 1
  BY Known, Sizes DEF CreatGrowDir, Room
<1>3. TypeOK'
  <2>1. b \in Blocks /\ b \in Nat
    BY <1>1, TakeBlock DEF Blocks
  <2> QED BY <1>1, <1>2, <2>1, Known, TakeBlock, Sizes
          DEF CreatGrowDir, TypeOK, dir, buffers, history
<1>4. Position' /\ Room'
  <2>1. Position'
    BY DEF CreatGrowDir, Position, dir, call
  <2>2. blocks' = [blocks EXCEPT ![Root] = blocks[Root] + 1]
        /\ blocks'[Root] = blocks[Root] + 1
    BY Known, Sizes DEF CreatGrowDir, TypeOK
  <2>3. (blocks[Root] + 1) * FILES_PER_BLOCK = blocks[Root] * FILES_PER_BLOCK + FILES_PER_BLOCK
        /\ blocks[Root] * FILES_PER_BLOCK \in Nat
    BY Known, Sizes
  <2>4. entry < (blocks[Root] + 1) * FILES_PER_BLOCK
    BY <2>3, Known, Sizes DEF Room
  <2> QED BY <2>1, <2>2, <2>3, <2>4, Known, Sizes
          DEF CreatGrowDir, Room, DirFull, dir, call
<1>5. 0 \notin dbitmap' /\ NoPointerToFree'
  <2>1. \A n \in Inodes : \A k \in 0 .. L1_PTR - 1 : l1'[n][k] \in {l1[n][k], b}
    BY <1>1, Known DEF TypeOK
  <2>2. \A n \in Inodes : \A k \in 0 .. L1_PTR - 1 : l1'[n][k] \notin dbitmap'
    BY <1>1, <2>1, TakeBlock, Known DEF NoPointerToFree
  <2> QED BY <1>1, <2>2, TakeBlock, Known DEF CreatGrowDir, NoPointerToFree, buffers, history
<1> QED BY <1>3, <1>4, <1>5 DEF IInv

\* An entry goes to the directory, or to a block that is marked as misplaced.
LEMMA EntryWritten ==
  ASSUME IInv, WriteEntry
  PROVE  /\ disk' \in [Blocks -> PointerBlock] /\ misplaced' \in SUBSET Inodes
         /\ misplaced' # {} \/ UNCHANGED <<disk, misplaced>>
<1>1. ino \in Blocks
  BY Known, Sizes DEF Inodes, Blocks
<1>2. CASE RightPlace
  BY <1>2, Known DEF WriteEntry, TypeOK
<1>3. CASE ~ RightPlace
  <2>1. /\ disk' = [disk EXCEPT ![f_dblock][Slot] = ino]
        /\ misplaced' = misplaced \union {ino}
    BY <1>3 DEF WriteEntry
  <2>2. \A ptrs \in PointerBlock : [ptrs EXCEPT ![Slot] = ino] \in PointerBlock
    BY <1>1 DEF PointerBlock
  <2>3. disk \in [Blocks -> PointerBlock]
    BY Known DEF TypeOK
  <2> QED BY <2>1, <2>2, <2>3, Known DEF TypeOK
<1> QED BY <1>2, <1>3

LEMMA CreatAddEntryStep ==
  ASSUME IInv, CreatAddEntry
  PROVE  IInv'
<1>0. Level(0) = "level1" /\ ino # Root
  BY Known, Sizes DEF CreatAddEntry, Room, Level
<1>1. /\ blocks' = [blocks EXCEPT ![ino] = 0] /\ blocks'[ino] = 0
      /\ blocks'[Root] = blocks[Root] /\ pc' = "level1" /\ count_down' = need
      /\ need \in 0 .. MaxNeed
  BY <1>0, Known, Sizes DEF CreatAddEntry, TypeOK
<1>2. TypeOK'
  <2>1. /\ blocks' \in [Inodes -> 0 .. LEVEL3_LIMIT] /\ entry' \in Nat
        /\ files' \in SUBSET Inodes /\ count_down' \in 0 .. MaxNeed
    BY <1>1, Known, Sizes DEF CreatAddEntry, TypeOK
  <2>2. disk' \in [Blocks -> PointerBlock] /\ misplaced' \in SUBSET Inodes
    BY EntryWritten DEF CreatAddEntry
  <2> QED BY <1>1, <2>1, <2>2, Known
          DEF CreatAddEntry, TypeOK, pointers, call, buffers
<1>3. entry + 1 <= blocks[Root] * FILES_PER_BLOCK
  BY Known, Sizes DEF CreatAddEntry, DirFull
<1>4. Position' /\ Room'
  BY <1>1, <1>3, Known, Sizes DEF CreatAddEntry, Position, Room, call
<1>5. 0 \notin dbitmap' /\ NoPointerToFree'
  <2>1. CASE RightPlace
    <3>1. UNCHANGED <<disk, misplaced>>
      BY <2>1, Known DEF CreatAddEntry, WriteEntry, TypeOK
    <3> QED BY <3>1, PointersKept DEF CreatAddEntry
  <2>2. CASE ~ RightPlace
    <3>1. misplaced' # {}
      BY <2>2 DEF CreatAddEntry, WriteEntry
    <3> QED BY <3>1 DEF IInv, NoPointerToFree, CreatAddEntry, pointers
  <2> QED BY <2>1, <2>2
<1> QED BY <1>2, <1>4, <1>5 DEF IInv

LEMMA GrowStep ==
  ASSUME IInv, NEW n \in files, NEW k \in 0 .. MaxNeed, Grow(n, k)
  PROVE  IInv'
<1>1. n \in Inodes /\ blocks[n] \in Nat
  BY Known DEF TypeOK
<1>2. TypeOK'
  BY <1>1, Known DEF Grow, TypeOK, Level, dir, pointers, buffers, history
<1>3. Position' /\ Room'
  BY <1>1, Known, Sizes DEF Grow, Position, Room, Level, dir
<1>4. 0 \notin dbitmap' /\ NoPointerToFree'
  BY PointersKept DEF Grow, history
<1> QED BY <1>2, <1>3, <1>4 DEF IInv

----------------------------------------------------------------------------
(* __alloc_block *)

LEMMA Level1TakeStep ==
  ASSUME IInv, Level1Take
  PROVE  IInv'
<1>1. PICK b \in dbitmap :
        get_free_dblock(b) /\ l1' = [l1 EXCEPT ![ino][blocks[ino]] = b]
  BY FreeBit DEF Level1Take
<1>2. /\ blocks' = [blocks EXCEPT ![ino] = blocks[ino] + 1]
      /\ blocks'[ino] = blocks[ino] + 1 /\ blocks'[Root] = blocks[Root]
      /\ blocks[ino] + 1 \in 0 .. LEVEL1_LIMIT
      /\ count_down' = count_down - 1 /\ count_down - 1 \in 0 .. MaxNeed
  <2>1. ino # Root /\ Root \in Inodes /\ ino \in Inodes
    BY Known, Sizes DEF Level1Take, Room
  <2>2. blocks' = [blocks EXCEPT ![ino] = blocks[ino] + 1] /\ count_down > 0
        /\ count_down' = count_down - 1 /\ blocks[ino] < LEVEL1_LIMIT
    BY DEF Level1Take
  <2>3. blocks'[ino] = blocks[ino] + 1 /\ blocks'[Root] = blocks[Root]
    BY <2>1, <2>2, Known DEF TypeOK
  <2>4. blocks[ino] + 1 \in 0 .. LEVEL1_LIMIT /\ count_down - 1 \in 0 .. MaxNeed
    BY <2>2, Known, Sizes
  <2> QED BY <2>2, <2>3, <2>4
<1>3. TypeOK'
  <2>1. blocks' \in [Inodes -> 0 .. LEVEL3_LIMIT]
    <3>1. blocks[ino] + 1 \in 0 .. LEVEL3_LIMIT
      BY <1>2, Sizes
    <3> QED BY <1>2, <3>1, Known DEF TypeOK
  <2>2. l1' \in [Inodes -> [0 .. L1_PTR - 1 -> Blocks]]
    BY <1>1, TakeBlock, Known DEF TypeOK
  <2> QED BY <1>1, <1>2, <2>1, <2>2, Known, TakeBlock
          DEF Level1Take, TypeOK, dir, call, buffers, history
<1>4. Position' /\ Room'
  BY <1>2, Known, Sizes DEF Level1Take, Position, Room, dir, call
<1>5. 0 \notin dbitmap' /\ NoPointerToFree'
  <2>1. \A n \in Inodes : \A k \in 0 .. L1_PTR - 1 : l1'[n][k] \in {l1[n][k], b}
    BY <1>1, Known DEF TypeOK
  <2>2. \A n \in Inodes : \A k \in 0 .. L1_PTR - 1 : l1'[n][k] \notin dbitmap'
    BY <1>1, <2>1, TakeBlock, Known DEF NoPointerToFree
  <2> QED BY <1>1, <2>2, TakeBlock, Known DEF Level1Take, NoPointerToFree, buffers, history
<1> QED BY <1>3, <1>4, <1>5 DEF IInv

LEMMA Level1ExitStep ==
  ASSUME IInv, Level1Exit
  PROVE  IInv'
<1>1. TypeOK'
  BY Known DEF Level1Exit, TypeOK, dir, pointers, call, buffers, history
<1>2. Position' /\ Room'
  BY Known, Sizes DEF Level1Exit, Position, Room, DirFull, dir, call
<1>3. 0 \notin dbitmap' /\ NoPointerToFree'
  BY PointersKept DEF Level1Exit, history
<1> QED BY <1>1, <1>2, <1>3 DEF IInv

LEMMA Level2StartStep ==
  ASSUME IInv, Level2Start
  PROVE  IInv'
<1>1. PICK x \in Nat : x = blocks[ino] - LEVEL1_LIMIT /\ x < L2_PTR * PTR_PER_BLOCK
  BY Known, Sizes DEF Level2Start, Position
<1>2. i' = x \div PTR_PER_BLOCK /\ j' = x % PTR_PER_BLOCK
  BY <1>1 DEF Level2Start, StartL1, StartL2
<1>3. /\ i' \in Nat /\ i' <= L2_PTR /\ j' \in 0 .. PTR_PER_BLOCK - 1
      /\ x = i' * PTR_PER_BLOCK + j' /\ i' * PTR_PER_BLOCK \in Nat /\ j' \in Nat
  <2>1. PTR_PER_BLOCK \in Nat \ {0} /\ L2_PTR \in Nat
    BY Sizes
  <2>2. /\ x \div PTR_PER_BLOCK \in Nat /\ x % PTR_PER_BLOCK \in 0 .. PTR_PER_BLOCK - 1
        /\ x = (x \div PTR_PER_BLOCK) * PTR_PER_BLOCK + (x % PTR_PER_BLOCK)
        /\ x \div PTR_PER_BLOCK < L2_PTR
    BY <1>1, <2>1, RowColumn
  <2>3. (x \div PTR_PER_BLOCK) * PTR_PER_BLOCK \in Nat /\ x % PTR_PER_BLOCK \in Nat
    BY <2>1, <2>2
  <2> QED BY <1>2, <2>1, <2>2, <2>3
<1>4. TypeOK'
  <2>1. i' \in 0 .. L2_PTR + PTR_PER_BLOCK /\ j' \in 0 .. PTR_PER_BLOCK
    BY <1>3, Sizes
  <2> QED BY <2>1, Known
          DEF Level2Start, TypeOK, dir, pointers, call, buffers, history
<1>5. Position' /\ Room'
  <2>1. blocks[ino] = LEVEL1_LIMIT + i' * PTR_PER_BLOCK + j'
    <3>1. blocks[ino] = LEVEL1_LIMIT + x
      BY <1>1, Known, Sizes
    <3> QED BY <1>3, <3>1, Sizes
  <2> QED BY <1>3, <2>1, Known, Sizes
          DEF Level2Start, Position, At, Room, DirFull, dir, call
<1>6. 0 \notin dbitmap' /\ NoPointerToFree'
  BY PointersKept DEF Level2Start, history
<1> QED BY <1>4, <1>5, <1>6 DEF IInv

LEMMA Level2OpenNewStep ==
  ASSUME IInv, Level2OpenNew
  PROVE  IInv'
<1>1. PICK b \in dbitmap : /\ get_free_dblock(b)
                           /\ l2' = [l2 EXCEPT ![ino][i] = b]
                           /\ ptr_reg' = disk[b]
  BY FreeBit DEF Level2OpenNew
<1>2. TypeOK'
  <2>1. l2' \in [Inodes -> [0 .. L2_PTR - 1 -> Blocks]] /\ ptr_reg' \in PointerBlock
    BY <1>1, TakeBlock, Known DEF TypeOK
  <2> QED BY <1>1, <2>1, Known, TakeBlock DEF Level2OpenNew, TypeOK, dir, call, history
<1>3. Position' /\ Room'
  BY Known, Sizes DEF Level2OpenNew, Position, At, Room, DirFull, dir, call
<1>4. 0 \notin dbitmap' /\ NoPointerToFree'
  <2>1. \A n \in Inodes : \A k \in 0 .. L2_PTR - 1 : l2'[n][k] \in {l2[n][k], b}
    BY <1>1, Known DEF TypeOK
  <2>2. \A n \in Inodes : \A k \in 0 .. L2_PTR - 1 : l2'[n][k] \notin dbitmap'
    BY <1>1, <2>1, TakeBlock, Known DEF NoPointerToFree
  <2>3. misplaced # {} \/ \A k \in 0 .. PTR_PER_BLOCK - 1 : ptr_reg'[k] \notin dbitmap'
    BY <1>1, TakeBlock, Known DEF NoPointerToFree
  <2> QED BY <1>1, <2>2, <2>3, TakeBlock, Known DEF Level2OpenNew, NoPointerToFree, history
<1> QED BY <1>2, <1>3, <1>4 DEF IInv

LEMMA Level2OpenOldStep ==
  ASSUME IInv, Level2OpenOld
  PROVE  IInv'
<1>1. l2[ino][i] \in Blocks /\ ptr_reg' = disk[l2[ino][i]]
  BY Known, Sizes DEF Level2OpenOld, TypeOK
<1>2. TypeOK'
  BY <1>1, Known DEF Level2OpenOld, TypeOK, dir, pointers, call, history
<1>3. Position' /\ Room'
  BY Known, Sizes DEF Level2OpenOld, Position, At, Room, DirFull, dir, call
<1>4. 0 \notin dbitmap' /\ NoPointerToFree'
  <2>1. misplaced # {} \/ \A k \in 0 .. PTR_PER_BLOCK - 1 : ptr_reg'[k] \notin dbitmap
    BY <1>1, Known DEF NoPointerToFree
  <2> QED BY <2>1, Known DEF IInv, Level2OpenOld, NoPointerToFree, pointers, history
<1> QED BY <1>2, <1>3, <1>4 DEF IInv

LEMMA FillPointerStep ==
  ASSUME IInv, FillPointer
  PROVE  IInv'
<1>1. PICK b \in dbitmap :
        get_free_dblock(b) /\ ptr_reg' = [ptr_reg EXCEPT ![j] = b]
  BY FreeBit DEF FillPointer
<1>2. /\ blocks' = [blocks EXCEPT ![ino] = blocks[ino] + 1]
      /\ blocks'[ino] = blocks[ino] + 1 /\ blocks'[Root] = blocks[Root]
      /\ blocks[ino] + 1 \in 0 .. LEVEL3_LIMIT
      /\ count_down' = count_down - 1 /\ count_down - 1 \in 0 .. MaxNeed
      /\ j' = j + 1 /\ j + 1 \in 0 .. PTR_PER_BLOCK
  <2>1. /\ ino # Root /\ Root \in Inodes /\ ino \in Inodes
        /\ blocks[ino] + count_down <= LEVEL3_LIMIT
    BY Known, Sizes DEF FillPointer, Room
  <2>2. blocks' = [blocks EXCEPT ![ino] = blocks[ino] + 1] /\ count_down > 0
        /\ count_down' = count_down - 1 /\ j' = j + 1 /\ j < PTR_PER_BLOCK
    BY DEF FillPointer
  <2>3. blocks'[ino] = blocks[ino] + 1 /\ blocks'[Root] = blocks[Root]
    BY <2>1, <2>2, Known DEF TypeOK
  <2>4. blocks[ino] + 1 \in 0 .. LEVEL3_LIMIT /\ count_down - 1 \in 0 .. MaxNeed
        /\ j + 1 \in 0 .. PTR_PER_BLOCK
    BY <2>1, <2>2, Known, Sizes
  <2> QED BY <2>2, <2>3, <2>4
<1>3. TypeOK'
  <2>1. blocks' \in [Inodes -> 0 .. LEVEL3_LIMIT] /\ ptr_reg' \in PointerBlock
    BY <1>1, <1>2, TakeBlock, Known DEF TypeOK, PointerBlock
  <2> QED BY <1>1, <1>2, <2>1, Known, TakeBlock
          DEF FillPointer, TypeOK, dir, pointers, call, history
<1>4. Position' /\ Room'
  <2>1. i * PTR_PER_BLOCK \in Nat
    BY Known, Sizes
  <2>2. \A first \in Nat : At(first) =>
          blocks'[ino] = first + i * PTR_PER_BLOCK + j'
    BY <1>2, <2>1, Known DEF At
  <2> QED BY <1>2, <2>2, Known, Sizes
          DEF FillPointer, Position, At, Room, dir, call
<1>5. 0 \notin dbitmap' /\ NoPointerToFree'
  <2>1. \A k \in 0 .. PTR_PER_BLOCK - 1 : ptr_reg'[k] \in {ptr_reg[k], b}
    BY <1>1, Known DEF TypeOK, PointerBlock
  <2>2. misplaced # {} \/ \A k \in 0 .. PTR_PER_BLOCK - 1 : ptr_reg'[k] \notin dbitmap'
    BY <1>1, <2>1, TakeBlock, Known DEF NoPointerToFree
  <2> QED BY <1>1, <2>2, TakeBlock, Known DEF FillPointer, NoPointerToFree, pointers, history
<1> QED BY <1>3, <1>4, <1>5 DEF IInv

\* A pointer block is written back from a buffer: wherever it goes, what it
\* holds is no pointer to a free block.
LEMMA WriteBack ==
  ASSUME IInv, NEW where, NEW reg \in PointerBlock,
         misplaced # {} \/ \A k \in 0 .. PTR_PER_BLOCK - 1 : reg[k] \notin dbitmap,
         disk' = [disk EXCEPT ![where] = reg],
         UNCHANGED <<dbitmap, pointers, buffers, misplaced>>
  PROVE  disk' \in [Blocks -> PointerBlock] /\ 0 \notin dbitmap' /\ NoPointerToFree'
<1>1. disk' \in [Blocks -> PointerBlock] /\ \A b \in Blocks : disk'[b] \in {disk[b], reg}
  BY Known DEF TypeOK
<1>2. misplaced # {} \/ \A b \in Blocks, k \in 0 .. PTR_PER_BLOCK - 1 : disk'[b][k] \notin dbitmap
  BY <1>1, Known DEF NoPointerToFree
<1> QED BY <1>1, <1>2, Known DEF IInv, NoPointerToFree, pointers, buffers, history

LEMMA Level2FlushStep ==
  ASSUME IInv, Level2Flush
  PROVE  IInv'
<1>1. disk' \in [Blocks -> PointerBlock] /\ 0 \notin dbitmap' /\ NoPointerToFree'
  BY WriteBack, Known DEF Level2Flush, TypeOK, NoPointerToFree, history
<1>2. i < L2_PTR /\ At(LEVEL1_LIMIT)
  BY Known DEF Level2Flush, Position
<1>3. TypeOK'
  <2>1. i + 1 \in 0 .. L2_PTR + PTR_PER_BLOCK /\ 0 \in 0 .. PTR_PER_BLOCK
    BY <1>2, Known, Sizes
  <2> QED BY <1>1, <2>1, Known
          DEF Level2Flush, TypeOK, dir, pointers, call, buffers, history
<1>4. Position' /\ Room'
  <2>1. CASE count_down = 0
    BY <1>2, <2>1, Known, Sizes DEF Level2Flush, Position, Room, DirFull, dir, call
  <2>2. CASE j >= PTR_PER_BLOCK
    <3>1. (i + 1) * PTR_PER_BLOCK + 0 = i * PTR_PER_BLOCK + PTR_PER_BLOCK
          /\ j = PTR_PER_BLOCK /\ i * PTR_PER_BLOCK \in Nat
      BY <2>2, Known, Sizes, NextRow
    <3>2. blocks[ino] = LEVEL1_LIMIT + (i + 1) * PTR_PER_BLOCK + 0
      BY <1>2, <3>1, Known, Sizes DEF At
    <3> QED BY <1>2, <3>2, Known, Sizes
            DEF Level2Flush, Position, At, Room, DirFull, dir, call
  <2> QED BY <2>1, <2>2 DEF Level2Flush, BufferDone
<1> QED BY <1>1, <1>3, <1>4 DEF IInv

LEMMA Level2ExitStep ==
  ASSUME IInv, Level2Exit
  PROVE  IInv'
<1>1. TypeOK'
  BY Known DEF Level2Exit, TypeOK, dir, pointers, call, buffers, history
<1>2. count_down > 0 => blocks[ino] >= LEVEL2_LIMIT
  <2> SUFFICES ASSUME count_down > 0 PROVE blocks[ino] >= LEVEL2_LIMIT
    OBVIOUS
  <2>1. At(LEVEL1_LIMIT) /\ i >= L2_PTR
    BY Known, Sizes DEF Level2Exit, Position
  <2>2. i * PTR_PER_BLOCK >= L2_PTR * PTR_PER_BLOCK
        /\ i * PTR_PER_BLOCK \in Nat /\ L2_PTR * PTR_PER_BLOCK \in Nat
    BY <2>1, FullRows, Known, Sizes
  <2> QED BY <2>1, <2>2, Known, Sizes DEF At
<1>3. Position' /\ Room'
  BY <1>2, Known, Sizes DEF Level2Exit, Position, Room, DirFull, dir, call
<1>4. 0 \notin dbitmap' /\ NoPointerToFree'
  BY PointersKept DEF Level2Exit, history
<1> QED BY <1>1, <1>3, <1>4 DEF IInv

LEMMA Level3NewRootStep ==
  ASSUME IInv, Level3NewRoot
  PROVE  IInv'
<1>1. PICK b \in dbitmap : /\ get_free_dblock(b)
                           /\ l3' = [l3 EXCEPT ![ino] = b]
                           /\ l3_ptr_reg' = disk[b]
  BY FreeBit DEF Level3NewRoot
<1>2. TypeOK'
  <2>1. l3' \in [Inodes -> Blocks] /\ l3_ptr_reg' \in PointerBlock
    BY <1>1, TakeBlock, Known DEF TypeOK
  <2>2. abandoned' \in SUBSET Blocks
    BY Known DEF Level3NewRoot, TypeOK
  <2>3. 0 \in 0 .. L2_PTR + PTR_PER_BLOCK /\ 0 \in 0 .. PTR_PER_BLOCK
    BY Sizes
  <2> QED BY <1>1, <2>1, <2>2, <2>3, Known, TakeBlock
          DEF Level3NewRoot, TypeOK, dir, call
<1>3. Position' /\ Room'
  <2>1. LEVEL2_LIMIT = LEVEL2_LIMIT + 0 * PTR_PER_BLOCK + 0
    BY Sizes
  <2> QED BY <2>1, Known, Sizes
          DEF Level3NewRoot, Position, At, Room, DirFull, dir, call
<1>4. 0 \notin dbitmap' /\ NoPointerToFree'
  <2>1. \A n \in Inodes : l3'[n] \notin dbitmap'
    BY <1>1, TakeBlock, Known DEF NoPointerToFree, TypeOK
  <2>2. misplaced # {} \/ \A k \in 0 .. PTR_PER_BLOCK - 1 : l3_ptr_reg'[k] \notin dbitmap'
    BY <1>1, TakeBlock, Known DEF NoPointerToFree
  <2> QED BY <1>1, <2>1, <2>2, TakeBlock, Known DEF Level3NewRoot, NoPointerToFree
<1> QED BY <1>2, <1>3, <1>4 DEF IInv

LEMMA Level3OldRootStep ==
  ASSUME IInv, Level3OldRoot
  PROVE  IInv'
<1>1. PICK x \in Nat : x = blocks[ino] - LEVEL2_LIMIT
                       /\ x <= PTR_PER_BLOCK * PTR_PER_BLOCK
  BY Known, Sizes DEF Level3OldRoot, Position
<1>2. i' = x \div PTR_PER_BLOCK /\ j' = x % PTR_PER_BLOCK
  BY <1>1 DEF Level3OldRoot, StartL1, StartL2
<1>3. /\ i' \in Nat /\ i' <= PTR_PER_BLOCK /\ j' \in 0 .. PTR_PER_BLOCK - 1
      /\ x = i' * PTR_PER_BLOCK + j' /\ i' * PTR_PER_BLOCK \in Nat /\ j' \in Nat
  <2>1. PTR_PER_BLOCK \in Nat \ {0}
    BY Sizes
  <2>2. /\ x \div PTR_PER_BLOCK \in Nat /\ x % PTR_PER_BLOCK \in 0 .. PTR_PER_BLOCK - 1
        /\ x = (x \div PTR_PER_BLOCK) * PTR_PER_BLOCK + (x % PTR_PER_BLOCK)
        /\ x \div PTR_PER_BLOCK <= PTR_PER_BLOCK
    BY <1>1, <2>1, RowColumn
  <2>3. (x \div PTR_PER_BLOCK) * PTR_PER_BLOCK \in Nat /\ x % PTR_PER_BLOCK \in Nat
    BY <2>1, <2>2
  <2> QED BY <1>2, <2>1, <2>2, <2>3
<1>4. TypeOK'
  <2>1. i' \in 0 .. L2_PTR + PTR_PER_BLOCK /\ j' \in 0 .. PTR_PER_BLOCK
    BY <1>3, Sizes
  <2>2. l3_ptr_reg' \in PointerBlock
    BY Known DEF Level3OldRoot, TypeOK
  <2> QED BY <2>1, <2>2, Known
          DEF Level3OldRoot, TypeOK, dir, pointers, call, history
<1>5. Position' /\ Room'
  <2>1. blocks[ino] = LEVEL2_LIMIT + i' * PTR_PER_BLOCK + j'
    <3>1. blocks[ino] = LEVEL2_LIMIT + x
      BY <1>1, Known, Sizes
    <3> QED BY <1>3, <3>1, Sizes
  <2> QED BY <1>3, <2>1, Known, Sizes
          DEF Level3OldRoot, Position, At, Room, DirFull, dir, call
<1>6. 0 \notin dbitmap' /\ NoPointerToFree'
  <2>1. misplaced # {} \/ \A k \in 0 .. PTR_PER_BLOCK - 1 : l3_ptr_reg'[k] \notin dbitmap
    BY Known DEF Level3OldRoot, TypeOK, NoPointerToFree
  <2> QED BY <2>1, Known DEF IInv, Level3OldRoot, NoPointerToFree, pointers, history
<1> QED BY <1>4, <1>5, <1>6 DEF IInv

LEMMA Level3OpenNewStep ==
  ASSUME IInv, Level3OpenNew
  PROVE  IInv'
<1>1. PICK b \in dbitmap : /\ get_free_dblock(b)
                           /\ l3_ptr_reg' = [l3_ptr_reg EXCEPT ![i] = b]
                           /\ ptr_reg' = disk[b]
  BY FreeBit DEF Level3OpenNew
<1>2. TypeOK'
  <2>1. l3_ptr_reg' \in PointerBlock /\ ptr_reg' \in PointerBlock
    BY <1>1, TakeBlock, Known DEF TypeOK, PointerBlock
  <2> QED BY <1>1, <2>1, Known, TakeBlock
          DEF Level3OpenNew, TypeOK, dir, pointers, call, history
<1>3. Position' /\ Room'
  BY Known, Sizes DEF Level3OpenNew, Position, At, Room, DirFull, dir, call
<1>4. 0 \notin dbitmap' /\ NoPointerToFree'
  <2>1. \A k \in 0 .. PTR_PER_BLOCK - 1 : l3_ptr_reg'[k] \in {l3_ptr_reg[k], b}
    BY <1>1, Known DEF TypeOK, PointerBlock
  <2>2. misplaced # {} \/ \A k \in 0 .. PTR_PER_BLOCK - 1 : l3_ptr_reg'[k] \notin dbitmap'
    BY <1>1, <2>1, TakeBlock, Known DEF NoPointerToFree
  <2>3. misplaced # {} \/ \A k \in 0 .. PTR_PER_BLOCK - 1 : ptr_reg'[k] \notin dbitmap'
    BY <1>1, TakeBlock, Known DEF NoPointerToFree
  <2> QED BY <1>1, <2>2, <2>3, TakeBlock, Known DEF Level3OpenNew, NoPointerToFree, pointers, history
<1> QED BY <1>2, <1>3, <1>4 DEF IInv

LEMMA Level3OpenOldStep ==
  ASSUME IInv, Level3OpenOld
  PROVE  IInv'
<1>1. l3_ptr_reg[i] \in Blocks /\ ptr_reg' = disk[l3_ptr_reg[i]]
  BY Known, Sizes DEF Level3OpenOld, TypeOK, PointerBlock
<1>2. TypeOK'
  BY <1>1, Known DEF Level3OpenOld, TypeOK, dir, pointers, call, history
<1>3. Position' /\ Room'
  BY Known, Sizes DEF Level3OpenOld, Position, At, Room, DirFull, dir, call
<1>4. 0 \notin dbitmap' /\ NoPointerToFree'
  <2>1. misplaced # {} \/ \A k \in 0 .. PTR_PER_BLOCK - 1 : ptr_reg'[k] \notin dbitmap
    BY <1>1, Known DEF NoPointerToFree
  <2> QED BY <2>1, Known DEF IInv, Level3OpenOld, NoPointerToFree, pointers, history
<1> QED BY <1>2, <1>3, <1>4 DEF IInv

LEMMA Level3FlushStep ==
  ASSUME IInv, Level3Flush
  PROVE  IInv'
<1>1. disk' \in [Blocks -> PointerBlock] /\ 0 \notin dbitmap' /\ NoPointerToFree'
  BY WriteBack, Known DEF Level3Flush, TypeOK, NoPointerToFree, history
<1>2. i < PTR_PER_BLOCK /\ At(LEVEL2_LIMIT)
  BY Known DEF Level3Flush, Position
<1>3. TypeOK'
  <2>1. i + 1 \in 0 .. L2_PTR + PTR_PER_BLOCK /\ 0 \in 0 .. PTR_PER_BLOCK
    BY <1>2, Known, Sizes
  <2> QED BY <1>1, <2>1, Known
          DEF Level3Flush, TypeOK, dir, pointers, call, buffers, history
<1>4. Position' /\ Room'
  <2>1. CASE count_down = 0
    BY <1>2, <2>1, Known, Sizes DEF Level3Flush, Position, Room, DirFull, dir, call
  <2>2. CASE j >= PTR_PER_BLOCK
    <3>1. (i + 1) * PTR_PER_BLOCK + 0 = i * PTR_PER_BLOCK + PTR_PER_BLOCK
          /\ j = PTR_PER_BLOCK /\ i * PTR_PER_BLOCK \in Nat
      BY <2>2, Known, Sizes, NextRow
    <3>2. blocks[ino] = LEVEL2_LIMIT + (i + 1) * PTR_PER_BLOCK + 0
      BY <1>2, <3>1, Known, Sizes DEF At
    <3> QED BY <1>2, <3>2, Known, Sizes
            DEF Level3Flush, Position, At, Room, DirFull, dir, call
  <2> QED BY <2>1, <2>2 DEF Level3Flush, BufferDone
<1> QED BY <1>1, <1>3, <1>4 DEF IInv

LEMMA Level3ExitStep ==
  ASSUME IInv, Level3Exit
  PROVE  IInv'
<1>1. disk' \in [Blocks -> PointerBlock] /\ 0 \notin dbitmap' /\ NoPointerToFree'
  BY WriteBack, Known DEF Level3Exit, TypeOK, NoPointerToFree, history
<1>2. TypeOK'
  BY <1>1, Known DEF Level3Exit, TypeOK, dir, pointers, call, buffers, history
<1>3. Position' /\ Room'
  BY Known, Sizes DEF Level3Exit, Position, Room, DirFull, dir, call
<1> QED BY <1>1, <1>2, <1>3 DEF IInv

----------------------------------------------------------------------------
(* The end of a call *)

\* Forgetting the buffers, whatever a death left in level 1 and in the directory.
LEMMA CallLost ==
  ASSUME IInv, EndCall, dbitmap' \in SUBSET dbitmap, UNCHANGED <<dir, l2, l3, abandoned>>,
         l1' \in [Inodes -> [0 .. L1_PTR - 1 -> Blocks]],
         \A n \in Inodes : \A k \in 0 .. L1_PTR - 1 : l1'[n][k] \notin dbitmap',
         disk' \in [Blocks -> PointerBlock], misplaced' \in SUBSET Inodes,
         misplaced' # {} \/ UNCHANGED <<disk, misplaced>>,
         blocks' \in [Inodes -> 0 .. LEVEL3_LIMIT], blocks'[Root] = blocks[Root],
         torn' \in SUBSET Inodes
  PROVE  IInv'
<1>1. \A k \in 0 .. PTR_PER_BLOCK - 1 : Unwritten[k] = 0
  BY DEF Unwritten
<1>2. TypeOK'
  <2>1. Unwritten \in PointerBlock
    BY Sizes DEF Unwritten, PointerBlock
  <2>2. 0 \in 0 .. L2_PTR + PTR_PER_BLOCK /\ 0 \in 0 .. PTR_PER_BLOCK
        /\ 0 \in 0 .. MaxNeed /\ Root \in Inodes
    BY Sizes
  <2>3. dbitmap' \in SUBSET Blocks
    BY Known DEF TypeOK
  <2> QED BY <2>1, <2>2, <2>3, Known DEF EndCall, TypeOK, dir
<1>3. Position' /\ Room'
  BY Known DEF EndCall, Position, Room, dir
<1>4. 0 \notin dbitmap'
  BY DEF IInv
<1>5. NoPointerToFree'
  <2>1. \A n \in Inodes : /\ \A k \in 0 .. L2_PTR - 1 : l2'[n][k] \notin dbitmap'
                          /\ l3'[n] \notin dbitmap'
    BY Known DEF NoPointerToFree
  <2>2. \A k \in 0 .. PTR_PER_BLOCK - 1 : ptr_reg'[k] = 0 /\ l3_ptr_reg'[k] = 0
    BY <1>1 DEF EndCall
  <2>3. CASE misplaced' # {}
    BY <2>1, <2>3 DEF NoPointerToFree
  <2>4. CASE misplaced' = {}
    <3>1. misplaced = {} /\ disk' = disk
      BY <2>4
    <3>2. \A b \in Blocks, k \in 0 .. PTR_PER_BLOCK - 1 : disk'[b][k] \notin dbitmap'
      BY <3>1, Known DEF NoPointerToFree
    <3> QED BY <1>4, <2>1, <2>2, <3>2 DEF NoPointerToFree
  <2> QED BY <2>3, <2>4
<1> QED BY <1>2, <1>3, <1>4, <1>5 DEF IInv

LEMMA Ended ==
  ASSUME IInv, EndCall, UNCHANGED <<dbitmap, dir, pointers, disk>>,
         blocks' \in [Inodes -> 0 .. LEVEL3_LIMIT], blocks'[Root] = blocks[Root],
         torn' \in SUBSET Inodes, UNCHANGED <<abandoned, misplaced>>
  PROVE  IInv'
<1>1. /\ l1' \in [Inodes -> [0 .. L1_PTR - 1 -> Blocks]]
      /\ disk' \in [Blocks -> PointerBlock] /\ misplaced' \in SUBSET Inodes
  BY Known DEF TypeOK, pointers
<1>2. \A n \in Inodes : \A k \in 0 .. L1_PTR - 1 : l1'[n][k] \notin dbitmap'
  BY Known DEF NoPointerToFree, pointers
<1> QED BY <1>1, <1>2, CallLost DEF pointers

LEMMA ReturnStep ==
  ASSUME IInv, Return
  PROVE  IInv'
<1>1. ino # Root /\ need \in 0 .. LEVEL3_LIMIT
  BY Known, Sizes DEF Return, Room, TypeOK
<1>2. blocks' \in [Inodes -> 0 .. LEVEL3_LIMIT] /\ blocks'[Root] = blocks[Root]
  BY <1>1, Known DEF Return, TypeOK
<1> QED BY <1>2, Ended, Known DEF Return, TypeOK, history

LEMMA CrashStep ==
  ASSUME IInv, Crash
  PROVE  IInv'
<1>1. torn' \in SUBSET Inodes
  BY Known DEF Crash, TypeOK
<1> QED BY <1>1, Ended, Known DEF Crash, TypeOK

\* A death with the bit cleared: at most one direct pointer has changed, the one
\* behind those the count covers.
LEMMA CrashTook ==
  ASSUME IInv, CrashTaking
  PROVE  \E b \in dbitmap :
           /\ get_free_dblock(b) /\ b # 0
           /\ l1' \in [Inodes -> [0 .. L1_PTR - 1 -> Blocks]]
           /\ \A n \in Inodes : \A k \in 0 .. L1_PTR - 1 :
                l1'[n][k] = l1[n][k] \/ (n = Taker /\ k = blocks[n] /\ l1'[n][k] = b)
<1>1. PICK b \in dbitmap :
        /\ get_free_dblock(b)
        /\ \/ l1' = l1
           \/ /\ pc \in {"dir", "level1"}
              /\ l1' = [l1 EXCEPT ![Taker][blocks[Taker]] = b]
  BY FreeBit DEF CrashTaking
<1>2. b \in Blocks /\ b # 0 /\ l1 \in [Inodes -> [0 .. L1_PTR - 1 -> Blocks]]
  BY <1>1, TakeBlock, Known DEF IInv, TypeOK
<1>3. CASE l1' = l1
  BY <1>1, <1>2, <1>3
<1>4. CASE l1' = [l1 EXCEPT ![Taker][blocks[Taker]] = b]
  <2>1. PICK t, c : t = Taker /\ c = blocks[t]
    OBVIOUS
  <2>2. t \in Inodes
    BY <2>1, Known, Sizes DEF Taker
  <2>3. l1' = [l1 EXCEPT ![t][c] = b]
    BY <1>4, <2>1
  <2>4. /\ l1' \in [Inodes -> [0 .. L1_PTR - 1 -> Blocks]]
        /\ \A n \in Inodes : \A k \in 0 .. L1_PTR - 1 :
             l1'[n][k] = l1[n][k] \/ (n = t /\ k = c /\ l1'[n][k] = b)
    BY <1>2, <2>2, <2>3
  <2> QED BY <1>1, <1>2, <2>1, <2>4
<1> QED BY <1>1, <1>3, <1>4

LEMMA CrashTakingStep ==
  ASSUME IInv, CrashTaking
  PROVE  IInv'
<1>1. PICK b \in dbitmap :
        /\ get_free_dblock(b)
        /\ l1' \in [Inodes -> [0 .. L1_PTR - 1 -> Blocks]]
        /\ \A n \in Inodes : \A k \in 0 .. L1_PTR - 1 :
             l1'[n][k] = l1[n][k] \/ (k = blocks[n] /\ l1'[n][k] = b)
  BY CrashTook
<1>2. dbitmap' \in SUBSET dbitmap /\ b \notin dbitmap'
  BY <1>1, TakeBlock
<1>3. \A n \in Inodes : \A k \in 0 .. L1_PTR - 1 : l1'[n][k] \notin dbitmap'
  BY <1>1, <1>2, Known DEF NoPointerToFree
<1>4. /\ UNCHANGED <<dir, l2, l3, disk, blocks, abandoned, misplaced>> /\ EndCall
      /\ torn' \in SUBSET Inodes
  BY Known DEF CrashTaking, TypeOK
<1>5. /\ disk' \in [Blocks -> PointerBlock] /\ misplaced' \in SUBSET Inodes
      /\ blocks' \in [Inodes -> 0 .. LEVEL3_LIMIT]
  BY <1>4, Known DEF TypeOK
<1> QED BY <1>1, <1>2, <1>3, <1>4, <1>5, CallLost

LEMMA CrashEntryStep ==
  ASSUME IInv, CrashEntry
  PROVE  IInv'
<1>1. WriteEntry /\ EndCall
      /\ UNCHANGED <<dbitmap, dir, blocks, pointers, torn, abandoned>>
  BY DEF CrashEntry
<1>2. /\ l1' \in [Inodes -> [0 .. L1_PTR - 1 -> Blocks]]
      /\ blocks' \in [Inodes -> 0 .. LEVEL3_LIMIT] /\ torn' \in SUBSET Inodes
  BY <1>1, Known DEF TypeOK, pointers
<1>3. \A n \in Inodes : \A k \in 0 .. L1_PTR - 1 : l1'[n][k] \notin dbitmap'
  BY <1>1, Known DEF NoPointerToFree, pointers
<1> QED BY <1>1, <1>2, <1>3, EntryWritten, CallLost DEF pointers

LEMMA StutterStep ==
  ASSUME IInv, UNCHANGED vars
  PROVE  IInv'
<1>1. TypeOK'
  BY Known DEF vars, dir, pointers, buffers, call, history, TypeOK
<1>2. Position' /\ Room'
  BY Known DEF vars, dir, pointers, buffers, call, history, Position, At, Room, DirFull
<1>3. 0 \notin dbitmap' /\ NoPointerToFree'
  BY PointersKept DEF vars, history
<1> QED BY <1>1, <1>2, <1>3 DEF IInv

THEOREM NextInv == IInv /\ [Next]_vars => IInv'
<1> SUFFICES ASSUME IInv, [Next]_vars PROVE IInv'
  OBVIOUS
<1>1. CASE UNCHANGED vars
  BY <1>1, StutterStep
<1>2. CASE \E k \in 0 .. MaxNeed : CreatTakeInode(k)
  BY <1>2, CreatTakeInodeStep
<1>3. CASE CreatGrowDir
  BY <1>3, CreatGrowDirStep
<1>4. CASE CreatAddEntry
  BY <1>4, CreatAddEntryStep
<1>5. CASE \E n \in files, k \in 0 .. MaxNeed : Grow(n, k)
  BY <1>5, GrowStep
<1>6. CASE Level1
  BY <1>6, Level1TakeStep, Level1ExitStep DEF Level1
<1>7. CASE Level2
  BY <1>7, Level2StartStep, Level2OpenNewStep, Level2OpenOldStep, Level2FlushStep,
     Level2ExitStep DEF Level2
<1>8. CASE Level3
  BY <1>8, Level3NewRootStep, Level3OldRootStep, Level3OpenNewStep,
     Level3OpenOldStep, Level3FlushStep, Level3ExitStep DEF Level3
<1>9. CASE FillPointer
  BY <1>9, FillPointerStep
<1>10. CASE Return
  BY <1>10, ReturnStep
<1>11. CASE Crash \/ CrashTaking \/ CrashEntry
  BY <1>11, CrashStep, CrashTakingStep, CrashEntryStep
<1> QED BY <1>1, <1>2, <1>3, <1>4, <1>5, <1>6, <1>7, <1>8, <1>9, <1>10, <1>11 DEF Next

----------------------------------------------------------------------------
(* The theorems *)

\* The inductive invariant holds in every behaviour, deaths included.
THEOREM Invariance == Spec => []IInv
BY InitInv, NextInv, PTL DEF Spec

\* Types: no inode counts more blocks than its three levels can name, and the
\* loops of __alloc_block never leave the pointer block they fill.
THEOREM TypeCorrect == Spec => []TypeOK
<1>1. IInv => TypeOK
  BY DEF IInv
<1> QED BY <1>1, Invariance, PTL

\* No pointer that an inode, a pointer block or a buffer holds names a block
\* that get_free_dblock could hand out again, wherever the process died.
THEOREM NoPointerToFreeBlock == Spec => []NoPointerToFree
<1>1. IInv => NoPointerToFree
  BY DEF IInv
<1> QED BY <1>1, Invariance, PTL

----------------------------------------------------------------------------
(* The pointer trees as a call sees them, through its buffers *)

Cols == 0 .. PTR_PER_BLOCK - 1

\* The buffers stand for the blocks they will be written to.
Filling == pc \in {"fill2", "fill3"}
Rooted == pc \in {"loop3", "fill3"}
Target == IF pc = "fill2" THEN l2[ino][i] ELSE l3_ptr_reg[i]
Mem == [b \in Blocks |-> IF Filling /\ b = Target THEN ptr_reg
                         ELSE IF Rooted /\ b = l3[ino] THEN l3_ptr_reg ELSE disk[b]]

\* How far a call is: vsfs_creat started from an empty file.
Progress ==
  /\ pc \notin {"idle", "dir"} =>
       /\ count_down <= need /\ need - count_down <= blocks[ino]
       /\ op = "creat" => blocks[ino] = need - count_down
  /\ pc = "fini" => count_down = 0
  /\ Filling => j > 0 \/ count_down > 0

\* Inodes without a name are empty, and vsfs_creat works on one of them.
Fresh ==
  /\ \A n \in Inodes \ files : n # Root => blocks[n] = 0
  /\ files \intersect ibitmap = {}
  /\ pc = "dir" => ino \notin files /\ ino \notin ibitmap
  /\ pc \notin {"idle", "dir"} => ino \in files

\* The pointers of an inode are stored before the count goes past them, also
\* where a death interrupted the call.  Block 0 is the root directory's first.
Stored ==
  /\ l1[Root][0] = 0 /\ blocks[Root] >= 1
  /\ \A n \in Inodes, k \in 0 .. L1_PTR - 1 :
       k < blocks[n] /\ ~ (n = Root /\ k = 0) => l1[n][k] # 0
  /\ \A n \in Inodes, r \in 0 .. L2_PTR - 1 :
       LEVEL1_LIMIT + r * PTR_PER_BLOCK < blocks[n] => l2[n][r] # 0
  /\ \A n \in Inodes : LEVEL2_LIMIT < blocks[n] => l3[n] # 0
  /\ pc = "fill2" => l2[ino][i] # 0
  /\ Rooted => l3[ino] # 0

BInv == IInv /\ Progress /\ Fresh /\ Stored

\* A death with the bit cleared leaves all that is counted as it was.
LEMMA CrashStays ==
  ASSUME BInv, CrashTaking
  PROVE  /\ UNCHANGED <<ibitmap, entry, files, blocks, l2, l3, disk, abandoned, misplaced>>
         /\ pc' = "idle" /\ torn' = torn \union {ino} /\ torn' # {}
         /\ \A n \in Inodes : \A k \in 0 .. L1_PTR - 1 :
              k < blocks[n] => l1'[n][k] = l1[n][k]
<1>1. \A n \in Inodes : blocks[n] \in Nat
  BY Known, Sizes DEF BInv, TypeOK
<1>2. \A n \in Inodes : \A k \in 0 .. L1_PTR - 1 :
        l1'[n][k] = l1[n][k] \/ k = blocks[n]
  BY CrashTook DEF BInv
<1> QED BY <1>1, <1>2 DEF CrashTaking, EndCall, dir

\* An entry that is written where lookups read it changes nothing here.
LEMMA EntryDeath ==
  ASSUME CrashEntry, misplaced' = {}
  PROVE  /\ UNCHANGED <<dbitmap, ibitmap, entry, files, blocks, l1, l2, l3, disk,
                        torn, abandoned, misplaced>>
         /\ pc = "dir" /\ pc' = "idle"
BY DEF CrashEntry, WriteEntry, EndCall, dir, pointers

LEMMA InitBasic == Init => BInv
<1> SUFFICES ASSUME Init PROVE Progress /\ Fresh /\ Stored
  BY InitInv DEF BInv
<1>1. Progress /\ Fresh
  BY DEF Init, Progress, Fresh, Filling
<1>2. Stored
  <2>1. \A r \in 0 .. L2_PTR - 1 : r * PTR_PER_BLOCK \in Nat
    BY Sizes
  <2>2. \A n \in Inodes : blocks[n] \in {0, 1} /\ (n # Root => blocks[n] = 0)
    BY DEF Init
  <2>3. \A n \in Inodes : /\ ~ (LEVEL2_LIMIT < blocks[n])
                          /\ \A r \in 0 .. L2_PTR - 1 :
                               ~ (LEVEL1_LIMIT + r * PTR_PER_BLOCK < blocks[n])
    BY <2>1, <2>2, Sizes
  <2>4. \A n \in Inodes, k \in 0 .. L1_PTR - 1 : k < blocks[n] => n = Root /\ k = 0
    BY <2>2
  <2>5. l1[Root][0] = 0 /\ blocks[Root] >= 1 /\ pc = "idle"
    BY Sizes DEF Init
  <2> QED BY <2>3, <2>4, <2>5 DEF Stored, Rooted
<1> QED BY <1>1, <1>2

LEMMA ProgressStep ==
  ASSUME BInv, [Next]_vars
  PROVE  Progress'
<1> USE Known DEF BInv
<1>1. CASE UNCHANGED vars
  BY <1>1 DEF vars, call, Progress, Filling
<1>2. ASSUME NEW k \in 0 .. MaxNeed, CreatTakeInode(k) PROVE Progress'
  BY <1>2 DEF CreatTakeInode, Progress, Filling
<1>3. CASE CreatGrowDir
  BY <1>3 DEF CreatGrowDir, Progress, Filling, call
<1>4. CASE CreatAddEntry
  BY <1>4, Sizes DEF CreatAddEntry, Progress, Filling, call, Level, TypeOK
<1>5. ASSUME NEW n \in files, NEW k \in 0 .. MaxNeed, Grow(n, k) PROVE Progress'
  BY <1>5, Sizes DEF Grow, Progress, Filling, Level, TypeOK
<1>6. CASE Level1Take \/ FillPointer
  <2>1. blocks'[ino] = blocks[ino] + 1 /\ count_down' = count_down - 1 /\ ino' = ino
        /\ pc' = pc /\ op' = op /\ need' = need /\ count_down > 0 /\ (pc = "level1" \/ j' = j + 1)
    BY <1>6 DEF Level1Take, FillPointer, call, TypeOK
  <2> QED BY <1>6, <2>1 DEF Level1Take, FillPointer, Progress, Filling
<1>7. CASE Level1Exit \/ Level2Start \/ Level2Exit \/ Level3OldRoot \/ Level3NewRoot
  BY <1>7 DEF Level1Exit, Level2Start, Level2Exit, Level3OldRoot, Level3NewRoot,
     Progress, Filling, call
<1>8. CASE Level2OpenNew \/ Level2OpenOld \/ Level3OpenNew \/ Level3OpenOld
  BY <1>8 DEF Level2OpenNew, Level2OpenOld, Level3OpenNew, Level3OpenOld, Progress,
     Filling, call
<1>9. CASE Level2Flush \/ Level3Flush
  BY <1>9 DEF Level2Flush, Level3Flush, Progress, Filling, call
<1>10. CASE Level3Exit
  <2>1. count_down = 0
    <3>1. CASE count_down > 0
      <4>1. At(LEVEL2_LIMIT) /\ i >= PTR_PER_BLOCK /\ blocks[ino] + count_down <= LEVEL3_LIMIT
        BY <1>10, <3>1, Sizes DEF Level3Exit, Position, Room
      <4>2. i * PTR_PER_BLOCK >= PTR_PER_BLOCK * PTR_PER_BLOCK
            /\ i * PTR_PER_BLOCK \in Nat /\ PTR_PER_BLOCK * PTR_PER_BLOCK \in Nat
        BY <4>1, FullRows, Sizes
      <4> QED BY <3>1, <4>1, <4>2, Sizes DEF At
    <3> QED BY <3>1
  <2> QED BY <1>10, <2>1 DEF Level3Exit, Progress, Filling, call
<1>11. CASE Return \/ Crash \/ CrashTaking \/ CrashEntry
  BY <1>11 DEF Return, Crash, CrashTaking, CrashEntry, EndCall, Progress, Filling
<1> QED BY <1>1, <1>2, <1>3, <1>4, <1>5, <1>6, <1>7, <1>8, <1>9, <1>10, <1>11
        DEF Next, Level1, Level2, Level3

LEMMA FreshStep ==
  ASSUME BInv, [Next]_vars
  PROVE  Fresh'
<1> USE Known DEF BInv
<1>1. CASE UNCHANGED vars
  BY <1>1 DEF vars, dir, call, Fresh
<1>2. ASSUME NEW k \in 0 .. MaxNeed, CreatTakeInode(k) PROVE Fresh'
  BY <1>2 DEF CreatTakeInode, Fresh
<1>3. CASE CreatGrowDir
  <2>1. \A n \in Inodes : n # Root => blocks'[n] = blocks[n]
    BY <1>3 DEF CreatGrowDir, TypeOK
  <2> QED BY <1>3, <2>1 DEF CreatGrowDir, Fresh, dir
<1>4. CASE CreatAddEntry
  <2>1. \A n \in Inodes : n # ino => blocks'[n] = blocks[n]
    BY <1>4 DEF CreatAddEntry, TypeOK
  <2>2. pc' = "level1"
    BY <1>4, Sizes DEF CreatAddEntry, Level
  <2> QED BY <1>4, <2>1, <2>2 DEF CreatAddEntry, Fresh, call
<1>5. ASSUME NEW n \in files, NEW k \in 0 .. MaxNeed, Grow(n, k) PROVE Fresh'
  BY <1>5 DEF Grow, Fresh, Level, dir
<1>6. CASE Level1Take \/ FillPointer \/ Return
  <2>1. /\ \A n \in Inodes : n # ino => blocks'[n] = blocks[n]
        /\ ino \in files /\ UNCHANGED <<files, ibitmap>>
        /\ pc' = "idle" \/ (pc' = pc /\ ino' = ino /\ pc \notin {"idle", "dir"})
    <3>1. CASE Level1Take
      BY <3>1 DEF Level1Take, TypeOK, Fresh, dir, call
    <3>2. CASE FillPointer
      BY <3>2 DEF FillPointer, TypeOK, Fresh, dir, call
    <3>3. CASE Return
      BY <3>3 DEF Return, EndCall, TypeOK, Fresh, dir
    <3> QED BY <1>6, <3>1, <3>2, <3>3
  <2> QED BY <2>1 DEF Fresh
<1>7. CASE Level1Exit \/ Level2 \/ Level3
  <2>1. /\ UNCHANGED <<blocks, files, ibitmap, ino>>
        /\ pc \notin {"idle", "dir"} /\ pc' \notin {"idle", "dir"}
    BY <1>7 DEF Level1Exit, Level2, Level2Start, Level2OpenNew, Level2OpenOld, Level2Flush,
       Level2Exit, Level3, Level3NewRoot, Level3OldRoot, Level3OpenNew, Level3OpenOld,
       Level3Flush, Level3Exit, dir, call
  <2> QED BY <2>1 DEF Fresh
<1>8. CASE Crash \/ CrashTaking \/ CrashEntry
  BY <1>8 DEF Crash, CrashTaking, CrashEntry, EndCall, Fresh, dir
<1> QED BY <1>1, <1>2, <1>3, <1>4, <1>5, <1>6, <1>7, <1>8 DEF Next, Level1

\* Row and column order the pointers of a level.
LEMMA RowOrder ==
  ASSUME NEW r \in Nat, NEW s \in Nat, NEW m \in Nat, NEW c \in 0 .. m - 1, NEW d \in 0 .. m
  PROVE  /\ r * m \in Nat /\ s * m \in Nat
         /\ r * m + c < s * m + d => r < s \/ (r = s /\ c < d)
         /\ r < s \/ (r = s /\ c < d) => r * m + c < s * m + d
         /\ d < m /\ r * m + c = s * m + d => r < s \/ (r = s /\ c = d)
<1>1. PICK x \in Nat, y \in Nat : x = r * m /\ y = s * m
  OBVIOUS
<1>2. /\ r < s => x + m <= y
      /\ s < r => y + m <= x
      /\ r = s => x = y
  BY <1>1, StrictRows
<1>3. /\ x + c < y + d => r < s \/ (r = s /\ c < d)
      /\ r < s \/ (r = s /\ c < d) => x + c < y + d
      /\ d < m /\ x + c = y + d => r < s \/ (r = s /\ c = d)
  <2>1. r < s \/ r = s \/ s < r
    OBVIOUS
  <2> QED BY <1>2, <2>1
<1> QED BY <1>1, <1>3

\* What the call has written so far ends at row i, column j.
LEMMA Placed ==
  ASSUME BInv, NEW first \in Nat, At(first), NEW r \in Nat, NEW c \in Cols
  PROVE  /\ first + r * PTR_PER_BLOCK + c < blocks[ino] => r < i \/ (r = i /\ c < j)
         /\ j < PTR_PER_BLOCK /\ first + r * PTR_PER_BLOCK + c < blocks[ino] + 1 =>
              r < i \/ (r = i /\ c <= j)
         /\ r < i \/ (r = i /\ c < j) => first + r * PTR_PER_BLOCK + c < blocks[ino]
<1>1. /\ i \in Nat /\ j \in 0 .. PTR_PER_BLOCK /\ PTR_PER_BLOCK \in Nat
      /\ blocks[ino] = first + i * PTR_PER_BLOCK + j
  BY Known, Sizes DEF BInv, At
<1>2. /\ r * PTR_PER_BLOCK \in Nat /\ i * PTR_PER_BLOCK \in Nat
      /\ r * PTR_PER_BLOCK + c < i * PTR_PER_BLOCK + j => r < i \/ (r = i /\ c < j)
      /\ r < i \/ (r = i /\ c < j) => r * PTR_PER_BLOCK + c < i * PTR_PER_BLOCK + j
      /\ j < PTR_PER_BLOCK /\ r * PTR_PER_BLOCK + c = i * PTR_PER_BLOCK + j =>
           r < i \/ (r = i /\ c = j)
  BY <1>1, RowOrder DEF Cols
<1> QED BY <1>1, <1>2 DEF Cols

\* Rows of level 2 end where level 3 begins.
LEMMA RowsOfLevel2 ==
  ASSUME NEW r \in 0 .. L2_PTR - 1, NEW c \in Cols
  PROVE  /\ r * PTR_PER_BLOCK \in Nat
         /\ LEVEL1_LIMIT + r * PTR_PER_BLOCK + c < LEVEL2_LIMIT
<1>1. /\ r * PTR_PER_BLOCK + PTR_PER_BLOCK <= L2_PTR * PTR_PER_BLOCK
      /\ r * PTR_PER_BLOCK \in Nat /\ L2_PTR * PTR_PER_BLOCK \in Nat
  BY Sizes, StrictRows
<1> QED BY <1>1, Sizes DEF Cols

\* What a step of the innermost loop does to the counts.
LEMMA FillCounts ==
  ASSUME BInv, FillPointer
  PROVE  /\ blocks' = [blocks EXCEPT ![ino] = blocks[ino] + 1]
         /\ blocks'[ino] = blocks[ino] + 1
         /\ \A n \in Inodes : n # ino => blocks'[n] = blocks[n]
         /\ i \in Nat /\ j \in Cols /\ j < PTR_PER_BLOCK
         /\ pc = "fill2" => At(LEVEL1_LIMIT) /\ i \in 0 .. L2_PTR - 1
                            /\ blocks[ino] < LEVEL2_LIMIT /\ blocks[ino] >= LEVEL1_LIMIT
         /\ pc = "fill3" => At(LEVEL2_LIMIT) /\ i \in Cols /\ blocks[ino] >= LEVEL2_LIMIT
<1>1. /\ i \in Nat /\ j \in Cols /\ j < PTR_PER_BLOCK
      /\ i * PTR_PER_BLOCK \in Nat
  BY Known, Sizes DEF BInv, FillPointer, Cols
<1>2. /\ blocks' = [blocks EXCEPT ![ino] = blocks[ino] + 1]
      /\ blocks'[ino] = blocks[ino] + 1
      /\ \A n \in Inodes : n # ino => blocks'[n] = blocks[n]
  BY Known DEF BInv, FillPointer, TypeOK
<1>3. pc = "fill2" => At(LEVEL1_LIMIT) /\ i \in 0 .. L2_PTR - 1
                      /\ blocks[ino] < LEVEL2_LIMIT /\ blocks[ino] >= LEVEL1_LIMIT
  <2> SUFFICES ASSUME pc = "fill2" PROVE At(LEVEL1_LIMIT) /\ i \in 0 .. L2_PTR - 1
                      /\ blocks[ino] < LEVEL2_LIMIT /\ blocks[ino] >= LEVEL1_LIMIT
    OBVIOUS
  <2>1. At(LEVEL1_LIMIT) /\ i \in 0 .. L2_PTR - 1
    BY <1>1, Known, Sizes DEF BInv, Position
  <2>2. LEVEL1_LIMIT + i * PTR_PER_BLOCK + j < LEVEL2_LIMIT
    BY <1>1, <2>1, RowsOfLevel2
  <2> QED BY <1>1, <2>1, <2>2, Sizes DEF At, Cols
<1>4. pc = "fill3" => At(LEVEL2_LIMIT) /\ i \in Cols /\ blocks[ino] >= LEVEL2_LIMIT
  BY <1>1, Known, Sizes DEF BInv, Position, At, Cols
<1> QED BY <1>1, <1>2, <1>3, <1>4

\* The innermost loop has named a row before it counts a block of it.
LEMMA FillRows ==
  ASSUME BInv, FillPointer
  PROVE  /\ \A k \in 0 .. L1_PTR - 1 : k < blocks[ino]
         /\ \A r \in 0 .. L2_PTR - 1 :
              LEVEL1_LIMIT + r * PTR_PER_BLOCK < blocks[ino] + 1 =>
                \/ LEVEL1_LIMIT + r * PTR_PER_BLOCK < blocks[ino]
                \/ pc = "fill2" /\ r = i
         /\ LEVEL2_LIMIT < blocks[ino] + 1 => pc = "fill3"
<1>1. 0 \in Cols
  BY Sizes DEF Cols
<1>2. CASE pc = "fill2"
  <2>1. ASSUME NEW r \in 0 .. L2_PTR - 1,
               LEVEL1_LIMIT + r * PTR_PER_BLOCK + 0 < blocks[ino] + 1
        PROVE  r = i \/ LEVEL1_LIMIT + r * PTR_PER_BLOCK + 0 < blocks[ino]
    BY <1>1, <1>2, <2>1, FillCounts, Placed, Sizes
  <2>2. \A r \in 0 .. L2_PTR - 1 : r * PTR_PER_BLOCK \in Nat
    BY <1>1, RowsOfLevel2
  <2> QED BY <1>2, <2>1, <2>2, FillCounts, Known, Sizes DEF BInv
<1>3. CASE pc = "fill3"
  <2>1. \A r \in 0 .. L2_PTR - 1 : r * PTR_PER_BLOCK \in Nat
          /\ LEVEL1_LIMIT + r * PTR_PER_BLOCK < LEVEL2_LIMIT
    BY <1>1, RowsOfLevel2, Sizes
  <2> QED BY <1>3, <2>1, FillCounts, Known, Sizes DEF BInv
<1> QED BY <1>2, <1>3 DEF FillPointer

LEMMA StoredStep ==
  ASSUME BInv, [Next]_vars
  PROVE  Stored'
<1> USE DEF BInv
<1>0. /\ TypeOK /\ Position /\ Room /\ 0 \notin dbitmap /\ Stored /\ Progress
      /\ ino \in Inodes /\ Root \in Inodes /\ i \in Nat /\ blocks[ino] \in Nat
  BY Known, Sizes DEF IInv
<1>1. ASSUME UNCHANGED <<l1, l2, l3, blocks>>,
             pc' = "fill2" => l2[ino'][i'] # 0, Rooted' => l3[ino'] # 0
      PROVE  Stored'
  BY <1>0, <1>1 DEF Stored
<1>2. CASE UNCHANGED vars
  BY <1>0, <1>2, <1>1 DEF vars, pointers, call, Stored, Rooted
<1>3. CASE (\E k \in 0 .. MaxNeed : CreatTakeInode(k)) \/ Crash \/ CrashEntry
           \/ \E n \in files, k \in 0 .. MaxNeed : Grow(n, k)
  BY <1>1, <1>3 DEF CreatTakeInode, Grow, Level, Crash, CrashEntry, EndCall, Rooted, pointers
<1>15. CASE CrashTaking
  <2>1. 0 \in 0 .. L1_PTR - 1 /\ 0 < blocks[Root]
    BY <1>0, Sizes, Known DEF Stored
  <2>2. l1'[Root][0] = 0
    BY <1>0, <1>15, <2>1, CrashStays DEF Stored
  <2> QED BY <1>0, <1>15, <2>2, CrashStays DEF Stored, Rooted
<1>4. CASE CreatGrowDir
  <2>1. PICK b \in dbitmap : l1' = [l1 EXCEPT ![Root][blocks[Root]] = b]
    BY FreeBit, <1>4 DEF BInv, CreatGrowDir
  <2>2. /\ blocks' = [blocks EXCEPT ![Root] = blocks[Root] + 1] /\ UNCHANGED <<l2, l3, pc>>
        /\ pc = "dir" /\ blocks[Root] \in 1 .. L1_PTR - 1
    BY <1>0, <1>4, Known, Sizes DEF CreatGrowDir, Room, Stored
  <2>3. /\ \A n \in Inodes, k \in 0 .. L1_PTR - 1 :
             l1'[n][k] = IF n = Root /\ k = blocks[Root] THEN b ELSE l1[n][k]
        /\ \A n \in Inodes : blocks'[n] = IF n = Root THEN blocks[n] + 1 ELSE blocks[n]
    BY <1>0, <2>1, <2>2 DEF TypeOK
  <2>4. b # 0 /\ blocks[Root] + 1 <= LEVEL1_LIMIT /\ blocks[Root] \in Nat
        /\ 0 \in 0 .. L1_PTR - 1
    BY <1>0, <2>2, Sizes
  <2>5. \A n \in Inodes, k \in 0 .. L1_PTR - 1 :
          k < blocks'[n] /\ ~ (n = Root /\ k = 0) => l1'[n][k] # 0
    BY <1>0, <2>2, <2>3, <2>4 DEF Stored
  <2>6. \A r \in 0 .. L2_PTR - 1 : r * PTR_PER_BLOCK \in Nat
    BY Sizes
  <2>7. \A r \in 0 .. L2_PTR - 1 : ~ (LEVEL1_LIMIT + r * PTR_PER_BLOCK < blocks[Root] + 1)
    BY <2>4, <2>6, Sizes
  <2>8. /\ \A n \in Inodes, r \in 0 .. L2_PTR - 1 :
             LEVEL1_LIMIT + r * PTR_PER_BLOCK < blocks'[n] => l2'[n][r] # 0
        /\ \A n \in Inodes : LEVEL2_LIMIT < blocks'[n] => l3'[n] # 0
    BY <1>0, <2>2, <2>3, <2>4, <2>7, Sizes DEF Stored
  <2>9. l1'[Root][0] = 0 /\ blocks'[Root] >= 1
    BY <1>0, <2>2, <2>3, <2>4 DEF Stored
  <2> QED BY <2>2, <2>5, <2>8, <2>9 DEF Stored, Rooted
<1>5. CASE CreatAddEntry
  <2>1. /\ ino # Root /\ UNCHANGED <<l1, l2, l3>>
        /\ \A n \in Inodes : blocks'[n] = IF n = ino THEN 0 ELSE blocks[n]
        /\ pc' = "level1"
    <3>1. Level(0) = "level1"
      BY Sizes DEF Level
    <3> QED BY <1>0, <1>5, <3>1 DEF CreatAddEntry, Room, TypeOK, pointers
  <2>2. \A r \in 0 .. L2_PTR - 1 : r * PTR_PER_BLOCK \in Nat
    BY Sizes
  <2> QED BY <1>0, <2>1, <2>2, Sizes DEF Stored, Rooted
<1>6. CASE Level1Take
  <2>1. PICK b \in dbitmap : l1' = [l1 EXCEPT ![ino][blocks[ino]] = b]
    BY FreeBit, <1>6 DEF BInv, Level1Take
  <2>2. /\ blocks' = [blocks EXCEPT ![ino] = blocks[ino] + 1] /\ UNCHANGED <<l2, l3, pc>>
        /\ pc = "level1" /\ blocks[ino] \in 0 .. L1_PTR - 1 /\ ino # Root
    BY <1>0, <1>6, Known, Sizes DEF Level1Take, Room
  <2>3. /\ \A n \in Inodes, k \in 0 .. L1_PTR - 1 :
             l1'[n][k] = IF n = ino /\ k = blocks[ino] THEN b ELSE l1[n][k]
        /\ \A n \in Inodes : blocks'[n] = IF n = ino THEN blocks[n] + 1 ELSE blocks[n]
    BY <1>0, <2>1, <2>2 DEF TypeOK
  <2>4. b # 0 /\ blocks[ino] + 1 <= LEVEL1_LIMIT /\ blocks[ino] \in Nat
        /\ 0 \in 0 .. L1_PTR - 1
    BY <1>0, <2>2, Sizes
  <2>5. \A n \in Inodes, k \in 0 .. L1_PTR - 1 :
          k < blocks'[n] /\ ~ (n = Root /\ k = 0) => l1'[n][k] # 0
    BY <1>0, <2>2, <2>3, <2>4 DEF Stored
  <2>6. \A r \in 0 .. L2_PTR - 1 : r * PTR_PER_BLOCK \in Nat
    BY Sizes
  <2>7. \A r \in 0 .. L2_PTR - 1 : ~ (LEVEL1_LIMIT + r * PTR_PER_BLOCK < blocks[ino] + 1)
    BY <2>4, <2>6, Sizes
  <2>8. /\ \A n \in Inodes, r \in 0 .. L2_PTR - 1 :
             LEVEL1_LIMIT + r * PTR_PER_BLOCK < blocks'[n] => l2'[n][r] # 0
        /\ \A n \in Inodes : LEVEL2_LIMIT < blocks'[n] => l3'[n] # 0
    BY <1>0, <2>2, <2>3, <2>4, <2>7, Sizes DEF Stored
  <2>9. l1'[Root][0] = 0 /\ blocks'[Root] >= 1
    BY <1>0, <2>2, <2>3, <2>4 DEF Stored
  <2> QED BY <2>2, <2>5, <2>8, <2>9 DEF Stored, Rooted
<1>7. CASE FillPointer
  <2>1. /\ UNCHANGED <<l1, l2, l3, pc, ino, i>>
        /\ \A n \in Inodes : blocks'[n] = IF n = ino THEN blocks[n] + 1 ELSE blocks[n]
    BY <1>7, FillCounts DEF FillPointer, pointers, call
  <2>2. ino # Root /\ blocks[ino] \in Nat
    BY <1>0, <1>7, Known DEF FillPointer, Room
  <2>3. \A n \in Inodes, k \in 0 .. L1_PTR - 1 :
          k < blocks'[n] /\ ~ (n = Root /\ k = 0) => l1'[n][k] # 0
    BY <1>0, <1>7, <2>1, <2>2, FillRows DEF Stored
  <2>4. \A n \in Inodes, r \in 0 .. L2_PTR - 1 :
          LEVEL1_LIMIT + r * PTR_PER_BLOCK < blocks'[n] => l2'[n][r] # 0
    BY <1>0, <1>7, <2>1, FillRows DEF Stored
  <2>5. \A n \in Inodes : LEVEL2_LIMIT < blocks'[n] => l3'[n] # 0
    BY <1>0, <1>7, <2>1, FillRows DEF Stored, Rooted
  <2> QED BY <1>0, <2>1, <2>2, <2>3, <2>4, <2>5 DEF Stored, Rooted
<1>8. CASE Level1Exit \/ Level2Start \/ Level2Exit \/ Level2Flush
  BY <1>1, <1>8 DEF Level1Exit, Level2Start, Level2Exit, Level2Flush, Rooted, pointers
<1>9. CASE Level2OpenOld
  <2>1. /\ At(LEVEL1_LIMIT) /\ i \in 0 .. L2_PTR - 1 /\ j \in 1 .. PTR_PER_BLOCK
        /\ i * PTR_PER_BLOCK \in Nat
    BY <1>0, <1>9, Known, Sizes DEF Level2OpenOld, Position
  <2>2. LEVEL1_LIMIT + i * PTR_PER_BLOCK < blocks[ino]
    BY <2>1, Sizes DEF At
  <2>3. l2[ino][i] # 0
    BY <1>0, <2>1, <2>2 DEF Stored
  <2> QED BY <1>1, <1>9, <2>3 DEF Level2OpenOld, Rooted, pointers, call
<1>10. CASE Level2OpenNew
  <2>1. PICK b \in dbitmap : l2' = [l2 EXCEPT ![ino][i] = b]
    BY FreeBit, <1>10 DEF BInv, Level2OpenNew
  <2>2. UNCHANGED <<l1, l3, blocks, ino, i>> /\ pc' = "fill2" /\ i \in 0 .. L2_PTR - 1
    BY <1>0, <1>10, Sizes DEF Level2OpenNew, call
  <2>3. \A n \in Inodes, r \in 0 .. L2_PTR - 1 :
             l2'[n][r] = IF n = ino /\ r = i THEN b ELSE l2[n][r]
    BY <1>0, <2>1, <2>2 DEF TypeOK
  <2> QED BY <1>0, <2>2, <2>3 DEF Stored, Rooted
<1>11. CASE Level3NewRoot
  <2>1. PICK b \in dbitmap : l3' = [l3 EXCEPT ![ino] = b]
    BY FreeBit, <1>11 DEF BInv, Level3NewRoot
  <2>2. UNCHANGED <<l1, l2, blocks, ino>> /\ pc' = "loop3"
    BY <1>11 DEF Level3NewRoot, call
  <2>3. \A n \in Inodes : l3'[n] = IF n = ino THEN b ELSE l3[n]
    BY <1>0, <2>1 DEF TypeOK
  <2> QED BY <1>0, <2>2, <2>3 DEF Stored, Rooted
<1>12. CASE Level3OldRoot
  <2>1. LEVEL2_LIMIT < blocks[ino]
    <3>1. LEVEL2_LIMIT \in Nat /\ blocks[ino] \in Nat
      BY <1>0, Sizes
    <3>2. blocks[ino] >= LEVEL2_LIMIT /\ blocks[ino] # LEVEL2_LIMIT
      BY <1>0, <1>12 DEF Level3OldRoot, Position
    <3> QED BY ONLY <3>1, <3>2
  <2>2. /\ UNCHANGED <<l1, l2, l3, blocks>> /\ pc' = "loop3" /\ ino' = ino
    BY <1>12 DEF Level3OldRoot, pointers, call
  <2>3. l3'[ino'] # 0
    BY <1>0, <2>1, <2>2 DEF Stored
  <2> QED BY <1>1, <2>2, <2>3
<1>13. CASE Level3OpenNew \/ Level3OpenOld \/ Level3Flush \/ Level3Exit
  BY <1>0, <1>1, <1>13 DEF Level3OpenNew, Level3OpenOld, Level3Flush, Level3Exit, Stored,
     Rooted, pointers, call
<1>14. CASE Return
  <2>1. blocks' = blocks
    <3>1. op = "creat" => blocks[ino] = need
      BY <1>0, <1>14, Known DEF Return, Progress
    <3> QED BY <1>0, <1>14, <3>1 DEF Return, TypeOK
  <2> QED BY <1>1, <1>14, <2>1 DEF Return, EndCall, Rooted, pointers
<1> QED BY <1>2, <1>3, <1>4, <1>5, <1>6, <1>7, <1>8, <1>9, <1>10, <1>11, <1>12, <1>13, <1>14,
        <1>15
        DEF Next, Level1, Level2, Level3

LEMMA NextBasic == BInv /\ [Next]_vars => BInv'
<1> SUFFICES ASSUME BInv, [Next]_vars PROVE BInv'
  OBVIOUS
<1>1. IInv'
  BY NextInv DEF BInv
<1> QED BY <1>1, ProgressStep, FreshStep, StoredStep DEF BInv

\* vsfs_creat stores the count that the allocation has reached.
LEMMA ReturnKeepsCount ==
  ASSUME BInv, Return
  PROVE  blocks' = blocks
<1>1. op = "creat" => blocks[ino] = need
  BY Known DEF BInv, Return, Progress
<1> QED BY <1>1, Known DEF BInv, Return, TypeOK

\* Steps after which an inode counts no pointer it did not count before.
LEMMA DirectKept ==
  ASSUME DirectPointersExclusive, l1' = l1,
         \A n \in Inodes : DirectPointers(n)' \subseteq DirectPointers(n)
  PROVE  DirectPointersExclusive'
BY DEF DirectPointersExclusive

\* A new pointer at the end of the ones that inode n counts.
LEMMA DirectAdded ==
  ASSUME BInv, DirectPointersExclusive, NEW n \in Inodes, NEW b \in dbitmap,
         blocks[n] \in 0 .. L1_PTR - 1,
         l1' = [l1 EXCEPT ![n][blocks[n]] = b],
         blocks' = [blocks EXCEPT ![n] = blocks[n] + 1]
  PROVE  DirectPointersExclusive'
<1>1. /\ \A m \in Inodes, k \in 0 .. L1_PTR - 1 :
           l1'[m][k] = IF m = n /\ k = blocks[n] THEN b ELSE l1[m][k]
      /\ \A m \in Inodes : blocks'[m] = IF m = n THEN blocks[n] + 1 ELSE blocks[m]
      /\ \A m \in Inodes : blocks[m] \in Nat
  <2>1. /\ l1 \in [Inodes -> [0 .. L1_PTR - 1 -> Blocks]]
        /\ blocks \in [Inodes -> 0 .. LEVEL3_LIMIT] /\ LEVEL3_LIMIT \in Nat
    BY Known, Sizes DEF BInv, TypeOK
  <2>2. \A m \in Inodes : blocks[m] \in Nat
    BY <2>1
  <2>3. \A m \in Inodes : blocks'[m] = IF m = n THEN blocks[n] + 1 ELSE blocks[m]
    BY <2>1
  <2>4. PICK p \in 0 .. L1_PTR - 1 : p = blocks[n]
    OBVIOUS
  <2>5. l1' = [l1 EXCEPT ![n][p] = b]
    BY <2>4
  <2>6. \A m \in Inodes, k \in 0 .. L1_PTR - 1 :
          l1'[m][k] = IF m = n /\ k = p THEN b ELSE l1[m][k]
    BY <2>1, <2>5, Sizes
  <2> QED BY <2>2, <2>3, <2>4, <2>6
<1>2. \A m \in Inodes : DirectPointers(m)' =
        IF m = n THEN DirectPointers(m) \union {blocks[n]} ELSE DirectPointers(m)
  <2> SUFFICES ASSUME NEW m \in Inodes
               PROVE  DirectPointers(m)' =
                        IF m = n THEN DirectPointers(m) \union {blocks[n]}
                        ELSE DirectPointers(m)
    OBVIOUS
  <2>1. CASE m = n
    <3>1. \A k \in 0 .. L1_PTR - 1 : k < blocks'[m] <=> k < blocks[m] \/ k = blocks[n]
      BY <1>1, <2>1
    <3> QED BY <2>1, <3>1 DEF DirectPointers
  <2>2. CASE m # n
    BY <1>1, <2>2 DEF DirectPointers
  <2> QED BY <2>1, <2>2
<1>3. \A m \in Inodes : \A k \in DirectPointers(m) :
        k \in 0 .. L1_PTR - 1 /\ l1[m][k] # b /\ k < blocks[m]
  BY Known DEF BInv, NoPointerToFree, DirectPointers
<1> SUFFICES ASSUME NEW m \in Inodes, NEW o \in Inodes,
                    NEW k \in DirectPointers(m)', NEW h \in DirectPointers(o)',
                    l1'[m][k] = l1'[o][h]
             PROVE  m = o /\ k = h
  BY DEF DirectPointersExclusive
<1>4. k \in 0 .. L1_PTR - 1 /\ h \in 0 .. L1_PTR - 1
  BY DEF DirectPointers
<1>5. CASE k \in DirectPointers(m) /\ h \in DirectPointers(o)
  <2>1. l1'[m][k] = l1[m][k] /\ l1'[o][h] = l1[o][h]
    BY <1>1, <1>3, <1>4, <1>5
  <2> QED BY <1>5, <2>1 DEF DirectPointersExclusive
<1>6. CASE k \notin DirectPointers(m)
  <2>1. m = n /\ k = blocks[n] /\ l1'[m][k] = b
    BY <1>1, <1>2, <1>4, <1>6
  <2> QED BY <1>1, <1>2, <1>3, <1>4, <2>1
<1>7. CASE h \notin DirectPointers(o)
  <2>1. o = n /\ h = blocks[n] /\ l1'[o][h] = b
    BY <1>1, <1>2, <1>4, <1>7
  <2> QED BY <1>1, <1>2, <1>3, <1>4, <2>1
<1> QED BY <1>5, <1>6, <1>7

\* No two files share a block through their direct pointers, and no file has
\* one twice, at any moment of a call and after any death.
THEOREM DirectPointersAreExclusive == Spec => []DirectPointersExclusive
<1>1. Init => DirectPointersExclusive
  BY DEF Init, DirectPointersExclusive, DirectPointers
<1>2. BInv /\ DirectPointersExclusive /\ [Next]_vars => DirectPointersExclusive'
  <2> SUFFICES ASSUME BInv, DirectPointersExclusive, [Next]_vars
               PROVE  DirectPointersExclusive'
    OBVIOUS
  <2>1. TypeOK /\ Room /\ ino \in Inodes /\ Root \in Inodes /\ LEVEL1_LIMIT = L1_PTR
        /\ blocks[ino] \in Nat /\ blocks[Root] \in Nat /\ L1_PTR \in Nat
    BY Known, Sizes DEF BInv
  <2>2. CASE CreatGrowDir
    <3>1. blocks[Root] \in 0 .. L1_PTR - 1
      BY <2>1, <2>2 DEF CreatGrowDir, Room
    <3>2. blocks' = [blocks EXCEPT ![Root] = blocks[Root] + 1]
      BY <2>2 DEF CreatGrowDir
    <3> QED BY FreeBit, <2>1, <2>2, <3>1, <3>2, DirectAdded DEF BInv, CreatGrowDir
  <2>3. CASE Level1Take
    <3>1. blocks[ino] \in 0 .. L1_PTR - 1
      BY <2>1, <2>3 DEF Level1Take
    <3>2. blocks' = [blocks EXCEPT ![ino] = blocks[ino] + 1]
      BY <2>3 DEF Level1Take
    <3> QED BY FreeBit, <2>1, <2>3, <3>1, <3>2, DirectAdded DEF BInv, Level1Take
  <2>4. CASE CreatAddEntry
    <3>1. \A n \in Inodes : blocks'[n] = IF n = ino THEN 0 ELSE blocks[n]
      BY <2>1, <2>4 DEF CreatAddEntry, TypeOK
    <3> QED BY <2>1, <2>4, <3>1, DirectKept DEF CreatAddEntry, pointers, DirectPointers
  <2>5. CASE FillPointer
    <3>1. /\ \A k \in 0 .. L1_PTR - 1 : k < blocks[ino]
          /\ \A n \in Inodes : n # ino => blocks'[n] = blocks[n]
      BY <2>5, FillRows, FillCounts
    <3>2. \A n \in Inodes : DirectPointers(n)' \subseteq DirectPointers(n)
      BY <2>1, <3>1 DEF DirectPointers
    <3> QED BY <2>5, <3>2, DirectKept DEF FillPointer, pointers
  <2>6. ASSUME UNCHANGED <<l1, blocks>> PROVE DirectPointersExclusive'
    BY <2>6, DirectKept DEF DirectPointers
  <2>7. CASE Return
    BY <2>6, <2>7, ReturnKeepsCount DEF Return, pointers
  <2>8. CASE UNCHANGED vars
    BY <2>6, <2>8 DEF vars, pointers
  <2>9. CASE (\E k \in 0 .. MaxNeed : CreatTakeInode(k)) \/ Crash \/ CrashEntry
             \/ \E n \in files, k \in 0 .. MaxNeed : Grow(n, k)
    BY <2>6, <2>9 DEF CreatTakeInode, Grow, Crash, CrashEntry, pointers
  <2>11. CASE CrashTaking
    <3>1. \A n \in Inodes : /\ DirectPointers(n)' = DirectPointers(n)
                            /\ \A k \in DirectPointers(n) : l1'[n][k] = l1[n][k]
      BY <2>11, CrashStays DEF DirectPointers
    <3> QED BY <3>1 DEF DirectPointersExclusive
  <2>10. CASE Level1Exit \/ Level2 \/ Level3
    BY <2>6, <2>10 DEF Level1Exit, Level2, Level2Start, Level2OpenNew, Level2OpenOld,
       Level2Flush, Level2Exit, Level3, Level3NewRoot, Level3OldRoot, Level3OpenNew,
       Level3OpenOld, Level3Flush, Level3Exit, pointers
  <2> QED BY <2>2, <2>3, <2>4, <2>5, <2>7, <2>8, <2>9, <2>10, <2>11 DEF Next, Level1
<1> QED BY <1>1, <1>2, InitBasic, NextBasic, PTL DEF Spec

\* The place named by t, x and y holds v: an element of an inode, or one of a
\* pointer block on the device or in the buffer that will be written there.
Holds(t, x, y, v) ==
  \/ t = "l1" /\ x \in Inodes /\ y \in 0 .. L1_PTR - 1 /\ v = l1[x][y]
  \/ t = "l2" /\ x \in Inodes /\ y \in 0 .. L2_PTR - 1 /\ v = l2[x][y]
  \/ t = "l3" /\ x \in Inodes /\ y = 0 /\ v = l3[x]
  \/ /\ t = "disk" /\ x \in Blocks /\ y \in Cols
     /\ \/ v = disk[x][y]
        \/ Filling /\ x = Target /\ v = ptr_reg[y]
        \/ Rooted /\ x = l3[ino] /\ v = l3_ptr_reg[y]

Kinds == {"l1", "l2", "l3", "disk"}
Index == 0 .. L1_PTR + L2_PTR + PTR_PER_BLOCK

\* No two places hold the same block.
Unique ==
  \A v \in Blocks \ {0} : \A t \in Kinds, x \in Blocks, y \in Index :
    Holds(t, x, y, v) =>
      \A u \in Kinds, z \in Blocks, w \in Index :
        Holds(u, z, w, v) => t = u /\ x = z /\ y = w

\* The pointer blocks of a file that no death interrupted name a block for
\* every pointer the count covers, in memory or on the device.
Written ==
  /\ \A n \in Inodes \ torn, r \in 0 .. L2_PTR - 1, c \in Cols :
       LEVEL1_LIMIT + r * PTR_PER_BLOCK + c < blocks[n] => Mem[l2[n][r]][c] # 0
  /\ \A n \in Inodes \ torn, r \in Cols :
       LEVEL2_LIMIT + r * PTR_PER_BLOCK < blocks[n] => Mem[l3[n]][r] # 0
  /\ \A n \in Inodes \ torn, r \in Cols, c \in Cols :
       LEVEL2_LIMIT + r * PTR_PER_BLOCK + c < blocks[n] => Mem[Mem[l3[n]][r]][c] # 0
  /\ pc = "fill3" /\ ino \notin torn => l3_ptr_reg[i] # 0

\* What the file had before the call is in the buffers as it is on the device.
Faithful ==
  /\ pc = "fill2" => \A c \in Cols :
       LEVEL1_LIMIT + i * PTR_PER_BLOCK + c < SettledBlocks(ino) =>
         ptr_reg[c] = disk[Target][c]
  /\ pc = "fill3" => \A c \in Cols :
       LEVEL2_LIMIT + i * PTR_PER_BLOCK + c < SettledBlocks(ino) =>
         ptr_reg[c] = disk[Target][c]
  /\ Rooted => \A r \in Cols :
       LEVEL2_LIMIT + r * PTR_PER_BLOCK < SettledBlocks(ino) =>
         l3_ptr_reg[r] = disk[l3[ino]][r]

\* Block b belongs to a file or was given up for another level-3 root.
ReachedBy(n, b) ==
  \/ \E k \in 0 .. L1_PTR - 1 : k < blocks[n] /\ b = l1[n][k]
  \/ \E r \in 0 .. L2_PTR - 1 :
       LEVEL1_LIMIT + r * PTR_PER_BLOCK < blocks[n] /\ b = l2[n][r]
  \/ \E r \in 0 .. L2_PTR - 1, c \in Cols :
       LEVEL1_LIMIT + r * PTR_PER_BLOCK + c < blocks[n] /\ b = Mem[l2[n][r]][c]
  \/ LEVEL2_LIMIT <= blocks[n] /\ b = l3[n]
  \/ \E r \in Cols : LEVEL2_LIMIT + r * PTR_PER_BLOCK < blocks[n] /\ b = Mem[l3[n]][r]
  \/ \E r, c \in Cols :
       LEVEL2_LIMIT + r * PTR_PER_BLOCK + c < blocks[n] /\ b = Mem[Mem[l3[n]][r]][c]

Accounted ==
  /\ abandoned \intersect dbitmap = {}
  /\ torn = {} /\ misplaced = {} => \A b \in Blocks \ dbitmap :
       \/ b \in abandoned
       \/ \E n \in Inodes : ReachedBy(n, b)
       \/ Filling /\ b = Target

TreeInv == misplaced = {} => Unique /\ Written /\ Faithful

----------------------------------------------------------------------------
(* Every block has one place *)

\* What the buffers and the pointers of a running call are.
LEMMA Places ==
  ASSUME BInv
  PROVE  /\ \A n \in Inodes : n \in Blocks /\ l3[n] \in Blocks
         /\ \A n \in Inodes, k \in 0 .. L1_PTR - 1 : l1[n][k] \in Blocks
         /\ \A n \in Inodes, r \in 0 .. L2_PTR - 1 : l2[n][r] \in Blocks
         /\ \A b \in Blocks : disk[b] \in PointerBlock /\ Mem[b] \in PointerBlock
         /\ \A b \in Blocks, c \in Cols : disk[b][c] \in Blocks /\ Mem[b][c] \in Blocks
         /\ \A c \in Cols : ptr_reg[c] \in Blocks /\ l3_ptr_reg[c] \in Blocks
         /\ ptr_reg \in PointerBlock /\ l3_ptr_reg \in PointerBlock
         /\ pc = "fill2" => i \in 0 .. L2_PTR - 1 /\ Target = l2[ino][i]
         /\ pc = "fill3" => i \in Cols /\ Target = l3_ptr_reg[i]
         /\ Filling => Target \in Blocks
         /\ ino \in Inodes
<1>1. TypeOK /\ Position /\ i \in Nat /\ ino \in Inodes
      /\ L2_PTR \in Nat /\ PTR_PER_BLOCK \in Nat
  BY Known, Sizes DEF BInv
<1>2. \A n \in Inodes : n \in Blocks
  BY Sizes DEF Inodes, Blocks
<1>3. /\ \A b \in Blocks : disk[b] \in PointerBlock
      /\ ptr_reg \in PointerBlock /\ l3_ptr_reg \in PointerBlock
  BY <1>1 DEF TypeOK
<1>4. \A b \in Blocks : Mem[b] \in PointerBlock
  BY <1>3 DEF Mem
<1>5. \A reg \in PointerBlock, c \in Cols : reg[c] \in Blocks
  BY DEF PointerBlock, Cols
<1>6. /\ pc = "fill2" => i \in 0 .. L2_PTR - 1 /\ Target = l2[ino][i]
      /\ pc = "fill3" => i \in Cols /\ Target = l3_ptr_reg[i]
  BY <1>1 DEF Position, Target, Cols
<1>7. /\ \A n \in Inodes : l3[n] \in Blocks
      /\ \A n \in Inodes, k \in 0 .. L1_PTR - 1 : l1[n][k] \in Blocks
      /\ \A n \in Inodes, r \in 0 .. L2_PTR - 1 : l2[n][r] \in Blocks
  <2>1. /\ l1 \in [Inodes -> [0 .. L1_PTR - 1 -> Blocks]]
        /\ l2 \in [Inodes -> [0 .. L2_PTR - 1 -> Blocks]]
        /\ l3 \in [Inodes -> Blocks]
    BY <1>1 DEF TypeOK
  <2> QED BY <2>1
<1>8. /\ \A b \in Blocks, c \in Cols : disk[b][c] \in Blocks /\ Mem[b][c] \in Blocks
      /\ \A c \in Cols : ptr_reg[c] \in Blocks /\ l3_ptr_reg[c] \in Blocks
  BY <1>3, <1>4, <1>5
<1>9. Filling => Target \in Blocks
  BY <1>1, <1>6, <1>7, <1>8 DEF Filling
<1> QED BY <1>1, <1>2, <1>3, <1>4, <1>6, <1>7, <1>8, <1>9

LEMMA HeldBlocks ==
  ASSUME BInv
  PROVE  /\ \A n \in Inodes, k \in 0 .. L1_PTR - 1 : Holds("l1", n, k, l1[n][k])
         /\ \A n \in Inodes, r \in 0 .. L2_PTR - 1 : Holds("l2", n, r, l2[n][r])
         /\ \A n \in Inodes : Holds("l3", n, 0, l3[n])
         /\ \A b \in Blocks, c \in Cols : /\ Holds("disk", b, c, disk[b][c])
                                          /\ Holds("disk", b, c, Mem[b][c])
         /\ Filling => \A c \in Cols : Holds("disk", Target, c, ptr_reg[c])
         /\ Rooted => \A c \in Cols : Holds("disk", l3[ino], c, l3_ptr_reg[c])
         /\ pc = "fill2" => Holds("l2", ino, i, Target)
         /\ pc = "fill3" => Holds("disk", l3[ino], i, Target)
BY Places DEF Holds, Mem, Filling, Rooted

\* Unique without its bounds.
LEMMA Once ==
  ASSUME BInv, Unique, NEW t, NEW x, NEW y, NEW u, NEW z, NEW w, NEW v,
         Holds(t, x, y, v), Holds(u, z, w, v), v # 0
  PROVE  t = u /\ x = z /\ y = w
<1>1. ASSUME NEW a, NEW b, NEW c, Holds(a, b, c, v)
      PROVE  a \in Kinds /\ b \in Blocks /\ c \in Index /\ v \in Blocks
  BY <1>1, Places, Sizes DEF Holds, Kinds, Index, Cols, Rooted, Filling
<1> QED BY <1>1 DEF Unique

LEMMA HeldIsUsed ==
  ASSUME BInv, misplaced = {}, NEW t, NEW x, NEW y, NEW v, Holds(t, x, y, v)
  PROVE  v \notin dbitmap
BY Places, Known DEF BInv, Holds, NoPointerToFree, Cols, Filling, Rooted

\* A step that stores nothing new.
LEMMA UniqueKept ==
  ASSUME Unique, \A t, x, y, v : Holds(t, x, y, v)' => Holds(t, x, y, v)
  PROVE  Unique'
BY DEF Unique

\* A step that stores block b, which was free, at one place.
LEMMA UniqueAdded ==
  ASSUME BInv, misplaced = {}, Unique, NEW b \in dbitmap, NEW u, NEW z, NEW w,
         \A t, x, y, v : Holds(t, x, y, v)' =>
           Holds(t, x, y, v) \/ (t = u /\ x = z /\ y = w /\ v = b)
  PROVE  Unique'
<1>1. \A t, x, y, v : Holds(t, x, y, v) => v # b
  BY HeldIsUsed
<1> SUFFICES ASSUME NEW v \in Blocks \ {0}, NEW t, NEW x, NEW y, NEW s, NEW a, NEW c,
                    Holds(t, x, y, v)', Holds(s, a, c, v)'
             PROVE  t = s /\ x = a /\ y = c
  BY DEF Unique
<1>2. CASE v = b
  BY <1>1, <1>2
<1>3. CASE v # b
  BY <1>3, Once
<1> QED BY <1>2, <1>3

\* A level-3 root is none of its rows.
LEMMA RowApart ==
  ASSUME BInv, Unique, Rooted, NEW r \in Cols
  PROVE  l3_ptr_reg[r] # l3[ino]
<1>1. /\ Holds("disk", l3[ino], r, l3_ptr_reg[r]) /\ Holds("l3", ino, 0, l3[ino])
      /\ l3[ino] # 0
  BY HeldBlocks, Places DEF BInv, Stored
<1> QED BY <1>1, Once

LEMMA UniqueStep ==
  ASSUME BInv, Unique, misplaced = {}, misplaced' = {}, [Next]_vars
  PROVE  Unique'
<1> USE DEF Filling, Rooted, Target
<1>0. TypeOK
  BY Known DEF BInv
<1>1. CASE UNCHANGED vars \/ \E k \in 0 .. MaxNeed : CreatTakeInode(k)
  BY <1>1, UniqueKept DEF vars, CreatTakeInode, pointers, call, buffers, Holds
<1>2. CASE CreatGrowDir \/ Level1Take
  <2>1. PICK n \in Inodes, b \in dbitmap :
          l1' = [l1 EXCEPT ![n][blocks[n]] = b] /\ n \in {Root, ino}
    BY FreeBit, <1>2, Known, Sizes DEF BInv, CreatGrowDir, Level1Take
  <2>2. UNCHANGED <<l2, l3, disk, pc, ino, i, ptr_reg, l3_ptr_reg>>
    BY <1>2 DEF CreatGrowDir, Level1Take, call, buffers
  <2>3. \A m \in Inodes, k \in 0 .. L1_PTR - 1 :
          l1'[m][k] = IF m = n /\ k = blocks[n] THEN b ELSE l1[m][k]
    BY <1>0, <2>1 DEF TypeOK
  <2>4. ASSUME NEW t, NEW x, NEW y, NEW v, Holds(t, x, y, v)'
        PROVE  Holds(t, x, y, v) \/ (t = "l1" /\ x = n /\ y = blocks[n] /\ v = b)
    BY <2>2, <2>3, <2>4 DEF Holds
  <2> QED BY <2>4, UniqueAdded
<1>3. CASE CreatAddEntry
  <2>1. UNCHANGED <<l1, l2, l3, disk>> /\ pc = "dir" /\ pc' \in {"level1", "level2", "level3"}
    BY <1>3 DEF CreatAddEntry, WriteEntry, Level, pointers
  <2> QED BY <2>1, UniqueKept DEF Holds
<1>4. CASE \E n \in files, k \in 0 .. MaxNeed : Grow(n, k)
  BY <1>4, UniqueKept DEF Grow, Level, pointers, Holds
<1>5. CASE Level1Exit \/ Level2Start \/ Level2Exit
  BY <1>5, UniqueKept DEF Level1Exit, Level2Start, Level2Exit, pointers, Holds
<1>6. CASE Level2OpenNew
  <2>1. PICK b \in dbitmap : l2' = [l2 EXCEPT ![ino][i] = b] /\ ptr_reg' = disk[b]
    BY FreeBit, <1>6 DEF BInv, Level2OpenNew
  <2>2. /\ UNCHANGED <<l1, l3, disk, ino, i>> /\ pc = "loop2" /\ pc' = "fill2"
        /\ i \in 0 .. L2_PTR - 1 /\ ino \in Inodes
    BY <1>6, Known, Sizes DEF BInv, Level2OpenNew, call
  <2>3. \A m \in Inodes, r \in 0 .. L2_PTR - 1 :
          l2'[m][r] = IF m = ino /\ r = i THEN b ELSE l2[m][r]
    BY <1>0, <2>1, <2>2 DEF TypeOK
  <2>4. ASSUME NEW t, NEW x, NEW y, NEW v, Holds(t, x, y, v)'
        PROVE  Holds(t, x, y, v) \/ (t = "l2" /\ x = ino /\ y = i /\ v = b)
    BY <2>1, <2>2, <2>3, <2>4 DEF Holds
  <2> QED BY <2>4, UniqueAdded
<1>7. CASE Level2OpenOld
  <2>1. ASSUME NEW t, NEW x, NEW y, NEW v, Holds(t, x, y, v)'
        PROVE  Holds(t, x, y, v)
    BY <1>7, <2>1 DEF Level2OpenOld, pointers, call, Holds
  <2> QED BY <2>1, UniqueKept
<1>8. CASE FillPointer
  <2>1. PICK b \in dbitmap : ptr_reg' = [ptr_reg EXCEPT ![j] = b]
    BY FreeBit, <1>8 DEF BInv, FillPointer
  <2>2. UNCHANGED <<l1, l2, l3, disk, pc, ino, i, l3_ptr_reg>> /\ Filling
    BY <1>8 DEF FillPointer, pointers, call
  <2>3. \A c \in Cols : ptr_reg'[c] = IF c = j THEN b ELSE ptr_reg[c]
    BY <1>0, <2>1 DEF TypeOK, PointerBlock, Cols
  <2>4. ASSUME NEW t, NEW x, NEW y, NEW v, Holds(t, x, y, v)'
        PROVE  Holds(t, x, y, v) \/ (t = "disk" /\ x = Target /\ y = j /\ v = b)
    BY <2>2, <2>3, <2>4 DEF Holds
  <2> QED BY <2>4, UniqueAdded
<1>9. CASE Level2Flush
  <2>1. /\ disk' = [disk EXCEPT ![Target] = ptr_reg] /\ pc = "fill2" /\ pc' = "loop2"
        /\ UNCHANGED <<l1, l2, l3>>
    BY <1>9 DEF Level2Flush, pointers
  <2>2. \A b \in Blocks : disk'[b] = IF b = Target THEN ptr_reg ELSE disk[b]
    BY <1>0, <2>1 DEF TypeOK
  <2>3. ASSUME NEW t, NEW x, NEW y, NEW v, Holds(t, x, y, v)'
        PROVE  Holds(t, x, y, v)
    BY <2>1, <2>2, <2>3 DEF Holds
  <2> QED BY <2>3, UniqueKept
<1>10. CASE Level3NewRoot
  <2>1. PICK b \in dbitmap : l3' = [l3 EXCEPT ![ino] = b] /\ l3_ptr_reg' = disk[b]
    BY FreeBit, <1>10 DEF BInv, Level3NewRoot
  <2>2. UNCHANGED <<l1, l2, disk, ino>> /\ pc = "level3" /\ pc' = "loop3" /\ ino \in Inodes
    BY <1>10, Known DEF BInv, Level3NewRoot, call
  <2>3. \A m \in Inodes : l3'[m] = IF m = ino THEN b ELSE l3[m]
    BY <1>0, <2>1, <2>2 DEF TypeOK
  <2>4. ASSUME NEW t, NEW x, NEW y, NEW v, Holds(t, x, y, v)'
        PROVE  Holds(t, x, y, v) \/ (t = "l3" /\ x = ino /\ y = 0 /\ v = b)
    BY <2>1, <2>2, <2>3, <2>4 DEF Holds
  <2> QED BY <2>4, UniqueAdded
<1>11. CASE Level3OldRoot \/ Level3OpenOld
  <2>1. ASSUME NEW t, NEW x, NEW y, NEW v, Holds(t, x, y, v)'
        PROVE  Holds(t, x, y, v)
    BY <1>11, <2>1 DEF Level3OldRoot, Level3OpenOld, pointers, call, Holds
  <2> QED BY <2>1, UniqueKept
<1>12. CASE Level3OpenNew
  <2>1. PICK b \in dbitmap : /\ l3_ptr_reg' = [l3_ptr_reg EXCEPT ![i] = b]
                             /\ ptr_reg' = disk[b]
    BY FreeBit, <1>12 DEF BInv, Level3OpenNew
  <2>2. /\ UNCHANGED <<l1, l2, l3, disk, ino, i>> /\ pc = "loop3" /\ pc' = "fill3"
        /\ i \in Cols
    BY <1>12, Known, Sizes DEF BInv, Level3OpenNew, pointers, call, Cols
  <2>3. \A c \in Cols : l3_ptr_reg'[c] = IF c = i THEN b ELSE l3_ptr_reg[c]
    BY <1>0, <2>1 DEF TypeOK, PointerBlock, Cols
  <2>4. ASSUME NEW t, NEW x, NEW y, NEW v, Holds(t, x, y, v)'
        PROVE  Holds(t, x, y, v) \/ (t = "disk" /\ x = l3[ino] /\ y = i /\ v = b)
    BY <2>1, <2>2, <2>3, <2>4 DEF Holds
  <2> QED BY <2>4, UniqueAdded
<1>13. CASE Level3Flush
  <2>1. /\ disk' = [disk EXCEPT ![Target] = ptr_reg] /\ pc = "fill3" /\ pc' = "loop3"
        /\ UNCHANGED <<l1, l2, l3, ino, l3_ptr_reg>>
    BY <1>13 DEF Level3Flush, pointers, call, buffers
  <2>2. \A b \in Blocks : disk'[b] = IF b = Target THEN ptr_reg ELSE disk[b]
    BY <1>0, <2>1 DEF TypeOK
  <2>3. ASSUME NEW t, NEW x, NEW y, NEW v, Holds(t, x, y, v)'
        PROVE  Holds(t, x, y, v)
    BY <2>1, <2>2, <2>3 DEF Holds
  <2> QED BY <2>3, UniqueKept
<1>14. CASE Level3Exit
  <2>1. /\ disk' = [disk EXCEPT ![l3[ino]] = l3_ptr_reg] /\ pc = "loop3" /\ pc' = "fini"
        /\ UNCHANGED <<l1, l2, l3>>
    BY <1>14 DEF Level3Exit, pointers
  <2>2. \A b \in Blocks : disk'[b] = IF b = l3[ino] THEN l3_ptr_reg ELSE disk[b]
    BY <1>0, <2>1 DEF TypeOK
  <2>3. ASSUME NEW t, NEW x, NEW y, NEW v, Holds(t, x, y, v)'
        PROVE  Holds(t, x, y, v)
    BY <2>1, <2>2, <2>3 DEF Holds
  <2> QED BY <2>3, UniqueKept
<1>15. CASE Return \/ Crash
  BY <1>15, UniqueKept DEF Return, Crash, EndCall, pointers, Holds
<1>16. CASE CrashTaking
  <2>1. PICK b \in dbitmap : \A n \in Inodes : \A k \in 0 .. L1_PTR - 1 :
          l1'[n][k] = l1[n][k] \/ (n = Taker /\ k = blocks[n] /\ l1'[n][k] = b)
    BY <1>16, CrashTook DEF BInv
  <2>2. PICK o, p : o = Taker /\ p = blocks[o]
    OBVIOUS
  <2>3. UNCHANGED <<l2, l3, disk>> /\ pc' = "idle"
    BY <1>16, CrashStays
  <2>4. ASSUME NEW u, NEW x, NEW y, NEW v, Holds(u, x, y, v)'
        PROVE  Holds(u, x, y, v) \/ (u = "l1" /\ x = o /\ y = p /\ v = b)
    BY <2>1, <2>2, <2>3, <2>4 DEF Holds
  <2> QED BY <2>4, UniqueAdded
<1>17. CASE CrashEntry
  BY <1>17, EntryDeath, UniqueKept DEF Holds
<1> QED BY <1>1, <1>2, <1>3, <1>4, <1>5, <1>6, <1>7, <1>8, <1>9, <1>10, <1>11, <1>12,
        <1>13, <1>14, <1>15, <1>16, <1>17 DEF Next, Level1, Level2, Level3

----------------------------------------------------------------------------
(* The pointer blocks of a file, with the buffers in their place *)

\* Writing a buffer back, or reading one in, changes nothing that is seen
\* through the buffers.
LEMMA MemKept ==
  ASSUME BInv, Unique, misplaced' = {}, [Next]_vars,
         ~ FillPointer, ~ Level3OpenNew, Crash \/ CrashTaking => pc = "dir"
  PROVE  Mem' = Mem
<1> USE DEF Mem, Filling, Rooted, Target
<1>0. TypeOK /\ i \in Nat /\ ino \in Inodes /\ PTR_PER_BLOCK \in Nat
      /\ disk \in [Blocks -> PointerBlock]
  BY Known, Sizes DEF BInv, TypeOK
<1>1. CASE UNCHANGED vars \/ (\E k \in 0 .. MaxNeed : CreatTakeInode(k))
           \/ \E n \in files, k \in 0 .. MaxNeed : Grow(n, k)
  BY <1>1 DEF vars, CreatTakeInode, Grow, Level, pointers, call, buffers
<1>2. CASE CreatGrowDir \/ Level1
  BY <1>2 DEF CreatGrowDir, Level1, Level1Take, Level1Exit, pointers, call, buffers
<1>3. CASE CreatAddEntry
  BY <1>3 DEF CreatAddEntry, WriteEntry, Level
<1>4. CASE Level2Start \/ Level2Exit
  BY <1>4 DEF Level2Start, Level2Exit
<1>5. CASE Level2OpenNew
  <2>1. PICK x \in dbitmap : l2' = [l2 EXCEPT ![ino][i] = x] /\ ptr_reg' = disk[x]
    BY FreeBit, <1>5 DEF BInv, Level2OpenNew
  <2>2. i \in 0 .. L2_PTR - 1 /\ ino' = ino /\ i' = i /\ disk' = disk
        /\ pc = "loop2" /\ pc' = "fill2"
    BY <1>0, <1>5, Sizes DEF Level2OpenNew, call
  <2>3. l2'[ino][i] = x
    BY <1>0, <2>1, <2>2 DEF TypeOK
  <2> QED BY <2>1, <2>2, <2>3
<1>6. CASE Level2OpenOld
  BY <1>6 DEF Level2OpenOld, pointers, call
<1>7. CASE Level2Flush
  BY <1>0, <1>7 DEF Level2Flush
<1>8. CASE Level3NewRoot
  <2>1. PICK x \in dbitmap : l3' = [l3 EXCEPT ![ino] = x] /\ l3_ptr_reg' = disk[x]
    BY FreeBit, <1>8 DEF BInv, Level3NewRoot
  <2>2. l3'[ino] = x
    BY <1>0, <2>1 DEF TypeOK
  <2> QED BY <1>8, <2>1, <2>2 DEF Level3NewRoot, call
<1>9. CASE Level3OldRoot
  BY <1>9 DEF Level3OldRoot, pointers, call
<1>10. CASE Level3OpenOld
  <2>1. i \in Cols /\ pc = "loop3" /\ pc' = "fill3" /\ ptr_reg' = disk[l3_ptr_reg[i]]
        /\ UNCHANGED <<l2, l3, disk, ino, i, l3_ptr_reg>>
    BY <1>0, <1>10 DEF Level3OpenOld, Cols, pointers, call
  <2>2. l3_ptr_reg[i] # l3[ino]
    BY <2>1, RowApart
  <2> QED BY <2>1, <2>2
<1>11. CASE Level3Flush
  <2>1. i \in Cols /\ pc = "fill3" /\ pc' = "loop3"
        /\ disk' = [disk EXCEPT ![l3_ptr_reg[i]] = ptr_reg]
        /\ UNCHANGED <<l2, l3, ino, l3_ptr_reg, ptr_reg>>
    BY <1>11, Places DEF Level3Flush, pointers, call, buffers
  <2>2. l3_ptr_reg[i] # l3[ino]
    BY <2>1, RowApart
  <2> QED BY <1>0, <2>1, <2>2
<1>12. CASE Level3Exit
  BY <1>0, <1>12 DEF Level3Exit
<1>13. CASE Return \/ Crash \/ CrashTaking
  BY <1>13 DEF Return, Crash, CrashTaking, EndCall
<1>14. CASE CrashEntry
  BY <1>14, EntryDeath
<1> QED BY <1>1, <1>2, <1>3, <1>4, <1>5, <1>6, <1>7, <1>8, <1>9, <1>10, <1>11, <1>12,
        <1>13, <1>14 DEF Next, Level2, Level3

\* A position below the new count, which is none beyond a level the file does not
\* leave, is below the old one.
LEMMA CountsBelow ==
  ASSUME NEW first \in Nat, NEW x \in Nat, NEW c \in Nat, NEW p \in Nat, NEW q \in Nat,
         NEW l \in Nat, l <= first, q <= p \/ q <= l, first + x + c < q
  PROVE  first + x + c < p /\ first + x < q /\ first < q
OBVIOUS

\* Steps that keep what the counted rows of every file hold.
LEMMA WrittenKept ==
  ASSUME BInv, Written, torn \subseteq torn',
         Mem' = Mem,
         \A n \in Inodes : blocks'[n] \in Nat /\ (blocks'[n] <= blocks[n] \/ blocks'[n] <= LEVEL1_LIMIT),
         \A n \in Inodes, r \in 0 .. L2_PTR - 1 :
           LEVEL1_LIMIT + r * PTR_PER_BLOCK < blocks'[n] => l2'[n][r] = l2[n][r],
         \A n \in Inodes : LEVEL2_LIMIT < blocks'[n] => l3'[n] = l3[n],
         pc' = "fill3" /\ ino' \notin torn' => l3_ptr_reg'[i'] # 0
  PROVE  Written'
<1>1. \A r \in Nat : r * PTR_PER_BLOCK \in Nat
  BY Sizes
<1>2. /\ Cols \subseteq Nat /\ 0 .. L2_PTR - 1 \subseteq Nat /\ LEVEL1_LIMIT \in Nat
      /\ LEVEL2_LIMIT \in Nat /\ LEVEL1_LIMIT < LEVEL2_LIMIT
      /\ \A n \in Inodes : blocks[n] \in Nat
  BY Sizes, Known DEF BInv, Cols, TypeOK
<1>3. \A n \in Inodes, r \in 0 .. L2_PTR - 1, c \in Cols :
        LEVEL1_LIMIT + r * PTR_PER_BLOCK + c < blocks'[n] =>
          /\ LEVEL1_LIMIT + r * PTR_PER_BLOCK + c < blocks[n]
          /\ LEVEL1_LIMIT + r * PTR_PER_BLOCK < blocks'[n]
  <2> SUFFICES ASSUME NEW n \in Inodes, NEW r \in 0 .. L2_PTR - 1, NEW c \in Cols,
                      LEVEL1_LIMIT + r * PTR_PER_BLOCK + c < blocks'[n]
               PROVE  /\ LEVEL1_LIMIT + r * PTR_PER_BLOCK + c < blocks[n]
                      /\ LEVEL1_LIMIT + r * PTR_PER_BLOCK < blocks'[n]
    OBVIOUS
  <2>1. PICK x \in Nat : x = r * PTR_PER_BLOCK
    BY <1>1, <1>2
  <2>2. PICK p \in Nat, q \in Nat :
          p = blocks[n] /\ q = blocks'[n] /\ (q <= p \/ q <= LEVEL1_LIMIT)
    BY <1>2
  <2>3. c \in Nat
    BY <1>2
  <2>4. LEVEL1_LIMIT + x + c < q
    BY ONLY <2>1, <2>2, LEVEL1_LIMIT + r * PTR_PER_BLOCK + c < blocks'[n]
  <2>5. LEVEL1_LIMIT + x + c < p /\ LEVEL1_LIMIT + x < q /\ LEVEL1_LIMIT < q
    BY ONLY <1>2, <2>2, <2>3, <2>4, x \in Nat, p \in Nat, q \in Nat, CountsBelow
  <2> QED BY ONLY <2>1, <2>2, <2>5
<1>4. \A n \in Inodes, r \in Cols :
        LEVEL2_LIMIT + r * PTR_PER_BLOCK < blocks'[n] =>
          /\ LEVEL2_LIMIT + r * PTR_PER_BLOCK < blocks[n]
          /\ LEVEL2_LIMIT < blocks'[n]
  <2> SUFFICES ASSUME NEW n \in Inodes, NEW r \in Cols,
                      LEVEL2_LIMIT + r * PTR_PER_BLOCK < blocks'[n]
               PROVE  LEVEL2_LIMIT + r * PTR_PER_BLOCK < blocks[n] /\ LEVEL2_LIMIT < blocks'[n]
    OBVIOUS
  <2>1. PICK x \in Nat : x = r * PTR_PER_BLOCK
    BY <1>1, <1>2
  <2>2. PICK p \in Nat, q \in Nat :
          p = blocks[n] /\ q = blocks'[n] /\ (q <= p \/ q <= LEVEL1_LIMIT)
    BY <1>2
  <2> QED BY ONLY <1>2, <2>1, <2>2, LEVEL2_LIMIT + r * PTR_PER_BLOCK < blocks'[n]
<1>5. \A n \in Inodes, r \in Cols, c \in Cols :
        LEVEL2_LIMIT + r * PTR_PER_BLOCK + c < blocks'[n] =>
          /\ LEVEL2_LIMIT + r * PTR_PER_BLOCK + c < blocks[n]
          /\ LEVEL2_LIMIT < blocks'[n]
  <2> SUFFICES ASSUME NEW n \in Inodes, NEW r \in Cols, NEW c \in Cols,
                      LEVEL2_LIMIT + r * PTR_PER_BLOCK + c < blocks'[n]
               PROVE  LEVEL2_LIMIT + r * PTR_PER_BLOCK + c < blocks[n] /\ LEVEL2_LIMIT < blocks'[n]
    OBVIOUS
  <2>1. PICK x \in Nat : x = r * PTR_PER_BLOCK
    BY <1>1, <1>2
  <2>2. PICK p \in Nat, q \in Nat :
          p = blocks[n] /\ q = blocks'[n] /\ (q <= p \/ q <= LEVEL1_LIMIT)
    BY <1>2
  <2>3. c \in Nat
    BY <1>2
  <2>4. LEVEL2_LIMIT + x + c < q
    BY ONLY <2>1, <2>2, LEVEL2_LIMIT + r * PTR_PER_BLOCK + c < blocks'[n]
  <2>5. LEVEL2_LIMIT + x + c < p /\ LEVEL2_LIMIT + x < q /\ LEVEL2_LIMIT < q
    BY ONLY <1>2, <2>2, <2>3, <2>4, x \in Nat, p \in Nat, q \in Nat, CountsBelow
  <2> QED BY ONLY <2>1, <2>2, <2>5
<1>6. \A n \in Inodes \ torn', r \in 0 .. L2_PTR - 1, c \in Cols :
        LEVEL1_LIMIT + r * PTR_PER_BLOCK + c < blocks'[n] => Mem'[l2'[n][r]][c] # 0
  BY <1>3 DEF Written
<1>7. /\ \A n \in Inodes \ torn', r \in Cols :
           LEVEL2_LIMIT + r * PTR_PER_BLOCK < blocks'[n] => Mem'[l3'[n]][r] # 0
      /\ \A n \in Inodes \ torn', r \in Cols, c \in Cols :
           LEVEL2_LIMIT + r * PTR_PER_BLOCK + c < blocks'[n] =>
             Mem'[Mem'[l3'[n]][r]][c] # 0
  BY <1>4, <1>5 DEF Written
<1> QED BY <1>6, <1>7 DEF Written, Cols

\* The row that is being filled is no level-3 root.
LEMMA TargetApart ==
  ASSUME BInv, Unique, Filling, NEW n \in Inodes, l3[n] # 0
  PROVE  Target # l3[n]
<1>1. Holds("l3", n, 0, l3[n])
  BY HeldBlocks
<1>2. Holds("l2", ino, i, Target) \/ Holds("disk", l3[ino], i, Target)
  BY HeldBlocks DEF Filling
<1> QED BY <1>1, <1>2, Once

\* Nothing that the running call writes to belongs to another file.
LEMMA ForeignNodes ==
  ASSUME BInv, Unique, NEW n \in Inodes, n # ino \/ ~ (Filling \/ Rooted)
  PROVE  /\ \A r \in 0 .. L2_PTR - 1 : l2[n][r] # 0 =>
              Mem[l2[n][r]] = disk[l2[n][r]] /\ (Filling => l2[n][r] # Target)
              /\ (Rooted => l2[n][r] # l3[ino])
         /\ l3[n] # 0 =>
              /\ Mem[l3[n]] = disk[l3[n]]
              /\ Filling => l3[n] # Target
              /\ Rooted => l3[n] # l3[ino]
              /\ \A r \in Cols : disk[l3[n]][r] # 0 =>
                   /\ Mem[disk[l3[n]][r]] = disk[disk[l3[n]][r]]
                   /\ Filling => disk[l3[n]][r] # Target
                   /\ Rooted => disk[l3[n]][r] # l3[ino]
<1>1. Rooted => Holds("l3", ino, 0, l3[ino])
  BY HeldBlocks, Places
<1>2. Filling => Holds("l2", ino, i, Target) \/ (Rooted /\ Holds("disk", l3[ino], i, Target))
  BY HeldBlocks DEF Filling, Rooted
<1>3. ASSUME NEW r \in 0 .. L2_PTR - 1, l2[n][r] # 0
      PROVE  /\ Mem[l2[n][r]] = disk[l2[n][r]]
             /\ Filling => l2[n][r] # Target
             /\ Rooted => l2[n][r] # l3[ino]
  <2>1. Holds("l2", n, r, l2[n][r]) /\ l2[n][r] \in Blocks
    BY HeldBlocks, Places
  <2>2. /\ Filling => l2[n][r] # Target
        /\ Rooted => l2[n][r] # l3[ino]
    BY <1>1, <1>2, <1>3, <2>1, Once
  <2> QED BY <2>1, <2>2 DEF Mem
<1>4. ASSUME l3[n] # 0
      PROVE  /\ Mem[l3[n]] = disk[l3[n]]
             /\ Filling => l3[n] # Target
             /\ Rooted => l3[n] # l3[ino]
  <2>1. Holds("l3", n, 0, l3[n]) /\ l3[n] \in Blocks
    BY HeldBlocks, Places
  <2>2. /\ Filling => l3[n] # Target
        /\ Rooted => l3[n] # l3[ino]
    BY <1>1, <1>2, <1>4, <2>1, Once
  <2> QED BY <2>1, <2>2 DEF Mem
<1>5. ASSUME l3[n] # 0, NEW r \in Cols, disk[l3[n]][r] # 0
      PROVE  /\ Mem[disk[l3[n]][r]] = disk[disk[l3[n]][r]]
             /\ Filling => disk[l3[n]][r] # Target
             /\ Rooted => disk[l3[n]][r] # l3[ino]
  <2>1. Holds("disk", l3[n], r, disk[l3[n]][r]) /\ disk[l3[n]][r] \in Blocks
    BY HeldBlocks, Places
  <2>2. /\ Filling => disk[l3[n]][r] # Target
        /\ Rooted => disk[l3[n]][r] # l3[ino]
    BY <1>1, <1>2, <1>4, <1>5, <2>1, Once
  <2> QED BY <2>1, <2>2 DEF Mem
<1> QED BY <1>3, <1>4, <1>5

\* A pointer added to a pointer block, as it is seen through the buffers.
LEMMA MemFill ==
  ASSUME BInv, Unique, FillPointer
  PROVE  \E b \in dbitmap : /\ b # 0 /\ get_free_dblock(b)
           /\ \A x \in Blocks, c \in Cols :
                Mem'[x][c] = IF x = Target /\ c = j THEN b ELSE Mem[x][c]
<1>1. PICK b \in dbitmap : get_free_dblock(b) /\ ptr_reg' = [ptr_reg EXCEPT ![j] = b]
  BY FreeBit DEF BInv, FillPointer
<1>2. UNCHANGED <<l2, l3, disk, pc, ino, i, l3_ptr_reg>> /\ Filling
  BY DEF FillPointer, Filling, pointers, call
<1>3. \A c \in Cols : ptr_reg'[c] = IF c = j THEN b ELSE ptr_reg[c]
  BY <1>1, Places DEF PointerBlock, Cols
<1>4. b # 0
  BY <1>1 DEF BInv, IInv
<1>5. \A x \in Blocks, c \in Cols :
        Mem'[x][c] = IF x = Target /\ c = j THEN b ELSE Mem[x][c]
  BY <1>2, <1>3 DEF Mem, Filling, Rooted, Target
<1> QED BY <1>1, <1>4, <1>5

LEMMA MemOpen ==
  ASSUME BInv, Unique, misplaced = {}, Level3OpenNew
  PROVE  \E b \in dbitmap : /\ b # 0 /\ get_free_dblock(b)
           /\ l3_ptr_reg'[i] = b /\ i \in Cols
           /\ \A x \in Blocks, c \in Cols :
                Mem'[x][c] = IF x = l3[ino] /\ c = i THEN b ELSE Mem[x][c]
<1>1. PICK b \in dbitmap : /\ get_free_dblock(b) /\ ptr_reg' = disk[b]
                           /\ l3_ptr_reg' = [l3_ptr_reg EXCEPT ![i] = b]
  BY FreeBit DEF BInv, Level3OpenNew
<1>2. /\ UNCHANGED <<l2, l3, disk, ino, i>> /\ pc = "loop3" /\ pc' = "fill3" /\ i \in Cols
  BY Known, Sizes DEF BInv, Level3OpenNew, pointers, call, Cols
<1>3. \A c \in Cols : l3_ptr_reg'[c] = IF c = i THEN b ELSE l3_ptr_reg[c]
  BY <1>1, Places DEF PointerBlock, Cols
<1>4. b # 0 /\ b # l3[ino]
  BY <1>1, Known DEF BInv, IInv, NoPointerToFree
<1>5. \A x \in Blocks, c \in Cols :
        Mem'[x][c] = IF x = l3[ino] /\ c = i THEN b ELSE Mem[x][c]
  BY <1>1, <1>2, <1>3, <1>4 DEF Mem, Filling, Rooted, Target
<1> QED BY <1>1, <1>2, <1>3, <1>4, <1>5

\* The next pointer of a level is the one after those the count covers.
LEMMA NextPlace ==
  ASSUME BInv, NEW first \in Nat, At(first), j < PTR_PER_BLOCK
  PROVE  /\ i * PTR_PER_BLOCK \in Nat
         /\ \A r \in Nat : first + r * PTR_PER_BLOCK < blocks[ino] => r <= i
         /\ \A r \in Nat : first + r * PTR_PER_BLOCK < blocks[ino] + 1 =>
              r < i \/ (r = i /\ (first + r * PTR_PER_BLOCK < blocks[ino] \/ j = 0))
         /\ \A r \in Nat, c \in Cols : first + r * PTR_PER_BLOCK + c < blocks[ino] + 1 =>
              first + r * PTR_PER_BLOCK + c < blocks[ino] \/ (r = i /\ c = j)
         /\ \A r \in Nat, c \in Cols : first + r * PTR_PER_BLOCK + c < blocks[ino] =>
              r < i \/ (r = i /\ c < j)
         /\ j = 0 => ~ (first + i * PTR_PER_BLOCK < blocks[ino])
         /\ j > 0 => first + i * PTR_PER_BLOCK < blocks[ino]
         /\ \A r \in Nat : r < i => first + r * PTR_PER_BLOCK < blocks[ino]
<1>1. /\ i \in Nat /\ j \in Nat /\ PTR_PER_BLOCK \in Nat /\ 0 \in Cols
      /\ blocks[ino] = first + i * PTR_PER_BLOCK + j /\ i * PTR_PER_BLOCK \in Nat
      /\ \A r \in Nat : r * PTR_PER_BLOCK \in Nat
  BY Known, Sizes DEF BInv, At, Cols
<1>2. \A r \in Nat, c \in Cols :
        /\ first + r * PTR_PER_BLOCK + c < blocks[ino] => r < i \/ (r = i /\ c < j)
        /\ first + r * PTR_PER_BLOCK + c < blocks[ino] + 1 => r < i \/ (r = i /\ c <= j)
        /\ r < i \/ (r = i /\ c < j) => first + r * PTR_PER_BLOCK + c < blocks[ino]
  BY Placed
<1>3. \A r \in Nat :
        /\ first + r * PTR_PER_BLOCK + 0 < blocks[ino] => r < i \/ (r = i /\ 0 < j)
        /\ first + r * PTR_PER_BLOCK + 0 < blocks[ino] + 1 => r < i \/ (r = i /\ 0 <= j)
        /\ r < i \/ (r = i /\ 0 < j) => first + r * PTR_PER_BLOCK + 0 < blocks[ino]
  BY <1>1, <1>2
<1>4. \A r \in Nat : first + r * PTR_PER_BLOCK + 0 = first + r * PTR_PER_BLOCK
  BY <1>1
<1>5. \A r \in Nat :
        /\ first + r * PTR_PER_BLOCK < blocks[ino] => r < i \/ (r = i /\ 0 < j)
        /\ first + r * PTR_PER_BLOCK < blocks[ino] + 1 => r < i \/ (r = i /\ 0 <= j)
        /\ r < i \/ (r = i /\ 0 < j) => first + r * PTR_PER_BLOCK < blocks[ino]
  BY <1>3, <1>4
<1>6. \A r \in Nat, c \in Cols : first + r * PTR_PER_BLOCK + c < blocks[ino] + 1 =>
              first + r * PTR_PER_BLOCK + c < blocks[ino] \/ (r = i /\ c = j)
  <2> SUFFICES ASSUME NEW r \in Nat, NEW c \in Cols,
                      first + r * PTR_PER_BLOCK + c < blocks[ino] + 1
               PROVE  first + r * PTR_PER_BLOCK + c < blocks[ino] \/ (r = i /\ c = j)
    OBVIOUS
  <2>1. r < i \/ (r = i /\ c <= j)
    BY <1>2
  <2>2. r < i \/ (r = i /\ c < j) \/ (r = i /\ c = j)
    BY <1>1, <2>1 DEF Cols
  <2> QED BY <1>2, <2>2
<1>7. \A r \in Nat : /\ first + r * PTR_PER_BLOCK < blocks[ino] => r <= i
                     /\ first + r * PTR_PER_BLOCK < blocks[ino] + 1 =>
                          r < i \/ (r = i /\ (first + r * PTR_PER_BLOCK < blocks[ino] \/ j = 0))
  BY <1>1, <1>5
<1>8. /\ j = 0 => ~ (first + i * PTR_PER_BLOCK < blocks[ino])
      /\ j > 0 => first + i * PTR_PER_BLOCK < blocks[ino]
  BY <1>1
<1> QED BY <1>1, <1>2, <1>5, <1>6, <1>7, <1>8

LEMMA WrittenFill ==
  ASSUME BInv, Unique, Written, FillPointer
  PROVE  Written'
<1>1. PICK b \in dbitmap : /\ b # 0
        /\ \A x \in Blocks, c \in Cols :
             Mem'[x][c] = IF x = Target /\ c = j THEN b ELSE Mem[x][c]
  BY FreeBit, MemFill
<1>2. /\ UNCHANGED <<l2, l3, pc, ino, i, torn, l3_ptr_reg>> /\ Filling
      /\ \A n \in Inodes : blocks'[n] = IF n = ino THEN blocks[n] + 1 ELSE blocks[n]
      /\ j < PTR_PER_BLOCK /\ ino \in Inodes /\ i \in Nat /\ j \in Cols
  BY FillCounts, Known DEF BInv, FillPointer, Filling, pointers, call, history
<1>3. \A r \in Nat : r * PTR_PER_BLOCK \in Nat
  BY Sizes
<1>4. /\ Cols \subseteq Nat /\ 0 .. L2_PTR - 1 \subseteq Nat
      /\ LEVEL1_LIMIT \in Nat /\ LEVEL2_LIMIT \in Nat /\ LEVEL1_LIMIT < LEVEL2_LIMIT
      /\ \A n \in Inodes : blocks[n] \in Nat
  BY Sizes, Known DEF BInv, TypeOK, Cols
<1>5. \A x \in Blocks, c \in Cols : Mem[x][c] # 0 => Mem'[x][c] # 0
  BY <1>1
<1>6. ASSUME NEW n \in Inodes \ torn, NEW r \in 0 .. L2_PTR - 1, NEW c \in Cols,
             LEVEL1_LIMIT + r * PTR_PER_BLOCK + c < blocks'[n]
      PROVE  Mem'[l2[n][r]][c] # 0
  <2>1. CASE LEVEL1_LIMIT + r * PTR_PER_BLOCK + c < blocks[n]
    BY <1>5, <2>1, Places DEF Written
  <2>2. CASE ~ (LEVEL1_LIMIT + r * PTR_PER_BLOCK + c < blocks[n])
    <3>1. n = ino /\ LEVEL1_LIMIT + r * PTR_PER_BLOCK + c < blocks[ino] + 1
      BY <1>2, <1>6, <2>2
    <3>2. pc # "fill3"
      BY <1>3, <1>4, <2>2, <3>1, FillCounts, RowsOfLevel2
    <3>3. pc = "fill2" /\ At(LEVEL1_LIMIT) /\ Target = l2[ino][i] /\ Target \in Blocks
      BY <1>2, <3>2, FillCounts, Places DEF Filling
    <3>4. r = i /\ c = j
      BY <1>2, <1>4, <2>2, <3>1, <3>3, NextPlace
    <3> QED BY <1>1, <1>2, <3>1, <3>3, <3>4
  <2> QED BY <2>1, <2>2
<1>7. ASSUME NEW n \in Inodes, LEVEL2_LIMIT < blocks'[n]
      PROVE  /\ l3[n] # 0 /\ \A r \in Cols : Mem'[l3[n]][r] = Mem[l3[n]][r]
             /\ n = ino => pc = "fill3" /\ At(LEVEL2_LIMIT)
  <2>1. n = ino => pc = "fill3" /\ At(LEVEL2_LIMIT)
    BY <1>2, <1>4, <1>7, FillCounts DEF Filling
  <2>2. l3[n] # 0
    BY <1>2, <1>7, <2>1 DEF BInv, Stored, Rooted
  <2> QED BY <1>1, <1>2, <2>1, <2>2, TargetApart, Places
<1>8. ASSUME NEW n \in Inodes \ torn, NEW r \in Cols,
             LEVEL2_LIMIT + r * PTR_PER_BLOCK < blocks'[n]
      PROVE  Mem'[l3[n]][r] # 0 /\ Mem'[l3[n]][r] = Mem[l3[n]][r]
  <2>1. Mem'[l3[n]][r] = Mem[l3[n]][r]
    BY <1>2, <1>3, <1>4, <1>7, <1>8
  <2>2. CASE LEVEL2_LIMIT + r * PTR_PER_BLOCK < blocks[n]
    BY <2>1, <2>2 DEF Written
  <2>3. CASE ~ (LEVEL2_LIMIT + r * PTR_PER_BLOCK < blocks[n])
    <3>1. n = ino /\ LEVEL2_LIMIT + r * PTR_PER_BLOCK < blocks[ino] + 1
      BY <1>2, <1>8, <2>3
    <3>2. pc = "fill3" /\ At(LEVEL2_LIMIT)
      BY <1>2, <1>3, <1>4, <1>7, <1>8, <3>1
    <3>3. r = i
      BY <1>2, <1>4, <2>3, <3>1, <3>2, NextPlace
    <3>4. Mem[l3[ino]][i] = l3_ptr_reg[i] /\ l3_ptr_reg[i] # 0
      <4>1. Target = l3_ptr_reg[i] /\ Rooted /\ l3[ino] \in Blocks
        BY <3>2, Places DEF Rooted
      <4>2. Target # l3[ino]
        BY <3>2, <4>1, RowApart, Places
      <4> QED BY <3>1, <3>2, <4>1, <4>2 DEF Mem, Written
    <3> QED BY <2>1, <3>1, <3>3, <3>4
  <2> QED BY <2>1, <2>2, <2>3
<1>9. ASSUME NEW n \in Inodes \ torn, NEW r \in Cols, NEW c \in Cols,
             LEVEL2_LIMIT + r * PTR_PER_BLOCK + c < blocks'[n]
      PROVE  Mem'[Mem'[l3[n]][r]][c] # 0
  <2>1. LEVEL2_LIMIT + r * PTR_PER_BLOCK < blocks'[n]
    <3>1. r * PTR_PER_BLOCK \in Nat /\ c \in Nat /\ blocks'[n] \in Nat
      BY <1>2, <1>3, <1>4
    <3> QED BY <1>4, <1>9, <3>1
  <2>2. Mem'[l3[n]][r] = Mem[l3[n]][r] /\ Mem[l3[n]][r] \in Blocks
    BY <1>8, <2>1, Places
  <2>3. CASE LEVEL2_LIMIT + r * PTR_PER_BLOCK + c < blocks[n]
    BY <1>5, <2>2, <2>3 DEF Written
  <2>4. CASE ~ (LEVEL2_LIMIT + r * PTR_PER_BLOCK + c < blocks[n])
    <3>1. n = ino /\ LEVEL2_LIMIT + r * PTR_PER_BLOCK + c < blocks[ino] + 1
      BY <1>2, <1>9, <2>4
    <3>2. pc = "fill3" /\ At(LEVEL2_LIMIT)
      BY <1>2, <1>3, <1>4, <1>7, <2>1, <3>1
    <3>3. r = i /\ c = j
      BY <1>2, <1>4, <2>4, <3>1, <3>2, NextPlace
    <3>4. Mem[l3[ino]][i] = Target /\ Target \in Blocks
      <4>1. Target = l3_ptr_reg[i] /\ Rooted /\ l3[ino] \in Blocks /\ Target \in Blocks
        BY <1>2, <3>2, Places DEF Rooted
      <4>2. Target # l3[ino]
        BY <3>2, <4>1, RowApart, Places
      <4> QED BY <3>2, <4>1, <4>2 DEF Mem
    <3> QED BY <1>1, <1>2, <2>2, <3>1, <3>3, <3>4
  <2> QED BY <2>3, <2>4
<1>10. pc' = "fill3" /\ ino' \notin torn' => l3_ptr_reg'[i'] # 0
  BY <1>2 DEF Written
<1> QED BY <1>2, <1>6, <1>8, <1>9, <1>10 DEF Written, Cols

LEMMA WrittenOpen ==
  ASSUME BInv, Unique, Written, misplaced = {}, Level3OpenNew
  PROVE  Written'
<1>1. PICK b \in dbitmap : /\ b # 0 /\ l3_ptr_reg'[i] = b /\ i \in Cols
        /\ \A x \in Blocks, c \in Cols :
             Mem'[x][c] = IF x = l3[ino] /\ c = i THEN b ELSE Mem[x][c]
  BY FreeBit, MemOpen
<1>2. /\ UNCHANGED <<l2, l3, blocks, ino, i, torn>> /\ Rooted /\ ino \in Inodes
      /\ At(LEVEL2_LIMIT) /\ j = 0
  BY Known DEF BInv, Level3OpenNew, Position, Rooted, pointers, call, history
<1>3. /\ \A r \in Nat : r * PTR_PER_BLOCK \in Nat
      /\ Cols \subseteq Nat /\ LEVEL2_LIMIT \in Nat /\ PTR_PER_BLOCK \in Nat \ {0}
      /\ \A n \in Inodes : blocks[n] \in Nat
  BY Sizes, Known DEF BInv, TypeOK, Cols
<1>4. \A x \in Blocks, c \in Cols : Mem[x][c] # 0 => Mem'[x][c] # 0
  BY <1>1
<1>5. \A n \in Inodes \ torn, r \in 0 .. L2_PTR - 1, c \in Cols :
        LEVEL1_LIMIT + r * PTR_PER_BLOCK + c < blocks[n] => Mem'[l2[n][r]][c] # 0
  BY <1>4, Places DEF Written
<1>6. \A n \in Inodes \ torn, r \in Cols :
        LEVEL2_LIMIT + r * PTR_PER_BLOCK < blocks[n] => Mem'[l3[n]][r] # 0
  BY <1>4, Places DEF Written
<1>7. ASSUME NEW n \in Inodes \ torn, NEW r \in Cols, NEW c \in Cols,
             LEVEL2_LIMIT + r * PTR_PER_BLOCK + c < blocks[n]
      PROVE  Mem'[Mem'[l3[n]][r]][c] # 0
  <2>1. LEVEL2_LIMIT < blocks[n] /\ l3[n] # 0
    BY <1>3, <1>7 DEF BInv, Stored
  <2>2. Mem'[l3[n]][r] = Mem[l3[n]][r] /\ Mem[l3[n]][r] \in Blocks
    <3>1. CASE n = ino
      <4>1. r # i
        BY <1>2, <1>3, <1>7, <3>1, NextPlace
      <4> QED BY <1>1, <4>1, Places
    <3>2. CASE n # ino
      <4>1. l3[n] # l3[ino]
        BY <1>2, <2>1, <3>2, ForeignNodes
      <4> QED BY <1>1, <4>1, Places
    <3> QED BY <3>1, <3>2
  <2> QED BY <1>4, <1>7, <2>2 DEF Written
<1> QED BY <1>1, <1>2, <1>5, <1>6, <1>7 DEF Written, Cols

\* A death loses the buffers, but only one file had any.
LEMMA WrittenCrash ==
  ASSUME BInv, Unique, Written, Crash \/ CrashTaking, pc # "dir"
  PROVE  Written'
<1>1. /\ torn' = torn \union {ino} /\ UNCHANGED <<l2, l3, blocks, disk>> /\ pc' = "idle"
  BY DEF Crash, CrashTaking, EndCall, pointers
<1>2. Mem' = disk
  BY <1>1, Known DEF BInv, TypeOK, Mem, Filling, Rooted
<1>3. /\ \A r \in Nat : r * PTR_PER_BLOCK \in Nat
      /\ Cols \subseteq Nat /\ 0 .. L2_PTR - 1 \subseteq Nat
      /\ LEVEL1_LIMIT \in Nat /\ LEVEL2_LIMIT \in Nat
      /\ \A n \in Inodes : blocks[n] \in Nat
  BY Sizes, Known DEF BInv, TypeOK, Cols
<1>4. ASSUME NEW n \in Inodes \ torn', NEW r \in 0 .. L2_PTR - 1, NEW c \in Cols,
             LEVEL1_LIMIT + r * PTR_PER_BLOCK + c < blocks[n]
      PROVE  disk[l2[n][r]][c] # 0
  <2>1. LEVEL1_LIMIT + r * PTR_PER_BLOCK < blocks[n]
    BY <1>3, <1>4
  <2>2. l2[n][r] # 0
    BY <2>1 DEF BInv, Stored
  <2>3. Mem[l2[n][r]] = disk[l2[n][r]]
    BY <1>1, <2>2, ForeignNodes
  <2> QED BY <1>1, <1>4, <2>3 DEF Written
<1>5. ASSUME NEW n \in Inodes \ torn', LEVEL2_LIMIT < blocks[n]
      PROVE  /\ Mem[l3[n]] = disk[l3[n]]
             /\ \A r \in Cols : disk[l3[n]][r] # 0 =>
                  Mem[disk[l3[n]][r]] = disk[disk[l3[n]][r]]
  BY <1>1, <1>5, ForeignNodes DEF BInv, Stored
<1>6. \A n \in Inodes \ torn', r \in Cols :
        LEVEL2_LIMIT + r * PTR_PER_BLOCK < blocks[n] => disk[l3[n]][r] # 0
  BY <1>1, <1>3, <1>5 DEF Written
<1>7. \A n \in Inodes \ torn', r \in Cols, c \in Cols :
        LEVEL2_LIMIT + r * PTR_PER_BLOCK + c < blocks[n] =>
          /\ LEVEL2_LIMIT + r * PTR_PER_BLOCK < blocks[n] /\ LEVEL2_LIMIT < blocks[n]
          /\ disk[disk[l3[n]][r]][c] # 0
  <2> SUFFICES ASSUME NEW n \in Inodes \ torn', NEW r \in Cols, NEW c \in Cols,
                      LEVEL2_LIMIT + r * PTR_PER_BLOCK + c < blocks[n]
               PROVE  /\ LEVEL2_LIMIT + r * PTR_PER_BLOCK < blocks[n]
                      /\ LEVEL2_LIMIT < blocks[n] /\ disk[disk[l3[n]][r]][c] # 0
    OBVIOUS
  <2>1. LEVEL2_LIMIT + r * PTR_PER_BLOCK < blocks[n] /\ LEVEL2_LIMIT < blocks[n]
    BY <1>3
  <2> QED BY <1>1, <1>5, <1>6, <2>1 DEF Written
<1> QED BY <1>1, <1>2, <1>4, <1>6, <1>7 DEF Written, Cols

LEMMA WrittenStep ==
  ASSUME BInv, Unique, Written, misplaced = {}, misplaced' = {}, [Next]_vars
  PROVE  Written'
<1>0. /\ TypeOK /\ Room /\ Position /\ ino \in Inodes /\ Root \in Inodes /\ i \in Nat
      /\ LEVEL1_LIMIT \in Nat /\ LEVEL2_LIMIT \in Nat /\ LEVEL1_LIMIT < LEVEL2_LIMIT
      /\ \A n \in Inodes : blocks[n] \in Nat
      /\ \A r \in 0 .. L2_PTR - 1 : r * PTR_PER_BLOCK \in Nat
  BY Known, Sizes DEF BInv, TypeOK
<1>1. CASE FillPointer
  BY <1>1, WrittenFill
<1>2. CASE Level3OpenNew
  BY <1>2, WrittenOpen
<1>3. CASE (Crash \/ CrashTaking) /\ pc # "dir"
  BY <1>3, WrittenCrash
<1>4. CASE ~ FillPointer /\ ~ Level3OpenNew /\ (Crash \/ CrashTaking => pc = "dir")
  <2>1. Mem' = Mem
    BY <1>4, MemKept
  <2>2. ASSUME UNCHANGED <<l2, l3, blocks>>, torn \subseteq torn',
               pc' = "fill3" /\ ino' \notin torn' => l3_ptr_reg'[i'] # 0
        PROVE  Written'
    BY <1>0, <2>1, <2>2, WrittenKept
  <2>3. CASE UNCHANGED vars
    BY <2>2, <2>3 DEF vars, pointers, history, call, buffers, Written
  <2>4. CASE (\E k \in 0 .. MaxNeed : CreatTakeInode(k)) \/ (Crash /\ pc = "dir")
             \/ \E n \in files, k \in 0 .. MaxNeed : Grow(n, k)
    BY <2>2, <2>4 DEF CreatTakeInode, Grow, Level, Crash, EndCall, pointers, history
  <2>11. CASE CrashTaking \/ CrashEntry
    BY <2>2, <2>11, CrashStays, EntryDeath
  <2>5. CASE CreatGrowDir \/ Level1Take \/ CreatAddEntry
    <3>1. UNCHANGED <<l2, l3, torn>> /\ pc' # "fill3"
      BY <2>5 DEF CreatGrowDir, Level1Take, CreatAddEntry, Level, history, pointers
    <3>2. \A n \in Inodes : /\ blocks'[n] \in Nat
                            /\ blocks'[n] <= blocks[n] \/ blocks'[n] <= LEVEL1_LIMIT
      <4>1. CASE CreatGrowDir
        <5>1. blocks[Root] < LEVEL1_LIMIT
          BY <1>0, <4>1 DEF CreatGrowDir, Room
        <5>2. \A n \in Inodes : blocks'[n] = IF n = Root THEN blocks[n] + 1 ELSE blocks[n]
          BY <1>0, <4>1 DEF CreatGrowDir, TypeOK
        <5> QED BY <1>0, <5>1, <5>2
      <4>2. CASE Level1Take
        <5>1. \A n \in Inodes : blocks'[n] = IF n = ino THEN blocks[n] + 1 ELSE blocks[n]
          BY <1>0, <4>2 DEF Level1Take, TypeOK
        <5> QED BY <1>0, <4>2, <5>1 DEF Level1Take
      <4>3. CASE CreatAddEntry
        <5>1. \A n \in Inodes : blocks'[n] = IF n = ino THEN 0 ELSE blocks[n]
          BY <1>0, <4>3 DEF CreatAddEntry, TypeOK
        <5> QED BY <1>0, <5>1
      <4> QED BY <2>5, <4>1, <4>2, <4>3
    <3> QED BY <2>1, <3>1, <3>2, WrittenKept
  <2>6. CASE Level1Exit \/ Level2Start \/ Level2OpenOld \/ Level2Flush \/ Level2Exit
             \/ Level3OldRoot \/ Level3Flush \/ Level3Exit
    BY <2>2, <2>6 DEF Level1Exit, Level2Start, Level2OpenOld, Level2Flush, Level2Exit,
       Level3OldRoot, Level3Flush, Level3Exit, pointers, history
  <2>7. CASE Level2OpenNew
    <3>1. PICK b \in dbitmap : l2' = [l2 EXCEPT ![ino][i] = b]
      BY FreeBit, <2>7 DEF BInv, Level2OpenNew
    <3>2. /\ UNCHANGED <<l3, blocks, torn>> /\ pc' # "fill3" /\ i \in 0 .. L2_PTR - 1
          /\ At(LEVEL1_LIMIT) /\ j = 0
      BY <1>0, <2>7, Sizes DEF Level2OpenNew, Position, history
    <3>3. \A n \in Inodes, r \in 0 .. L2_PTR - 1 :
            l2'[n][r] = IF n = ino /\ r = i THEN b ELSE l2[n][r]
      BY <1>0, <3>1, <3>2 DEF TypeOK
    <3>4. ~ (LEVEL1_LIMIT + i * PTR_PER_BLOCK < blocks[ino])
      BY <1>0, <3>2 DEF At
    <3>5. \A n \in Inodes, r \in 0 .. L2_PTR - 1 :
            LEVEL1_LIMIT + r * PTR_PER_BLOCK < blocks'[n] => l2'[n][r] = l2[n][r]
      BY <3>2, <3>3, <3>4
    <3> QED BY <1>0, <2>1, <3>2, <3>5, WrittenKept
  <2>8. CASE Level3NewRoot
    <3>1. PICK b \in dbitmap : l3' = [l3 EXCEPT ![ino] = b]
      BY FreeBit, <2>8 DEF BInv, Level3NewRoot
    <3>2. UNCHANGED <<l2, blocks, torn>> /\ pc' # "fill3" /\ blocks[ino] = LEVEL2_LIMIT
      BY <2>8 DEF Level3NewRoot
    <3>3. \A n \in Inodes : LEVEL2_LIMIT < blocks'[n] => l3'[n] = l3[n]
      BY <1>0, <3>1, <3>2 DEF TypeOK
    <3> QED BY <1>0, <2>1, <3>2, <3>3, WrittenKept
  <2>9. CASE Level3OpenOld
    <3>1. /\ UNCHANGED <<l2, l3, blocks, torn, ino, i, l3_ptr_reg>> /\ pc = "loop3"
          /\ At(LEVEL2_LIMIT) /\ j \in Nat /\ j # 0 /\ i \in Cols
      BY <1>0, <2>9, Known, Sizes
         DEF BInv, Level3OpenOld, Position, pointers, history, call, Cols
    <3>2. LEVEL2_LIMIT + i * PTR_PER_BLOCK < blocks[ino]
      <4>1. i * PTR_PER_BLOCK \in Nat
        BY <1>0, Sizes
      <4> QED BY <1>0, <3>1, <4>1 DEF At
    <3>3. Mem[l3[ino]] = l3_ptr_reg
      BY <1>0, <3>1, Places DEF Mem, Filling, Rooted
    <3>4. ino \notin torn => l3_ptr_reg[i] # 0
      BY <1>0, <3>1, <3>2, <3>3 DEF Written
    <3> QED BY <2>2, <3>1, <3>4
  <2>10. CASE Return
    BY <2>2, <2>10, ReturnKeepsCount DEF Return, EndCall, pointers, history
  <2> QED BY <1>4, <2>3, <2>4, <2>5, <2>6, <2>7, <2>8, <2>9, <2>10, <2>11
          DEF Next, Level1, Level2, Level3
<1> QED BY <1>1, <1>2, <1>3, <1>4

\* What the file had before the call is still in the buffers.
LEMMA FaithfulStep ==
  ASSUME BInv, Unique, Faithful, misplaced = {}, misplaced' = {}, [Next]_vars
  PROVE  Faithful'
<1> USE DEF Filling, Rooted, Target
<1>0. /\ TypeOK /\ Position /\ Progress /\ ino \in Inodes /\ i \in Nat /\ j \in Nat
      /\ j <= PTR_PER_BLOCK
      /\ LEVEL1_LIMIT \in Nat /\ LEVEL2_LIMIT \in Nat /\ PTR_PER_BLOCK \in Nat
      /\ blocks[ino] \in Nat /\ need \in Nat /\ count_down \in Nat
      /\ i * PTR_PER_BLOCK \in Nat
      /\ \A r \in Nat : r * PTR_PER_BLOCK \in Nat
      /\ disk \in [Blocks -> PointerBlock]
  BY Known, Sizes DEF BInv, TypeOK
<1>1. pc \notin {"idle", "dir"} => /\ SettledBlocks(ino) = blocks[ino] - (need - count_down)
                                   /\ SettledBlocks(ino) <= blocks[ino]
                                   /\ SettledBlocks(ino) \in Nat
  BY <1>0 DEF SettledBlocks, Progress
<1>2. ASSUME pc \notin {"idle", "dir"}, pc' \notin {"idle", "dir"}, blocks' = blocks,
             ino' = ino, need' = need, count_down' = count_down
      PROVE  SettledBlocks(ino)' = SettledBlocks(ino)
  BY <1>2 DEF SettledBlocks
<1>3. ASSUME pc' \notin {"fill2", "loop3", "fill3"} PROVE Faithful'
  BY <1>3 DEF Faithful
<1>4. CASE UNCHANGED vars
  BY <1>4 DEF vars, pointers, history, call, buffers, Faithful, SettledBlocks
<1>5. CASE (\E k \in 0 .. MaxNeed : CreatTakeInode(k)) \/ CreatGrowDir \/ CreatAddEntry
           \/ (\E n \in files, k \in 0 .. MaxNeed : Grow(n, k)) \/ Level1
  BY <1>3, <1>5 DEF CreatTakeInode, CreatGrowDir, CreatAddEntry, Grow, Level, Level1,
     Level1Take, Level1Exit
<1>6. CASE Level2Start \/ Level2Exit \/ Level2Flush \/ Level3Exit \/ Return \/ Crash
           \/ CrashTaking \/ CrashEntry
  BY <1>3, <1>6 DEF Level2Start, Level2Exit, Level2Flush, Level3Exit, Return, Crash,
     CrashTaking, CrashEntry, EndCall
<1>7. CASE Level2OpenNew \/ Level2OpenOld
  <2>1. pc' = "fill2" /\ ptr_reg' = disk'[l2'[ino'][i']]
    <3>1. CASE Level2OpenOld
      BY <3>1 DEF Level2OpenOld, pointers, call
    <3>2. CASE Level2OpenNew
      <4>1. PICK b \in dbitmap : l2' = [l2 EXCEPT ![ino][i] = b] /\ ptr_reg' = disk[b]
        BY FreeBit, <3>2 DEF BInv, Level2OpenNew
      <4>2. i \in 0 .. L2_PTR - 1 /\ UNCHANGED <<disk, ino, i>> /\ pc' = "fill2"
        BY <1>0, <3>2, Sizes DEF Level2OpenNew, call
      <4>3. l2'[ino][i] = b
        BY <1>0, <4>1, <4>2 DEF TypeOK
      <4> QED BY <4>1, <4>2, <4>3
    <3> QED BY <1>7, <3>1, <3>2
  <2> QED BY <2>1 DEF Faithful
<1>8. CASE Level3NewRoot \/ Level3OldRoot
  <2>1. pc' = "loop3" /\ l3_ptr_reg' = disk'[l3'[ino']]
    <3>1. CASE Level3OldRoot
      BY <3>1 DEF Level3OldRoot, pointers, call
    <3>2. CASE Level3NewRoot
      <4>1. PICK b \in dbitmap : l3' = [l3 EXCEPT ![ino] = b] /\ l3_ptr_reg' = disk[b]
        BY FreeBit, <3>2 DEF BInv, Level3NewRoot
      <4>2. l3'[ino] = b
        BY <1>0, <4>1 DEF TypeOK
      <4> QED BY <3>2, <4>1, <4>2 DEF Level3NewRoot, call
    <3> QED BY <1>8, <3>1, <3>2
  <2> QED BY <2>1 DEF Faithful
<1>9. CASE Level3OpenOld
  <2>1. /\ pc = "loop3" /\ pc' = "fill3" /\ ptr_reg' = disk[l3_ptr_reg[i]]
        /\ UNCHANGED <<disk, l3, ino, i, l3_ptr_reg, blocks, need, count_down>>
    BY <1>9 DEF Level3OpenOld, pointers, call
  <2> QED BY <1>2, <2>1 DEF Faithful
<1>10. CASE Level3OpenNew
  <2>1. PICK b \in dbitmap : /\ l3_ptr_reg' = [l3_ptr_reg EXCEPT ![i] = b]
                             /\ ptr_reg' = disk[b]
    BY FreeBit, <1>10 DEF BInv, Level3OpenNew
  <2>2. /\ UNCHANGED <<disk, l3, ino, i, blocks, need, count_down>> /\ i \in Cols
        /\ pc = "loop3" /\ pc' = "fill3" /\ At(LEVEL2_LIMIT) /\ j = 0
    BY <1>0, <1>10 DEF Level3OpenNew, Position, pointers, call, Cols
  <2>3. \A c \in Cols : l3_ptr_reg'[c] = IF c = i THEN b ELSE l3_ptr_reg[c]
    BY <1>0, <2>1 DEF TypeOK, PointerBlock, Cols
  <2>4. SettledBlocks(ino)' = SettledBlocks(ino)
    BY <1>2, <2>2
  <2>5. ~ (LEVEL2_LIMIT + i * PTR_PER_BLOCK < SettledBlocks(ino))
    BY <1>0, <1>1, <2>2 DEF At
  <2>6. \A r \in Cols : LEVEL2_LIMIT + r * PTR_PER_BLOCK < SettledBlocks(ino) =>
          l3_ptr_reg'[r] = disk[l3[ino]][r]
    BY <2>2, <2>3, <2>5 DEF Faithful
  <2>7. ptr_reg' = disk'[Target']
    BY <2>1, <2>2, <2>3
  <2> QED BY <2>2, <2>4, <2>6, <2>7 DEF Faithful
<1>11. CASE FillPointer
  <2>1. PICK b \in dbitmap : ptr_reg' = [ptr_reg EXCEPT ![j] = b]
    BY FreeBit, <1>11 DEF BInv, FillPointer
  <2>2. /\ UNCHANGED <<disk, l2, l3, pc, ino, i, l3_ptr_reg, need>> /\ j \in Cols
        /\ blocks'[ino] = blocks[ino] + 1 /\ count_down' = count_down - 1 /\ Filling
    BY <1>11, FillCounts DEF FillPointer, pointers, call
  <2>3. \A c \in Cols : ptr_reg'[c] = IF c = j THEN b ELSE ptr_reg[c]
    BY <1>0, <2>1 DEF TypeOK, PointerBlock, Cols
  <2>4. SettledBlocks(ino)' = SettledBlocks(ino)
    BY <1>0, <2>2 DEF SettledBlocks
  <2>5. /\ pc = "fill2" => ~ (LEVEL1_LIMIT + i * PTR_PER_BLOCK + j < SettledBlocks(ino))
        /\ pc = "fill3" => ~ (LEVEL2_LIMIT + i * PTR_PER_BLOCK + j < SettledBlocks(ino))
    BY <1>0, <1>1, <1>11, <2>2, FillCounts DEF At
  <2>6. /\ pc = "fill2" => \A c \in Cols :
             LEVEL1_LIMIT + i * PTR_PER_BLOCK + c < SettledBlocks(ino) =>
               ptr_reg'[c] = disk[Target][c]
        /\ pc = "fill3" => \A c \in Cols :
             LEVEL2_LIMIT + i * PTR_PER_BLOCK + c < SettledBlocks(ino) =>
               ptr_reg'[c] = disk[Target][c]
    BY <2>3, <2>5 DEF Faithful
  <2> QED BY <2>2, <2>4, <2>6 DEF Faithful
<1>12. CASE Level3Flush
  <2>1. /\ UNCHANGED <<l3, ino, l3_ptr_reg, blocks, need, count_down>>
        /\ pc = "fill3" /\ pc' = "loop3" /\ disk' = [disk EXCEPT ![l3_ptr_reg[i]] = ptr_reg]
    BY <1>12 DEF Level3Flush, pointers, call, buffers
  <2>2. i \in Cols /\ l3_ptr_reg[i] # l3[ino] /\ l3[ino] \in Blocks
    BY <2>1, Places, RowApart
  <2>3. disk'[l3[ino]] = disk[l3[ino]]
    BY <1>0, <2>1, <2>2
  <2> QED BY <1>2, <2>1, <2>3 DEF Faithful
<1> QED BY <1>4, <1>5, <1>6, <1>7, <1>8, <1>9, <1>10, <1>11, <1>12
        DEF Next, Level2, Level3

----------------------------------------------------------------------------
(* The pointer trees keep their shape *)

LEMMA MisplacedStays ==
  ASSUME [Next]_vars, misplaced' = {}
  PROVE  misplaced = {}
<1>1. CASE CreatAddEntry
  BY <1>1 DEF CreatAddEntry, WriteEntry
<1>2. CASE Level1 \/ Level2
  BY <1>2 DEF Level1, Level1Take, Level1Exit, Level2, Level2Start, Level2OpenNew,
     Level2OpenOld, Level2Flush, Level2Exit, history
<1>3. CASE Level3 \/ FillPointer \/ Return \/ Crash \/ CrashTaking \/ CrashEntry
  BY <1>3 DEF Level3, Level3NewRoot, Level3OldRoot, Level3OpenNew, Level3OpenOld,
     Level3Flush, Level3Exit, FillPointer, Return, Crash, CrashTaking, CrashEntry,
     WriteEntry, history
<1> QED BY <1>1, <1>2, <1>3 DEF Next, vars, CreatTakeInode, CreatGrowDir, Grow, history

LEMMA TornStays ==
  ASSUME [Next]_vars
  PROVE  torn \subseteq torn'
<1>1. CASE Level1 \/ Level2
  BY <1>1 DEF Level1, Level1Take, Level1Exit, Level2, Level2Start, Level2OpenNew,
     Level2OpenOld, Level2Flush, Level2Exit, history
<1>2. CASE Level3 \/ FillPointer \/ Return \/ Crash \/ CrashTaking \/ CrashEntry
  BY <1>2 DEF Level3, Level3NewRoot, Level3OldRoot, Level3OpenNew, Level3OpenOld,
     Level3Flush, Level3Exit, FillPointer, Return, Crash, CrashTaking, CrashEntry, history
<1> QED BY <1>1, <1>2 DEF Next, vars, CreatTakeInode, CreatGrowDir, CreatAddEntry,
        Grow, history

LEMMA InitTree == Init => TreeInv
<1> SUFFICES ASSUME Init PROVE Unique /\ Written /\ Faithful
  BY DEF TreeInv
<1>1. Faithful
  BY DEF Init, Faithful, Rooted
<1>2. Unique
  <2>1. ~ Filling /\ ~ Rooted
    BY DEF Init, Filling, Rooted
  <2>2. /\ \A n \in Inodes, k \in 0 .. L1_PTR - 1 : l1[n][k] = 0
        /\ \A n \in Inodes, r \in 0 .. L2_PTR - 1 : l2[n][r] = 0
        /\ \A n \in Inodes : l3[n] = 0
        /\ \A b \in Blocks, c \in Cols : disk[b][c] = 0
    BY DEF Init, Unwritten, Cols
  <2>3. ASSUME NEW t, NEW x, NEW y, NEW v, Holds(t, x, y, v) PROVE v = 0
    BY <2>1, <2>2, <2>3 DEF Holds
  <2> QED BY <2>3 DEF Unique
<1>3. Written
  <2>1. \A n \in Inodes : blocks[n] \in 0 .. 1
    BY DEF Init
  <2>10. /\ LEVEL1_LIMIT >= 1 /\ LEVEL2_LIMIT >= 1
        /\ LEVEL1_LIMIT \in Nat /\ LEVEL2_LIMIT \in Nat
        /\ \A r \in Nat : r * PTR_PER_BLOCK \in Nat
    BY Sizes
  <2>11. Cols \subseteq Nat /\ 0 .. L2_PTR - 1 \subseteq Nat
    BY Sizes DEF Cols
  <2>2. ASSUME NEW n \in Inodes, NEW r \in Nat, NEW c \in Nat
        PROVE  /\ ~ (LEVEL1_LIMIT + r * PTR_PER_BLOCK + c < blocks[n])
               /\ ~ (LEVEL2_LIMIT + r * PTR_PER_BLOCK < blocks[n])
               /\ ~ (LEVEL2_LIMIT + r * PTR_PER_BLOCK + c < blocks[n])
    BY <2>1, <2>10
  <2>3. pc = "idle"
    BY DEF Init
  <2> QED BY <2>11, <2>2, <2>3 DEF Written
<1> QED BY <1>1, <1>2, <1>3

LEMMA TreeStep == BInv /\ TreeInv /\ [Next]_vars => TreeInv'
<1> SUFFICES ASSUME BInv, TreeInv, [Next]_vars, misplaced' = {}
             PROVE  Unique' /\ Written' /\ Faithful'
  BY DEF TreeInv
<1>1. misplaced = {}
  BY MisplacedStays
<1> QED BY <1>1, UniqueStep, WrittenStep, FaithfulStep DEF TreeInv

\* The invariant about the trees, buffers included: a block has one place, the
\* pointer blocks of an undisturbed file are filled up to its count, and what
\* is on the device of a running call is what the loops have not changed.
THEOREM TreesKeepShape == Spec => [](BInv /\ TreeInv)
BY InitBasic, InitTree, NextBasic, TreeStep, PTL DEF Spec

----------------------------------------------------------------------------
(* The flat map of vsfs_get_inode_info, by row and column *)

LEMMA Divided ==
  ASSUME NEW r \in Nat, NEW m \in Nat \ {0}, NEW c \in 0 .. m - 1
  PROVE  (r * m + c) \div m = r /\ (r * m + c) % m = c
<1>1. r * m + c \in Nat
  OBVIOUS
<1> DEFINE q == (r * m + c) \div m
           d == (r * m + c) % m
<1>2. q \in Nat /\ d \in 0 .. m - 1 /\ r * m + c = q * m + d
  BY <1>1, RowColumn
<1> HIDE DEF q, d
<1>3. /\ d < m /\ c < m /\ d \in 0 .. m /\ c \in 0 .. m /\ m \in Nat
      /\ q * m + d = r * m + c
  BY <1>2
<1>4. r < q \/ (r = q /\ c = d)
  BY <1>2, <1>3, RowOrder
<1>5. q < r \/ (q = r /\ d = c)
  BY <1>2, <1>3, RowOrder
<1>6. q = r /\ d = c
  BY <1>2, <1>4, <1>5
<1> QED BY <1>6 DEF q, d

\* The same before and after a step.
LEMMA BlockAt ==
  ASSUME NEW n
  PROVE  /\ \A k \in Nat : k < LEVEL1_LIMIT =>
              /\ BlockOf(n, k) = l1[n][k]
              /\ BlockOf(n, k)' = l1'[n][k]
         /\ \A r \in 0 .. L2_PTR - 1, c \in Cols :
              /\ BlockOf(n, LEVEL1_LIMIT + r * PTR_PER_BLOCK + c) = disk[l2[n][r]][c]
              /\ BlockOf(n, LEVEL1_LIMIT + r * PTR_PER_BLOCK + c)' = disk'[l2'[n][r]][c]
         /\ \A r, c \in Cols :
              /\ BlockOf(n, LEVEL2_LIMIT + r * PTR_PER_BLOCK + c) = disk[disk[l3[n]][r]][c]
              /\ BlockOf(n, LEVEL2_LIMIT + r * PTR_PER_BLOCK + c)' =
                   disk'[disk'[l3'[n]][r]][c]
<1>1. /\ LEVEL1_LIMIT \in Nat /\ LEVEL2_LIMIT \in Nat /\ LEVEL1_LIMIT < LEVEL2_LIMIT
      /\ PTR_PER_BLOCK \in Nat \ {0} /\ L2_PTR \in Nat
  BY Sizes
<1>2. ASSUME NEW r \in 0 .. L2_PTR - 1, NEW c \in Cols
      PROVE  /\ BlockOf(n, LEVEL1_LIMIT + r * PTR_PER_BLOCK + c) = disk[l2[n][r]][c]
             /\ BlockOf(n, LEVEL1_LIMIT + r * PTR_PER_BLOCK + c)' = disk'[l2'[n][r]][c]
  <2> DEFINE k == LEVEL1_LIMIT + r * PTR_PER_BLOCK + c
  <2>1. /\ r * PTR_PER_BLOCK \in Nat /\ k < LEVEL2_LIMIT
        /\ (r * PTR_PER_BLOCK + c) \div PTR_PER_BLOCK = r
        /\ (r * PTR_PER_BLOCK + c) % PTR_PER_BLOCK = c
    BY <1>1, RowsOfLevel2, Divided DEF Cols
  <2>2. k - LEVEL1_LIMIT = r * PTR_PER_BLOCK + c /\ ~ (k < LEVEL1_LIMIT)
    BY <1>1, <2>1 DEF Cols
  <2> HIDE DEF k
  <2>3. BlockOf(n, k) = disk[l2[n][r]][c] /\ BlockOf(n, k)' = disk'[l2'[n][r]][c]
    BY <2>1, <2>2 DEF BlockOf
  <2> QED BY <2>3 DEF k
<1>3. ASSUME NEW r \in Cols, NEW c \in Cols
      PROVE  /\ BlockOf(n, LEVEL2_LIMIT + r * PTR_PER_BLOCK + c) =
                  disk[disk[l3[n]][r]][c]
             /\ BlockOf(n, LEVEL2_LIMIT + r * PTR_PER_BLOCK + c)' =
                  disk'[disk'[l3'[n]][r]][c]
  <2> DEFINE k == LEVEL2_LIMIT + r * PTR_PER_BLOCK + c
  <2>1. /\ r * PTR_PER_BLOCK \in Nat
        /\ (r * PTR_PER_BLOCK + c) \div PTR_PER_BLOCK = r
        /\ (r * PTR_PER_BLOCK + c) % PTR_PER_BLOCK = c
    BY <1>1, Divided DEF Cols
  <2>2. /\ k - LEVEL2_LIMIT = r * PTR_PER_BLOCK + c
        /\ ~ (k < LEVEL1_LIMIT) /\ ~ (k < LEVEL2_LIMIT)
    BY <1>1, <2>1 DEF Cols
  <2> HIDE DEF k
  <2>3. BlockOf(n, k) = disk[disk[l3[n]][r]][c]
        /\ BlockOf(n, k)' = disk'[disk'[l3'[n]][r]][c]
    BY <2>1, <2>2 DEF BlockOf
  <2> QED BY <2>3 DEF k
<1>4. \A k \in Nat : k < LEVEL1_LIMIT =>
        BlockOf(n, k) = l1[n][k] /\ BlockOf(n, k)' = l1'[n][k]
  BY DEF BlockOf
<1> QED BY <1>2, <1>3, <1>4

\* Every block number of a file has a row and a column.
LEMMA Coordinates ==
  ASSUME NEW k \in Nat, k < LEVEL3_LIMIT
  PROVE  \/ k \in 0 .. L1_PTR - 1 /\ k < LEVEL1_LIMIT
         \/ \E r \in 0 .. L2_PTR - 1, c \in Cols : k = LEVEL1_LIMIT + r * PTR_PER_BLOCK + c
         \/ \E r, c \in Cols : k = LEVEL2_LIMIT + r * PTR_PER_BLOCK + c
<1>1. /\ LEVEL1_LIMIT \in Nat /\ LEVEL2_LIMIT \in Nat /\ PTR_PER_BLOCK \in Nat \ {0}
      /\ LEVEL1_LIMIT = L1_PTR /\ LEVEL2_LIMIT = LEVEL1_LIMIT + L2_PTR * PTR_PER_BLOCK
      /\ LEVEL3_LIMIT = LEVEL2_LIMIT + PTR_PER_BLOCK * PTR_PER_BLOCK
      /\ L2_PTR \in Nat /\ L2_PTR * PTR_PER_BLOCK \in Nat
      /\ PTR_PER_BLOCK * PTR_PER_BLOCK \in Nat
  BY Sizes
<1>2. CASE k < LEVEL1_LIMIT
  BY <1>1, <1>2
<1>3. CASE LEVEL1_LIMIT <= k /\ k < LEVEL2_LIMIT
  <2>1. PICK x \in Nat : x = k - LEVEL1_LIMIT /\ x < L2_PTR * PTR_PER_BLOCK
    BY <1>1, <1>3
  <2>2. PICK r \in Nat, c \in Cols : x = r * PTR_PER_BLOCK + c /\ r < L2_PTR
    BY <1>1, <2>1, RowColumn DEF Cols
  <2>3. r \in 0 .. L2_PTR - 1 /\ k = LEVEL1_LIMIT + r * PTR_PER_BLOCK + c
    <3>1. r * PTR_PER_BLOCK \in Nat
      BY <1>1
    <3> QED BY <1>1, <2>1, <2>2, <3>1 DEF Cols
  <2> QED BY <2>3
<1>4. CASE LEVEL2_LIMIT <= k
  <2>1. PICK x \in Nat : x = k - LEVEL2_LIMIT /\ x < PTR_PER_BLOCK * PTR_PER_BLOCK
    BY <1>1, <1>4
  <2>2. PICK r \in Nat, c \in Cols : x = r * PTR_PER_BLOCK + c /\ r < PTR_PER_BLOCK
    BY <1>1, <2>1, RowColumn DEF Cols
  <2>3. r \in Cols /\ k = LEVEL2_LIMIT + r * PTR_PER_BLOCK + c
    <3>1. r * PTR_PER_BLOCK \in Nat
      BY <1>1
    <3> QED BY <1>1, <2>1, <2>2, <3>1 DEF Cols
  <2> QED BY <2>3
<1> QED BY <1>1, <1>2, <1>3, <1>4

----------------------------------------------------------------------------
(* What a file reads back, on the device *)

\* Place x of kind t is in inode n or in a pointer block of the file.
PartOf(n, t, x) ==
  \/ t \in {"l1", "l2", "l3"} /\ x = n
  \/ /\ t = "disk" /\ x # 0
     /\ \/ x = l3[n]
        \/ \E r \in 0 .. L2_PTR - 1 : x = l2[n][r]
        \/ l3[n] # 0 /\ \E r \in Cols : x = disk[l3[n]][r]

LEMMA PartsApart ==
  ASSUME BInv, Unique, NEW n \in Inodes, NEW m \in Inodes, NEW t, NEW x,
         PartOf(n, t, x), PartOf(m, t, x)
  PROVE  n = m
<1>1. CASE t # "disk"
  BY <1>1 DEF PartOf
<1>2. ASSUME NEW o \in Inodes, t = "disk", PartOf(o, t, x)
      PROVE  /\ x # 0
             /\ \/ Holds("l3", o, 0, x)
                \/ \E r \in 0 .. L2_PTR - 1 : Holds("l2", o, r, x)
                \/ /\ Holds("l3", o, 0, l3[o]) /\ l3[o] # 0
                   /\ \E r \in Cols : Holds("disk", l3[o], r, x)
  BY <1>2, HeldBlocks, Places DEF PartOf
<1>3. CASE t = "disk"
  <2>1. x # 0
    BY <1>2, <1>3
  <2>2. CASE Holds("l3", n, 0, x)
    BY <1>2, <1>3, <2>1, <2>2, Once
  <2>3. CASE \E r \in 0 .. L2_PTR - 1 : Holds("l2", n, r, x)
    BY <1>2, <1>3, <2>1, <2>3, Once
  <2>4. CASE /\ Holds("l3", n, 0, l3[n]) /\ l3[n] # 0
             /\ \E r \in Cols : Holds("disk", l3[n], r, x)
    <3>1. PICK r \in Cols : Holds("disk", l3[n], r, x)
      BY <2>4
    <3>2. PICK s \in Cols : Holds("disk", l3[m], s, x) /\ Holds("l3", m, 0, l3[m])
      BY <1>2, <1>3, <2>1, <3>1, Once
    <3>3. l3[n] = l3[m]
      BY <2>1, <3>1, <3>2, Once
    <3> QED BY <2>4, <3>2, <3>3, Once
  <2> QED BY <1>2, <1>3, <2>2, <2>3, <2>4
<1> QED BY <1>1, <1>3

LEMMA SettledBound ==
  ASSUME BInv, NEW n \in Inodes
  PROVE  /\ SettledBlocks(n) \in 0 .. blocks[n] /\ blocks[n] \in 0 .. LEVEL3_LIMIT
         /\ pc \in {"idle", "dir"} \/ n # ino => SettledBlocks(n) = blocks[n]
<1>1. blocks[n] \in 0 .. LEVEL3_LIMIT
  BY Known DEF BInv, TypeOK
<1>2. CASE pc \in {"idle", "dir"} \/ n # ino
  BY <1>1, <1>2, Sizes DEF SettledBlocks
<1>3. CASE pc \notin {"idle", "dir"} /\ n = ino
  <2>1. /\ count_down <= need /\ need - count_down <= blocks[ino]
        /\ count_down \in Nat /\ need \in Nat
    BY <1>3, Known, Sizes DEF BInv, Progress, TypeOK
  <2> QED BY <1>1, <1>3, <2>1, Sizes DEF SettledBlocks
<1> QED BY <1>1, <1>2, <1>3

\* The level-3 root of a file names on the device what it names in memory.
LEMMA RootOnDevice ==
  ASSUME BInv, Unique, Written, Faithful, NEW n \in Inodes \ torn, NEW r \in Cols,
         LEVEL2_LIMIT + r * PTR_PER_BLOCK < SettledBlocks(n)
  PROVE  /\ l3[n] # 0 /\ disk[l3[n]][r] # 0
         /\ disk[l3[n]][r] = Mem[l3[n]][r]
<1>1. /\ r * PTR_PER_BLOCK \in Nat /\ LEVEL2_LIMIT \in Nat
      /\ SettledBlocks(n) \in 0 .. blocks[n] /\ blocks[n] \in Nat
  BY Sizes, SettledBound DEF Cols
<1>2. LEVEL2_LIMIT < blocks[n] /\ LEVEL2_LIMIT + r * PTR_PER_BLOCK < blocks[n]
  BY <1>1
<1>3. l3[n] # 0 /\ Mem[l3[n]][r] # 0 /\ l3[n] \in Blocks
  BY <1>2, Places DEF BInv, Stored, Written
<1>4. CASE Rooted /\ n = ino
  <2>1. Filling => Target # l3[n]
    BY <1>3, TargetApart
  <2>2. Mem[l3[n]] = l3_ptr_reg
    BY <1>3, <1>4, <2>1 DEF Mem
  <2> QED BY <1>3, <1>4, <2>2 DEF Faithful
<1>5. CASE ~ (Rooted /\ n = ino)
  <2>1. Filling => Target # l3[n]
    BY <1>3, TargetApart
  <2>2. Rooted => l3[ino] # l3[n]
    BY <1>3, <1>5, HeldBlocks, Places, Once
  <2>3. Mem[l3[n]] = disk[l3[n]]
    BY <1>3, <2>1, <2>2 DEF Mem
  <2> QED BY <1>3, <2>3
<1> QED BY <1>4, <1>5

\* The pointers that lead to a block the file had before the call.
LEMMA Nodes ==
  ASSUME BInv, Unique, Written, Faithful, NEW n \in Inodes \ torn,
         NEW k \in 0 .. SettledBlocks(n) - 1
  PROVE  \/ k \in 0 .. L1_PTR - 1 /\ k < LEVEL1_LIMIT
         \/ \E r \in 0 .. L2_PTR - 1, c \in Cols :
              k = LEVEL1_LIMIT + r * PTR_PER_BLOCK + c /\ l2[n][r] # 0
         \/ \E r, c \in Cols :
              /\ k = LEVEL2_LIMIT + r * PTR_PER_BLOCK + c
              /\ l3[n] # 0 /\ disk[l3[n]][r] # 0 /\ disk[l3[n]][r] = Mem[l3[n]][r]
              /\ LEVEL2_LIMIT + r * PTR_PER_BLOCK < SettledBlocks(n)
<1>1. /\ SettledBlocks(n) \in 0 .. blocks[n] /\ blocks[n] \in 0 .. LEVEL3_LIMIT
      /\ LEVEL3_LIMIT \in Nat /\ LEVEL1_LIMIT \in Nat /\ LEVEL2_LIMIT \in Nat
      /\ L2_PTR \in Nat /\ \A r \in Nat : r * PTR_PER_BLOCK \in Nat
      /\ PTR_PER_BLOCK \in Nat
  BY Sizes, SettledBound
<1>2. k \in Nat /\ k < LEVEL3_LIMIT /\ k < SettledBlocks(n) /\ k < blocks[n]
  BY <1>1
<1>3. ASSUME NEW r \in 0 .. L2_PTR - 1, NEW c \in Cols,
             k = LEVEL1_LIMIT + r * PTR_PER_BLOCK + c
      PROVE  l2[n][r] # 0
  <2>1. LEVEL1_LIMIT + r * PTR_PER_BLOCK < blocks[n]
    BY <1>1, <1>2, <1>3 DEF Cols
  <2> QED BY <2>1 DEF BInv, Stored
<1>4. ASSUME NEW r \in Cols, NEW c \in Cols, k = LEVEL2_LIMIT + r * PTR_PER_BLOCK + c
      PROVE  LEVEL2_LIMIT + r * PTR_PER_BLOCK < SettledBlocks(n)
  BY <1>1, <1>2, <1>4 DEF Cols
<1> QED BY <1>2, <1>3, <1>4, Coordinates, RootOnDevice

----------------------------------------------------------------------------
(* No block moves *)

\* Nothing on the device changes, and every pointer that is replaced is past
\* the blocks the file had.
LEMMA NeverMoveKept ==
  ASSUME BInv, Unique, Written, Faithful, disk' = disk, NEW n \in Inodes \ torn,
         \A k \in 0 .. L1_PTR - 1 : k < blocks[n] => l1'[n][k] = l1[n][k],
         \A r \in 0 .. L2_PTR - 1 :
           LEVEL1_LIMIT + r * PTR_PER_BLOCK < blocks[n] => l2'[n][r] = l2[n][r],
         LEVEL2_LIMIT < blocks[n] => l3'[n] = l3[n],
         NEW k \in 0 .. SettledBlocks(n) - 1
  PROVE  BlockOf(n, k)' = BlockOf(n, k)
<1>1. /\ SettledBlocks(n) \in 0 .. blocks[n] /\ blocks[n] \in Nat
      /\ LEVEL1_LIMIT \in Nat /\ LEVEL2_LIMIT \in Nat /\ PTR_PER_BLOCK \in Nat
      /\ \A r \in Nat : r * PTR_PER_BLOCK \in Nat
  BY Sizes, SettledBound
<1>2. CASE k \in 0 .. L1_PTR - 1 /\ k < LEVEL1_LIMIT
  BY <1>1, <1>2, BlockAt
<1>3. ASSUME NEW r \in 0 .. L2_PTR - 1, NEW c \in Cols,
             k = LEVEL1_LIMIT + r * PTR_PER_BLOCK + c
      PROVE  BlockOf(n, k)' = BlockOf(n, k)
  <2>1. LEVEL1_LIMIT + r * PTR_PER_BLOCK < blocks[n]
    BY <1>1, <1>3 DEF Cols
  <2> QED BY <1>3, <2>1, BlockAt
<1>4. ASSUME NEW r \in Cols, NEW c \in Cols, k = LEVEL2_LIMIT + r * PTR_PER_BLOCK + c
      PROVE  BlockOf(n, k)' = BlockOf(n, k)
  <2>1. LEVEL2_LIMIT < blocks[n]
    BY <1>1, <1>4 DEF Cols
  <2> QED BY <1>4, <2>1, BlockAt
<1> QED BY <1>2, <1>3, <1>4, Nodes

\* A pointer block is written back over what the file had in it.
LEMMA NeverMoveFlush ==
  ASSUME BInv, Unique, Written, Faithful, Level2Flush \/ Level3Flush,
         NEW n \in Inodes \ torn, NEW k \in 0 .. SettledBlocks(n) - 1
  PROVE  BlockOf(n, k)' = BlockOf(n, k)
<1>1. /\ UNCHANGED <<l1, l2, l3>> /\ disk' = [disk EXCEPT ![Target] = ptr_reg] /\ Filling
  BY DEF Level2Flush, Level3Flush, Target, Filling, pointers
<1>2. /\ \A x \in Blocks : disk'[x] = IF x = Target THEN ptr_reg ELSE disk[x]
      /\ Target \in Blocks
  BY <1>1, Places, Known DEF BInv, TypeOK
<1>3. \/ pc = "fill2" /\ Target # 0 /\ Holds("l2", ino, i, Target)
      \/ /\ pc = "fill3" /\ Holds("disk", l3[ino], i, Target)
         /\ l3[ino] # 0 /\ Holds("l3", ino, 0, l3[ino])
  BY HeldBlocks, Places, <1>1 DEF BInv, Stored, Filling, Rooted
<1>4. CASE k \in 0 .. L1_PTR - 1 /\ k < LEVEL1_LIMIT
  <2>1. k \in Nat /\ l1'[n][k] = l1[n][k]
    BY <1>1, <1>4, Sizes
  <2> QED BY <1>4, <2>1, BlockAt
<1>5. ASSUME NEW r \in 0 .. L2_PTR - 1, NEW c \in Cols,
             k = LEVEL1_LIMIT + r * PTR_PER_BLOCK + c, l2[n][r] # 0
      PROVE  BlockOf(n, k)' = BlockOf(n, k)
  <2>1. Holds("l2", n, r, l2[n][r]) /\ l2[n][r] \in Blocks
    BY HeldBlocks, Places
  <2>2. CASE l2[n][r] # Target
    BY <1>1, <1>2, <1>5, <2>1, <2>2, BlockAt
  <2>3. CASE l2[n][r] = Target
    <3>1. pc = "fill2" /\ n = ino /\ r = i
      BY <1>3, <1>5, <2>1, <2>3, Once
    <3>2. k < SettledBlocks(n)
      BY SettledBound, Sizes
    <3>3. ptr_reg[c] = disk[Target][c]
      BY <1>5, <3>1, <3>2 DEF Faithful
    <3> QED BY <1>1, <1>2, <1>5, <2>1, <2>3, <3>3, BlockAt
  <2> QED BY <2>2, <2>3
<1>6. ASSUME NEW r \in Cols, NEW c \in Cols, k = LEVEL2_LIMIT + r * PTR_PER_BLOCK + c,
             l3[n] # 0, disk[l3[n]][r] # 0
      PROVE  BlockOf(n, k)' = BlockOf(n, k)
  <2> DEFINE leaf == disk[l3[n]][r]
  <2>1. /\ Holds("l3", n, 0, l3[n]) /\ l3[n] \in Blocks
        /\ Holds("disk", l3[n], r, leaf) /\ leaf \in Blocks
    BY HeldBlocks, Places
  <2>2. l3[n] # Target
    BY <1>1, <1>6, TargetApart
  <2>3. disk'[l3'[n]][r] = leaf
    BY <1>1, <1>2, <2>1, <2>2
  <2>4. CASE leaf # Target
    BY <1>1, <1>2, <1>6, <2>1, <2>3, <2>4, BlockAt
  <2>5. CASE leaf = Target
    <3>1. pc = "fill3" /\ l3[n] = l3[ino] /\ r = i
      BY <1>3, <1>6, <2>1, <2>5, Once
    <3>2. n = ino
      BY <1>3, <1>6, <2>1, <3>1, Once
    <3>3. k < SettledBlocks(n)
      BY SettledBound, Sizes
    <3>4. ptr_reg[c] = disk[Target][c]
      BY <1>6, <3>1, <3>2, <3>3 DEF Faithful
    <3> QED BY <1>1, <1>2, <1>6, <2>1, <2>3, <2>5, <3>4, BlockAt
  <2> QED BY <2>4, <2>5
<1> QED BY <1>4, <1>5, <1>6, Nodes

LEMMA NeverMoveRoot ==
  ASSUME BInv, Unique, Written, Faithful, Level3Exit,
         NEW n \in Inodes \ torn, NEW k \in 0 .. SettledBlocks(n) - 1
  PROVE  BlockOf(n, k)' = BlockOf(n, k)
<1>1. /\ UNCHANGED <<l1, l2, l3>> /\ disk' = [disk EXCEPT ![l3[ino]] = l3_ptr_reg]
      /\ Rooted /\ l3[ino] # 0 /\ Holds("l3", ino, 0, l3[ino])
  BY HeldBlocks, Places DEF Level3Exit, Rooted, pointers, BInv, Stored
<1>2. /\ \A x \in Blocks : disk'[x] = IF x = l3[ino] THEN l3_ptr_reg ELSE disk[x]
      /\ l3[ino] \in Blocks
  BY <1>1, Places, Known DEF BInv, TypeOK
<1>3. CASE k \in 0 .. L1_PTR - 1 /\ k < LEVEL1_LIMIT
  <2>1. k \in Nat /\ l1'[n][k] = l1[n][k]
    BY <1>1, <1>3, Sizes
  <2> QED BY <1>3, <2>1, BlockAt
<1>4. ASSUME NEW r \in 0 .. L2_PTR - 1, NEW c \in Cols,
             k = LEVEL1_LIMIT + r * PTR_PER_BLOCK + c, l2[n][r] # 0
      PROVE  BlockOf(n, k)' = BlockOf(n, k)
  <2>1. Holds("l2", n, r, l2[n][r]) /\ l2[n][r] \in Blocks
    BY HeldBlocks, Places
  <2>2. l2[n][r] # l3[ino]
    BY <1>1, <1>4, <2>1, Once
  <2> QED BY <1>1, <1>2, <1>4, <2>1, <2>2, BlockAt
<1>5. ASSUME NEW r \in Cols, NEW c \in Cols, k = LEVEL2_LIMIT + r * PTR_PER_BLOCK + c,
             l3[n] # 0, disk[l3[n]][r] # 0,
             LEVEL2_LIMIT + r * PTR_PER_BLOCK < SettledBlocks(n)
      PROVE  BlockOf(n, k)' = BlockOf(n, k)
  <2> DEFINE leaf == disk[l3[n]][r]
  <2>1. /\ Holds("l3", n, 0, l3[n]) /\ l3[n] \in Blocks
        /\ Holds("disk", l3[n], r, leaf) /\ leaf \in Blocks
    BY HeldBlocks, Places
  <2>2. leaf # l3[ino]
    BY <1>1, <1>5, <2>1, Once
  <2>3. disk'[l3'[n]][r] = leaf
    <3>1. CASE l3[n] = l3[ino]
      <4>1. n = ino
        BY <1>1, <1>5, <2>1, <3>1, Once
      <4>2. l3_ptr_reg[r] = disk[l3[ino]][r]
        BY <1>1, <1>5, <4>1 DEF Faithful
      <4> QED BY <1>1, <1>2, <2>1, <3>1, <4>2
    <3>2. CASE l3[n] # l3[ino]
      BY <1>1, <1>2, <2>1, <3>2
    <3> QED BY <3>1, <3>2
  <2> QED BY <1>1, <1>2, <1>5, <2>1, <2>2, <2>3, BlockAt
<1> QED BY <1>3, <1>4, <1>5, Nodes

\* No block that a file had moves, whatever a call does and wherever it dies.
THEOREM BlocksStay == Spec => BlocksNeverMove
<1> DEFINE Stays == misplaced' = {} => \A n \in Inodes \ torn' :
                      \A k \in 0 .. SettledBlocks(n) - 1 : BlockOf(n, k)' = BlockOf(n, k)
<1>1. BInv /\ TreeInv /\ [Next]_vars => Stays
  <2> SUFFICES ASSUME BInv, TreeInv, [Next]_vars, misplaced' = {},
                      NEW n \in Inodes \ torn', NEW k \in 0 .. SettledBlocks(n) - 1
               PROVE  BlockOf(n, k)' = BlockOf(n, k)
    OBVIOUS
  <2>1. misplaced = {} /\ Unique /\ Written /\ Faithful
    BY MisplacedStays DEF TreeInv
  <2>2. /\ TypeOK /\ ino \in Inodes /\ Root \in Inodes /\ i \in Nat /\ n \in Inodes
        /\ \A m \in Inodes : blocks[m] \in Nat
        /\ LEVEL1_LIMIT \in Nat /\ LEVEL2_LIMIT \in Nat /\ LEVEL1_LIMIT < LEVEL2_LIMIT
        /\ 0 \in Cols
    BY Known, Sizes DEF BInv, TypeOK, Cols
  <2>3. ASSUME UNCHANGED <<l1, l2, l3, disk>> PROVE BlockOf(n, k)' = BlockOf(n, k)
    BY <2>3 DEF BlockOf
  <2>4. CASE UNCHANGED vars \/ (\E x \in 0 .. MaxNeed : CreatTakeInode(x))
             \/ (\E m \in files, x \in 0 .. MaxNeed : Grow(m, x)) \/ Return \/ Crash
             \/ CrashEntry
    BY <2>1, <2>3, <2>4, EntryDeath DEF vars, CreatTakeInode, Grow, Return, Crash, pointers
  <2>13. CASE CrashTaking
    <3>1. /\ UNCHANGED <<l2, l3, disk>> /\ n \in Inodes \ torn
          /\ \A x \in 0 .. L1_PTR - 1 : x < blocks[n] => l1'[n][x] = l1[n][x]
      BY <2>2, <2>13, CrashStays
    <3> QED BY <2>1, <3>1, NeverMoveKept
  <2>5. CASE CreatAddEntry
    BY <2>1, <2>3, <2>5 DEF CreatAddEntry, WriteEntry, pointers
  <2>6. CASE \/ Level1Exit \/ Level2Start \/ Level2OpenOld \/ Level2Exit \/ Level3OldRoot
             \/ Level3OpenNew \/ Level3OpenOld \/ FillPointer
    BY <2>3, <2>6 DEF Level1Exit, Level2Start, Level2OpenOld, Level2Exit, Level3OldRoot,
       Level3OpenNew, Level3OpenOld, FillPointer, pointers
  <2>7. n \in Inodes \ torn
    BY TornStays
  <2>8. CASE CreatGrowDir \/ Level1Take
    <3>1. PICK m \in Inodes, b \in dbitmap : l1' = [l1 EXCEPT ![m][blocks[m]] = b]
      BY FreeBit, <2>2, <2>8 DEF BInv, CreatGrowDir, Level1Take
    <3>2. UNCHANGED <<l2, l3, disk>>
      BY <2>8 DEF CreatGrowDir, Level1Take
    <3>3. \A x \in 0 .. L1_PTR - 1 : x < blocks[n] => l1'[n][x] = l1[n][x]
      <4>1. l1 \in [Inodes -> [0 .. L1_PTR - 1 -> Blocks]] /\ blocks[m] \in Nat
        BY <2>2 DEF TypeOK
      <4>2. PICK p : p = blocks[m]
        OBVIOUS
      <4>3. \A x \in 0 .. L1_PTR - 1 :
              l1'[n][x] = IF n = m /\ x = p THEN b ELSE l1[n][x]
        BY <2>2, <3>1, <4>1, <4>2
      <4>4. \A x \in 0 .. L1_PTR - 1 : x < blocks[n] => ~ (n = m /\ x = p)
        BY ONLY <4>1, <4>2
      <4> QED BY ONLY <4>3, <4>4
    <3> QED BY <2>1, <2>7, <3>2, <3>3, NeverMoveKept
  <2>9. CASE Level2OpenNew
    <3>1. PICK b \in dbitmap : l2' = [l2 EXCEPT ![ino][i] = b]
      BY FreeBit, <2>9 DEF BInv, Level2OpenNew
    <3>2. UNCHANGED <<l1, l3, disk>> /\ At(LEVEL1_LIMIT) /\ j = 0 /\ i \in 0 .. L2_PTR - 1
      BY <2>2, <2>9, Known, Sizes DEF BInv, Level2OpenNew, Position
    <3>3. ~ (LEVEL1_LIMIT + i * PTR_PER_BLOCK < blocks[ino])
      BY <2>2, <3>2, NextPlace, Sizes
    <3>4. \A r \in 0 .. L2_PTR - 1 : l2'[n][r] = IF n = ino /\ r = i THEN b ELSE l2[n][r]
      BY <2>2, <3>1, <3>2 DEF TypeOK
    <3> QED BY <2>1, <2>7, <3>2, <3>3, <3>4, NeverMoveKept
  <2>10. CASE Level3NewRoot
    <3>1. PICK b \in dbitmap : l3' = [l3 EXCEPT ![ino] = b]
      BY FreeBit, <2>10 DEF BInv, Level3NewRoot
    <3>2. UNCHANGED <<l1, l2, disk>> /\ blocks[ino] = LEVEL2_LIMIT
      BY <2>10 DEF Level3NewRoot
    <3>3. LEVEL2_LIMIT < blocks[n] => l3'[n] = l3[n]
      BY <2>2, <3>1, <3>2 DEF TypeOK
    <3> QED BY <2>1, <2>7, <3>2, <3>3, NeverMoveKept
  <2>11. CASE Level2Flush \/ Level3Flush
    BY <2>1, <2>7, <2>11, NeverMoveFlush
  <2>12. CASE Level3Exit
    BY <2>1, <2>7, <2>12, NeverMoveRoot
  <2> QED BY <2>4, <2>5, <2>6, <2>8, <2>9, <2>10, <2>11, <2>12, <2>13
          DEF Next, Level1, Level2, Level3
<1>2. Stays => [misplaced' = {} => \A n \in Inodes \ torn' :
                  \A k \in 0 .. SettledBlocks(n) - 1 : BlockOf(n, k)' = BlockOf(n, k)]_vars
  OBVIOUS
<1> HIDE DEF Stays
<1> QED BY <1>1, <1>2, TreesKeepShape, PTL DEF Spec, BlocksNeverMove

----------------------------------------------------------------------------
(* The blocks of a settled file, each at its place *)

LEMMA SettledFile ==
  ASSUME BInv, NEW n \in Settled
  PROVE  /\ n \in Inodes /\ n \in Inodes \ torn
         /\ n # ino \/ ~ (Filling \/ Rooted)
         /\ SettledBlocks(n) = blocks[n]
         /\ blocks[n] \in 0 .. LEVEL3_LIMIT /\ blocks[n] \in Nat
         /\ pc \in {"idle", "dir"} \/ n # ino
BY SettledBound, Sizes DEF Settled, Filling, Rooted

LEMMA DataPlaced ==
  ASSUME BInv, Unique, Written, Faithful, NEW n \in Settled,
         NEW k \in 0 .. blocks[n] - 1
  PROVE  /\ BlockOf(n, k) # 0 \/ (n = Root /\ k = 0)
         /\ \/ /\ k \in 0 .. L1_PTR - 1 /\ Holds("l1", n, k, BlockOf(n, k))
            \/ \E r \in 0 .. L2_PTR - 1, c \in Cols :
                 /\ k = LEVEL1_LIMIT + r * PTR_PER_BLOCK + c
                 /\ l2[n][r] # 0 /\ Holds("l2", n, r, l2[n][r])
                 /\ Holds("disk", l2[n][r], c, BlockOf(n, k))
            \/ \E r, c \in Cols :
                 /\ k = LEVEL2_LIMIT + r * PTR_PER_BLOCK + c
                 /\ l3[n] # 0 /\ Holds("l3", n, 0, l3[n])
                 /\ disk[l3[n]][r] # 0 /\ Holds("disk", l3[n], r, disk[l3[n]][r])
                 /\ Holds("disk", disk[l3[n]][r], c, BlockOf(n, k))
<1> DEFINE v == BlockOf(n, k)
<1>1. /\ n \in Inodes \ torn /\ k \in 0 .. SettledBlocks(n) - 1
      /\ n # ino \/ ~ (Filling \/ Rooted)
      /\ k \in Nat /\ k < blocks[n]
  BY SettledFile
<1>2. CASE k \in 0 .. L1_PTR - 1 /\ k < LEVEL1_LIMIT
  <2>1. v = l1[n][k]
    BY <1>1, <1>2, BlockAt
  <2> QED BY <1>1, <1>2, <2>1, HeldBlocks DEF BInv, Stored
<1>3. ASSUME NEW r \in 0 .. L2_PTR - 1, NEW c \in Cols,
             k = LEVEL1_LIMIT + r * PTR_PER_BLOCK + c, l2[n][r] # 0
      PROVE  /\ v # 0 /\ Holds("l2", n, r, l2[n][r])
             /\ Holds("disk", l2[n][r], c, v)
  <2>1. v = disk[l2[n][r]][c] /\ l2[n][r] \in Blocks
    BY <1>1, <1>3, BlockAt, Places
  <2>2. Mem[l2[n][r]] = disk[l2[n][r]]
    BY <1>1, <1>3, ForeignNodes
  <2> QED BY <1>1, <1>3, <2>1, <2>2, HeldBlocks DEF Written
<1>4. ASSUME NEW r \in Cols, NEW c \in Cols, k = LEVEL2_LIMIT + r * PTR_PER_BLOCK + c,
             l3[n] # 0, disk[l3[n]][r] # 0, disk[l3[n]][r] = Mem[l3[n]][r]
      PROVE  /\ v # 0 /\ Holds("l3", n, 0, l3[n])
             /\ Holds("disk", l3[n], r, disk[l3[n]][r])
             /\ Holds("disk", disk[l3[n]][r], c, v)
  <2>1. v = disk[disk[l3[n]][r]][c] /\ l3[n] \in Blocks /\ disk[l3[n]][r] \in Blocks
    BY <1>1, <1>4, BlockAt, Places
  <2>2. Mem[disk[l3[n]][r]] = disk[disk[l3[n]][r]]
    BY <1>1, <1>4, ForeignNodes
  <2>3. v # 0
    BY <1>1, <1>4, <2>1, <2>2 DEF Written
  <2> QED BY <1>1, <2>1, <2>3, HeldBlocks
<1> HIDE DEF v
<1>5. \/ k \in 0 .. L1_PTR - 1 /\ k < LEVEL1_LIMIT
      \/ \E r \in 0 .. L2_PTR - 1, c \in Cols :
           k = LEVEL1_LIMIT + r * PTR_PER_BLOCK + c /\ l2[n][r] # 0
      \/ \E r, c \in Cols :
           /\ k = LEVEL2_LIMIT + r * PTR_PER_BLOCK + c
           /\ l3[n] # 0 /\ disk[l3[n]][r] # 0 /\ disk[l3[n]][r] = Mem[l3[n]][r]
  BY <1>1, Nodes
<1>6. CASE \E r \in 0 .. L2_PTR - 1, c \in Cols :
             k = LEVEL1_LIMIT + r * PTR_PER_BLOCK + c /\ l2[n][r] # 0
  BY <1>3, <1>6 DEF v
<1>7. CASE \E r, c \in Cols :
             /\ k = LEVEL2_LIMIT + r * PTR_PER_BLOCK + c
             /\ l3[n] # 0 /\ disk[l3[n]][r] # 0 /\ disk[l3[n]][r] = Mem[l3[n]][r]
  BY <1>4, <1>7 DEF v
<1> QED BY <1>2, <1>5, <1>6, <1>7 DEF v

LEMMA IndexPlaced ==
  ASSUME BInv, Unique, Written, Faithful, NEW n \in Settled
  PROVE  /\ \A r \in Level2Rows(n) :
              /\ r \in 0 .. L2_PTR - 1 /\ l2[n][r] # 0 /\ Holds("l2", n, r, l2[n][r])
         /\ \A r \in Level3Rows(n) :
              /\ r \in Cols /\ disk[l3[n]][r] # 0
              /\ Holds("disk", l3[n], r, disk[l3[n]][r])
         /\ Level3Rows(n) # {} => l3[n] # 0 /\ Holds("l3", n, 0, l3[n])
<1>1. n \in Inodes \ torn /\ SettledBlocks(n) = blocks[n]
  BY SettledFile
<1>2. \A r \in Level3Rows(n) : r \in Cols /\ LEVEL2_LIMIT + r * PTR_PER_BLOCK < SettledBlocks(n)
  BY <1>1 DEF Level3Rows, Rows, Cols
<1>3. \A r \in Level3Rows(n) :
        /\ r \in Cols /\ disk[l3[n]][r] # 0 /\ l3[n] # 0
        /\ Holds("disk", l3[n], r, disk[l3[n]][r]) /\ Holds("l3", n, 0, l3[n])
  BY <1>1, <1>2, RootOnDevice, HeldBlocks, Places
<1>4. \A r \in Level2Rows(n) :
        /\ r \in 0 .. L2_PTR - 1 /\ l2[n][r] # 0 /\ Holds("l2", n, r, l2[n][r])
  BY <1>1, HeldBlocks DEF Level2Rows, Rows, BInv, Stored
<1> QED BY <1>3, <1>4

\* A block of a file is held by the inode or a pointer block of the file.
LEMMA OwnedPlaced ==
  ASSUME BInv, Unique, Written, Faithful, NEW n \in Settled, NEW v \in Owned(n)
  PROVE  /\ v # 0 \/ (n = Root /\ v = 0)
         /\ v # 0 => \E t, x, y : Holds(t, x, y, v) /\ PartOf(n, t, x)
<1>0. n \in Inodes
  BY SettledFile
<1>1. CASE v \in DataBlocks(n)
  <2>1. PICK k \in 0 .. blocks[n] - 1 : v = BlockOf(n, k)
    BY <1>1 DEF DataBlocks
  <2>2. CASE k \in 0 .. L1_PTR - 1 /\ Holds("l1", n, k, BlockOf(n, k))
    BY <2>1, <2>2, DataPlaced DEF PartOf
  <2>3. CASE \E r \in 0 .. L2_PTR - 1, c \in Cols :
               /\ l2[n][r] # 0 /\ Holds("disk", l2[n][r], c, BlockOf(n, k))
    BY <2>1, <2>3, DataPlaced DEF PartOf
  <2>4. CASE \E r, c \in Cols :
               /\ l3[n] # 0 /\ disk[l3[n]][r] # 0
               /\ Holds("disk", disk[l3[n]][r], c, BlockOf(n, k))
    BY <2>1, <2>4, DataPlaced DEF PartOf
  <2> QED BY <2>2, <2>3, <2>4, DataPlaced
<1>2. CASE v \in IndexBlocks(n)
  <2>1. CASE \E r \in Level2Rows(n) : v = l2[n][r]
    BY <2>1, IndexPlaced DEF PartOf
  <2>2. CASE \E r \in Level3Rows(n) : v = disk[l3[n]][r]
    BY <2>2, IndexPlaced DEF PartOf
  <2>3. CASE Level3Rows(n) # {} /\ v = l3[n]
    BY <2>3, IndexPlaced DEF PartOf
  <2> QED BY <1>2, <2>1, <2>2, <2>3 DEF IndexBlocks
<1> QED BY <1>1, <1>2 DEF Owned

\* A pointer block is written back over nothing that any file uses.
THEOREM WritesAreHarmless == Spec => PointerWritesHarmless
<1> DEFINE Harmless == \A b \in Blocks :
             disk'[b] # disk[b] /\ ino \notin torn /\ misplaced' = {} =>
               /\ \A n \in Settled : b \notin Owned(n)
               /\ \A k \in 0 .. SettledBlocks(ino) - 1 : b # BlockOf(ino, k)
<1>1. BInv /\ TreeInv /\ [Next]_vars => Harmless
  <2> SUFFICES ASSUME BInv, TreeInv, [Next]_vars, misplaced' = {}, ino \notin torn,
                      NEW b \in Blocks, disk'[b] # disk[b]
               PROVE  /\ \A n \in Settled : b \notin Owned(n)
                      /\ \A k \in 0 .. SettledBlocks(ino) - 1 : b # BlockOf(ino, k)
    OBVIOUS
  <2>1. misplaced = {} /\ Unique /\ Written /\ Faithful
    BY MisplacedStays DEF TreeInv
  <2>2. TypeOK /\ ino \in Inodes /\ disk \in [Blocks -> PointerBlock]
    BY Known DEF BInv, TypeOK
  <2>3. \/ Level2Flush \/ Level3Flush \/ Level3Exit
    <3>1. disk' # disk
      OBVIOUS
    <3> QED BY <2>1, <3>1 DEF Next, vars, Level1, Level1Take, Level1Exit, Level2, Level2Start,
            Level2OpenNew, Level2OpenOld, Level2Exit, Level3, Level3NewRoot, Level3OldRoot,
            Level3OpenNew, Level3OpenOld, FillPointer, Return, Crash, CrashTaking,
            CrashEntry, CreatTakeInode, CreatGrowDir, CreatAddEntry, WriteEntry, Grow
  <2>4. /\ b # 0 /\ pc \notin {"idle", "dir"}
        /\ \/ \E y : Holds("l2", ino, y, b)
           \/ Holds("l3", ino, 0, b)
           \/ \E y : Holds("disk", l3[ino], y, b) /\ l3[ino] # 0
    <3>1. CASE Level2Flush
      <4>1. pc = "fill2" /\ b = Target
        BY <2>2, <3>1 DEF Level2Flush, Target
      <4> QED BY <4>1, HeldBlocks, Places DEF BInv, Stored
    <3>2. CASE Level3Flush
      <4>1. pc = "fill3" /\ b = Target
        BY <2>2, <3>2 DEF Level3Flush, Target
      <4> QED BY <2>1, <4>1, HeldBlocks, Places DEF BInv, Stored, Rooted, Written
    <3>3. CASE Level3Exit
      <4>1. Rooted /\ b = l3[ino]
        BY <2>2, <3>3 DEF Level3Exit, Rooted
      <4> QED BY <2>2, <4>1, HeldBlocks DEF BInv, Stored, Rooted
    <3> QED BY <2>3, <3>1, <3>2, <3>3
  <2>5. PICK t, x, y : Holds(t, x, y, b) /\ PartOf(ino, t, x) /\ t # "l1"
                       /\ (t = "disk" => x = l3[ino] /\ l3[ino] # 0)
    BY <2>4 DEF PartOf
  <2>6. ASSUME NEW n \in Settled, b \in Owned(n) PROVE FALSE
    <3>1. PICK u, z, w : Holds(u, z, w, b) /\ PartOf(n, u, z)
      BY <2>1, <2>4, <2>6, OwnedPlaced
    <3>2. t = u /\ x = z
      BY <2>1, <2>4, <2>5, <3>1, Once
    <3>3. n \in Inodes /\ n # ino
      BY <2>4, SettledFile
    <3> QED BY <2>1, <2>2, <2>5, <3>1, <3>2, <3>3, PartsApart
  <2>7. ASSUME NEW k \in 0 .. SettledBlocks(ino) - 1, b = BlockOf(ino, k) PROVE FALSE
    <3>1. ino \in Inodes \ torn
      BY <2>2
    <3>2. CASE k \in 0 .. L1_PTR - 1 /\ k < LEVEL1_LIMIT
      <4>1. k \in Nat
        BY <3>2, Sizes
      <4>2. Holds("l1", ino, k, b)
        BY <2>2, <2>7, <3>2, <4>1, BlockAt, HeldBlocks
      <4> QED BY <2>1, <2>4, <2>5, <4>2, Once
    <3>3. ASSUME NEW r \in 0 .. L2_PTR - 1, NEW c \in Cols,
                 k = LEVEL1_LIMIT + r * PTR_PER_BLOCK + c, l2[ino][r] # 0
          PROVE  FALSE
      <4>1. /\ Holds("disk", l2[ino][r], c, b) /\ Holds("l2", ino, r, l2[ino][r])
            /\ Holds("l3", ino, 0, l3[ino])
        BY <2>2, <2>7, <3>3, BlockAt, HeldBlocks, Places
      <4>2. t = "disk" /\ x = l2[ino][r]
        BY <2>1, <2>4, <2>5, <4>1, Once
      <4> QED BY <2>1, <2>5, <3>3, <4>1, <4>2, Once
    <3>4. ASSUME NEW r \in Cols, NEW c \in Cols, k = LEVEL2_LIMIT + r * PTR_PER_BLOCK + c,
                 l3[ino] # 0, disk[l3[ino]][r] # 0
          PROVE  FALSE
      <4>1. /\ Holds("disk", disk[l3[ino]][r], c, b)
            /\ Holds("disk", l3[ino], r, disk[l3[ino]][r])
            /\ Holds("l3", ino, 0, l3[ino])
        BY <2>2, <2>7, <3>4, BlockAt, HeldBlocks, Places
      <4>2. t = "disk" /\ x = disk[l3[ino]][r]
        BY <2>1, <2>4, <2>5, <4>1, Once
      <4> QED BY <2>1, <2>5, <3>4, <4>1, <4>2, Once
    <3> QED BY <2>1, <3>1, <3>2, <3>3, <3>4, Nodes
  <2> QED BY <2>6, <2>7
<1>2. Harmless => [\A b \in Blocks : disk'[b] # disk[b] /\ ino \notin torn /\ misplaced' = {} =>
                     /\ \A n \in Settled : b \notin Owned(n)
                     /\ \A k \in 0 .. SettledBlocks(ino) - 1 : b # BlockOf(ino, k)]_vars
  OBVIOUS
<1> HIDE DEF Harmless
<1> QED BY <1>1, <1>2, TreesKeepShape, PTL DEF Spec, PointerWritesHarmless

----------------------------------------------------------------------------
(* Counting the blocks of a file *)

LEMMA ImageCount ==
  ASSUME NEW S, IsFiniteSet(S), NEW f, NEW T, T = {f[x] : x \in S},
         f = [x \in S |-> f[x]], \A x, y \in S : f[x] = f[y] => x = y
  PROVE  IsFiniteSet(T) /\ Cardinality(T) = Cardinality(S)
<1>1. f \in Bijection(S, T)
  BY DEF Bijection, Injection, Surjection, IsInjective
<1>2. ExistsBijection(S, T)
  BY <1>1 DEF ExistsBijection
<1> QED BY <1>2, FS_Bijection

LEMMA DisjointCount ==
  ASSUME NEW S, NEW T, IsFiniteSet(S), IsFiniteSet(T), S \intersect T = {}
  PROVE  /\ IsFiniteSet(S \union T)
         /\ Cardinality(S \union T) = Cardinality(S) + Cardinality(T)
<1>1. Cardinality(S) \in Nat /\ Cardinality(T) \in Nat
  BY FS_CardinalityType
<1>2. /\ IsFiniteSet(S \union T)
      /\ Cardinality(S \union T) = Cardinality(S) + Cardinality(T) - Cardinality({})
  BY FS_Union
<1> QED BY <1>1, <1>2, FS_EmptySet

\* Two block numbers of a file never name the same block.
LEMMA DataDiffer ==
  ASSUME BInv, Unique, Written, Faithful, NEW n \in Settled,
         NEW k \in 0 .. blocks[n] - 1, NEW h \in 0 .. blocks[n] - 1,
         BlockOf(n, k) = BlockOf(n, h)
  PROVE  k = h
<1> DEFINE v == BlockOf(n, k)
<1>1. CASE v = 0
  <2>1. BlockOf(n, k) = 0 /\ BlockOf(n, h) = 0
    BY <1>1
  <2>2. k = 0
    BY <2>1, DataPlaced
  <2>3. h = 0
    BY <2>1, DataPlaced
  <2> QED BY <2>2, <2>3
<1>2. CASE v # 0
  <2> DEFINE Direct(a) == a \in 0 .. L1_PTR - 1 /\ Holds("l1", n, a, v)
             Second(a, r, c) == /\ a = LEVEL1_LIMIT + r * PTR_PER_BLOCK + c
                                /\ l2[n][r] # 0 /\ Holds("l2", n, r, l2[n][r])
                                /\ Holds("disk", l2[n][r], c, v)
             Third(a, r, c) == /\ a = LEVEL2_LIMIT + r * PTR_PER_BLOCK + c
                               /\ disk[l3[n]][r] # 0
                               /\ Holds("disk", l3[n], r, disk[l3[n]][r])
                               /\ Holds("disk", disk[l3[n]][r], c, v)
  <2>1. /\ Direct(k) \/ (\E r, c : Second(k, r, c)) \/ (\E r, c : Third(k, r, c))
        /\ Direct(h) \/ (\E r, c : Second(h, r, c)) \/ (\E r, c : Third(h, r, c))
    <3>1. Direct(k) \/ (\E r, c : Second(k, r, c)) \/ (\E r, c : Third(k, r, c))
      BY DataPlaced
    <3>2. Direct(h) \/ (\E r, c : Second(h, r, c)) \/ (\E r, c : Third(h, r, c))
      BY DataPlaced
    <3> QED BY <3>1, <3>2
  <2>2. ASSUME Direct(k) PROVE k = h
    BY <1>2, <2>1, <2>2, Once
  <2>3. ASSUME NEW r, NEW c, Second(k, r, c) PROVE k = h
    <3>1. PICK s, d : Second(h, s, d) \/ Third(h, s, d)
      BY <1>2, <2>1, <2>3, Once
    <3>2. c = d /\ (Second(h, s, d) => l2[n][r] = l2[n][s])
          /\ (Third(h, s, d) => l2[n][r] = disk[l3[n]][s])
      BY <1>2, <2>3, <3>1, Once
    <3>3. Second(h, s, d) /\ r = s
      BY <2>3, <3>1, <3>2, Once
    <3> QED BY <2>3, <3>2, <3>3
  <2>4. ASSUME NEW r, NEW c, Third(k, r, c) PROVE k = h
    <3>1. PICK s, d : Second(h, s, d) \/ Third(h, s, d)
      BY <1>2, <2>1, <2>4, Once
    <3>2. c = d /\ (Second(h, s, d) => disk[l3[n]][r] = l2[n][s])
          /\ (Third(h, s, d) => disk[l3[n]][r] = disk[l3[n]][s])
      BY <1>2, <2>4, <3>1, Once
    <3>3. Third(h, s, d) /\ r = s
      BY <2>4, <3>1, <3>2, Once
    <3> QED BY <2>4, <3>2, <3>3
  <2> QED BY <2>1, <2>2, <2>3, <2>4
<1> QED BY <1>1, <1>2

\* No data block of a file is a pointer block of it.
LEMMA DataNotIndex ==
  ASSUME BInv, Unique, Written, Faithful, NEW n \in Settled
  PROVE  DataBlocks(n) \intersect IndexBlocks(n) = {}
<1> SUFFICES ASSUME NEW v \in DataBlocks(n), v \in IndexBlocks(n) PROVE FALSE
  OBVIOUS
<1>1. PICK k \in 0 .. blocks[n] - 1 : v = BlockOf(n, k)
  BY DEF DataBlocks
<1>2. v # 0 /\ \/ \E r : Holds("l2", n, r, v)
               \/ Level3Rows(n) # {} /\ \E r : Holds("disk", l3[n], r, v)
               \/ Level3Rows(n) # {} /\ v = l3[n]
  BY IndexPlaced DEF IndexBlocks
<1>3. Level3Rows(n) # {} => l3[n] # 0 /\ Holds("l3", n, 0, l3[n])
  BY IndexPlaced
<1>4. \/ Holds("l1", n, k, v)
      \/ \E r, c : l2[n][r] # 0 /\ Holds("l2", n, r, l2[n][r]) /\ Holds("disk", l2[n][r], c, v)
      \/ \E r, c : /\ disk[l3[n]][r] # 0 /\ Holds("disk", l3[n], r, disk[l3[n]][r])
                   /\ Holds("disk", disk[l3[n]][r], c, v)
  BY <1>1, DataPlaced
<1>5. Level3Rows(n) # {} /\ \E r : Holds("disk", l3[n], r, v)
  BY <1>2, <1>3, <1>4, Once
<1>6. CASE Holds("l1", n, k, v)
  BY <1>2, <1>5, <1>6, Once
<1>7. ASSUME NEW r, NEW c, l2[n][r] # 0, Holds("l2", n, r, l2[n][r]),
             Holds("disk", l2[n][r], c, v)
      PROVE  FALSE
  <2>1. l2[n][r] = l3[n]
    BY <1>2, <1>5, <1>7, Once
  <2> QED BY <1>3, <1>5, <1>7, <2>1, Once
<1>8. ASSUME NEW r, NEW c, disk[l3[n]][r] # 0, Holds("disk", l3[n], r, disk[l3[n]][r]),
             Holds("disk", disk[l3[n]][r], c, v)
      PROVE  FALSE
  <2>1. disk[l3[n]][r] = l3[n]
    BY <1>2, <1>5, <1>8, Once
  <2> QED BY <1>3, <1>5, <1>8, <2>1, Once
<1> QED BY <1>4, <1>6, <1>7, <1>8

LEMMA RowsFinite ==
  ASSUME NEW n
  PROVE  IsFiniteSet(Level2Rows(n)) /\ IsFiniteSet(Level3Rows(n))
<1>1. IsFiniteSet(0 .. L2_PTR - 1) /\ IsFiniteSet(0 .. PTR_PER_BLOCK - 1)
  BY Sizes, FS_Interval
<1>2. /\ Level2Rows(n) \in SUBSET (0 .. L2_PTR - 1)
      /\ Level3Rows(n) \in SUBSET (0 .. PTR_PER_BLOCK - 1)
  BY DEF Level2Rows, Level3Rows, Rows
<1> QED BY <1>1, <1>2, FS_Subset

\* The pointer blocks of a file are as many as its length needs.
LEMMA IndexCount ==
  ASSUME BInv, Unique, Written, Faithful, NEW n \in Settled
  PROVE  /\ IsFiniteSet(IndexBlocks(n))
         /\ Cardinality(IndexBlocks(n)) =
              Cardinality(Level2Rows(n)) + Cardinality(Level3Rows(n))
              + (IF Level3Rows(n) = {} THEN 0 ELSE 1)
<1> DEFINE S == {l2[n][r] : r \in Level2Rows(n)}
           T == {disk[l3[n]][r] : r \in Level3Rows(n)}
           U == IF Level3Rows(n) = {} THEN {} ELSE {l3[n]}
<1>1. IsFiniteSet(S) /\ Cardinality(S) = Cardinality(Level2Rows(n))
  <2> DEFINE f == [r \in Level2Rows(n) |-> l2[n][r]]
  <2>1. \A r, s \in Level2Rows(n) : f[r] = f[s] => r = s
    BY IndexPlaced, Once
  <2>2. S = {f[r] : r \in Level2Rows(n)} /\ f = [r \in Level2Rows(n) |-> f[r]]
    OBVIOUS
  <2> HIDE DEF f, S
  <2> QED BY <2>1, <2>2, RowsFinite, ImageCount
<1>2. IsFiniteSet(T) /\ Cardinality(T) = Cardinality(Level3Rows(n))
  <2> DEFINE f == [r \in Level3Rows(n) |-> disk[l3[n]][r]]
  <2>1. \A r, s \in Level3Rows(n) : f[r] = f[s] => r = s
    BY IndexPlaced, Once
  <2>2. T = {f[r] : r \in Level3Rows(n)} /\ f = [r \in Level3Rows(n) |-> f[r]]
    OBVIOUS
  <2> HIDE DEF f, T
  <2> QED BY <2>1, <2>2, RowsFinite, ImageCount
<1>3. IsFiniteSet(U) /\ Cardinality(U) = IF Level3Rows(n) = {} THEN 0 ELSE 1
  BY FS_EmptySet, FS_Singleton
<1>4. S \intersect T = {}
  <2> SUFFICES ASSUME NEW r \in Level2Rows(n), NEW s \in Level3Rows(n),
                      l2[n][r] = disk[l3[n]][s]
               PROVE  FALSE
    OBVIOUS
  <2> QED BY IndexPlaced, Once
<1>5. (S \union T) \intersect U = {}
  <2>1. ASSUME NEW r \in Level2Rows(n), Level3Rows(n) # {}, l2[n][r] = l3[n] PROVE FALSE
    BY <2>1, IndexPlaced, Once
  <2>2. ASSUME NEW r \in Level3Rows(n), disk[l3[n]][r] = l3[n] PROVE FALSE
    BY <2>2, IndexPlaced, Once
  <2> QED BY <2>1, <2>2
<1>6. IndexBlocks(n) = (S \union T) \union U
  BY DEF IndexBlocks
<1> HIDE DEF S, T, U
<1>7. /\ IsFiniteSet(S \union T)
      /\ Cardinality(S \union T) = Cardinality(S) + Cardinality(T)
  BY <1>1, <1>2, <1>4, DisjointCount
<1>8. /\ IsFiniteSet((S \union T) \union U)
      /\ Cardinality((S \union T) \union U) = Cardinality(S \union T) + Cardinality(U)
  BY <1>3, <1>5, <1>7, DisjointCount
<1> QED BY <1>1, <1>2, <1>3, <1>6, <1>7, <1>8

\* The trees of two settled files are apart, and each has as many blocks as the
\* length of the file says.
LEMMA TreesApart == BInv /\ TreeInv => TreesDisjoint
<1> SUFFICES ASSUME BInv, Unique, Written, Faithful, NEW n \in Settled
             PROVE  /\ Cardinality(Owned(n)) = Footprint(n)
                    /\ \A m \in Settled : n < m => Owned(n) \intersect Owned(m) = {}
  BY DEF TreeInv, TreesDisjoint
<1>1. n \in Inodes /\ blocks[n] \in Nat
  BY SettledFile
<1>2. IsFiniteSet(DataBlocks(n)) /\ Cardinality(DataBlocks(n)) = blocks[n]
  <2> DEFINE S == 0 .. blocks[n] - 1
             T == DataBlocks(n)
             f == [k \in S |-> BlockOf(n, k)]
  <2>1. \A k, h \in S : f[k] = f[h] => k = h
    BY DataDiffer
  <2>2. T = {f[k] : k \in S} /\ f = [k \in S |-> f[k]]
    BY DEF DataBlocks
  <2>3. IsFiniteSet(S) /\ Cardinality(S) = blocks[n]
    <3>1. /\ IsFiniteSet(0 .. blocks[n] - 1)
          /\ Cardinality(0 .. blocks[n] - 1) =
               IF 0 > blocks[n] - 1 THEN 0 ELSE (blocks[n] - 1) - 0 + 1
      BY <1>1, FS_Interval
    <3> QED BY <1>1, <3>1
  <2> HIDE DEF f, S, T
  <2>4. IsFiniteSet(T) /\ Cardinality(T) = Cardinality(S)
    BY <2>1, <2>2, <2>3, ImageCount
  <2> QED BY <2>3, <2>4 DEF T
<1>3. Cardinality(Owned(n)) = Footprint(n)
  <2>1. /\ Cardinality(Level2Rows(n)) \in Nat /\ Cardinality(Level3Rows(n)) \in Nat
    BY RowsFinite, FS_CardinalityType
  <2>2. Cardinality(Owned(n)) = Cardinality(DataBlocks(n)) + Cardinality(IndexBlocks(n))
    BY <1>2, IndexCount, DataNotIndex, DisjointCount DEF Owned
  <2> QED BY <1>1, <1>2, <2>1, <2>2, IndexCount DEF Footprint
<1>4. ASSUME NEW m \in Settled, n # m, NEW v \in Owned(n), v \in Owned(m) PROVE FALSE
  <2>1. n \in Inodes /\ m \in Inodes
    BY SettledFile
  <2>2. v # 0
    BY <1>4, OwnedPlaced
  <2>3. PICK t, x, y : Holds(t, x, y, v) /\ PartOf(n, t, x)
    BY <2>2, OwnedPlaced
  <2>4. PICK u, z, w : Holds(u, z, w, v) /\ PartOf(m, u, z)
    BY <1>4, <2>2, OwnedPlaced
  <2>5. t = u /\ x = z
    BY <2>2, <2>3, <2>4, Once
  <2> QED BY <1>4, <2>1, <2>3, <2>4, <2>5, PartsApart
<1>5. \A m \in Settled : n < m => n # m
  BY SettledFile, Sizes DEF Inodes
<1> QED BY <1>3, <1>4, <1>5

\* No block serves twice.
THEOREM TreesAreDisjoint == Spec => []TreesDisjoint
BY TreesKeepShape, TreesApart, PTL

----------------------------------------------------------------------------
(* Every block that is not free is accounted for *)

\* Block v stays reachable when nothing that the count covers changes.
LEMMA ReachedKept ==
  ASSUME NEW n, NEW v, ReachedBy(n, v), blocks[n] \in Nat, blocks'[n] \in Nat,
         blocks[n] <= blocks'[n],
         \A k \in 0 .. L1_PTR - 1 : k < blocks[n] => l1'[n][k] = l1[n][k],
         \A r \in 0 .. L2_PTR - 1 :
           LEVEL1_LIMIT + r * PTR_PER_BLOCK < blocks[n] => l2'[n][r] = l2[n][r],
         LEVEL2_LIMIT <= blocks[n] => l3'[n] = l3[n],
         \A r \in 0 .. L2_PTR - 1, c \in Cols :
           LEVEL1_LIMIT + r * PTR_PER_BLOCK + c < blocks[n] /\ Mem[l2[n][r]][c] = v =>
             Mem'[l2[n][r]][c] = v,
         \A r \in Cols : LEVEL2_LIMIT + r * PTR_PER_BLOCK < blocks[n] =>
           Mem'[l3[n]][r] = Mem[l3[n]][r],
         \A r, c \in Cols :
           LEVEL2_LIMIT + r * PTR_PER_BLOCK + c < blocks[n] /\ Mem[Mem[l3[n]][r]][c] = v =>
             Mem'[Mem[l3[n]][r]][c] = v
  PROVE  ReachedBy(n, v)'
<1>1. /\ \A r \in Nat : r * PTR_PER_BLOCK \in Nat
      /\ LEVEL1_LIMIT \in Nat /\ LEVEL2_LIMIT \in Nat
      /\ Cols \subseteq Nat /\ 0 .. L2_PTR - 1 \subseteq Nat /\ 0 .. L1_PTR - 1 \subseteq Nat
  BY Sizes DEF Cols
<1>2. CASE \E k \in 0 .. L1_PTR - 1 : k < blocks[n] /\ v = l1[n][k]
  <2>1. PICK k \in 0 .. L1_PTR - 1 : k < blocks[n] /\ v = l1[n][k]
    BY <1>2
  <2>2. k < blocks'[n] /\ v = l1'[n][k]
    BY <1>1, <2>1
  <2> QED BY <2>2 DEF ReachedBy
<1>3. CASE \E r \in 0 .. L2_PTR - 1 :
             LEVEL1_LIMIT + r * PTR_PER_BLOCK < blocks[n] /\ v = l2[n][r]
  <2>1. PICK r \in 0 .. L2_PTR - 1 :
          LEVEL1_LIMIT + r * PTR_PER_BLOCK < blocks[n] /\ v = l2[n][r]
    BY <1>3
  <2>2. LEVEL1_LIMIT + r * PTR_PER_BLOCK < blocks'[n] /\ v = l2'[n][r]
    BY <1>1, <2>1
  <2> QED BY <2>2 DEF ReachedBy
<1>4. CASE \E r \in 0 .. L2_PTR - 1, c \in Cols :
             LEVEL1_LIMIT + r * PTR_PER_BLOCK + c < blocks[n] /\ v = Mem[l2[n][r]][c]
  <2>1. PICK r \in 0 .. L2_PTR - 1, c \in Cols :
          LEVEL1_LIMIT + r * PTR_PER_BLOCK + c < blocks[n] /\ v = Mem[l2[n][r]][c]
    BY <1>4
  <2>2. LEVEL1_LIMIT + r * PTR_PER_BLOCK < blocks[n]
        /\ LEVEL1_LIMIT + r * PTR_PER_BLOCK + c < blocks'[n]
    BY <1>1, <2>1
  <2>3. v = Mem'[l2'[n][r]][c]
    BY <2>1, <2>2
  <2> QED BY <2>2, <2>3 DEF ReachedBy
<1>5. CASE LEVEL2_LIMIT <= blocks[n] /\ v = l3[n]
  <2>1. LEVEL2_LIMIT <= blocks'[n] /\ v = l3'[n]
    BY <1>1, <1>5
  <2> QED BY <2>1 DEF ReachedBy
<1>6. CASE \E r \in Cols :
             LEVEL2_LIMIT + r * PTR_PER_BLOCK < blocks[n] /\ v = Mem[l3[n]][r]
  <2>1. PICK r \in Cols : LEVEL2_LIMIT + r * PTR_PER_BLOCK < blocks[n] /\ v = Mem[l3[n]][r]
    BY <1>6
  <2>2. LEVEL2_LIMIT <= blocks[n] /\ LEVEL2_LIMIT + r * PTR_PER_BLOCK < blocks'[n]
    BY <1>1, <2>1
  <2>3. v = Mem'[l3'[n]][r]
    BY <2>1, <2>2
  <2> QED BY <2>2, <2>3 DEF ReachedBy
<1>7. CASE \E r, c \in Cols :
             LEVEL2_LIMIT + r * PTR_PER_BLOCK + c < blocks[n] /\ v = Mem[Mem[l3[n]][r]][c]
  <2>1. PICK r \in Cols, c \in Cols :
          LEVEL2_LIMIT + r * PTR_PER_BLOCK + c < blocks[n] /\ v = Mem[Mem[l3[n]][r]][c]
    BY <1>7
  <2>2. /\ LEVEL2_LIMIT <= blocks[n] /\ LEVEL2_LIMIT + r * PTR_PER_BLOCK < blocks[n]
        /\ LEVEL2_LIMIT + r * PTR_PER_BLOCK + c < blocks'[n]
    BY <1>1, <2>1
  <2>3. v = Mem'[Mem'[l3'[n]][r]][c]
    BY <2>1, <2>2
  <2> QED BY <2>2, <2>3 DEF ReachedBy
<1> QED BY <1>2, <1>3, <1>4, <1>5, <1>6, <1>7 DEF ReachedBy

\* The innermost loop writes past everything that is counted.
LEMMA ReachedFill ==
  ASSUME BInv, Unique, Written, torn = {}, FillPointer, NEW n \in Inodes,
         NEW v, v # 0, ReachedBy(n, v)
  PROVE  ReachedBy(n, v)'
<1>1. PICK b \in dbitmap : \A x \in Blocks, c \in Cols :
        Mem'[x][c] = IF x = Target /\ c = j THEN b ELSE Mem[x][c]
  BY FreeBit, MemFill
<1>2. /\ UNCHANGED <<l1, l2, l3>> /\ Filling
      /\ blocks[n] \in Nat /\ blocks'[n] \in Nat /\ blocks[n] <= blocks'[n]
      /\ j < PTR_PER_BLOCK /\ LEVEL1_LIMIT \in Nat /\ LEVEL2_LIMIT \in Nat
      /\ pc = "fill2" => At(LEVEL1_LIMIT)
      /\ pc = "fill3" => At(LEVEL2_LIMIT)
  <2>1. /\ blocks[n] \in Nat /\ blocks[ino] \in Nat
        /\ LEVEL1_LIMIT \in Nat /\ LEVEL2_LIMIT \in Nat
    BY Known, Sizes DEF BInv, TypeOK
  <2>2. UNCHANGED <<l1, l2, l3>> /\ Filling
    BY DEF FillPointer, Filling, pointers
  <2>3. blocks'[n] = IF n = ino THEN blocks[ino] + 1 ELSE blocks[n]
    BY FillCounts
  <2> QED BY <2>1, <2>2, <2>3, FillCounts
<1>3. /\ pc = "fill2" => Holds("l2", ino, i, Target)
      /\ pc = "fill3" => Holds("disk", l3[ino], i, Target) /\ l3[ino] # 0
                         /\ Holds("l3", ino, 0, l3[ino])
  BY HeldBlocks, Places DEF BInv, Stored, Rooted
<1>4. /\ \A r \in Nat : r * PTR_PER_BLOCK \in Nat
      /\ Cols \subseteq Nat /\ 0 .. L2_PTR - 1 \subseteq Nat
  BY Sizes DEF Cols
<1>5. ASSUME NEW r \in 0 .. L2_PTR - 1, NEW c \in Cols,
             LEVEL1_LIMIT + r * PTR_PER_BLOCK + c < blocks[n]
      PROVE  Mem'[l2[n][r]][c] = Mem[l2[n][r]][c]
  <2>1. LEVEL1_LIMIT + r * PTR_PER_BLOCK < blocks[n]
    BY <1>2, <1>4, <1>5
  <2>2. l2[n][r] # 0 /\ Holds("l2", n, r, l2[n][r]) /\ l2[n][r] \in Blocks
    BY <2>1, HeldBlocks, Places DEF BInv, Stored
  <2>3. CASE l2[n][r] = Target /\ c = j
    <3>1. pc = "fill2" /\ n = ino /\ r = i
      BY <1>2, <1>3, <2>2, <2>3, Once DEF Filling
    <3> QED BY <1>2, <1>4, <1>5, <2>3, <3>1, NextPlace
  <2> QED BY <1>1, <2>2, <2>3
<1>6. ASSUME NEW r \in Cols, LEVEL2_LIMIT + r * PTR_PER_BLOCK < blocks[n]
      PROVE  /\ Mem'[l3[n]][r] = Mem[l3[n]][r] /\ l3[n] # 0
             /\ Mem[l3[n]][r] # 0 /\ Mem[l3[n]][r] \in Blocks
             /\ Holds("l3", n, 0, l3[n]) /\ Holds("disk", l3[n], r, Mem[l3[n]][r])
  <2>1. LEVEL2_LIMIT < blocks[n]
    BY <1>2, <1>4, <1>6
  <2>2. l3[n] # 0 /\ l3[n] \in Blocks /\ Mem[l3[n]][r] # 0
    BY <1>6, <2>1, Places DEF BInv, Stored, Written
  <2>3. l3[n] # Target
    BY <1>2, <2>2, TargetApart
  <2> QED BY <1>1, <2>2, <2>3, HeldBlocks, Places
<1>7. ASSUME NEW r \in Cols, NEW c \in Cols,
             LEVEL2_LIMIT + r * PTR_PER_BLOCK + c < blocks[n]
      PROVE  Mem'[Mem[l3[n]][r]][c] = Mem[Mem[l3[n]][r]][c]
  <2>1. LEVEL2_LIMIT + r * PTR_PER_BLOCK < blocks[n]
    BY <1>2, <1>4, <1>7
  <2>2. CASE Mem[l3[n]][r] = Target /\ c = j
    <3>1. pc = "fill3" /\ l3[n] = l3[ino] /\ r = i
      BY <1>2, <1>3, <1>6, <2>1, <2>2, Once DEF Filling
    <3>2. n = ino
      BY <1>3, <1>6, <2>1, <3>1, Once
    <3> QED BY <1>2, <1>4, <1>7, <2>2, <3>1, <3>2, NextPlace
  <2> QED BY <1>1, <1>6, <2>1, <2>2
<1>8. /\ \A k \in 0 .. L1_PTR - 1 : k < blocks[n] => l1'[n][k] = l1[n][k]
      /\ \A r \in 0 .. L2_PTR - 1 :
           LEVEL1_LIMIT + r * PTR_PER_BLOCK < blocks[n] => l2'[n][r] = l2[n][r]
      /\ LEVEL2_LIMIT <= blocks[n] => l3'[n] = l3[n]
      /\ blocks[n] <= blocks'[n] /\ blocks'[n] \in Nat
  BY <1>2
<1>9. \A r \in 0 .. L2_PTR - 1, c \in Cols :
        LEVEL1_LIMIT + r * PTR_PER_BLOCK + c < blocks[n] /\ Mem[l2[n][r]][c] = v =>
          Mem'[l2[n][r]][c] = v
  BY <1>5
<1>10. \A r \in Cols : LEVEL2_LIMIT + r * PTR_PER_BLOCK < blocks[n] =>
         Mem'[l3[n]][r] = Mem[l3[n]][r]
  BY <1>6
<1>11. \A r, c \in Cols :
         LEVEL2_LIMIT + r * PTR_PER_BLOCK + c < blocks[n] /\ Mem[Mem[l3[n]][r]][c] = v =>
           Mem'[Mem[l3[n]][r]][c] = v
  BY <1>7
<1> QED BY <1>2, <1>8, <1>9, <1>10, <1>11, ReachedKept

\* A row that is opened is past everything that is counted.
LEMMA ReachedOpen ==
  ASSUME BInv, Unique, Written, torn = {}, misplaced = {}, Level3OpenNew,
         NEW n \in Inodes, NEW v, v # 0, ReachedBy(n, v)
  PROVE  ReachedBy(n, v)'
<1>1. PICK b \in dbitmap : \A x \in Blocks, c \in Cols :
        Mem'[x][c] = IF x = l3[ino] /\ c = i THEN b ELSE Mem[x][c]
  BY FreeBit, MemOpen
<1>2. /\ UNCHANGED <<l1, l2, l3, blocks>> /\ Rooted /\ At(LEVEL2_LIMIT) /\ j = 0
      /\ blocks[n] \in Nat /\ LEVEL1_LIMIT \in Nat /\ LEVEL2_LIMIT \in Nat
      /\ j < PTR_PER_BLOCK
  BY Known, Sizes DEF BInv, TypeOK, Level3OpenNew, Position, Rooted, pointers
<1>3. Holds("l3", ino, 0, l3[ino]) /\ l3[ino] # 0
  BY <1>2, HeldBlocks, Places DEF BInv, Stored
<1>4. /\ \A r \in Nat : r * PTR_PER_BLOCK \in Nat
      /\ Cols \subseteq Nat /\ 0 .. L2_PTR - 1 \subseteq Nat
  BY Sizes DEF Cols
<1>5. ASSUME NEW r \in 0 .. L2_PTR - 1, NEW c \in Cols,
             LEVEL1_LIMIT + r * PTR_PER_BLOCK + c < blocks[n]
      PROVE  Mem'[l2[n][r]][c] = Mem[l2[n][r]][c]
  <2>1. l2[n][r] # l3[ino] /\ l2[n][r] \in Blocks
    BY <1>3, HeldBlocks, Places, Once
  <2> QED BY <1>1, <2>1
<1>6. ASSUME NEW r \in Cols, LEVEL2_LIMIT + r * PTR_PER_BLOCK < blocks[n]
      PROVE  /\ Mem'[l3[n]][r] = Mem[l3[n]][r]
             /\ Mem[l3[n]][r] # l3[ino] /\ Mem[l3[n]][r] \in Blocks
  <2>1. Holds("disk", l3[n], r, Mem[l3[n]][r]) /\ Holds("l3", n, 0, l3[n])
        /\ l3[n] \in Blocks /\ Mem[l3[n]][r] \in Blocks
    BY HeldBlocks, Places
  <2>2. Mem[l3[n]][r] # l3[ino]
    BY <1>3, <2>1, Once
  <2>3. CASE l3[n] = l3[ino] /\ r = i
    <3>1. n = ino
      BY <1>3, <2>1, <2>3, Once
    <3> QED BY <1>2, <1>4, <1>6, <2>3, <3>1, NextPlace
  <2> QED BY <1>1, <2>1, <2>2, <2>3
<1>7. ASSUME NEW r \in Cols, NEW c \in Cols,
             LEVEL2_LIMIT + r * PTR_PER_BLOCK + c < blocks[n]
      PROVE  Mem'[Mem[l3[n]][r]][c] = Mem[Mem[l3[n]][r]][c]
  <2>1. LEVEL2_LIMIT + r * PTR_PER_BLOCK < blocks[n]
    BY <1>2, <1>4, <1>7
  <2> QED BY <1>1, <1>6, <2>1
<1>8. /\ \A k \in 0 .. L1_PTR - 1 : k < blocks[n] => l1'[n][k] = l1[n][k]
      /\ \A r \in 0 .. L2_PTR - 1 :
           LEVEL1_LIMIT + r * PTR_PER_BLOCK < blocks[n] => l2'[n][r] = l2[n][r]
      /\ LEVEL2_LIMIT <= blocks[n] => l3'[n] = l3[n]
      /\ blocks[n] <= blocks'[n] /\ blocks'[n] \in Nat
  BY <1>2
<1>9. \A r \in 0 .. L2_PTR - 1, c \in Cols :
        LEVEL1_LIMIT + r * PTR_PER_BLOCK + c < blocks[n] /\ Mem[l2[n][r]][c] = v =>
          Mem'[l2[n][r]][c] = v
  BY <1>5
<1>10. \A r \in Cols : LEVEL2_LIMIT + r * PTR_PER_BLOCK < blocks[n] =>
         Mem'[l3[n]][r] = Mem[l3[n]][r]
  BY <1>6
<1>11. \A r, c \in Cols :
         LEVEL2_LIMIT + r * PTR_PER_BLOCK + c < blocks[n] /\ Mem[Mem[l3[n]][r]][c] = v =>
           Mem'[Mem[l3[n]][r]][c] = v
  BY <1>7
<1> QED BY <1>2, <1>8, <1>9, <1>10, <1>11, ReachedKept

LEMMA ReachedMem ==
  ASSUME BInv, NEW n \in Inodes, NEW v, ReachedBy(n, v), Mem' = Mem,
         blocks'[n] \in Nat, blocks[n] <= blocks'[n],
         \A k \in 0 .. L1_PTR - 1 : k < blocks[n] => l1'[n][k] = l1[n][k],
         \A r \in 0 .. L2_PTR - 1 :
           LEVEL1_LIMIT + r * PTR_PER_BLOCK < blocks[n] => l2'[n][r] = l2[n][r],
         LEVEL2_LIMIT <= blocks[n] => l3'[n] = l3[n]
  PROVE  ReachedBy(n, v)'
<1>1. blocks[n] \in Nat
  BY Known, Sizes DEF BInv, TypeOK
<1>2. \A x : Mem'[x] = Mem[x]
  OBVIOUS
<1>3. /\ \A r \in 0 .. L2_PTR - 1, c \in Cols :
           LEVEL1_LIMIT + r * PTR_PER_BLOCK + c < blocks[n] /\ Mem[l2[n][r]][c] = v =>
             Mem'[l2[n][r]][c] = v
      /\ \A r \in Cols : LEVEL2_LIMIT + r * PTR_PER_BLOCK < blocks[n] =>
           Mem'[l3[n]][r] = Mem[l3[n]][r]
      /\ \A r, c \in Cols :
           LEVEL2_LIMIT + r * PTR_PER_BLOCK + c < blocks[n] /\ Mem[Mem[l3[n]][r]][c] = v =>
             Mem'[Mem[l3[n]][r]][c] = v
  BY <1>2
<1> QED BY <1>1, <1>3, ReachedKept

\* What a call takes leave of, a level-3 root, is given up by name.
LEMMA ReachedNewRoot ==
  ASSUME BInv, Mem' = Mem, Level3NewRoot, NEW n \in Inodes, NEW v, v # 0, ReachedBy(n, v)
  PROVE  v \in abandoned' \/ ReachedBy(n, v)'
<1>1. PICK b \in dbitmap : l3' = [l3 EXCEPT ![ino] = b]
  BY FreeBit DEF BInv, Level3NewRoot
<1>2. /\ UNCHANGED <<l1, l2, blocks>> /\ blocks[ino] = LEVEL2_LIMIT
      /\ abandoned' = abandoned \union ({l3[ino]} \ {0})
      /\ blocks[n] \in Nat /\ LEVEL2_LIMIT \in Nat /\ ino \in Inodes
      /\ \A r \in Nat : r * PTR_PER_BLOCK \in Nat
  BY Known, Sizes DEF BInv, TypeOK, Level3NewRoot
<1>3. n # ino => l3'[n] = l3[n]
  BY <1>1, Known DEF BInv, TypeOK
<1>4. CASE n # ino
  BY <1>2, <1>3, <1>4, ReachedMem
<1>5. CASE n = ino
  <2>1. /\ ~ \E r \in Cols : LEVEL2_LIMIT + r * PTR_PER_BLOCK < blocks[n]
        /\ ~ \E r, c \in Cols : LEVEL2_LIMIT + r * PTR_PER_BLOCK + c < blocks[n]
    BY <1>2, <1>5 DEF Cols
  <2>2. \/ \E k \in 0 .. L1_PTR - 1 : k < blocks[n] /\ v = l1[n][k]
        \/ \E r \in 0 .. L2_PTR - 1 :
             LEVEL1_LIMIT + r * PTR_PER_BLOCK < blocks[n] /\ v = l2[n][r]
        \/ \E r \in 0 .. L2_PTR - 1, c \in Cols :
             LEVEL1_LIMIT + r * PTR_PER_BLOCK + c < blocks[n] /\ v = Mem[l2[n][r]][c]
        \/ v = l3[n]
    BY <2>1 DEF ReachedBy
  <2>3. CASE v = l3[n]
    BY <1>2, <1>5, <2>3
  <2>4. CASE v # l3[n]
    <3>1. \/ \E k \in 0 .. L1_PTR - 1 : k < blocks'[n] /\ v = l1'[n][k]
          \/ \E r \in 0 .. L2_PTR - 1 :
               LEVEL1_LIMIT + r * PTR_PER_BLOCK < blocks'[n] /\ v = l2'[n][r]
          \/ \E r \in 0 .. L2_PTR - 1, c \in Cols :
               LEVEL1_LIMIT + r * PTR_PER_BLOCK + c < blocks'[n] /\ v = Mem'[l2'[n][r]][c]
      BY <1>2, <2>2, <2>4
    <3> QED BY <3>1 DEF ReachedBy
  <2> QED BY <2>3, <2>4
<1> QED BY <1>4, <1>5

LEMMA ReachedStep ==
  ASSUME BInv, Unique, Written, misplaced = {}, misplaced' = {}, torn = {}, torn' = {},
         [Next]_vars, NEW n \in Inodes, NEW v, v # 0, ReachedBy(n, v)
  PROVE  v \in abandoned' \/ ReachedBy(n, v)'
<1>0. /\ TypeOK /\ ino \in Inodes /\ Root \in Inodes /\ i \in Nat
      /\ \A m \in Inodes : blocks[m] \in Nat
      /\ LEVEL1_LIMIT \in Nat /\ LEVEL2_LIMIT \in Nat /\ LEVEL1_LIMIT < LEVEL2_LIMIT
  BY Known, Sizes DEF BInv, TypeOK
<1>1. CASE FillPointer
  BY <1>1, ReachedFill
<1>2. CASE Level3OpenNew
  BY <1>2, ReachedOpen
<1>3. CASE ~ FillPointer /\ ~ Level3OpenNew
  <2>1. Mem' = Mem
    <3>1. ~ CrashTaking /\ (Crash => pc = "dir")
      BY <1>0, CrashStays DEF Crash
    <3> QED BY <1>3, <3>1, MemKept
  <2>2. ASSUME UNCHANGED <<l1, l2, l3, blocks>> PROVE ReachedBy(n, v)'
    BY <1>0, <2>1, <2>2, ReachedMem
  <2>3. CASE UNCHANGED vars \/ (\E x \in 0 .. MaxNeed : CreatTakeInode(x))
             \/ (\E m \in files, x \in 0 .. MaxNeed : Grow(m, x)) \/ Crash \/ CrashEntry
    BY <2>2, <2>3, EntryDeath DEF vars, CreatTakeInode, Grow, Crash, pointers
  <2>4. CASE Return
    BY <2>2, <2>4, ReturnKeepsCount DEF Return, pointers
  <2>5. CASE CreatAddEntry
    <3>1. blocks[ino] = 0 /\ UNCHANGED <<l1, l2, l3>>
          /\ blocks' = [blocks EXCEPT ![ino] = 0]
      BY <1>0, <2>5, Known DEF BInv, Fresh, Room, CreatAddEntry, pointers
    <3>2. blocks' = blocks
      BY <1>0, <3>1 DEF TypeOK
    <3> QED BY <2>2, <3>1, <3>2
  <2>6. CASE \/ Level1Exit \/ Level2Start \/ Level2OpenOld \/ Level2Flush \/ Level2Exit
             \/ Level3OldRoot \/ Level3OpenOld \/ Level3Flush \/ Level3Exit
    BY <2>2, <2>6 DEF Level1Exit, Level2Start, Level2OpenOld, Level2Flush, Level2Exit,
       Level3OldRoot, Level3OpenOld, Level3Flush, Level3Exit, pointers
  <2>7. CASE CreatGrowDir \/ Level1Take
    <3>1. PICK m \in Inodes, b \in dbitmap : /\ l1' = [l1 EXCEPT ![m][blocks[m]] = b]
                                             /\ blocks' = [blocks EXCEPT ![m] = @ + 1]
      BY FreeBit, <1>0, <2>7 DEF BInv, CreatGrowDir, Level1Take
    <3>2. UNCHANGED <<l2, l3>>
      BY <2>7 DEF CreatGrowDir, Level1Take
    <3>3. /\ blocks'[n] \in Nat /\ blocks[n] <= blocks'[n]
          /\ \A x \in 0 .. L1_PTR - 1 : x < blocks[n] => l1'[n][x] = l1[n][x]
      <4>1. /\ l1 \in [Inodes -> [0 .. L1_PTR - 1 -> Blocks]] /\ blocks[m] \in Nat
            /\ blocks \in [Inodes -> 0 .. LEVEL3_LIMIT] /\ blocks[n] \in Nat
        BY <1>0 DEF TypeOK
      <4>2. PICK p : p = blocks[m]
        OBVIOUS
      <4>3. \A x \in 0 .. L1_PTR - 1 :
              l1'[n][x] = IF n = m /\ x = p THEN b ELSE l1[n][x]
        BY <1>0, <3>1, <4>1, <4>2
      <4>4. blocks'[n] = IF n = m THEN blocks[n] + 1 ELSE blocks[n]
        BY <3>1, <4>1
      <4> QED BY <4>1, <4>2, <4>3, <4>4, Sizes
    <3> QED BY <2>1, <3>2, <3>3, ReachedMem
  <2>8. CASE Level2OpenNew
    <3>1. PICK b \in dbitmap : l2' = [l2 EXCEPT ![ino][i] = b]
      BY FreeBit, <2>8 DEF BInv, Level2OpenNew
    <3>2. UNCHANGED <<l1, l3, blocks>> /\ At(LEVEL1_LIMIT) /\ j = 0 /\ i \in 0 .. L2_PTR - 1
      BY <1>0, <2>8, Known, Sizes DEF BInv, Level2OpenNew, Position
    <3>3. ~ (LEVEL1_LIMIT + i * PTR_PER_BLOCK < blocks[ino])
      BY <1>0, <3>2, NextPlace, Sizes
    <3>4. \A r \in 0 .. L2_PTR - 1 : l2'[n][r] = IF n = ino /\ r = i THEN b ELSE l2[n][r]
      BY <1>0, <3>1, <3>2 DEF TypeOK
    <3>5. \A r \in 0 .. L2_PTR - 1 :
            LEVEL1_LIMIT + r * PTR_PER_BLOCK < blocks[n] => l2'[n][r] = l2[n][r]
      BY <3>3, <3>4
    <3> QED BY <1>0, <2>1, <3>2, <3>5, ReachedMem
  <2>9. CASE Level3NewRoot
    BY <2>1, <2>9, ReachedNewRoot
  <2>10. ~ CrashTaking
    BY CrashStays
  <2> QED BY <1>3, <2>3, <2>4, <2>5, <2>6, <2>7, <2>8, <2>9, <2>10
          DEF Next, Level1, Level2, Level3
<1> QED BY <1>1, <1>2, <1>3

\* The row being filled is the file's once it has a block of it.
LEMMA TargetStep ==
  ASSUME BInv, Unique, misplaced' = {}, torn = {}, torn' = {}, [Next]_vars, Filling,
         NEW v, v = Target
  PROVE  (Filling' /\ v = Target') \/ \E n \in Inodes : ReachedBy(n, v)'
<1>0. /\ TypeOK /\ ino \in Inodes /\ i \in Nat /\ j \in Nat /\ PTR_PER_BLOCK \in Nat \ {0}
      /\ blocks[ino] \in Nat /\ i * PTR_PER_BLOCK \in Nat
      /\ LEVEL1_LIMIT \in Nat /\ LEVEL2_LIMIT \in Nat
  BY Known, Sizes DEF BInv, TypeOK
<1>10. PICK m \in Inodes : m = ino
  BY <1>0
<1>1. CASE UNCHANGED vars
  BY <1>1 DEF vars, pointers, call, buffers, Filling, Target
<1>2. CASE FillPointer
  BY <1>2 DEF FillPointer, pointers, call, Filling, Target
<1>3. CASE Level2Flush \/ Level3Flush
  <2>1. j > 0
    <3>1. count_down = 0 \/ j >= PTR_PER_BLOCK
      BY <1>3 DEF Level2Flush, Level3Flush, BufferDone
    <3>2. count_down \in Nat /\ (j > 0 \/ count_down > 0)
      BY <1>0, Sizes DEF BInv, Progress, TypeOK
    <3> QED BY <1>0, <3>1, <3>2
  <2>2. Mem' = Mem
    <3>1. ~ FillPointer /\ ~ Level3OpenNew /\ ~ Crash /\ ~ CrashTaking
      <4>1. pc' \notin {"fill2", "fill3", "idle"}
        BY <1>3 DEF Level2Flush, Level3Flush
      <4> QED BY <1>0, <4>1 DEF FillPointer, Level3OpenNew, Crash, CrashTaking, EndCall
    <3> QED BY <3>1, MemKept
  <2>3. CASE Level2Flush
    <3>1. /\ pc = "fill2" /\ i \in 0 .. L2_PTR - 1 /\ v = l2[ino][i]
          /\ At(LEVEL1_LIMIT) /\ UNCHANGED <<l2, blocks>>
      BY <2>3, Places, Known DEF BInv, Position, Level2Flush, pointers
    <3>2. LEVEL1_LIMIT + i * PTR_PER_BLOCK < blocks'[ino] /\ v = l2'[ino][i]
      BY <1>0, <2>1, <3>1 DEF At
    <3>3. ReachedBy(m, v)'
      BY <1>10, <3>1, <3>2 DEF ReachedBy
    <3> QED BY <1>0, <3>3
  <2>4. CASE Level3Flush
    <3>1. /\ pc = "fill3" /\ i \in Cols /\ v = l3_ptr_reg[i] /\ Rooted
          /\ At(LEVEL2_LIMIT) /\ UNCHANGED <<l3, blocks>> /\ l3[ino] \in Blocks
      BY <2>4, Places, Known DEF BInv, Position, Level3Flush, pointers, Rooted
    <3>2. l3_ptr_reg[i] # l3[ino]
      BY <3>1, RowApart
    <3>3. Mem[l3[ino]][i] = v
      BY <3>1, <3>2 DEF Mem, Target
    <3>4. LEVEL2_LIMIT + i * PTR_PER_BLOCK < blocks'[ino] /\ v = Mem'[l3'[ino]][i]
      BY <1>0, <2>1, <2>2, <3>1, <3>3 DEF At
    <3>5. ReachedBy(m, v)'
      BY <1>10, <3>1, <3>4 DEF ReachedBy
    <3> QED BY <1>0, <3>5
  <2> QED BY <1>3, <2>3, <2>4
<1>4. ~ Crash /\ ~ CrashTaking /\ ~ CrashEntry
  BY <1>0, CrashStays DEF Crash, CrashEntry, Filling
<1> QED BY <1>1, <1>2, <1>3, <1>4 DEF Next, Filling, CreatTakeInode, CreatGrowDir,
        CreatAddEntry, Grow, Level1, Level1Take, Level1Exit, Level2, Level2Start,
        Level2OpenNew, Level2OpenOld, Level2Exit, Level3, Level3NewRoot, Level3OldRoot,
        Level3OpenNew, Level3OpenOld, Level3Exit, Return

\* A block that is taken goes to a file, or is the row to be filled next.
LEMMA TakenStep ==
  ASSUME BInv, Unique, misplaced = {}, misplaced' = {}, torn' = {}, [Next]_vars,
         NEW v \in dbitmap, v \notin dbitmap'
  PROVE  (Filling' /\ v = Target') \/ \E n \in Inodes : ReachedBy(n, v)'
<1>0. /\ TypeOK /\ ino \in Inodes /\ Root \in Inodes /\ i \in Nat /\ j \in Nat
      /\ PTR_PER_BLOCK \in Nat \ {0} /\ L1_PTR \in Nat /\ i * PTR_PER_BLOCK \in Nat
      /\ blocks[ino] \in Nat /\ blocks[Root] \in Nat
      /\ LEVEL1_LIMIT \in Nat /\ LEVEL2_LIMIT \in Nat
  BY Known, Sizes DEF BInv, TypeOK
<1>10. PICK m \in Inodes : m = ino
  BY <1>0
<1>1. dbitmap' # dbitmap
  OBVIOUS
<1>2. ASSUME NEW b \in dbitmap, get_free_dblock(b) PROVE b = v
  BY <1>2 DEF get_free_dblock
<1>3. CASE CreatGrowDir \/ Level1Take
  <2>1. PICK o \in Inodes : /\ l1' = [l1 EXCEPT ![o][blocks[o]] = v]
                            /\ blocks' = [blocks EXCEPT ![o] = @ + 1]
                            /\ blocks[o] \in 0 .. L1_PTR - 1
    <3>1. CASE CreatGrowDir
      <4>1. PICK b \in dbitmap : get_free_dblock(b)
              /\ l1' = [l1 EXCEPT ![Root][blocks[Root]] = b]
        BY FreeBit, <3>1 DEF BInv, CreatGrowDir
      <4>2. blocks[Root] \in 0 .. L1_PTR - 1
        BY <1>0, <3>1, Known, Sizes DEF BInv, CreatGrowDir, Room
      <4> QED BY <1>0, <1>2, <3>1, <4>1, <4>2 DEF CreatGrowDir
    <3>2. CASE Level1Take
      <4>1. PICK b \in dbitmap : get_free_dblock(b)
              /\ l1' = [l1 EXCEPT ![ino][blocks[ino]] = b]
        BY FreeBit, <3>2 DEF BInv, Level1Take
      <4>2. blocks[ino] \in 0 .. L1_PTR - 1
        BY <1>0, <3>2, Sizes DEF Level1Take
      <4> QED BY <1>0, <1>2, <3>2, <4>1, <4>2 DEF Level1Take
    <3> QED BY <1>3, <3>1, <3>2
  <2>2. /\ l1 \in [Inodes -> [0 .. L1_PTR - 1 -> Blocks]]
        /\ blocks \in [Inodes -> 0 .. LEVEL3_LIMIT]
    BY <1>0 DEF TypeOK
  <2>3. PICK p \in 0 .. L1_PTR - 1 : p = blocks[o]
    BY <2>1
  <2>4. p < blocks'[o] /\ v = l1'[o][p]
    <3>1. l1'[o][p] = v
      BY <2>1, <2>2, <2>3
    <3>2. blocks'[o] = p + 1
      BY <2>1, <2>2, <2>3
    <3> QED BY <1>0, <3>1, <3>2
  <2>5. ReachedBy(o, v)'
    BY <2>4 DEF ReachedBy
  <2> QED BY <2>5
<1>4. CASE Level2OpenNew
  <2>1. l2' = [l2 EXCEPT ![ino][i] = v]
    BY FreeBit, <1>2, <1>4 DEF BInv, Level2OpenNew
  <2>2. i \in 0 .. L2_PTR - 1 /\ UNCHANGED <<i, ino>> /\ pc' = "fill2"
    BY <1>0, <1>4, Sizes DEF Level2OpenNew, call
  <2>3. l2'[ino][i] = v
    BY <1>0, <2>1, <2>2 DEF TypeOK
  <2> QED BY <2>2, <2>3 DEF Filling, Target
<1>5. CASE Level3OpenNew
  <2>1. l3_ptr_reg' = [l3_ptr_reg EXCEPT ![i] = v]
    BY FreeBit, <1>2, <1>5 DEF BInv, Level3OpenNew
  <2>2. i \in Cols /\ UNCHANGED i /\ pc' = "fill3"
    BY <1>0, <1>5 DEF Level3OpenNew, Cols
  <2>3. l3_ptr_reg'[i] = v
    BY <2>1, <2>2, Places DEF PointerBlock, Cols
  <2> QED BY <2>2, <2>3 DEF Filling, Target
<1>6. CASE Level3NewRoot
  <2>1. l3' = [l3 EXCEPT ![ino] = v]
    BY FreeBit, <1>2, <1>6 DEF BInv, Level3NewRoot
  <2>2. l3'[ino] = v /\ blocks'[ino] = LEVEL2_LIMIT
    BY <1>0, <1>6, <2>1 DEF TypeOK, Level3NewRoot
  <2>3. ReachedBy(m, v)'
    BY <1>10, <1>0, <2>2 DEF ReachedBy
  <2> QED BY <1>0, <2>3
<1>7. CASE FillPointer
  <2>1. PICK b \in dbitmap : /\ get_free_dblock(b)
          /\ \A x \in Blocks, c \in Cols :
               Mem'[x][c] = IF x = Target /\ c = j THEN b ELSE Mem[x][c]
    BY FreeBit, <1>7, MemFill
  <2>2. b = v
    BY <1>2, <2>1
  <2>3. /\ UNCHANGED <<l2, l3>> /\ blocks'[ino] = blocks[ino] + 1 /\ j \in Cols
        /\ Filling
    BY <1>0, <1>7, FillCounts DEF FillPointer, pointers, Filling
  <2>4. CASE pc = "fill2"
    <3>1. i \in 0 .. L2_PTR - 1 /\ Target = l2[ino][i] /\ Target \in Blocks /\ At(LEVEL1_LIMIT)
      BY <1>7, <2>3, <2>4, Places, FillCounts
    <3>2. /\ LEVEL1_LIMIT + i * PTR_PER_BLOCK + j < blocks'[ino]
          /\ v = Mem'[l2'[ino][i]][j]
      BY <1>0, <2>1, <2>2, <2>3, <3>1 DEF At
    <3>3. ReachedBy(m, v)'
      BY <1>10, <2>3, <3>1, <3>2 DEF ReachedBy
    <3> QED BY <1>0, <3>3
  <2>5. CASE pc = "fill3"
    <3>1. /\ i \in Cols /\ Target = l3_ptr_reg[i] /\ Target \in Blocks /\ At(LEVEL2_LIMIT)
          /\ Rooted /\ l3[ino] \in Blocks
      BY <1>7, <2>3, <2>5, Places, FillCounts DEF Rooted
    <3>2. Target # l3[ino]
      BY <3>1, RowApart
    <3>3. Mem'[l3'[ino]][i] = Target
      BY <2>1, <2>3, <3>1, <3>2 DEF Mem
    <3>4. /\ LEVEL2_LIMIT + i * PTR_PER_BLOCK + j < blocks'[ino]
          /\ v = Mem'[Mem'[l3'[ino]][i]][j]
      BY <1>0, <2>1, <2>2, <2>3, <3>1, <3>3 DEF At
    <3>5. ReachedBy(m, v)'
      BY <1>10, <2>3, <3>1, <3>4 DEF ReachedBy
    <3> QED BY <1>0, <3>5
  <2> QED BY <1>7, <2>4, <2>5 DEF FillPointer
<1>8. ~ CrashTaking
  BY CrashStays
<1> QED BY <1>1, <1>3, <1>4, <1>5, <1>6, <1>7, <1>8 DEF Next, vars, CreatTakeInode,
        CrashEntry, CreatAddEntry, Grow, Level1, Level1Exit, Level2, Level2Start, Level2OpenOld,
        Level2Flush, Level2Exit, Level3, Level3OldRoot, Level3OpenOld, Level3Flush,
        Level3Exit, Return, Crash

LEMMA BitmapShrinks ==
  ASSUME [Next]_vars
  PROVE  dbitmap' \subseteq dbitmap /\ abandoned' \subseteq abandoned \union {l3[ino]}
         /\ abandoned \subseteq abandoned'
<1> USE DEF get_free_dblock, history
<1>1. CASE Level1 \/ Level2
  BY <1>1 DEF Level1, Level1Take, Level1Exit, Level2, Level2Start, Level2OpenNew,
     Level2OpenOld, Level2Flush, Level2Exit
<1>2. CASE Level3
  BY <1>2 DEF Level3, Level3NewRoot, Level3OldRoot, Level3OpenNew, Level3OpenOld,
     Level3Flush, Level3Exit
<1>3. CASE FillPointer \/ Return \/ Crash \/ CrashTaking \/ CrashEntry
  BY <1>3 DEF FillPointer, Return, Crash, CrashTaking, CrashEntry
<1> QED BY <1>1, <1>2, <1>3 DEF Next, vars, CreatTakeInode, CreatGrowDir, CreatAddEntry,
        Grow

LEMMA AccountedStep ==
  ASSUME BInv, TreeInv, Accounted, [Next]_vars
  PROVE  Accounted'
<1>1. (abandoned \intersect dbitmap = {})'
  <2>1. l3[ino] \notin dbitmap
    BY Known DEF BInv, NoPointerToFree
  <2> QED BY <2>1, BitmapShrinks DEF Accounted
<1> SUFFICES ASSUME torn' = {}, misplaced' = {}, NEW v \in Blocks, v \notin dbitmap'
             PROVE  \/ v \in abandoned'
                    \/ \E n \in Inodes : ReachedBy(n, v)'
                    \/ Filling' /\ v = Target'
  BY <1>1 DEF Accounted, Blocks, Inodes
<1>2. /\ misplaced = {} /\ torn = {} /\ Unique /\ Written
  BY MisplacedStays, TornStays DEF TreeInv
<1>3. CASE v = 0
  <2>1. BInv' /\ L1_PTR \in Nat \ {0}
    BY NextBasic, Sizes
  <2>2. l1'[Root][0] = 0 /\ blocks'[Root] >= 1 /\ blocks'[Root] \in Nat
    BY <2>1, Sizes DEF BInv, Stored, IInv, TypeOK
  <2>3. 0 \in 0 .. L1_PTR - 1 /\ 0 < blocks'[Root] /\ Root \in Inodes
    BY <2>1, <2>2, Sizes
  <2>4. ReachedBy(Root, v)'
    BY <1>3, <2>2, <2>3 DEF ReachedBy
  <2> QED BY <2>3, <2>4
<1>4. CASE v # 0 /\ v \notin dbitmap
  <2>1. \/ v \in abandoned
        \/ \E n \in Inodes : ReachedBy(n, v)
        \/ Filling /\ v = Target
    BY <1>2, <1>4 DEF Accounted
  <2>2. CASE v \in abandoned
    BY <2>2, BitmapShrinks
  <2>3. ASSUME NEW n \in Inodes, ReachedBy(n, v)
        PROVE  v \in abandoned' \/ ReachedBy(n, v)'
    BY <1>2, <1>4, <2>3, ReachedStep
  <2>4. CASE Filling /\ v = Target
    BY <1>2, <2>4, TargetStep
  <2> QED BY <2>1, <2>2, <2>3, <2>4
<1>5. CASE v \in dbitmap
  BY <1>2, <1>5, TakenStep
<1> QED BY <1>3, <1>4, <1>5

LEMMA InitAccounted == Init => Accounted
<1> SUFFICES ASSUME Init PROVE Accounted
  OBVIOUS
<1>1. abandoned = {} /\ Blocks \ dbitmap = {0}
  BY Sizes DEF Init, Blocks
<1>2. /\ l1[Root][0] = 0 /\ blocks[Root] = 1 /\ 0 \in 0 .. L1_PTR - 1
      /\ Root \in Inodes
  BY Sizes DEF Init
<1>3. ReachedBy(Root, 0)
  BY <1>2 DEF ReachedBy
<1> QED BY <1>1, <1>2, <1>3 DEF Accounted

\* Between two calls, what is reachable is what the files own, and the level-3
\* root a file may have at exactly the length where level 3 begins.
LEMMA ReachedOwned ==
  ASSUME BInv, pc = "idle", NEW n \in Inodes, NEW v, ReachedBy(n, v)
  PROVE  v \in Owned(n) \/ (blocks[n] = LEVEL2_LIMIT /\ v = l3[n])
<1>1. Mem = disk
  BY Known DEF BInv, TypeOK, Mem, Filling, Rooted
<1>2. /\ \A r \in Nat : r * PTR_PER_BLOCK \in Nat
      /\ LEVEL1_LIMIT \in Nat /\ LEVEL2_LIMIT \in Nat /\ blocks[n] \in Nat
      /\ Cols \subseteq Nat /\ 0 .. L2_PTR - 1 \subseteq Nat /\ 0 .. L1_PTR - 1 \subseteq Nat
      /\ L1_PTR = LEVEL1_LIMIT /\ 0 \in Cols /\ 0 * PTR_PER_BLOCK = 0
  BY Known, Sizes DEF BInv, TypeOK, Cols
<1>3. ASSUME NEW k \in Nat, k < blocks[n], v = BlockOf(n, k) PROVE v \in Owned(n)
  <2>1. k \in 0 .. blocks[n] - 1
    BY <1>2, <1>3
  <2> QED BY <1>3, <2>1 DEF Owned, DataBlocks
<1>4. CASE \E k \in 0 .. L1_PTR - 1 : k < blocks[n] /\ v = l1[n][k]
  <2>1. PICK k \in 0 .. L1_PTR - 1 : k < blocks[n] /\ v = l1[n][k]
    BY <1>4
  <2>2. k \in Nat /\ k < LEVEL1_LIMIT
    BY <1>2, <2>1
  <2> QED BY <1>3, <2>1, <2>2, BlockAt
<1>5. CASE \E r \in 0 .. L2_PTR - 1 :
             LEVEL1_LIMIT + r * PTR_PER_BLOCK < blocks[n] /\ v = l2[n][r]
  BY <1>5 DEF Owned, IndexBlocks, Level2Rows, Rows
<1>6. CASE \E r \in 0 .. L2_PTR - 1, c \in Cols :
             LEVEL1_LIMIT + r * PTR_PER_BLOCK + c < blocks[n] /\ v = Mem[l2[n][r]][c]
  <2>1. PICK r \in 0 .. L2_PTR - 1, c \in Cols :
          LEVEL1_LIMIT + r * PTR_PER_BLOCK + c < blocks[n] /\ v = Mem[l2[n][r]][c]
    BY <1>6
  <2>2. LEVEL1_LIMIT + r * PTR_PER_BLOCK + c \in Nat
    BY <1>2
  <2> QED BY <1>1, <1>3, <2>1, <2>2, BlockAt
<1>7. ASSUME LEVEL2_LIMIT < blocks[n], v = l3[n] PROVE v \in Owned(n)
  <2>1. 0 \in Level3Rows(n)
    BY <1>2, <1>7 DEF Level3Rows, Rows, Cols
  <2> QED BY <1>7, <2>1 DEF Owned, IndexBlocks
<1>8. CASE LEVEL2_LIMIT <= blocks[n] /\ v = l3[n]
  BY <1>2, <1>7, <1>8
<1>9. CASE \E r \in Cols :
             LEVEL2_LIMIT + r * PTR_PER_BLOCK < blocks[n] /\ v = Mem[l3[n]][r]
  BY <1>1, <1>9 DEF Owned, IndexBlocks, Level3Rows, Rows, Cols
<1>10. CASE \E r, c \in Cols :
              LEVEL2_LIMIT + r * PTR_PER_BLOCK + c < blocks[n] /\ v = Mem[Mem[l3[n]][r]][c]
  <2>1. PICK r \in Cols, c \in Cols :
          LEVEL2_LIMIT + r * PTR_PER_BLOCK + c < blocks[n] /\ v = Mem[Mem[l3[n]][r]][c]
    BY <1>10
  <2>2. LEVEL2_LIMIT + r * PTR_PER_BLOCK + c \in Nat
    BY <1>2
  <2> QED BY <1>1, <1>3, <2>1, <2>2, BlockAt
<1> QED BY <1>4, <1>5, <1>6, <1>8, <1>9, <1>10 DEF ReachedBy

LEMMA OwnedUsed ==
  ASSUME BInv, misplaced = {}, NEW n \in Inodes, NEW v \in Owned(n)
  PROVE  v \in Blocks /\ v \notin dbitmap
<1>1. /\ \A m \in Inodes, k \in 0 .. L1_PTR - 1 : l1[m][k] \notin dbitmap
      /\ \A m \in Inodes, r \in 0 .. L2_PTR - 1 : l2[m][r] \notin dbitmap
      /\ \A m \in Inodes : l3[m] \notin dbitmap
      /\ \A b \in Blocks, c \in Cols : disk[b][c] \notin dbitmap
  BY Known DEF BInv, NoPointerToFree, Cols
<1>2. CASE v \in DataBlocks(n)
  <2>1. PICK k \in 0 .. blocks[n] - 1 : v = BlockOf(n, k)
    BY <1>2 DEF DataBlocks
  <2>2. k \in Nat /\ k < LEVEL3_LIMIT
    BY <2>1, Known, Sizes DEF BInv, TypeOK
  <2>3. CASE k \in 0 .. L1_PTR - 1 /\ k < LEVEL1_LIMIT
    BY <1>1, <2>1, <2>2, <2>3, BlockAt, Places
  <2>4. CASE \E r \in 0 .. L2_PTR - 1, c \in Cols : k = LEVEL1_LIMIT + r * PTR_PER_BLOCK + c
    BY <1>1, <2>1, <2>4, BlockAt, Places
  <2>5. CASE \E r, c \in Cols : k = LEVEL2_LIMIT + r * PTR_PER_BLOCK + c
    BY <1>1, <2>1, <2>5, BlockAt, Places
  <2> QED BY <2>2, <2>3, <2>4, <2>5, Coordinates
<1>3. CASE v \in IndexBlocks(n)
  BY <1>1, <1>3, Places DEF IndexBlocks, Level2Rows, Level3Rows, Rows, Cols
<1> QED BY <1>2, <1>3 DEF Owned

\* The bitmap and the files account for each other.
THEOREM AllBlocksAccountedFor == Spec => []BlocksAccountedFor
<1>1. Init => Accounted
  BY InitAccounted
<1>2. BInv /\ TreeInv /\ Accounted /\ [Next]_vars => Accounted'
  BY AccountedStep
<1>3. BInv /\ TreeInv /\ Accounted => BlocksAccountedFor
  <2>10. PICK U : U = {Owned(n) : n \in Inodes}
    OBVIOUS
  <2>11. PICK T : T = {l3[n] : n \in {m \in Inodes : blocks[m] = LEVEL2_LIMIT}}
    OBVIOUS
  <2> SUFFICES ASSUME BInv, Accounted, torn = {}, misplaced = {}, pc = "idle"
               PROVE  Blocks \ dbitmap = (UNION U) \union abandoned \union T
    BY <2>10, <2>11 DEF BlocksAccountedFor
  <2>1. ASSUME NEW v \in Blocks \ dbitmap
        PROVE  \/ \E n \in Inodes : v \in Owned(n)
               \/ v \in abandoned
               \/ \E n \in Inodes : blocks[n] = LEVEL2_LIMIT /\ v = l3[n]
    BY ReachedOwned DEF Accounted, Filling
  <2>2. \A n \in Inodes : \A v \in Owned(n) : v \in Blocks \ dbitmap
    BY OwnedUsed
  <2>3. abandoned \subseteq Blocks \ dbitmap
    BY Known DEF BInv, TypeOK, Accounted
  <2>4. \A n \in Inodes : l3[n] \in Blocks \ dbitmap
    BY Places, Known DEF BInv, NoPointerToFree
  <2>5. \A n \in Inodes : Owned(n) \in U
    BY <2>10
  <2>6. \A S \in U : \A v \in S : v \in Blocks \ dbitmap
    BY <2>2, <2>10
  <2>7. \A v : v \in T <=> \E n \in Inodes : blocks[n] = LEVEL2_LIMIT /\ v = l3[n]
    BY <2>11
  <2>8. \A v \in Blocks \ dbitmap : v \in UNION U \/ v \in abandoned \/ v \in T
    <3> SUFFICES ASSUME NEW v \in Blocks \ dbitmap
                 PROVE  v \in UNION U \/ v \in abandoned \/ v \in T
      OBVIOUS
    <3>1. CASE \E n \in Inodes : v \in Owned(n)
      BY <2>5, <3>1
    <3>2. CASE \E n \in Inodes : blocks[n] = LEVEL2_LIMIT /\ v = l3[n]
      BY <2>7, <3>2
    <3> QED BY <2>1, <3>1, <3>2
  <2>9. \A v \in UNION U : v \in Blocks \ dbitmap
    BY <2>6
  <2>12. \A v \in T : v \in Blocks \ dbitmap
    BY <2>4, <2>7
  <2> QED BY ONLY <2>3, <2>8, <2>9, <2>12
<1> QED BY <1>1, <1>2, <1>3, TreesKeepShape, PTL DEF Spec

=============================================================================
