--------------------------- MODULE VsfsFile_proofs ---------------------------
(***************************************************************************)
(* VsfsFile for any number of blocks, inodes and names, any block size and *)
(* any programs: types, sizes backed by blocks, current block maps, and    *)
(* writes that stay in their file.                                         *)
(*                                                                         *)
(* The size of a file is backed because a write, when it ends, has its     *)
(* offset inside the blocks of its inode, and that holds because the write *)
(* under way fits the inode from its allocation on (WriteFits).  Nothing   *)
(* takes blocks away from a file: creat gives blocks to an inode no        *)
(* directory entry, hence no descriptor, names (EntriesOlder, FilesOlder). *)
(* A block map is complete only for a process that has each file open once *)
(* (Alone), since an allocation refreshes one descriptor.                  *)
(* A death in an allocation leaves pointers that are Unset: they belong to *)
(* a file like any others, but a write through one goes anywhere, so that  *)
(* the theorem about writes leaves out the files that are Torn.            *)
(***************************************************************************)
EXTENDS VsfsFile, SequenceTheorems, TLAPS

LEMMA Numbers ==
  /\ BS \in Nat \ {0} /\ W \in Nat \ {0} /\ LIMIT \in Nat /\ MAXFILE \in Nat
  /\ NR_BLOCKS \in Nat \ {0} /\ NR_INODES \in Nat \ {0} /\ MaxFds \in Nat
BY FileAssumption DEF FileAssumption

USE Numbers

MapsBounded == \A i \in Inodes : Len(map[i]) <= MAXFILE

\* The entries fit the blocks of the directory.
EntriesFit == entry <= BS * Len(map[Root])

EntriesOlder ==
  \A b \in Blocks, s \in Slots, name \in Names, inode \in Inodes :
    disk[b][s] = Entry(name, inode) => inode \in 1 .. next_inode - 1

FilesOlder == \A k \in DOMAIN fds : fds[k].inode \in 1 .. next_inode - 1

Alone ==
  history = "alone" =>
    \A j, k \in DOMAIN fds : j # k => fds[j].inode # fds[k].inode

WriteFits ==
  pc = "write" =>
    /\ call \in [fd : Fds, left : 0 .. LIMIT]
    /\ call.fd \in DOMAIN fds
    /\ fds[call.fd].offset + call.left <= BS * Len(map[fds[call.fd].inode])

\* The parts of TypeOK.
CacheType ==
  /\ map \in [Inodes -> Seq(Pointers)] /\ map[Root] \in Seq(Blocks)
  /\ size \in [Inodes -> 0 .. W - 1]
  /\ entry \in Nat /\ next_block \in 1 .. NR_BLOCKS
  /\ next_inode \in 1 .. NR_INODES
DiskType == disk \in [Blocks -> [Slots -> Cells]]
PointerType ==
  /\ sb_cached \in Addrs \union {NULL}
  /\ inode_reg \in Addrs \union {NULL, Wild}
  /\ tail \in {"valid", "freed"}
  /\ history \in {"alone", "shared", "strayed"}
FdsType == fds \in Seq(OpenFiles) /\ Len(fds) <= MaxFds
CallType ==
  /\ pc \in {"idle", "write", "gone"}
  /\ call \in [fd : Fds, left : 0 .. LIMIT] \union {NULL}

CacheOK == CacheType /\ MapsBounded /\ SizeBacked /\ EntriesFit
DiskOK == DiskType /\ EntriesOlder
FilesOK == FdsType /\ FilesOlder /\ Alone /\ BlockMapsCurrent
CallOK == CallType /\ WriteFits

IInv == CacheOK /\ DiskOK /\ PointerType /\ FilesOK /\ CallOK

----------------------------------------------------------------------------
(* Arithmetic of blocks *)

LEMMA Multiples ==
  ASSUME NEW a \in Nat, NEW b \in Nat, a <= b
  PROVE  BS * a \in Nat /\ BS * b \in Nat /\ BS * a <= BS * b
<1>1. PICK c \in Nat : b = a + c
  OBVIOUS
<1>2. BS * b = BS * a + BS * c
  BY <1>1
<1>3. BS * c \in Nat /\ BS * a \in Nat
  OBVIOUS
<1> QED BY <1>2, <1>3

LEMMA Division ==
  ASSUME NEW x \in Nat
  PROVE  /\ x \div BS \in Nat /\ x % BS \in 0 .. BS - 1
         /\ x = BS * (x \div BS) + (x % BS)
OBVIOUS

LEMMA Ceiling ==
  ASSUME NEW x \in Nat
  PROVE  CeilBlocks(x) \in Nat /\ x <= BS * CeilBlocks(x)
<1> DEFINE y == x + BS - 1
<1>1. y \in Nat
  OBVIOUS
<1>2. /\ y \div BS \in Nat /\ y % BS \in 0 .. BS - 1
      /\ y = BS * (y \div BS) + (y % BS)
  BY <1>1, Division
<1>3. CeilBlocks(x) = y \div BS
  BY DEF CeilBlocks
<1> QED BY <1>2, <1>3

\* An offset before the end of the blocks is in one of them.
LEMMA IndexBelow ==
  ASSUME NEW x \in Nat, NEW n \in Nat, x < BS * n
  PROVE  x \div BS \in Nat /\ x \div BS < n
<1>1. /\ x \div BS \in Nat /\ x % BS \in 0 .. BS - 1
      /\ x = BS * (x \div BS) + (x % BS)
  BY Division
<1>2. SUFFICES ASSUME n <= x \div BS PROVE FALSE
  BY <1>1
<1>3. BS * n <= BS * (x \div BS)
  BY <1>1, <1>2, Multiples
<1> QED BY <1>1, <1>3

LEMMA Lower ==
  ASSUME NEW a \in Int, NEW b \in Int
  PROVE  /\ Lowest(a, b) \in {a, b} /\ Lowest(a, b) <= a /\ Lowest(a, b) <= b
BY DEF Lowest

----------------------------------------------------------------------------
(* Sequences *)

LEMMA RunType ==
  ASSUME NEW first \in Nat, NEW n \in Nat, first + n <= NR_BLOCKS
  PROVE  Run(first, n) \in Seq(Blocks) /\ Len(Run(first, n)) = n
<1>1. \A k \in 1 .. n : first + k - 1 \in Blocks
  BY DEF Blocks
<1>2. Run(first, n) \in [1 .. n -> Blocks]
  BY <1>1 DEF Run
<1> QED BY <1>2, SMT

LEMMA BlocksArePointers == ASSUME NEW s \in Seq(Blocks) PROVE s \in Seq(Pointers)
<1>1. Len(s) \in Nat /\ s \in [1 .. Len(s) -> Blocks]
  BY LenProperties
<1>2. s \in [1 .. Len(s) -> Pointers]
  BY <1>1 DEF Pointers
<1> QED BY <1>1, <1>2, SMT

LEMMA Extension ==
  ASSUME NEW S, NEW s \in Seq(S), NEW t \in Seq(S)
  PROVE  /\ s \o t \in Seq(S) /\ Len(s \o t) = Len(s) + Len(t)
         /\ IsPrefixOf(s, s \o t)
<1>1. s \o t \in Seq(S) /\ Len(s \o t) = Len(s) + Len(t)
  BY ConcatProperties
<1>2. \A k \in 1 .. Len(s) : (s \o t)[k] = s[k]
  BY ConcatProperties, LenProperties
<1>3. DOMAIN s = 1 .. Len(s) /\ Len(s) \in Nat /\ Len(t) \in Nat
  BY LenProperties
<1> QED BY <1>1, <1>2, <1>3 DEF IsPrefixOf

LEMMA PrefixTransitive ==
  ASSUME NEW S, NEW r \in Seq(S), NEW s \in Seq(S), NEW t \in Seq(S),
         IsPrefixOf(r, s), IsPrefixOf(s, t)
  PROVE  IsPrefixOf(r, t)
<1>1. /\ DOMAIN r = 1 .. Len(r) /\ Len(r) \in Nat
      /\ DOMAIN s = 1 .. Len(s) /\ Len(s) \in Nat /\ Len(t) \in Nat
  BY LenProperties
<1> QED BY <1>1 DEF IsPrefixOf

LEMMA PrefixSelf ==
  ASSUME NEW S, NEW s \in Seq(S)
  PROVE  IsPrefixOf(s, s)
BY LenProperties DEF IsPrefixOf

LEMMA Update ==
  ASSUME NEW S, NEW s \in Seq(S), NEW k \in DOMAIN s, NEW x \in S
  PROVE  /\ [s EXCEPT ![k] = x] \in Seq(S) /\ Len([s EXCEPT ![k] = x]) = Len(s)
         /\ DOMAIN [s EXCEPT ![k] = x] = DOMAIN s
         /\ \A j \in DOMAIN s :
              [s EXCEPT ![k] = x][j] = IF j = k THEN x ELSE s[j]
<1>1. k \in 1 .. Len(s)
  BY LenProperties
<1> QED BY <1>1, ExceptSeq, LenProperties

----------------------------------------------------------------------------
(* Allocation *)

\* An inode gets more pointers: the others keep theirs, and so does it.
LEMMA Growth ==
  ASSUME CacheOK, NEW inode \in Inodes, inode # Root, NEW t \in Seq(Pointers),
         IsPrefixOf(map[inode], t), Len(t) <= MAXFILE,
         map' = [map EXCEPT ![inode] = t], next_block' \in 1 .. NR_BLOCKS,
         size' = size, entry' = entry, next_inode' = next_inode
  PROVE  /\ CacheOK'
         /\ \A i \in Inodes : IsPrefixOf(map[i], map'[i])
         /\ \A i \in Inodes \ {inode} : map'[i] = map[i]
         /\ map'[inode] = t
<1> USE DEF CacheOK, CacheType
<1>1. Root \in Inodes /\ Len(t) \in Nat
  BY LenProperties DEF Root, Inodes
<1>2. \A i \in Inodes : map[i] \in Seq(Pointers) /\ Len(map[i]) \in Nat
  BY LenProperties
<1>3. /\ map'[inode] = t /\ map' \in [Inodes -> Seq(Pointers)]
      /\ \A i \in Inodes \ {inode} : map'[i] = map[i]
  OBVIOUS
<1>4. \A i \in Inodes : IsPrefixOf(map[i], map'[i])
  BY <1>2, <1>3, PrefixSelf
<1>5. CacheType'
  BY <1>1, <1>3
<1>6. MapsBounded'
  BY <1>3 DEF MapsBounded
<1>7. SizeBacked'
  <2> SUFFICES ASSUME NEW i \in Inodes \ {Root} PROVE size[i] <= BS * Len(map'[i])
    BY DEF SizeBacked
  <2>1. size[i] <= BS * Len(map[i]) /\ size[i] \in Nat
    BY DEF SizeBacked
  <2>2. Len(map[i]) \in Nat /\ Len(map'[i]) \in Nat /\ Len(map[i]) <= Len(map'[i])
    BY <1>1, <1>2, <1>3, <1>4 DEF IsPrefixOf
  <2> DEFINE a == Len(map[i])  b == Len(map'[i])
  <2>3. BS * a <= BS * b /\ BS * a \in Nat /\ BS * b \in Nat
    BY <2>2, Multiples
  <2> QED BY ONLY <2>1, <2>3
<1>8. EntriesFit'
  BY <1>1, <1>3 DEF EntriesFit
<1> QED BY <1>3, <1>4, <1>5, <1>6, <1>7, <1>8

LEMMA GrantedType ==
  ASSUME CacheOK, NEW inode \in Inodes, NEW need \in Nat
  PROVE  /\ Granted(inode, need) \in Nat
         /\ Len(map[inode]) + Granted(inode, need) <= MAXFILE
         /\ \/ Granted(inode, need) = need
            \/ Len(map[inode]) + Granted(inode, need) = MAXFILE
<1>1. Len(map[inode]) \in Nat /\ Len(map[inode]) <= MAXFILE
  BY LenProperties DEF CacheOK, CacheType, MapsBounded
<1> DEFINE rest == MAXFILE - Len(map[inode])
<1>2. rest \in Nat /\ Len(map[inode]) + rest = MAXFILE
  BY <1>1
<1>3. Granted(inode, need) = IF need < rest THEN need ELSE rest
  BY DEF Granted, Lowest
<1>4. CASE need < rest
  BY <1>1, <1>2, <1>3, <1>4
<1>5. CASE ~(need < rest)
  BY <1>1, <1>2, <1>3, <1>5
<1> QED BY <1>4, <1>5

LEMMA Allocation ==
  ASSUME CacheOK, NEW inode \in Inodes, inode # Root, NEW need \in Nat, AllocBlock(inode, need)
  PROVE  /\ CacheOK'
         /\ \A i \in Inodes : IsPrefixOf(map[i], map'[i])
         /\ \A i \in Inodes \ {inode} : map'[i] = map[i]
         /\ \/ Len(map'[inode]) = Len(map[inode]) + need
            \/ Len(map'[inode]) = MAXFILE
         /\ next_inode' = next_inode
<1>1. /\ Granted(inode, need) \in Nat
      /\ Len(map[inode]) + Granted(inode, need) <= MAXFILE
      /\ \/ Granted(inode, need) = need
         \/ Len(map[inode]) + Granted(inode, need) = MAXFILE
  BY GrantedType
<1>2. /\ next_block + Granted(inode, need) <= NR_BLOCKS
      /\ map' = [map EXCEPT ![inode] = @ \o Run(next_block, Granted(inode, need))]
      /\ next_block' = next_block + Granted(inode, need)
      /\ size' = size /\ entry' = entry /\ next_inode' = next_inode
  BY DEF AllocBlock
<1> DEFINE t == map[inode] \o Run(next_block, Granted(inode, need))
<1>3. next_block \in 1 .. NR_BLOCKS /\ map[inode] \in Seq(Pointers)
  BY DEF CacheOK, CacheType
<1>4. /\ t \in Seq(Pointers) /\ Len(t) = Len(map[inode]) + Granted(inode, need)
      /\ IsPrefixOf(map[inode], t)
  <2> DEFINE r == Run(next_block, Granted(inode, need))
  <2>1. r \in Seq(Pointers) /\ Len(r) = Granted(inode, need)
    BY <1>1, <1>2, <1>3, RunType, BlocksArePointers
  <2> HIDE DEF r
  <2> QED BY <1>3, <2>1, Extension DEF r
<1>5. map' = [map EXCEPT ![inode] = t] /\ next_block' \in 1 .. NR_BLOCKS
  BY <1>1, <1>2, <1>3
<1> HIDE DEF t
<1>6. /\ CacheOK'
      /\ \A i \in Inodes : IsPrefixOf(map[i], map'[i])
      /\ \A i \in Inodes \ {inode} : map'[i] = map[i]
      /\ map'[inode] = t
  BY <1>1, <1>2, <1>4, <1>5, Growth
<1> QED BY <1>1, <1>2, <1>4, <1>6

\* A death in an allocation: of m pointers w are stored.
LEMMA PartlyType ==
  ASSUME NEW s \in Seq(Pointers), NEW first \in Nat, NEW m \in Nat, NEW w \in 0 .. m,
         first + m <= NR_BLOCKS
  PROVE  /\ Partly(s, first, m, w) \in Seq(Pointers)
         /\ Len(Partly(s, first, m, w)) = Len(s) + m
         /\ IsPrefixOf(s, Partly(s, first, m, w))
<1> DEFINE r == Run(first, w)
           u == [k \in 1 .. m - w |-> Unset]
           t == s \o r
<1>1. w \in Nat /\ first + w <= NR_BLOCKS /\ m - w \in Nat
  OBVIOUS
<1>2. r \in Seq(Pointers) /\ Len(r) = w
  BY <1>1, RunType, BlocksArePointers
<1>3. u \in Seq(Pointers) /\ Len(u) = m - w
  <2>1. u \in [1 .. m - w -> Pointers]
    BY DEF Pointers
  <2> QED BY <1>1, <2>1, SMT
<1> HIDE DEF r, u
<1>4. t \in Seq(Pointers) /\ Len(t) = Len(s) + w /\ IsPrefixOf(s, t)
  BY <1>2, Extension
<1> HIDE DEF t
<1>5. /\ t \o u \in Seq(Pointers) /\ Len(t \o u) = Len(t) + Len(u)
      /\ IsPrefixOf(t, t \o u)
  BY <1>3, <1>4, Extension
<1>6. IsPrefixOf(s, t \o u)
  BY <1>4, <1>5, PrefixTransitive
<1>7. Partly(s, first, m, w) = t \o u
  BY DEF Partly, t, r, u
<1>8. Len(t \o u) = Len(s) + m
  <2>1. Len(s) \in Nat
    BY LenProperties
  <2> QED BY <1>1, <1>3, <1>4, <1>5, <2>1
<1> QED BY <1>5, <1>6, <1>7, <1>8

LEMMA DeathKeepsCache ==
  ASSUME CacheOK, NEW inode \in Inodes, inode # Root, NEW need \in Nat,
         AllocDies(inode, need)
  PROVE  CacheOK' /\ disk' = disk /\ next_inode' = next_inode /\ NoProcess
<1>1. /\ Granted(inode, need) \in Nat
      /\ Len(map[inode]) + Granted(inode, need) <= MAXFILE
  BY GrantedType
<1>2. PICK m \in 0 .. Granted(inode, need) :
        /\ \E w \in Kept(Len(map[inode]), m) :
             map' = [map EXCEPT ![inode] = Partly(@, next_block, m, w)]
        /\ next_block' \in next_block + m ..
                           next_block + Lowest(m + 1, Granted(inode, need))
  BY DEF AllocDies
<1>3. PICK w \in Kept(Len(map[inode]), m) :
        map' = [map EXCEPT ![inode] = Partly(@, next_block, m, w)]
  BY <1>2
<1>4. /\ next_block' <= NR_BLOCKS
      /\ size' = size /\ entry' = entry /\ next_inode' = next_inode
      /\ disk' = disk /\ NoProcess
  BY DEF AllocDies
<1>5. /\ next_block \in 1 .. NR_BLOCKS /\ map[inode] \in Seq(Pointers)
      /\ Len(map[inode]) \in Nat
  BY LenProperties DEF CacheOK, CacheType
<1>6. m \in Nat /\ w \in 0 .. m /\ m <= Granted(inode, need)
  BY <1>1, <1>2, <1>3 DEF Kept
<1>7. next_block + m <= next_block' /\ next_block' \in 1 .. NR_BLOCKS
  <2>1. /\ next_block + m \in Nat
        /\ next_block + Lowest(m + 1, Granted(inode, need)) \in Nat
    BY <1>1, <1>5, <1>6 DEF Lowest
  <2>2. next_block' \in next_block + m ..
                        next_block + Lowest(m + 1, Granted(inode, need))
    BY <1>2
  <2> QED BY <1>4, <1>5, <1>6, <2>1, <2>2
<1>8. next_block + m <= NR_BLOCKS /\ Len(map[inode]) + m <= MAXFILE
  <2>1. next_block + m <= NR_BLOCKS
    BY ONLY <1>5, <1>6, <1>7, Numbers
  <2>2. Len(map[inode]) + m <= MAXFILE
    BY ONLY <1>1, <1>5, <1>6, Numbers
  <2> QED BY <2>1, <2>2
<1> DEFINE t == Partly(map[inode], next_block, m, w)
<1>9. t \in Seq(Pointers) /\ Len(t) = Len(map[inode]) + m /\ IsPrefixOf(map[inode], t)
  <2>1. next_block \in Nat /\ map[inode] \in Seq(Pointers)
    BY <1>5
  <2> QED BY ONLY <1>6, <1>8, <2>1, PartlyType
<1>10. map' = [map EXCEPT ![inode] = t]
  BY <1>3
<1> HIDE DEF t
<1>11. CacheOK'
  BY <1>4, <1>7, <1>8, <1>9, <1>10, Growth
<1> QED BY <1>4, <1>11

----------------------------------------------------------------------------
(* Descriptors *)

LEMMA SizeOfType ==
  ASSUME CacheType, NEW inode \in Inodes, NEW blocks
  PROVE  SizeOf(inode, blocks) \in 0 .. W
BY DEF CacheType, SizeOf

LEMMA RefreshedFile ==
  ASSUME CacheType, CacheType', size' = size, NEW f \in OpenFiles
  PROVE  /\ Refreshed(f) \in OpenFiles
         /\ Refreshed(f).inode = f.inode /\ Refreshed(f).offset = f.offset
         /\ Refreshed(f).block = map'[f.inode]
<1>1. f.inode \in Inodes
  BY DEF OpenFiles
<1>2. SizeOf(f.inode, map'[f.inode]) \in 0 .. W
  BY <1>1, SizeOfType
<1>3. map'[f.inode] \in Seq(Pointers) /\ Len(map'[f.inode]) \in Nat
  BY <1>1, LenProperties DEF CacheType
<1> QED BY <1>2, <1>3 DEF Refreshed, OpenFiles

\* Descriptors stay sound when only their inodes grow: each keeps its map or has
\* it refreshed, and in a process with every file open once nothing grows but
\* what is refreshed.
LEMMA FilesKept ==
  ASSUME FilesOK, CacheType, CacheType', next_inode' = next_inode,
         fds' \in Seq(OpenFiles), DOMAIN fds' = DOMAIN fds, Len(fds') = Len(fds),
         \A k \in DOMAIN fds : fds'[k].inode = fds[k].inode,
         \A i \in Inodes : IsPrefixOf(map[i], map'[i]),
         \A k \in DOMAIN fds :
           \/ fds'[k].block = map'[fds[k].inode]
           \/ /\ fds'[k].block = fds[k].block
              /\ history = "alone" => map'[fds[k].inode] = map[fds[k].inode],
         history' = "alone" => history = "alone"
  PROVE  FilesOK'
<1> USE DEF FilesOK
<1>1. \A k \in DOMAIN fds : fds[k] \in OpenFiles /\ fds'[k] \in OpenFiles
  BY ElementOfSeq, LenProperties DEF FdsType
<1>2. \A k \in DOMAIN fds : /\ fds[k].inode \in Inodes
                             /\ fds[k].block \in Seq(Pointers)
                             /\ fds'[k].block \in Seq(Pointers)
  BY <1>1 DEF OpenFiles
<1>3. FdsType'
  BY DEF FdsType
<1>4. FilesOlder'
  BY DEF FilesOlder
<1>5. Alone'
  BY DEF Alone
<1>6. BlockMapsCurrent'
  <2> SUFFICES ASSUME NEW k \in DOMAIN fds
               PROVE  /\ IsPrefixOf(fds'[k].block, map'[fds[k].inode])
                      /\ history' = "alone" =>
                           Len(fds'[k].block) = Len(map'[fds[k].inode])
    BY DEF BlockMapsCurrent
  <2> DEFINE i == fds[k].inode
  <2>1. i \in Inodes /\ map[i] \in Seq(Pointers) /\ map'[i] \in Seq(Pointers)
    BY <1>2 DEF CacheType
  <2>2. CASE fds'[k].block = map'[i]
    BY <2>1, <2>2, PrefixSelf
  <2>3. CASE /\ fds'[k].block = fds[k].block
             /\ history = "alone" => map'[i] = map[i]
    <3>1. /\ IsPrefixOf(fds[k].block, map[i])
          /\ history = "alone" => Len(fds[k].block) = Len(map[i])
      BY DEF BlockMapsCurrent
    <3>2. IsPrefixOf(map[i], map'[i])
      BY <2>1
    <3>3. IsPrefixOf(fds[k].block, map'[i])
      BY <1>2, <2>1, <3>1, <3>2, PrefixTransitive
    <3> QED BY <2>3, <3>1, <3>3
  <2> QED BY <2>2, <2>3
<1> QED BY <1>3, <1>4, <1>5, <1>6

\* The same for a call that replaces one descriptor by one of the same inode.
LEMMA FileReplaced ==
  ASSUME FilesOK, CacheType, CacheType', next_inode' = next_inode,
         NEW k \in DOMAIN fds, NEW f \in OpenFiles,
         fds' = [fds EXCEPT ![k] = f], f.inode = fds[k].inode,
         \A i \in Inodes : IsPrefixOf(map[i], map'[i]),
         \A i \in Inodes \ {fds[k].inode} : map'[i] = map[i],
         \/ f.block = map'[f.inode]
         \/ f.block = fds[k].block /\ map'[f.inode] = map[f.inode],
         history' = "alone" => history = "alone"
  PROVE  FilesOK' /\ DOMAIN fds' = DOMAIN fds /\ fds'[k] = f
<1>1. fds \in Seq(OpenFiles)
  BY DEF FilesOK, FdsType
<1>2. /\ fds' \in Seq(OpenFiles) /\ Len(fds') = Len(fds) /\ DOMAIN fds' = DOMAIN fds
      /\ \A j \in DOMAIN fds : fds'[j] = IF j = k THEN f ELSE fds[j]
  BY <1>1, Update
<1>3. \A j \in DOMAIN fds : fds[j] \in OpenFiles /\ fds[j].inode \in Inodes
  <2>1. \A j \in DOMAIN fds : fds[j] \in OpenFiles
    BY <1>1, ElementOfSeq, LenProperties
  <2> QED BY <2>1 DEF OpenFiles
<1>4. \A j \in DOMAIN fds : fds'[j].inode = fds[j].inode
  BY <1>2
<1>5. ASSUME NEW j \in DOMAIN fds
      PROVE  \/ fds'[j].block = map'[fds[j].inode]
             \/ /\ fds'[j].block = fds[j].block
                /\ history = "alone" => map'[fds[j].inode] = map[fds[j].inode]
  <2>1. CASE j = k
    BY <1>2, <2>1
  <2>2. CASE j # k
    <3>1. history = "alone" => fds[j].inode # fds[k].inode
      BY <2>2 DEF FilesOK, Alone
    <3> QED BY <1>2, <1>3, <2>2, <3>1
  <2> QED BY <2>1, <2>2
<1>6. FilesOK'
  BY <1>2, <1>4, <1>5, FilesKept
<1> QED BY <1>2, <1>6

\* A process that is gone has no descriptors.
LEMMA Gone ==
  ASSUME IInv, NoProcess, CacheOK', DiskOK'
  PROVE  IInv'
<1>1. FilesOK'
  <2>1. fds' = << >> /\ Len(fds') = 0 /\ DOMAIN fds' = {}
    BY DEF NoProcess
  <2>2. fds' \in Seq(OpenFiles)
    BY <2>1, EmptySeq
  <2> QED BY <2>1, <2>2 DEF FilesOK, FdsType, FilesOlder, Alone, BlockMapsCurrent
<1>2. PointerType'
  BY DEF NoProcess, IInv, PointerType
<1>3. CallOK'
  BY DEF NoProcess, CallOK, CallType, WriteFits
<1> QED BY <1>1, <1>2, <1>3 DEF IInv

\* A call that returns at once needs no look at the write under way.
LEMMA Returned ==
  ASSUME IInv, pc = "idle", Return, CacheOK', DiskOK', PointerType', FilesOK'
  PROVE  IInv'
<1>1. CallOK'
  BY DEF Return, IInv, CallOK, CallType, WriteFits
<1> QED BY <1>1 DEF IInv

LEMMA CacheSame ==
  ASSUME IInv, UNCHANGED <<cache, disk>>
  PROVE  /\ CacheOK' /\ DiskOK' /\ CacheType /\ CacheType'
         /\ map' = map /\ next_inode' = next_inode /\ size' = size
         /\ \A i \in Inodes : map[i] \in Seq(Pointers) /\ IsPrefixOf(map[i], map'[i])
<1>1. /\ map' = map /\ size' = size /\ entry' = entry /\ next_block' = next_block
      /\ next_inode' = next_inode /\ disk' = disk
  BY DEF cache
<1>2. CacheOK' /\ CacheType /\ CacheType'
  BY <1>1 DEF IInv, CacheOK, CacheType, MapsBounded, SizeBacked, EntriesFit
<1>3. DiskOK'
  BY <1>1 DEF IInv, DiskOK, DiskType, EntriesOlder
<1> QED BY <1>1, <1>2, <1>3, PrefixSelf DEF CacheType

\* A call that goes astray changes nothing that is modelled but the history.
LEMMA AstrayInv == ASSUME IInv, GoesAstray PROVE IInv'
<1>1. UNCHANGED <<cache, disk>> /\ UNCHANGED process /\ history' = "strayed"
  BY DEF GoesAstray
<1>2. CacheOK' /\ DiskOK' /\ map' = map /\ next_inode' = next_inode
  BY <1>1, CacheSame
<1>3. FilesOK'
  BY <1>1, <1>2 DEF process, IInv, FilesOK, FdsType, FilesOlder, Alone, BlockMapsCurrent
<1>4. PointerType' /\ CallOK'
  BY <1>1, <1>2 DEF process, IInv, PointerType, CallOK, CallType, WriteFits
<1> QED BY <1>2, <1>3, <1>4 DEF IInv

LEMMA FdsSame ==
  ASSUME IInv, UNCHANGED <<cache, disk, fds, history>>
  PROVE  FilesOK'
BY DEF cache, IInv, FilesOK, FdsType, FilesOlder, Alone, BlockMapsCurrent

----------------------------------------------------------------------------
(* Calls that change descriptors and pointers only *)

LEMMA FdInode ==
  ASSUME IInv, NEW k \in DOMAIN fds
  PROVE  fds[k] \in OpenFiles /\ fds[k].inode \in Inodes /\ fds[k].inode # Root
<1>1. fds \in Seq(OpenFiles)
  BY DEF IInv, FilesOK, FdsType
<1>2. fds[k] \in OpenFiles
  BY <1>1, ElementOfSeq, LenProperties
<1>3. fds[k].inode \in 1 .. next_inode - 1 /\ next_inode \in 1 .. NR_INODES
  BY DEF IInv, FilesOK, FilesOlder, CacheOK, CacheType
<1>4. fds[k].inode # 0
  BY <1>3
<1> QED BY <1>2, <1>4 DEF OpenFiles, Root

\* Moving an offset leaves the descriptors sound.
LEMMA OffsetMoved ==
  ASSUME IInv, UNCHANGED <<cache, disk, history>>, NEW k \in DOMAIN fds, NEW o \in Nat,
         fds' = [fds EXCEPT ![k].offset = o]
  PROVE  FilesOK'
<1> DEFINE f == [fds[k] EXCEPT !.offset = o]
<1>1. fds[k] \in OpenFiles
  BY FdInode
<1>2. f \in OpenFiles /\ f.inode = fds[k].inode /\ f.block = fds[k].block
  BY <1>1 DEF OpenFiles
<1>3. fds' = [fds EXCEPT ![k] = f]
  OBVIOUS
<1>4. /\ CacheType /\ CacheType' /\ map' = map /\ next_inode' = next_inode
      /\ \A i \in Inodes : IsPrefixOf(map[i], map'[i])
  BY CacheSame
<1>5. FilesOK
  BY DEF IInv
<1> HIDE DEF f
<1> QED BY <1>2, <1>3, <1>4, <1>5, FileReplaced

LEMMA RepairedType ==
  ASSUME PointerType
  PROVE  Repaired \in Addrs \union {NULL, Wild}
BY DEF PointerType, Repaired

LEMMA StartInv == ASSUME IInv, Start PROVE IInv'
<1>1. CacheOK' /\ DiskOK'
  BY CacheSame DEF Start
<1>2. FilesOK'
  BY FdsSame DEF Start
<1> QED BY <1>1, <1>2 DEF Start, IInv, PointerType, CallOK, CallType, WriteFits

LEMMA ExitInv == ASSUME IInv, Exit PROVE IInv'
<1>1. CacheOK' /\ DiskOK' /\ NoProcess
  BY CacheSame DEF Exit
<1> QED BY <1>1, Gone

LEMMA StutterInv == ASSUME IInv, UNCHANGED vars PROVE IInv'
<1>1. UNCHANGED <<cache, disk>> /\ UNCHANGED <<cache, disk, fds, history>>
  BY DEF vars, cache
<1>2. CacheOK' /\ DiskOK' /\ FilesOK' /\ map' = map
  BY <1>1, CacheSame, FdsSame
<1> QED BY <1>2 DEF vars, IInv, PointerType, CallOK, CallType, WriteFits

LEMMA StatInv == ASSUME IInv, NEW name \in Names, vsfs_stat(name) PROVE IInv'
<1>1. CacheOK' /\ DiskOK' /\ FilesOK'
  BY CacheSame, FdsSame DEF vsfs_stat
<1>2. PointerType' /\ pc = "idle" /\ Return
  BY DEF vsfs_stat, IInv, PointerType
<1> QED BY <1>1, <1>2, Returned

LEMMA ReadInv == ASSUME IInv, NEW k \in Fds, NEW n \in Nat, vsfs_read(k, n) PROVE IInv'
<1>1. /\ pc = "idle" /\ k \in DOMAIN fds /\ Return
      /\ \/ UNCHANGED fds
         \/ fds' = [fds EXCEPT ![k].offset = @ + Readable(fds[k], n)]
      /\ UNCHANGED <<cache, disk, sb_cached, inode_reg, tail, history>>
  BY DEF vsfs_read
<1>2. CacheOK' /\ DiskOK' /\ PointerType'
  BY <1>1, CacheSame DEF IInv, PointerType
<1>3. CASE UNCHANGED fds
  BY <1>1, <1>2, <1>3, FdsSame, Returned
<1>4. CASE fds' = [fds EXCEPT ![k].offset = @ + Readable(fds[k], n)]
  <2> DEFINE f == fds[k]
  <2>1. f \in OpenFiles
    BY <1>1, FdInode
  <2>2. f.offset \in Nat /\ f.blocks \in Nat /\ f.size \in Nat /\ n \in Nat
    BY <2>1 DEF OpenFiles
  <2> HIDE DEF f
  <2>3. Left(f, n) \in Nat
    <3>1. BS * f.blocks \in Nat
      BY <2>2
    <3>2. CASE f.size < f.offset
      BY <3>1, <3>2 DEF Left
    <3>3. CASE ~(f.size < f.offset)
      <4>1. f.size - f.offset \in Nat
        BY <2>2, <3>3
      <4> QED BY <2>2, <3>3, <4>1 DEF Left, Lowest
    <3> QED BY <3>2, <3>3
  <2>4. InBlocks(f) \in Nat
    <3>1. CASE Index(f) < f.blocks
      <4>1. /\ f.offset \div BS \in Nat /\ f.offset % BS \in 0 .. BS - 1
            /\ f.offset = BS * (f.offset \div BS) + (f.offset % BS)
        BY <2>2, Division
      <4>2. (f.offset \div BS) + 1 \in Nat /\ (f.offset \div BS) + 1 <= f.blocks
        BY <2>2, <3>1, <4>1 DEF Index
      <4>3. /\ BS * ((f.offset \div BS) + 1) <= BS * f.blocks /\ BS * f.blocks \in Nat
        BY <2>2, <4>2, Multiples
      <4>4. BS * ((f.offset \div BS) + 1) = BS * (f.offset \div BS) + BS
        BY <4>1
      <4>5. BS * f.blocks - f.offset \in Nat
        BY <2>2, <4>1, <4>3, <4>4
      <4> QED BY <3>1, <4>5 DEF InBlocks
    <3>2. CASE ~(Index(f) < f.blocks)
      BY <3>2 DEF InBlocks
    <3> QED BY <3>1, <3>2
  <2>5. Readable(f, n) \in Nat
    BY <2>3, <2>4 DEF Readable, Lowest
  <2>6. f.offset + Readable(f, n) \in Nat
    BY <2>2, <2>5
  <2>7. FilesOK'
    BY <1>1, <1>4, <2>6, OffsetMoved DEF f
  <2> QED BY <1>1, <1>2, <2>7, Returned
<1> QED BY <1>1, <1>3, <1>4

LEMMA ReadRefusedInv == ASSUME IInv, NEW k \in Fds, ReadRefused(k) PROVE IInv'
<1>1. CacheOK' /\ DiskOK' /\ FilesOK'
  BY CacheSame, FdsSame DEF ReadRefused
<1>2. PointerType' /\ pc = "idle" /\ Return
  BY DEF ReadRefused, IInv, PointerType
<1> QED BY <1>1, <1>2, Returned

LEMMA WriteRefusedInv ==
  ASSUME IInv, NEW k \in Fds, NEW n \in Nat, WriteRefused(k, n) PROVE IInv'
<1>1. CacheOK' /\ DiskOK' /\ FilesOK'
  BY CacheSame, FdsSame DEF WriteRefused
<1>2. PointerType' /\ pc = "idle" /\ Return
  BY DEF WriteRefused, IInv, PointerType
<1> QED BY <1>1, <1>2, Returned

LEMMA PrintInv == ASSUME IInv, NEW k \in Fds, vsfs_print_block_nbr(k) PROVE IInv'
<1>1. /\ pc = "idle" /\ UNCHANGED <<cache, disk, fds, history>> /\ Return
      /\ UNCHANGED <<sb_cached, tail, history>>
      /\ inode_reg' \in {NULL, Repaired}
  BY DEF vsfs_print_block_nbr, Return
<1>2. CacheOK' /\ DiskOK' /\ FilesOK'
  BY <1>1, CacheSame, FdsSame
<1>3. PointerType'
  BY <1>1, RepairedType DEF IInv, PointerType
<1> QED BY <1>1, <1>2, <1>3, Returned

LEMMA LseekFailsInv == ASSUME IInv, NEW k \in Fds, LseekFails(k) PROVE IInv'
<1>1. /\ pc = "idle" /\ Return
      /\ \/ UNCHANGED fds
         \/ k \in DOMAIN fds /\ fds' = [fds EXCEPT ![k].offset = fds[k].size]
      /\ inode_reg' \in {inode_reg, Repaired}
      /\ UNCHANGED <<cache, disk, sb_cached, tail, history>>
  BY DEF LseekFails
<1>2. CacheOK' /\ DiskOK'
  BY <1>1, CacheSame
<1>3. PointerType'
  BY <1>1, RepairedType DEF IInv, PointerType
<1>4. FilesOK'
  <2>1. CASE UNCHANGED fds
    BY <1>1, <2>1, FdsSame
  <2>2. CASE k \in DOMAIN fds /\ fds' = [fds EXCEPT ![k].offset = fds[k].size]
    <3>1. fds[k].size \in 0 .. W
      BY <2>2, FdInode DEF OpenFiles
    <3>2. fds[k].size \in Nat
      BY <3>1
    <3> QED BY <1>1, <2>2, <3>2, OffsetMoved
  <2> QED BY <1>1, <2>1, <2>2
<1> QED BY <1>1, <1>2, <1>3, <1>4, Returned

LEMMA SeekInsideInv ==
  ASSUME IInv, NEW k \in Fds, NEW offset \in Nat, SeekInside(k, offset) PROVE IInv'
<1>1. /\ pc = "idle" /\ k \in DOMAIN fds /\ Return
      /\ inode_reg' = Repaired
      /\ fds' = [fds EXCEPT ![k].offset = offset]
      /\ UNCHANGED <<cache, disk, sb_cached, tail, history>>
  BY DEF SeekInside
<1>2. CacheOK' /\ DiskOK'
  BY <1>1, CacheSame
<1>3. PointerType'
  BY <1>1, RepairedType DEF IInv, PointerType
<1>4. FilesOK'
  BY <1>1, OffsetMoved
<1> QED BY <1>1, <1>2, <1>3, <1>4, Returned

----------------------------------------------------------------------------
(* Seeks beyond the size *)

LEMMA MissingType ==
  ASSUME NEW f \in OpenFiles, NEW offset \in Nat
  PROVE  Missing(f, offset) \in Nat
<1>1. CeilBlocks(offset) \in Nat /\ f.blocks \in Nat
  BY Ceiling DEF OpenFiles
<1>2. CASE CeilBlocks(offset) >= f.blocks
  <2>1. CeilBlocks(offset) - f.blocks \in Nat
    BY <1>1, <1>2
  <2> QED BY <1>2, <2>1 DEF Missing
<1>3. CASE ~(CeilBlocks(offset) >= f.blocks)
  BY <1>3 DEF Missing
<1> QED BY <1>2, <1>3

LEMMA SeekBeyondInv ==
  ASSUME IInv, NEW k \in Fds, NEW offset \in Nat, SeekBeyond(k, offset) PROVE IInv'
<1>1. /\ pc = "idle" /\ k \in DOMAIN fds /\ offset <= W
      /\ inode_reg' = sb_cached
      /\ AllocBlock(fds[k].inode, Missing(fds[k], offset))
      /\ fds' = [fds EXCEPT ![k] = Extended(@, offset)] /\ Return
      /\ disk' = disk /\ sb_cached' = sb_cached /\ tail' = tail /\ history' = history
  BY DEF SeekBeyond
<1> DEFINE f == fds[k]
<1>2. f \in OpenFiles /\ f.inode \in Inodes
  BY <1>1, FdInode
<1>3. Missing(f, offset) \in Nat
  BY <1>2, MissingType
<1>4. CacheOK /\ CacheType /\ FilesOK
  BY DEF IInv, CacheOK
<1>5. /\ CacheOK' /\ \A i \in Inodes : IsPrefixOf(map[i], map'[i])
      /\ \A i \in Inodes \ {f.inode} : map'[i] = map[i]
      /\ next_inode' = next_inode
  BY <1>1, <1>2, <1>3, <1>4, FdInode, Allocation
<1>6. size' = size /\ CacheType'
  BY <1>1, <1>5 DEF AllocBlock, CacheOK
<1> DEFINE g == Extended(f, offset)
<1>7. /\ g \in OpenFiles /\ g.inode = f.inode /\ g.block = map'[g.inode]
  <2>1. /\ Refreshed(f) \in OpenFiles /\ Refreshed(f).inode = f.inode
        /\ Refreshed(f).block = map'[f.inode]
    BY <1>2, <1>4, <1>6, RefreshedFile
  <2>2. CeilBlocks(offset) \in Nat
    BY Ceiling
  <2>3. offset \in 0 .. W
    BY <1>1
  <2> HIDE DEF f
  <2>4. Refreshed(f).blocks \in Nat
    BY <2>1 DEF OpenFiles
  <2>5. Refreshed(f).blocks + CeilBlocks(offset) \in Nat
    BY <2>2, <2>4
  <2> QED BY <2>1, <2>3, <2>5 DEF Extended, OpenFiles
<1>8. fds' = [fds EXCEPT ![k] = g]
  BY <1>1
<1>9. FilesOK'
  <2> HIDE DEF g
  <2> QED BY <1>1, <1>4, <1>5, <1>6, <1>7, <1>8, FileReplaced
<1>10. DiskOK'
  BY <1>1, <1>5 DEF IInv, DiskOK, DiskType, EntriesOlder
<1>11. PointerType'
  BY <1>1 DEF IInv, PointerType
<1> QED BY <1>1, <1>5, <1>9, <1>10, <1>11, Returned

\* A death inside an allocation leaves the file with more pointers and no process.
LEMMA DeathInv ==
  ASSUME IInv, NEW inode \in Inodes, inode # Root, NEW need \in Nat,
         AllocDies(inode, need)
  PROVE  IInv'
<1>1. CacheOK' /\ disk' = disk /\ next_inode' = next_inode /\ NoProcess
  BY DeathKeepsCache DEF IInv
<1>2. DiskOK'
  BY <1>1 DEF IInv, DiskOK, DiskType, EntriesOlder
<1> QED BY <1>1, <1>2, Gone

LEMMA SeekDiesInv ==
  ASSUME IInv, NEW k \in Fds, NEW offset \in Nat, SeekDies(k, offset) PROVE IInv'
<1>1. k \in DOMAIN fds
  BY DEF SeekDies
<1>2. fds[k] \in OpenFiles /\ fds[k].inode \in Inodes /\ fds[k].inode # Root
  BY <1>1, FdInode
<1>3. Missing(fds[k], offset) \in Nat
  BY <1>2, MissingType
<1>4. CASE AllocDies(fds[k].inode, Missing(fds[k], offset))
  BY <1>2, <1>3, <1>4, DeathInv
<1>5. CASE AllocStrays(fds[k].inode, Missing(fds[k], offset))
  BY <1>5, AstrayInv DEF AllocStrays
<1> QED BY <1>4, <1>5 DEF SeekDies

----------------------------------------------------------------------------
(* Open and close *)

\* What a search finds is an inode some entry names.
LEMMA FoundIsOlder ==
  ASSUME IInv, NEW name \in Names, NEW inode \in Lookup(name)
  PROVE  inode \in Inodes /\ inode \in 1 .. next_inode - 1
<1>1. /\ map[Root] \in Seq(Blocks) /\ Len(map[Root]) \in Nat /\ entry \in Nat
      /\ entry <= BS * Len(map[Root]) /\ next_inode \in 1 .. NR_INODES
  <2>1. map[Root] \in Seq(Blocks)
    BY DEF IInv, CacheOK, CacheType
  <2> QED BY <2>1, LenProperties DEF IInv, CacheOK, CacheType, EntriesFit
<1>2. ASSUME NEW i \in 0 .. entry - 1 PROVE BlockOfEntry(i) \in Blocks
  <2> DEFINE n == Len(map[Root])
  <2>1. i \in Nat /\ n \in Nat /\ i < BS * n
    BY <1>1
  <2>2. i \div BS \in Nat /\ i \div BS < n
    BY <2>1, IndexBelow
  <2>3. (i \div BS) + 1 \in 1 .. n
    BY <2>1, <2>2
  <2>4. map[Root][(i \div BS) + 1] \in Blocks
    BY <1>1, <2>3, ElementOfSeq
  <2> QED BY <2>4 DEF BlockOfEntry
<1>3. CASE inode \in Found(name)
  <2>1. PICK i \in 0 .. entry - 1 : Matches(i, name, inode)
    BY <1>3 DEF Found
  <2>2. /\ BlockOfEntry(i) \in Blocks /\ Slot(i) \in Slots
        /\ disk[BlockOfEntry(i)][Slot(i)] = Entry(name, inode)
    BY <1>2, <2>1 DEF Matches, Inside
  <2>3. inode \in Inodes
    BY <1>3 DEF Found
  <2> QED BY <2>2, <2>3 DEF IInv, DiskOK, EntriesOlder
<1>4. CASE inode \in Leftover(name)
  <2>1. /\ inode \in Inodes
        /\ \E b \in Blocks, s \in Slots : disk[b][s] = Entry(name, inode)
    BY <1>4 DEF Leftover
  <2> QED BY <2>1 DEF IInv, DiskOK, EntriesOlder
<1> QED BY <1>3, <1>4 DEF Lookup

LEMMA OpenedType ==
  ASSUME CacheType, NEW inode \in Inodes, NEW flags \in Flags
  PROVE  /\ Opened(inode, flags) \in OpenFiles
         /\ Opened(inode, flags).inode = inode
         /\ Opened(inode, flags).block = map[inode]
<1>1. SizeOf(inode, map[inode]) \in 0 .. W
  BY SizeOfType
<1>2. map[inode] \in Seq(Pointers) /\ Len(map[inode]) \in Nat
  BY LenProperties DEF CacheType
<1> QED BY <1>1, <1>2 DEF Opened, OpenFiles

LEMMA OpenInv ==
  ASSUME IInv, NEW name \in Names, NEW flags \in Flags, vsfs_open(name, flags)
  PROVE  IInv'
<1>1. /\ pc = "idle" /\ Len(fds) < MaxFds /\ UNCHANGED <<cache, disk>>
      /\ tail' = tail
      /\ \E sb \in Addrs : inode_reg' = sb /\ sb_cached' = sb
  BY DEF vsfs_open
<1>2. /\ CacheOK' /\ DiskOK' /\ CacheType /\ map' = map /\ next_inode' = next_inode
      /\ \A i \in Inodes : map[i] \in Seq(Pointers) /\ IsPrefixOf(map[i], map'[i])
  BY <1>1, CacheSame
<1>3. fds \in Seq(OpenFiles) /\ Len(fds) \in Nat /\ DOMAIN fds = 1 .. Len(fds)
  BY LenProperties DEF IInv, FilesOK, FdsType
<1>4. ASSUME NEW inode \in Lookup(name),
             fds' = Append(fds, Opened(inode, flags)), Return,
             history' = IF IsOpen(inode) THEN "shared" ELSE history
      PROVE  IInv'
  <2> DEFINE f == Opened(inode, flags)
  <2>1. inode \in Inodes /\ inode \in 1 .. next_inode - 1
    BY FoundIsOlder
  <2>2. f \in OpenFiles /\ f.inode = inode /\ f.block = map[inode]
    BY <1>2, <2>1, OpenedType
  <2> HIDE DEF f
  <2>3. /\ fds' \in Seq(OpenFiles) /\ Len(fds') = Len(fds) + 1
        /\ \A k \in 1 .. Len(fds) : fds'[k] = fds[k]
        /\ fds'[Len(fds) + 1] = f
    BY <1>3, <1>4, <2>2, AppendProperties DEF f
  <2>4. DOMAIN fds' = DOMAIN fds \union {Len(fds) + 1}
    BY <1>3, <2>3, LenProperties
  <2>5. FdsType'
    BY <1>1, <1>3, <2>3 DEF FdsType
  <2>6. FilesOlder'
    BY <1>2, <1>3, <2>1, <2>2, <2>3, <2>4 DEF IInv, FilesOK, FilesOlder
  <2>7. history' = "alone" => history = "alone" /\ ~IsOpen(inode)
    BY <1>4
  <2>8. Alone'
    <3> SUFFICES ASSUME history' = "alone", NEW j \in DOMAIN fds', NEW k \in DOMAIN fds',
                        j # k
                 PROVE  fds'[j].inode # fds'[k].inode
      BY DEF Alone
    <3>1. \A i \in DOMAIN fds : fds[i].inode # inode
      BY <2>7 DEF IsOpen
    <3>2. CASE j \in DOMAIN fds /\ k \in DOMAIN fds
      BY <1>3, <2>3, <2>7, <3>2 DEF IInv, FilesOK, Alone
    <3>3. CASE j = Len(fds) + 1 \/ k = Len(fds) + 1
      BY <1>3, <2>2, <2>3, <2>4, <3>1, <3>3
    <3> QED BY <2>4, <3>2, <3>3
  <2>9. BlockMapsCurrent'
    <3> SUFFICES ASSUME NEW k \in DOMAIN fds'
                 PROVE  /\ IsPrefixOf(fds'[k].block, map[fds'[k].inode])
                        /\ history' = "alone" =>
                             Len(fds'[k].block) = Len(map[fds'[k].inode])
      BY <1>2 DEF BlockMapsCurrent
    <3>1. CASE k \in DOMAIN fds
      BY <1>3, <2>3, <2>7, <3>1 DEF IInv, FilesOK, BlockMapsCurrent
    <3>2. CASE k = Len(fds) + 1
      BY <1>2, <2>1, <2>2, <2>3, <3>2, PrefixSelf
    <3> QED BY <2>4, <3>1, <3>2
  <2>10. PointerType'
    BY <1>1, <1>4 DEF IInv, PointerType
  <2>11. FilesOK'
    BY <2>5, <2>6, <2>8, <2>9 DEF FilesOK
  <2> QED BY <1>1, <1>2, <1>4, <2>10, <2>11, Returned
<1>5. ASSUME fds' = << >>, Return, history' = "alone"
      PROVE  IInv'
  <2>1. Len(fds') = 0 /\ DOMAIN fds' = {} /\ fds' \in Seq(OpenFiles)
    BY <1>5, EmptySeq
  <2>2. FilesOK'
    BY <2>1 DEF FilesOK, FdsType, FilesOlder, Alone, BlockMapsCurrent
  <2>3. PointerType'
    BY <1>1, <1>5 DEF IInv, PointerType
  <2> QED BY <1>1, <1>2, <1>5, <2>2, <2>3, Returned
<1> QED BY <1>4, <1>5 DEF vsfs_open

LEMMA CloseInv == ASSUME IInv, vsfs_close PROVE IInv'
<1>1. /\ pc = "idle" /\ UNCHANGED <<cache, disk>> /\ Return
      /\ inode_reg' = NULL /\ sb_cached' \in {sb_cached, NULL}
      /\ tail' \in {tail, "valid", "freed"} /\ history' \in {history, "alone"}
  BY DEF vsfs_close
<1>2. /\ CacheOK' /\ DiskOK' /\ map' = map /\ next_inode' = next_inode
  BY <1>1, CacheSame
<1>3. PointerType'
  BY <1>1 DEF IInv, PointerType
<1>4. fds \in Seq(OpenFiles) /\ Len(fds) \in Nat /\ DOMAIN fds = 1 .. Len(fds)
  BY LenProperties DEF IInv, FilesOK, FdsType
<1>5. CASE fds = << >> /\ UNCHANGED <<fds, history>>
  BY <1>1, <1>2, <1>3, <1>5, FdsSame, Returned
<1>6. CASE /\ fds # << >> /\ fds' = SubSeq(fds, 1, Len(fds) - 1)
           /\ Len(fds) = 1 \/ history' = history
  <2>1. Len(fds) # 0
    BY <1>4, <1>6, EmptySeq
  <2>2. /\ fds' \in Seq(OpenFiles) /\ Len(fds') = Len(fds) - 1
        /\ \A k \in 1 .. Len(fds) - 1 : fds'[k] = fds[k]
    BY <1>4, <1>6, <2>1, SubSeqProperties
  <2>3. DOMAIN fds' = 1 .. Len(fds) - 1
    BY <2>2, LenProperties
  <2>4. CASE Len(fds) = 1
    <3>1. DOMAIN fds' = {} /\ Len(fds') = 0
      BY <2>2, <2>3, <2>4
    <3>2. FdsType'
      <4>1. Len(fds') <= MaxFds
        BY ONLY <3>1, Numbers
      <4>2. fds' \in Seq(OpenFiles)
        BY ONLY <2>2
      <4> QED BY ONLY <4>1, <4>2 DEF FdsType
    <3>3. FilesOlder' /\ Alone' /\ BlockMapsCurrent'
      BY <3>1 DEF FilesOlder, Alone, BlockMapsCurrent
    <3> QED BY <1>1, <1>2, <1>3, <3>2, <3>3, Returned DEF FilesOK
  <2>5. CASE history' = history
    <3>1. \A k \in DOMAIN fds' : k \in DOMAIN fds /\ fds'[k] = fds[k]
      BY <1>4, <2>2, <2>3
    <3>2. FdsType'
      BY <1>4, <2>1, <2>2 DEF IInv, FilesOK, FdsType
    <3>3. FilesOlder' /\ Alone'
      BY <1>2, <2>5, <3>1 DEF IInv, FilesOK, FilesOlder, Alone
    <3>4. BlockMapsCurrent'
      BY <1>2, <2>5, <3>1 DEF IInv, FilesOK, BlockMapsCurrent
    <3> QED BY <1>1, <1>2, <1>3, <3>2, <3>3, <3>4, Returned DEF FilesOK
  <2> QED BY <1>6, <2>4, <2>5
<1> QED BY <1>5, <1>6 DEF vsfs_close

----------------------------------------------------------------------------
(* A file is created *)

\* Descriptors stay sound as long as no inode handed out before changes.
LEMMA FilesUntouched ==
  ASSUME IInv, UNCHANGED <<fds, history>>, next_inode <= next_inode',
         next_inode' \in Nat,
         \A i \in 1 .. next_inode - 1 : map'[i] = map[i]
  PROVE  FilesOK'
<1>1. next_inode \in Nat
  BY DEF IInv, CacheOK, CacheType
<1>2. \A k \in DOMAIN fds : /\ fds[k].inode \in 1 .. next_inode - 1
                             /\ fds[k].inode \in 1 .. next_inode' - 1
                             /\ map'[fds[k].inode] = map[fds[k].inode]
  BY <1>1 DEF IInv, FilesOK, FilesOlder
<1>3. FdsType' /\ Alone'
  BY DEF IInv, FilesOK, FdsType, Alone
<1>4. FilesOlder'
  BY <1>2 DEF FilesOlder
<1>5. BlockMapsCurrent'
  BY <1>2 DEF IInv, FilesOK, BlockMapsCurrent
<1> QED BY <1>3, <1>4, <1>5 DEF FilesOK

LEMMA FirstType ==
  ASSUME IInv
  PROVE  /\ FirstOfFile \in Nat /\ next_block \in 1 .. NR_BLOCKS
         /\ FirstOfFile \in {next_block, next_block + 1}
         /\ DirFull => FirstOfFile = next_block + 1
<1>1. next_block \in 1 .. NR_BLOCKS
  BY DEF IInv, CacheOK, CacheType
<1> QED BY <1>1 DEF FirstOfFile

\* The directory gets a block if it is full, and no other inode does.
LEMMA DirMapType ==
  ASSUME IInv, FirstOfFile <= NR_BLOCKS, ~AtLimit
  PROVE  /\ DirMap \in [Inodes -> Seq(Pointers)] /\ DirMap[Root] \in Seq(Blocks)
         /\ Len(map[Root]) \in Nat /\ Len(DirMap[Root]) \in Nat
         /\ Len(map[Root]) <= Len(DirMap[Root])
         /\ DirFull => Len(DirMap[Root]) = Len(map[Root]) + 1
         /\ \A i \in Inodes : Len(DirMap[i]) <= MAXFILE
         /\ \A i \in Inodes \ {Root} : DirMap[i] = map[i]
<1>1. /\ map \in [Inodes -> Seq(Pointers)] /\ map[Root] \in Seq(Blocks)
      /\ Root \in Inodes /\ MapsBounded
  BY DEF IInv, CacheOK, CacheType, Root, Inodes
<1>2. Len(map[Root]) \in Nat
  BY <1>1, LenProperties
<1>3. DirFull => next_block \in Blocks
  <2>1. next_block \in 1 .. NR_BLOCKS /\ (DirFull => next_block + 1 <= NR_BLOCKS)
    BY FirstType
  <2> QED BY <2>1 DEF Blocks
<1> DEFINE root == IF DirFull THEN Append(map[Root], next_block) ELSE map[Root]
<1>4. /\ root \in Seq(Blocks) /\ Len(root) \in Nat /\ Len(map[Root]) <= Len(root)
      /\ DirFull => Len(root) = Len(map[Root]) + 1
  <2>1. CASE DirFull
    BY <1>1, <1>2, <1>3, <2>1, AppendProperties
  <2>2. CASE ~DirFull
    BY <1>1, <1>2, <2>2
  <2> QED BY <2>1, <2>2
<1>5. Len(root) <= MAXFILE
  <2>1. DIR_LIMIT \in Nat /\ DIR_LIMIT <= MAXFILE
    BY FileAssumption DEF FileAssumption
  <2>2. CASE DirFull
    BY <1>2, <1>4, <2>1, <2>2 DEF AtLimit
  <2>3. CASE ~DirFull
    BY <1>1, <2>3 DEF MapsBounded
  <2> QED BY <2>2, <2>3
<1>6. DirMap = [map EXCEPT ![Root] = root]
  BY DEF DirMap
<1> HIDE DEF root
<1>7. root \in Seq(Pointers)
  BY <1>4, BlocksArePointers
<1>8. /\ DirMap \in [Inodes -> Seq(Pointers)] /\ DirMap[Root] = root
      /\ \A i \in Inodes \ {Root} : DirMap[i] = map[i]
  BY <1>1, <1>6, <1>7
<1>9. \A i \in Inodes : Len(DirMap[i]) <= MAXFILE
  BY <1>1, <1>5, <1>8 DEF MapsBounded
<1> QED BY <1>2, <1>4, <1>8, <1>9

\* The entry is there or not, its inode is taken.
LEMMA EntryWritten ==
  ASSUME IInv, NEW name \in Names, next_inode < NR_INODES,
         disk' \in {disk, WithEntry(name)}, next_inode' = next_inode + 1
  PROVE  DiskOK'
<1> DEFINE new == Entry(name, next_inode)
<1>1. disk \in [Blocks -> [Slots -> Cells]] /\ EntriesOlder
  BY DEF IInv, DiskOK, DiskType
<1>2. next_inode \in 1 .. NR_INODES /\ next_inode \in Inodes
  BY DEF IInv, CacheOK, CacheType, Inodes
<1>3. new \in Cells
  BY <1>2 DEF Cells, Entry
<1>4. \/ disk' = disk
      \/ disk' = [disk EXCEPT ![EntryBlock][EntrySlot] = new]
  BY DEF WithEntry
<1>5. ASSUME NEW b \in Blocks, NEW s \in Slots
      PROVE  disk'[b][s] \in {disk[b][s], new}
  BY <1>1, <1>4
<1> HIDE DEF new
<1>6. disk' \in [Blocks -> [Slots -> Cells]]
  BY <1>1, <1>3, <1>4
<1>7. EntriesOlder'
  <2> SUFFICES ASSUME NEW b \in Blocks, NEW s \in Slots, NEW other \in Names,
                      NEW inode \in Inodes, disk'[b][s] = Entry(other, inode)
               PROVE  inode \in 1 .. next_inode' - 1
    BY DEF EntriesOlder
  <2>1. CASE disk'[b][s] = disk[b][s]
    <3>1. inode \in 1 .. next_inode - 1
      BY <1>1, <2>1 DEF EntriesOlder
    <3> QED BY <1>2, <3>1
  <2>2. CASE disk'[b][s] = new
    <3>1. inode = next_inode
      BY <2>2 DEF new, Entry
    <3> QED BY <1>2, <3>1
  <2> QED BY <1>5, <2>1, <2>2
<1> QED BY <1>6, <1>7 DEF DiskOK, DiskType

\* The directory has its block and the entry is not counted.
LEMMA DirGrown ==
  ASSUME IInv, FirstOfFile <= NR_BLOCKS, ~AtLimit, next_inode < NR_INODES,
         map' = DirMap, size' = size, entry' = entry,
         next_block' = FirstOfFile, next_inode' = next_inode + 1
  PROVE  CacheOK'
<1>1. CacheType /\ SizeBacked /\ EntriesFit
  BY DEF IInv, CacheOK
<1>2. /\ map' \in [Inodes -> Seq(Pointers)] /\ map'[Root] \in Seq(Blocks)
      /\ Len(map[Root]) \in Nat /\ Len(map'[Root]) \in Nat
      /\ Len(map[Root]) <= Len(map'[Root])
      /\ \A i \in Inodes : Len(map'[i]) <= MAXFILE
      /\ \A i \in Inodes \ {Root} : map'[i] = map[i]
  BY DirMapType
<1>3. CacheType'
  <2>1. next_block' \in 1 .. NR_BLOCKS
    BY FirstType
  <2>2. next_inode' \in 1 .. NR_INODES
    BY <1>1 DEF CacheType
  <2> QED BY <1>1, <1>2, <2>1, <2>2 DEF CacheType
<1>4. MapsBounded' /\ SizeBacked'
  BY <1>1, <1>2 DEF MapsBounded, SizeBacked
<1>5. EntriesFit'
  <2> DEFINE a == Len(map[Root])  b == Len(map'[Root])
  <2>1. BS * a \in Nat /\ BS * b \in Nat /\ BS * a <= BS * b
    BY <1>2, Multiples
  <2>2. entry <= BS * a /\ entry \in Nat
    BY <1>1 DEF EntriesFit, CacheType
  <2>3. entry <= BS * b
    BY ONLY <2>1, <2>2
  <2> QED BY <2>3 DEF EntriesFit
<1> QED BY <1>3, <1>4, <1>5 DEF CacheOK

\* The entry is counted and the file has the pointers t, and nothing else is
\* touched.
LEMMA FileMade ==
  ASSUME IInv, NEW name \in Names, NEW t \in Seq(Pointers), Len(t) <= MAXFILE,
         FirstOfFile <= NR_BLOCKS, ~AtLimit, next_inode < NR_INODES,
         disk' = WithEntry(name), map' = [DirMap EXCEPT ![next_inode] = t],
         size' = [size EXCEPT ![next_inode] = 0], entry' = entry + 1,
         next_block' \in FirstOfFile .. NR_BLOCKS, next_inode' = next_inode + 1
  PROVE  /\ CacheOK' /\ DiskOK'
         /\ \A i \in 1 .. next_inode - 1 : map'[i] = map[i]
<1>1. /\ CacheType /\ MapsBounded /\ SizeBacked /\ EntriesFit
  BY DEF IInv, CacheOK
<1>2. /\ size \in [Inodes -> 0 .. W - 1] /\ entry \in Nat
      /\ next_block \in 1 .. NR_BLOCKS /\ next_inode \in 1 .. NR_INODES
  BY <1>1 DEF CacheType
<1>3. /\ Root \in Inodes /\ next_inode \in Inodes /\ next_inode # Root
  BY <1>2 DEF Root, Inodes
<1>4. /\ DirMap \in [Inodes -> Seq(Pointers)] /\ DirMap[Root] \in Seq(Blocks)
      /\ Len(map[Root]) \in Nat /\ Len(DirMap[Root]) \in Nat
      /\ Len(map[Root]) <= Len(DirMap[Root])
      /\ DirFull => Len(DirMap[Root]) = Len(map[Root]) + 1
      /\ \A i \in Inodes : Len(DirMap[i]) <= MAXFILE
      /\ \A i \in Inodes \ {Root} : DirMap[i] = map[i]
  BY DirMapType
<1>5. /\ map' \in [Inodes -> Seq(Pointers)]
      /\ map'[Root] = DirMap[Root] /\ map'[next_inode] = t
      /\ \A i \in Inodes \ {Root, next_inode} : map'[i] = map[i]
  BY <1>3, <1>4
<1>6. /\ size' \in [Inodes -> 0 .. W - 1] /\ size'[next_inode] = 0
      /\ \A i \in Inodes \ {next_inode} : size'[i] = size[i]
  <2>1. 0 \in 0 .. W - 1
    OBVIOUS
  <2> QED BY <1>2, <1>3, <2>1
<1>7. CacheType'
  <2>1. next_block' \in 1 .. NR_BLOCKS
    BY FirstType
  <2>2. next_inode' \in 1 .. NR_INODES /\ entry' \in Nat
    BY <1>2
  <2> QED BY <1>4, <1>5, <1>6, <2>1, <2>2 DEF CacheType
<1>8. MapsBounded'
  BY <1>1, <1>4, <1>5 DEF MapsBounded
<1>9. SizeBacked'
  <2> SUFFICES ASSUME NEW i \in Inodes \ {Root}
               PROVE  size'[i] <= BS * Len(map'[i])
    BY DEF SizeBacked
  <2>1. CASE i = next_inode
    <3> DEFINE n == Len(t)
    <3>1. n \in Nat
      BY LenProperties
    <3>2. BS * n \in Nat
      BY <3>1
    <3>3. Len(map'[i]) = n /\ size'[i] = 0
      BY <1>5, <1>6, <2>1
    <3> QED BY <3>2, <3>3
  <2>2. CASE i # next_inode
    <3>1. size'[i] = size[i] /\ map'[i] = map[i]
      BY <1>5, <1>6, <2>2
    <3>2. size[i] <= BS * Len(map[i])
      BY <1>1 DEF SizeBacked
    <3> QED BY <3>1, <3>2
  <2> QED BY <2>1, <2>2
<1>10. EntriesFit'
  <2> DEFINE d == Len(map[Root])
             e == Len(DirMap[Root])
  <2>1. d \in Nat /\ e \in Nat /\ d <= e /\ entry \in Nat /\ entry <= BS * d
    BY <1>1, <1>2, <1>4 DEF EntriesFit
  <2>2. BS * d \in Nat /\ BS * e \in Nat /\ BS * d <= BS * e
    BY <2>1, Multiples
  <2> HIDE DEF d, e
  <2>3. entry + 1 <= BS * e
    <3>1. CASE DirFull
      <4>1. e = d + 1
        BY <1>4, <3>1 DEF d, e
      <4>2. BS * e = BS * d + BS
        BY <2>1, <4>1
      <4> QED BY ONLY <2>1, <2>2, <4>2, Numbers
    <3>2. CASE ~DirFull
      <4>1. entry < BS * d
        BY <2>1, <2>2, <3>2 DEF DirFull, d
      <4> QED BY ONLY <2>1, <2>2, <4>1
    <3> QED BY <3>1, <3>2
  <2>4. entry' <= BS * Len(map'[Root])
    BY <1>5, <2>3 DEF e
  <2> QED BY <2>4 DEF EntriesFit
<1>11. DiskOK'
  BY EntryWritten
<1>12. \A i \in 1 .. next_inode - 1 : map'[i] = map[i]
  <2>1. \A i \in 1 .. next_inode - 1 : i \in Inodes \ {Root, next_inode}
    BY <1>2 DEF Root, Inodes
  <2> QED BY <1>5, <2>1
<1> QED BY <1>7, <1>8, <1>9, <1>10, <1>11, <1>12 DEF CacheOK

LEMMA CreatInv ==
  ASSUME IInv, NEW name \in Names, NEW n \in 0 .. MAXFILE, vsfs_creat(name, n)
  PROVE  IInv'
<1>1. /\ pc = "idle" /\ UNCHANGED <<fds, tail, history>>
      /\ \E sb \in Addrs : inode_reg' = sb /\ sb_cached' = NULL
  BY DEF vsfs_creat
<1>2. PointerType'
  BY <1>1 DEF IInv, PointerType
<1>3. CASE Return /\ UNCHANGED <<cache, disk>>
  BY <1>1, <1>2, <1>3, CacheSame, FdsSame, Returned
<1>4. CASE /\ ~AtLimit /\ next_inode < NR_INODES
           /\ FirstOfFile + n <= NR_BLOCKS /\ NewFile(name, n) /\ Return
  <2> DEFINE t == Run(FirstOfFile, n)
  <2>1. t \in Seq(Pointers) /\ Len(t) = n /\ next_block' \in FirstOfFile .. NR_BLOCKS
    <3>1. n \in Nat /\ FirstOfFile \in Nat
      BY FirstType
    <3>2. next_block' = FirstOfFile + n
      BY <1>4 DEF NewFile
    <3> QED BY <1>4, <3>1, <3>2, RunType, BlocksArePointers
  <2>2. /\ CacheOK' /\ DiskOK' /\ next_inode' = next_inode + 1
        /\ \A i \in 1 .. next_inode - 1 : map'[i] = map[i]
    <3>1. FirstOfFile <= NR_BLOCKS /\ Len(t) <= MAXFILE
      BY <1>4, <2>1, FirstType
    <3>2. /\ disk' = WithEntry(name) /\ map' = [DirMap EXCEPT ![next_inode] = t]
          /\ size' = [size EXCEPT ![next_inode] = 0] /\ entry' = entry + 1
          /\ next_inode' = next_inode + 1
      BY <1>4 DEF NewFile
    <3> HIDE DEF t
    <3> QED BY <1>4, <2>1, <3>1, <3>2, FileMade
  <2>3. next_inode \in Nat
    BY DEF IInv, CacheOK, CacheType
  <2>4. FilesOK'
    BY <1>1, <2>2, <2>3, FilesUntouched
  <2> QED BY <1>1, <1>2, <1>4, <2>2, <2>4, Returned
<1> QED BY <1>3, <1>4 DEF vsfs_creat

LEMMA CreatDiesInv ==
  ASSUME IInv, NEW name \in Names, NEW n \in 0 .. MAXFILE, CreatDies(name, n)
  PROVE  IInv'
<1>1. /\ ~AtLimit /\ next_inode < NR_INODES /\ next_block' <= NR_BLOCKS
      /\ next_inode' = next_inode + 1 /\ NoProcess
  BY DEF CreatDies
<1>2. next_inode \in 1 .. NR_INODES /\ next_block \in 1 .. NR_BLOCKS
  BY DEF IInv, CacheOK, CacheType
<1>3. CASE /\ next_block' \in {next_block, FirstOfFile}
           /\ UNCHANGED <<map, size, entry, disk>>
  <2>1. next_inode' \in 1 .. NR_INODES /\ next_block' \in 1 .. NR_BLOCKS
    BY <1>1, <1>2, <1>3, FirstType
  <2>2. CacheOK'
    BY <1>3, <2>1 DEF IInv, CacheOK, CacheType, MapsBounded, SizeBacked, EntriesFit
  <2>3. DiskOK'
    BY <1>1, <1>3, EntryWritten
  <2> QED BY <1>1, <2>2, <2>3, Gone
<1>4. CASE /\ FirstOfFile <= NR_BLOCKS /\ next_block' = FirstOfFile
           /\ map' = DirMap /\ disk' \in {disk, WithEntry(name)}
           /\ UNCHANGED <<size, entry>>
  <2>1. CacheOK'
    BY <1>1, <1>4, DirGrown
  <2>2. DiskOK'
    BY <1>1, <1>4, EntryWritten
  <2> QED BY <1>1, <2>1, <2>2, Gone
<1>5. ASSUME FirstOfFile <= NR_BLOCKS,
             disk' = WithEntry(name), entry' = entry + 1,
             size' = [size EXCEPT ![next_inode] = 0],
             NEW m \in 0 .. n, NEW w \in Kept(0, m),
             map' = [DirMap EXCEPT ![next_inode] = Partly(<< >>, FirstOfFile, m, w)],
             next_block' \in FirstOfFile + m .. FirstOfFile + Lowest(m + 1, n)
      PROVE  IInv'
  <2> DEFINE t == Partly(<< >>, FirstOfFile, m, w)
  <2>1. /\ m \in Nat /\ w \in 0 .. m /\ m <= MAXFILE /\ FirstOfFile \in Nat
        /\ FirstOfFile + Lowest(m + 1, n) \in Int
    BY FirstType DEF Kept, Lowest
  <2>2. FirstOfFile + m <= NR_BLOCKS /\ next_block' \in FirstOfFile .. NR_BLOCKS
    BY <1>1, <1>5, <2>1
  <2>3. << >> \in Seq(Pointers) /\ Len(<< >>) = 0
    BY EmptySeq
  <2>4. t \in Seq(Pointers) /\ Len(t) <= MAXFILE
    <3> DEFINE e == << >>
    <3>1. e \in Seq(Pointers) /\ Len(e) = 0
      BY <2>3
    <3> HIDE DEF e
    <3>2. /\ Partly(e, FirstOfFile, m, w) \in Seq(Pointers)
          /\ Len(Partly(e, FirstOfFile, m, w)) = Len(e) + m
      BY ONLY <2>1, <2>2, <3>1, PartlyType
    <3>3. Len(Partly(e, FirstOfFile, m, w)) <= MAXFILE
      BY <2>1, <3>1, <3>2
    <3> QED BY <3>2, <3>3 DEF e
  <2> HIDE DEF t
  <2>5. map' = [DirMap EXCEPT ![next_inode] = t]
    BY <1>5 DEF t
  <2>6. CacheOK' /\ DiskOK'
    BY <1>1, <1>5, <2>2, <2>4, <2>5, FileMade
  <2> QED BY <1>1, <2>6, Gone
<1> QED BY <1>3, <1>4, <1>5 DEF CreatDies

----------------------------------------------------------------------------
(* A write *)

\* What vsfs_write allocates is enough for the write: the blocks needed, or all
\* the levels can name, which hold more than the limit.
LEMMA WriteHasBlocks ==
  ASSUME IInv, NEW k \in DOMAIN fds, NEW n \in Nat,
         fds[k].offset + n <= LIMIT, WriteAlloc(k, n)
  PROVE  /\ CacheOK'
         /\ fds[k].offset + n <= BS * Len(map'[fds[k].inode])
<1> DEFINE f == fds[k]
           o == f.offset + n
           m == Len(map[f.inode])
           m2 == Len(map'[f.inode])
<1>1. f \in OpenFiles /\ f.inode \in Inodes
  BY FdInode
<1>2. f.offset \in Nat /\ o \in Nat
  BY <1>1 DEF OpenFiles
<1>3. CeilBlocks(o) \in Nat /\ o <= BS * CeilBlocks(o)
  BY <1>2, Ceiling
<1>4. CacheOK /\ map[f.inode] \in Seq(Pointers) /\ m \in Nat
  <2>1. map[f.inode] \in Seq(Pointers)
    BY <1>1 DEF IInv, CacheOK, CacheType
  <2> QED BY <2>1, LenProperties DEF IInv
<1>5. Shortage(k, n) = CeilBlocks(o) - m
  BY DEF Shortage, Needed
<1>6. CASE Shortage(k, n) >= 0 /\ AllocBlock(f.inode, Shortage(k, n))
  <2>1. Shortage(k, n) \in Nat
    BY <1>3, <1>4, <1>5, <1>6
  <2>2. CacheOK' /\ (m2 = m + Shortage(k, n) \/ m2 = MAXFILE)
    BY <1>1, <1>4, <1>6, <2>1, FdInode, Allocation
  <2>3. CASE m2 = m + Shortage(k, n)
    <3>1. m2 = CeilBlocks(o)
      BY <1>3, <1>4, <1>5, <2>3
    <3>2. o <= BS * m2
      <4> HIDE DEF o, m2
      <4> QED BY <1>3, <3>1
    <3> QED BY <2>2, <3>2 DEF o, m2
  <2>4. CASE m2 = MAXFILE
    <3>1. BS * MAXFILE >= LIMIT
      BY FileAssumption DEF FileAssumption
    <3>2. BS * MAXFILE \in Nat
      OBVIOUS
    <3> HIDE DEF o, m2
    <3>3. o <= LIMIT
      BY DEF o
    <3>4. o <= BS * MAXFILE
      BY ONLY <1>2, <3>1, <3>2, <3>3, Numbers
    <3>5. o <= BS * m2
      BY ONLY <2>4, <3>4
    <3>6. f.offset + n <= BS * Len(map'[f.inode])
      BY ONLY <3>5 DEF o, m2
    <3> QED BY ONLY <2>2, <3>6
  <2> QED BY <2>2, <2>3, <2>4
<1>7. CASE Shortage(k, n) < 0 /\ UNCHANGED <<cache, fds>>
  <2>1. CacheOK' /\ m2 = m
    BY <1>7 DEF cache, IInv, CacheOK, CacheType, MapsBounded, SizeBacked, EntriesFit
  <2>2. CeilBlocks(o) <= m
    BY <1>3, <1>4, <1>5, <1>7
  <2> DEFINE c == CeilBlocks(o)
  <2>3. BS * c \in Nat /\ BS * m \in Nat /\ BS * c <= BS * m
    <3> HIDE DEF c, m
    <3> QED BY <1>3, <1>4, <2>2, Multiples DEF c
  <2>4. o <= BS * m
    <3> HIDE DEF c, m, o
    <3>1. o <= BS * c
      BY <1>3 DEF c
    <3> QED BY ONLY <1>2, <2>3, <3>1
  <2> QED BY <2>1, <2>4
<1> QED BY <1>6, <1>7 DEF WriteAlloc

LEMMA WriteAllocFiles ==
  ASSUME IInv, NEW k \in DOMAIN fds, NEW n \in Nat, WriteAlloc(k, n),
         UNCHANGED <<disk, history>>
  PROVE  /\ FilesOK' /\ DiskOK' /\ k \in DOMAIN fds'
         /\ fds'[k].inode = fds[k].inode /\ fds'[k].offset = fds[k].offset
<1> DEFINE f == fds[k]
           g == Refreshed(f)
<1>1. f \in OpenFiles /\ f.inode \in Inodes /\ f.offset \in Nat
  BY FdInode DEF OpenFiles
<1>2. CASE /\ Shortage(k, n) >= 0 /\ AllocBlock(f.inode, Shortage(k, n))
           /\ fds' = [fds EXCEPT ![k] = g]
  <2>1. Shortage(k, n) \in Nat
    <3>1. f.offset + n \in Nat
      BY <1>1
    <3>2. CeilBlocks(f.offset + n) \in Nat
      BY <3>1, Ceiling
    <3>3. map[f.inode] \in Seq(Pointers)
      BY <1>1 DEF IInv, CacheOK, CacheType
    <3>4. Len(map[f.inode]) \in Nat
      BY <3>3, LenProperties
    <3> QED BY <1>2, <3>2, <3>4 DEF Shortage, Needed
  <2>2. CacheOK /\ CacheType /\ FilesOK
    BY DEF IInv, CacheOK
  <2>3. /\ CacheOK' /\ \A i \in Inodes : IsPrefixOf(map[i], map'[i])
        /\ \A i \in Inodes \ {f.inode} : map'[i] = map[i]
        /\ next_inode' = next_inode
    BY <1>1, <1>2, <2>1, <2>2, FdInode, Allocation
  <2>4. size' = size /\ CacheType'
    BY <1>2, <2>3 DEF AllocBlock, CacheOK
  <2>5. /\ g \in OpenFiles /\ g.inode = f.inode /\ g.offset = f.offset
        /\ g.block = map'[g.inode]
    BY <1>1, <2>2, <2>4, RefreshedFile
  <2> HIDE DEF g
  <2>6. FilesOK' /\ DOMAIN fds' = DOMAIN fds /\ fds'[k] = g
    BY <1>2, <2>2, <2>3, <2>4, <2>5, FileReplaced
  <2>7. DiskOK'
    BY <2>3 DEF IInv, DiskOK, DiskType, EntriesOlder
  <2> QED BY <2>5, <2>6, <2>7
<1>3. CASE UNCHANGED <<cache, fds>>
  BY <1>3, CacheSame, FdsSame
<1> QED BY <1>2, <1>3 DEF WriteAlloc

LEMMA WriteInv ==
  ASSUME IInv, NEW k \in Fds, NEW n \in Nat, vsfs_write(k, n)
  PROVE  IInv'
<1>1. pc = "idle" /\ k \in DOMAIN fds /\ fds[k].offset + n <= LIMIT
  <2>1. k \in DOMAIN fds /\ ~(fds[k].offset + n > LIMIT) /\ pc = "idle"
    BY DEF vsfs_write, Refused
  <2>2. fds[k].offset \in Nat
    BY <2>1, FdInode DEF OpenFiles
  <2> QED BY <2>1, <2>2
<1>2. n \in Nat /\ fds[k].offset \in Nat /\ fds[k].inode \in Inodes
  BY <1>1, FdInode DEF OpenFiles
<1>3. CASE /\ WriteAlloc(k, n) /\ inode_reg' = sb_cached /\ pc' = "write"
           /\ call' = [fd |-> k, left |-> n]
           /\ UNCHANGED <<disk, sb_cached, tail, history>>
  <2>1. CacheOK' /\ fds[k].offset + n <= BS * Len(map'[fds[k].inode])
    BY <1>1, <1>2, <1>3, WriteHasBlocks
  <2>2. /\ FilesOK' /\ DiskOK' /\ k \in DOMAIN fds'
        /\ fds'[k].inode = fds[k].inode /\ fds'[k].offset = fds[k].offset
    BY <1>1, <1>2, <1>3, WriteAllocFiles
  <2>3. PointerType'
    BY <1>3 DEF IInv, PointerType
  <2>4. n \in 0 .. LIMIT
    BY <1>1, <1>2
  <2>5. call' \in [fd : Fds, left : 0 .. LIMIT]
    BY <1>3, <2>4
  <2>6. WriteFits'
    BY <1>3, <2>1, <2>2, <2>5 DEF WriteFits
  <2>7. CallOK'
    BY <1>3, <2>5, <2>6 DEF CallOK, CallType
  <2> QED BY <2>1, <2>2, <2>3, <2>7 DEF IInv
<1>4. CASE /\ Shortage(k, n) >= 0
           /\ \/ AllocDies(fds[k].inode, Shortage(k, n))
              \/ AllocStrays(fds[k].inode, Shortage(k, n))
  <2>1. Shortage(k, n) \in Nat
    <3>1. fds[k].offset + n \in Nat
      BY <1>2
    <3>2. CeilBlocks(fds[k].offset + n) \in Nat
      BY <3>1, Ceiling
    <3>3. map[fds[k].inode] \in Seq(Pointers)
      BY <1>2 DEF IInv, CacheOK, CacheType
    <3>4. Len(map[fds[k].inode]) \in Nat
      BY <3>3, LenProperties
    <3> QED BY <1>4, <3>2, <3>4 DEF Shortage, Needed
  <2>2. CASE AllocDies(fds[k].inode, Shortage(k, n))
    BY <1>1, <1>2, <2>1, <2>2, FdInode, DeathInv
  <2>3. CASE AllocStrays(fds[k].inode, Shortage(k, n))
    BY <2>3, AstrayInv DEF AllocStrays
  <2> QED BY <1>4, <2>2, <2>3
<1> QED BY <1>3, <1>4 DEF vsfs_write

\* What one turn of __write_dblock transfers.
LEMMA PieceType ==
  ASSUME IInv, pc = "write", call.left > 0
  PROVE  /\ call \in [fd : Fds, left : 0 .. LIMIT]
         /\ call.fd \in DOMAIN fds /\ Current \in OpenFiles
         /\ Piece \in 1 .. call.left
         /\ Current.offset + call.left <= BS * Len(map[Current.inode])
<1>1. /\ call \in [fd : Fds, left : 0 .. LIMIT]
      /\ call.fd \in DOMAIN fds
      /\ fds[call.fd].offset + call.left <= BS * Len(map[fds[call.fd].inode])
  BY DEF IInv, CallOK, WriteFits
<1>2. Current \in OpenFiles
  BY <1>1, FdInode DEF Current
<1>3. Current.offset \in Nat
  BY <1>2 DEF OpenFiles
<1>4. Skip(Current) \in 0 .. BS - 1
  BY <1>3, Division DEF Skip
<1>5. BS - Skip(Current) \in Nat /\ BS - Skip(Current) >= 1
  BY <1>4
<1>6. Piece \in 1 .. call.left
  BY <1>1, <1>5 DEF Piece, Lowest
<1> QED BY <1>1, <1>2, <1>6 DEF Current

LEMMA WriteBlockInv ==
  ASSUME IInv, NEW data \in [Slots -> Values], WriteBlock(data)
  PROVE  IInv'
<1>1. /\ pc = "write" /\ call.left > 0 /\ UNCHANGED cache
      /\ sb_cached' = sb_cached /\ inode_reg' = inode_reg /\ tail' = tail /\ pc' = pc
      /\ fds' = [fds EXCEPT ![call.fd].offset = @ + Piece]
      /\ call' = [call EXCEPT !.left = @ - Piece]
      /\ history' = history
  BY DEF WriteBlock
<1>2. /\ call \in [fd : Fds, left : 0 .. LIMIT]
      /\ call.fd \in DOMAIN fds /\ Current \in OpenFiles
      /\ Piece \in 1 .. call.left
      /\ Current.offset + call.left <= BS * Len(map[Current.inode])
  BY <1>1, PieceType
<1>3. /\ CacheOK' /\ CacheType /\ CacheType' /\ map' = map
      /\ next_inode' = next_inode
  BY <1>1 DEF cache, IInv, CacheOK, CacheType, MapsBounded, SizeBacked, EntriesFit
<1> DEFINE k == call.fd
           f == [Current EXCEPT !.offset = Current.offset + Piece]
<1>4. Current.offset \in Nat /\ Current.inode \in Inodes /\ call.left \in Nat
  BY <1>2 DEF OpenFiles
<1>5. /\ f \in OpenFiles /\ f.inode = Current.inode /\ f.block = Current.block
      /\ f.offset = Current.offset + Piece
  <2>1. Current.offset + Piece \in Nat
    BY <1>2, <1>4
  <2> QED BY <1>2, <2>1 DEF OpenFiles
<1>6. fds' = [fds EXCEPT ![k] = f]
  BY <1>1 DEF Current
<1>7. FilesOK' /\ DOMAIN fds' = DOMAIN fds /\ fds'[k] = f
  <2>1. f.inode = fds[k].inode /\ f.block = fds[k].block
    BY <1>5 DEF Current
  <2>2. \A i \in Inodes : IsPrefixOf(map[i], map'[i])
    BY <1>3, PrefixSelf DEF CacheType
  <2>3. history' = "alone" => history = "alone"
    BY <1>1
  <2>4. FilesOK
    BY DEF IInv
  <2> HIDE DEF f
  <2> QED BY <1>2, <1>3, <1>5, <1>6, <2>1, <2>2, <2>3, <2>4, FileReplaced
<1>8. DiskOK'
  <2> DEFINE b == Current.block[Index(Current) + 1]
  <2>1. disk' = [disk EXCEPT ![b] = Changed(b, data)]
    BY DEF WriteBlock
  <2>2. disk \in [Blocks -> [Slots -> Cells]] /\ EntriesOlder
    BY DEF IInv, DiskOK, DiskType
  <2>3. \A s \in Slots : data[s] \in Values /\ data[s] \in Cells
    BY DEF Cells
  <2> HIDE DEF b
  <2>4. ASSUME NEW d \in Blocks
        PROVE  /\ Changed(d, data) \in [Slots -> Cells]
               /\ \A s \in Slots : Changed(d, data)[s] \in {data[s], disk[d][s]}
    BY <2>2, <2>3 DEF Changed
  <2>5. ASSUME NEW d \in Blocks
        PROVE  /\ disk'[d] \in [Slots -> Cells]
               /\ \A s \in Slots : disk'[d][s] \in {data[s], disk[d][s]}
    <3>1. disk'[d] \in {disk[d], Changed(d, data)}
      BY <2>1, <2>2
    <3> QED BY <2>2, <2>4, <3>1
  <2>6. DiskType'
    BY <2>1, <2>2, <2>5 DEF DiskType
  <2>7. EntriesOlder'
    <3> SUFFICES ASSUME NEW d \in Blocks, NEW s \in Slots, NEW name \in Names,
                        NEW inode \in Inodes, disk'[d][s] = Entry(name, inode)
                 PROVE  inode \in 1 .. next_inode - 1
      BY <1>3 DEF EntriesOlder
    <3>1. disk'[d][s] # data[s]
      BY <2>3, DataAssumption
    <3>2. disk[d][s] = Entry(name, inode)
      BY <2>5, <3>1
    <3> QED BY <2>2, <3>2 DEF EntriesOlder
  <2> QED BY <2>6, <2>7 DEF DiskOK
<1>9. PointerType'
  BY <1>1 DEF IInv, PointerType
<1>10. CallOK'
  <2>1. call.left - Piece \in 0 .. LIMIT /\ call.left \in 0 .. LIMIT
    BY <1>2
  <2>2. /\ call' \in [fd : Fds, left : 0 .. LIMIT]
        /\ call'.fd = call.fd /\ call'.left = call.left - Piece
    BY <1>1, <1>2, <2>1
  <2>3. fds'[k].offset + call'.left = Current.offset + call.left
    <3>1. fds'[k].offset = Current.offset + Piece
      BY <1>5, <1>7
    <3> QED BY <1>2, <1>4, <2>2, <3>1
  <2>4. fds'[k].inode = Current.inode
    BY <1>5, <1>7
  <2>5. WriteFits'
    BY <1>2, <1>3, <1>7, <2>2, <2>3, <2>4 DEF WriteFits
  <2> QED BY <1>1, <2>2, <2>5 DEF CallOK, CallType
<1> QED BY <1>3, <1>7, <1>8, <1>9, <1>10 DEF IInv

LEMMA WriteEndInv == ASSUME IInv, WriteEnd PROVE IInv'
<1>1. /\ pc = "write" /\ call.left = 0 /\ pc' = "idle" /\ call' = NULL
      /\ size' = [size EXCEPT ![fds[call.fd].inode] = fds[call.fd].offset % W]
      /\ map' = map /\ entry' = entry /\ next_block' = next_block
      /\ next_inode' = next_inode /\ disk' = disk /\ sb_cached' = sb_cached
      /\ inode_reg' = inode_reg /\ fds' = fds /\ tail' = tail /\ history' = history
  BY DEF WriteEnd
<1>2. /\ call.fd \in DOMAIN fds
      /\ fds[call.fd].offset + call.left <= BS * Len(map[fds[call.fd].inode])
  BY <1>1 DEF IInv, CallOK, WriteFits
<1> DEFINE i == fds[call.fd].inode
           o == fds[call.fd].offset
<1>3. i \in Inodes /\ o \in Nat
  BY <1>2, FdInode DEF OpenFiles
<1>4. o % W \in 0 .. W - 1 /\ o % W <= o
  <2> HIDE DEF o
  <2> QED BY <1>3
<1>5. map \in [Inodes -> Seq(Pointers)] /\ size \in [Inodes -> 0 .. W - 1]
  BY DEF IInv, CacheOK, CacheType
<1>6. /\ size' \in [Inodes -> 0 .. W - 1] /\ size'[i] = o % W
      /\ \A j \in Inodes \ {i} : size'[j] = size[j]
  <2> DEFINE x == o % W
  <2>1. size' = [size EXCEPT ![i] = x] /\ x \in 0 .. W - 1
    BY <1>1, <1>4
  <2> HIDE DEF x
  <2> QED BY <1>3, <1>5, <2>1 DEF x
<1>7. SizeBacked'
  <2> SUFFICES ASSUME NEW j \in Inodes \ {Root} PROVE size'[j] <= BS * Len(map[j])
    BY <1>1 DEF SizeBacked
  <2>1. CASE j = i
    <3> DEFINE m == Len(map[i])
    <3>1. map[i] \in Seq(Pointers)
      BY <1>3, <1>5
    <3>2. m \in Nat /\ BS * m \in Nat
      BY <3>1, LenProperties
    <3>3. o + 0 <= BS * m
      BY <1>1, <1>2
    <3> HIDE DEF o, m
    <3>4. o <= BS * m
      BY ONLY <1>3, <3>3
    <3>5. o % W <= BS * m
      BY ONLY <1>3, <1>4, <3>2, <3>4
    <3> QED BY <1>6, <2>1, <3>5 DEF m
  <2>2. CASE j # i
    <3>1. size[j] <= BS * Len(map[j])
      BY DEF IInv, CacheOK, SizeBacked
    <3> QED BY <1>6, <2>2, <3>1
  <2> QED BY <2>1, <2>2
<1>8. CacheOK'
  BY <1>1, <1>6, <1>7 DEF IInv, CacheOK, CacheType, MapsBounded, EntriesFit
<1>9. DiskOK' /\ PointerType'
  BY <1>1 DEF IInv, DiskOK, DiskType, EntriesOlder, PointerType
<1>10. FilesOK'
  BY <1>1 DEF IInv, FilesOK, FdsType, FilesOlder, Alone, BlockMapsCurrent
<1>11. CallOK'
  BY <1>1 DEF CallOK, CallType, WriteFits
<1> QED BY <1>8, <1>9, <1>10, <1>11 DEF IInv

----------------------------------------------------------------------------
(* The specification *)

LEMMA InitInv == Init => IInv
<1> SUFFICES ASSUME Init PROVE IInv
  OBVIOUS
<1> USE DEF Init
<1>1. Root \in Inodes /\ 0 \in Blocks
  BY DEF Root, Inodes, Blocks
<1>2. /\ <<0>> \in Seq(Blocks) /\ Len(<<0>>) = 1
      /\ << >> \in Seq(Blocks) /\ Len(<< >>) = 0
  BY <1>1
<1>3. /\ map \in [Inodes -> Seq(Pointers)] /\ Len(map[Root]) = 1
      /\ map[Root] \in Seq(Blocks)
      /\ \A i \in Inodes : Len(map[i]) \in {0, 1}
  BY <1>1, <1>2, BlocksArePointers
<1>4. /\ 1 <= MAXFILE /\ Dots \in Nat /\ Dots <= BS
  BY FileAssumption DEF FileAssumption
<1>5. CacheType
  BY <1>3, <1>4 DEF CacheType
<1>6. MapsBounded
  BY <1>3, <1>4 DEF MapsBounded
<1>7. SizeBacked
  <2> SUFFICES ASSUME NEW i \in Inodes \ {Root} PROVE size[i] <= BS * Len(map[i])
    BY DEF SizeBacked
  <2>1. size[i] = 0 /\ Len(map[i]) = 0
    BY <1>2
  <2> QED BY <2>1
<1>8. EntriesFit
  <2> DEFINE d == Len(map[Root])
  <2>1. d = 1
    BY <1>3
  <2> HIDE DEF d
  <2>2. BS * d = BS
    BY ONLY <2>1, Numbers
  <2>3. entry <= BS * d
    BY <1>4, <2>2
  <2> QED BY <2>3 DEF EntriesFit, d
<1>9. DiskOK
  <2>1. DiskType
    BY DEF DiskType, Cells
  <2>2. EntriesOlder
    BY DataAssumption DEF EntriesOlder
  <2> QED BY <2>1, <2>2 DEF DiskOK
<1>10. PointerType /\ CallOK
  BY DEF PointerType, CallOK, CallType, WriteFits
<1>11. FilesOK
  <2>1. Len(fds) = 0 /\ DOMAIN fds = {} /\ fds \in Seq(OpenFiles)
    BY EmptySeq
  <2> QED BY <2>1 DEF FilesOK, FdsType, FilesOlder, Alone, BlockMapsCurrent
<1> QED BY <1>5, <1>6, <1>7, <1>8, <1>9, <1>10, <1>11 DEF IInv, CacheOK

LEMMA CallFdInv == ASSUME IInv, NEW k \in Fds, CallFd(k) PROVE IInv'
<1>1. CASE ReadRefused(k) \/ LseekFails(k) \/ vsfs_print_block_nbr(k)
  BY <1>1, ReadRefusedInv, LseekFailsInv, PrintInv
<1>2. CASE \E n \in Lengths :
             vsfs_read(k, n) \/ WriteRefused(k, n) \/ vsfs_write(k, n)
  <2>1. PICK n \in Nat : vsfs_read(k, n) \/ WriteRefused(k, n) \/ vsfs_write(k, n)
    BY <1>2, FileAssumption DEF FileAssumption
  <2> QED BY <2>1, ReadInv, WriteRefusedInv, WriteInv
<1>3. CASE \E offset \in Offsets : vsfs_lseek(k, offset) \/ SeekDies(k, offset)
  <2>1. PICK offset \in Nat :
          SeekInside(k, offset) \/ SeekBeyond(k, offset) \/ SeekDies(k, offset)
    BY <1>3, FileAssumption DEF FileAssumption, vsfs_lseek
  <2> QED BY <2>1, SeekInsideInv, SeekBeyondInv, SeekDiesInv
<1> QED BY <1>1, <1>2, <1>3 DEF CallFd

LEMMA NextInv == ASSUME IInv, [Next]_vars PROVE IInv'
<1>1. CASE Start
  BY <1>1, StartInv
<1>2. CASE Exit \/ Faults
  BY <1>2, ExitInv DEF Faults
<1>3. CASE \E name \in Names, n \in BlockNums : vsfs_creat(name, n) \/ CreatDies(name, n)
  <2>1. BlockNums \subseteq 0 .. MAXFILE
    BY FileAssumption DEF FileAssumption
  <2>2. PICK name \in Names, n \in 0 .. MAXFILE : vsfs_creat(name, n) \/ CreatDies(name, n)
    BY <1>3, <2>1
  <2> QED BY <2>2, CreatInv, CreatDiesInv
<1>4. CASE \E name \in Names : vsfs_stat(name)
  BY <1>4, StatInv
<1>5. CASE \E name \in Names, flags \in Flags : vsfs_open(name, flags)
  BY <1>5, OpenInv
<1>6. CASE vsfs_close
  BY <1>6, CloseInv
<1>7. CASE \E k \in Fds : CallFd(k)
  BY <1>7, CallFdInv
<1>8. CASE Work
  BY <1>8, WriteBlockInv, WriteEndInv, AstrayInv DEF Work, WriteStrays
<1>9. CASE StaleHit
  BY <1>9, AstrayInv DEF StaleHit
<1>10. CASE UNCHANGED vars
  BY <1>10, StutterInv
<1> QED BY <1>1, <1>2, <1>3, <1>4, <1>5, <1>6, <1>7, <1>8, <1>9, <1>10 DEF Next, Call

LEMMA Invariant == Spec => []IInv
<1> QED BY InitInv, NextInv, PTL DEF Spec

\* Every variable keeps its type; the write under way, vsfs_write's loop over
\* the blocks, never has more left than the limit it was checked against.
THEOREM TypeCorrect == Spec => []TypeOK
<1>1. IInv => TypeOK
  BY DEF IInv, CacheOK, CacheType, DiskOK, DiskType, PointerType, FilesOK, FdsType,
         CallOK, CallType, TypeOK
<1> QED BY <1>1, Invariant, PTL

\* No call, no death of a process between two steps of vsfs_write and no stale
\* descriptor makes a file longer than its blocks: vsfs_read never trusts a size
\* that no block backs.
THEOREM SizeIsBacked == Spec => []SizeBacked
<1>1. IInv => SizeBacked
  BY DEF IInv, CacheOK
<1> QED BY <1>1, Invariant, PTL

\* The block map vsfs_open and vsfs_get_inode_info copy is always part of the
\* map of the inode, and complete for a process that has no file open twice.
THEOREM BlockMapsAreCurrent == Spec => []BlockMapsCurrent
<1>1. IInv => BlockMapsCurrent
  BY DEF IInv, FilesOK
<1> QED BY <1>1, Invariant, PTL

\* While the file is not torn, the index __write_dblock uses is below the end of
\* the file and names a block of it.
LEMMA WriteIndex ==
  ASSUME IInv, pc = "write", call.left > 0, history = "alone", ~Torn(Current.inode)
  PROVE  /\ Known(Current, Index(Current))
         /\ Current.block[Index(Current) + 1] \in RangeOf(map[Current.inode])
<1> DEFINE f == Current
           m == Len(map[f.inode])
<1>1. /\ call \in [fd : Fds, left : 0 .. LIMIT]
      /\ call.fd \in DOMAIN fds /\ f \in OpenFiles
      /\ f.offset + call.left <= BS * m
  BY PieceType
<1>2. f.offset \in Nat /\ f.inode \in Inodes /\ call.left \in Nat
  BY <1>1 DEF OpenFiles
<1>3. map[f.inode] \in Seq(Pointers) /\ m \in Nat /\ DOMAIN map[f.inode] = 1 .. m
  <2>1. map[f.inode] \in Seq(Pointers)
    BY <1>2 DEF IInv, CacheOK, CacheType
  <2> QED BY <2>1, LenProperties
<1>4. f.offset < BS * m
  <2>1. BS * m \in Nat
    BY <1>3
  <2> HIDE DEF f, m
  <2> QED BY <1>1, <1>2, <2>1
<1>5. f.offset \div BS \in Nat /\ f.offset \div BS < m
  BY <1>2, <1>3, <1>4, IndexBelow
<1>6. IsPrefixOf(f.block, map[f.inode]) /\ Len(f.block) = m
  BY <1>1 DEF IInv, FilesOK, BlockMapsCurrent, Current
<1>7. f.block \in Seq(Pointers) /\ DOMAIN f.block = 1 .. m
  <2>1. f.block \in Seq(Pointers)
    BY <1>1 DEF OpenFiles
  <2> QED BY <1>6, <2>1, LenProperties
<1>8. (f.offset \div BS) + 1 \in 1 .. m
  BY <1>3, <1>5
<1>9. f.block[(f.offset \div BS) + 1] = map[f.inode][(f.offset \div BS) + 1]
  BY <1>6, <1>7, <1>8 DEF IsPrefixOf
<1>10. f.block[(f.offset \div BS) + 1] \in RangeOf(map[f.inode])
  BY <1>3, <1>8, <1>9 DEF RangeOf
<1>11. Known(f, Index(f))
  BY <1>5, <1>6, <1>10 DEF Known, Index, Torn
<1> QED BY <1>10, <1>11 DEF Index

\* What a write that is under way may do.
Stays ==
  pc = "write" /\ history = "alone" /\ ~Torn(fds[call.fd].inode) =>
    /\ history' # "strayed"
    /\ \A b \in Blocks : disk'[b] # disk[b] =>
         b \in RangeOf(map[fds[call.fd].inode])

\* What a step that is no call does while a write is under way.
LEMMA StepStays ==
  ASSUME IInv, Work \/ Exit \/ Start \/ UNCHANGED <<disk, history>>
  PROVE  Stays
<1> SUFFICES ASSUME pc = "write", history = "alone", ~Torn(Current.inode)
             PROVE  /\ history' # "strayed"
                    /\ \A b \in Blocks : disk'[b] # disk[b] =>
                         b \in RangeOf(map[Current.inode])
  BY DEF Stays, Current
<1>1. CASE \E data \in [Slots -> Values] : WriteBlock(data)
  <2>1. PICK data \in [Slots -> Values] : WriteBlock(data)
    BY <1>1
  <2> DEFINE d == Current.block[Index(Current) + 1]
  <2>2. d \in RangeOf(map[Current.inode])
    BY <2>1, WriteIndex DEF WriteBlock
  <2>3. history' = history /\ disk' = [disk EXCEPT ![d] = Changed(d, data)]
    BY <2>1 DEF WriteBlock
  <2> HIDE DEF d
  <2>4. disk \in [Blocks -> [Slots -> Cells]]
    BY DEF IInv, DiskOK, DiskType
  <2>5. \A b \in Blocks : disk'[b] # disk[b] => b = d
    BY <2>3, <2>4
  <2> QED BY <2>2, <2>3, <2>5
<1>2. CASE WriteStrays
  BY <1>2, WriteIndex DEF WriteStrays
<1>3. CASE WriteEnd
  BY <1>3 DEF WriteEnd
<1>4. CASE Exit
  BY <1>4 DEF Exit, NoProcess
<1>5. CASE Start
  BY <1>5 DEF Start
<1>6. CASE UNCHANGED <<disk, history>>
  BY <1>6
<1> QED BY <1>1, <1>2, <1>3, <1>4, <1>5, <1>6 DEF Work

LEMMA CallsAreIdle == ASSUME Call PROVE pc = "idle"
BY DEF Call, CallFd, vsfs_creat, CreatDies, vsfs_stat, vsfs_open, vsfs_close,
       Faults, StaleHit, ReadRefused, LseekFails, vsfs_print_block_nbr, vsfs_read,
       WriteRefused, vsfs_write, vsfs_lseek, SeekInside, SeekBeyond, SeekDies

\* A vsfs_write of a process that has no file open twice, to a file that no death
\* has left with pointers that were never stored, changes blocks of that file and
\* no others, whatever was allocated, created or killed before.
THEOREM WritesStay == Spec => WritesStayInFile
<1>1. ASSUME IInv, Next PROVE Stays
  <2>1. CASE Call
    BY <2>1, CallsAreIdle DEF Stays
  <2>2. CASE ~Call
    BY <1>1, <2>2, StepStays DEF Next
  <2> QED BY <2>1, <2>2
<1>2. IInv /\ [Next]_vars => [Stays]_vars
  BY <1>1
<1>3. WritesStayInFile <=> [][Stays]_vars
  BY DEF WritesStayInFile, Stays
<1> QED BY <1>2, <1>3, Invariant, PTL DEF Spec

=============================================================================
