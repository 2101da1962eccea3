--------------------------- MODULE VsfsMount_proofs ---------------------------
(***************************************************************************)
(* Proofs about VsfsMount, for every number of inodes and blocks and every *)
(* way they share blocks of their regions: whenever the power fails or a   *)
(* process is killed, the bitmap on the device covers the inodes on the    *)
(* device, and no block has two owners; a complete unmount leaves the      *)
(* cache on the device, names there stay sound, and nothing shrinks.       *)
(***************************************************************************)
EXTENDS VsfsMount, TLAPS

\* What the entry count needs: a mount begins and ends while the shell is idle.
CallFits ==
  /\ command \in Mount => shell = "idle"
  /\ shell \in {"name", "entry"} => c_entry < MaxEntry

Typed == TypeOK /\ CallFits

Exclusive(r, s) == \A n, m \in Inodes : n # m => r[n] \intersect s[m] = {}

\* No inode points to the blocks of `bits'.
Unowned(bits) ==
  Covers(d_iregion, bits) /\ Covers(c_iregion, bits) /\ Covers(b_iregion, bits)

\* Block 0 is never free, and only the directory has it.
ZeroKept ==
  /\ 0 \notin d_dbitmap /\ 0 \notin c_dbitmap /\ 0 \notin b_dbitmap
  /\ \A n \in Inodes \ {Root} :
       0 \notin d_iregion[n] /\ 0 \notin c_iregion[n] /\ 0 \notin b_iregion[n]

\* The bitmaps cover the inodes wherever the two may meet.  An inode in shared
\* memory may point to a block that is free on the device or in the buffers.
Coverage ==
  /\ Covers(d_iregion, d_dbitmap)
  /\ Unowned(c_dbitmap)
  /\ Covers(d_iregion, b_dbitmap) /\ Covers(b_iregion, b_dbitmap)

\* The block between bitmap and pointer is free nowhere the shell looks, and
\* nobody's.
TakenApart ==
  /\ shell # "store" => taken = {}
  /\ 0 \notin taken /\ taken \intersect c_dbitmap = {}
  /\ Unowned(taken)

Owners ==
  /\ Exclusive(d_iregion, d_iregion) /\ Exclusive(c_iregion, c_iregion)
  /\ Exclusive(b_iregion, b_iregion)
  /\ Exclusive(d_iregion, c_iregion) /\ Exclusive(d_iregion, b_iregion)
  /\ Exclusive(b_iregion, c_iregion)

\* What the parts done so far of a copy or a transfer have in common.
PartsDone ==
  /\ command \in Mount => b_iregion = d_iregion /\ b_dbitmap = d_dbitmap
  /\ command = "m_iregion" =>
       \A n \in Inodes \ UNION left : c_iregion[n] = d_iregion[n]
  /\ command = "m_dbitmap" => \A n \in Inodes : c_iregion[n] = d_iregion[n]
  /\ command = "w_dbitmap" => \A b \in d_dbitmap \ UNION left : b \in b_dbitmap
  /\ command = "w_iregion" => d_dbitmap \subseteq b_dbitmap
  /\ command \in Mkfs \union {"none", "u_iregion"} => b_dbitmap = {}
  /\ command = "k_iregion" => \A n \in Inodes \ UNION left : d_iregion[n] \subseteq {0}
  /\ command = "k_dbitmap" => \A n \in Inodes : d_iregion[n] \subseteq {0}

IInv == ZeroKept /\ Coverage /\ TakenApart /\ Owners /\ PartsDone

----------------------------------------------------------------------------
(* Types *)

Commands == {"none"} \union Mkfs \union Mount \union Unmount
Parts == SUBSET (InodeBlocks \union BitmapBlocks \union Single)

LEMMA InitTyped == Init => Typed
  BY MountAssumption
     DEF MountAssumption, Init, Typed, TypeOK, CallFits, Iregion, Fresh, Nothing, Slots,
         Root, Mount

\* A part of a region, copied.
LEMMA CopyTyped ==
  ASSUME NEW to \in Iregion, NEW from \in Iregion, NEW blk,
         NEW old \in SUBSET Blocks, NEW new \in SUBSET Blocks,
         NEW o \in 0 .. MaxEntry, NEW e \in 0 .. MaxEntry
  PROVE  /\ Region(to, from, blk) \in Iregion
         /\ Bits(old, new, blk) \in SUBSET Blocks
         /\ Entry(o, e, blk) \in 0 .. MaxEntry
  BY DEF Region, Bits, Entry, Iregion

LEMMA AdvanceTyped ==
  ASSUME Typed, NEW blk, NEW next \in Commands, NEW parts \in Parts,
         Advance(blk, next, parts)
  PROVE  /\ command' \in {command, next}
         /\ command' \in Commands /\ left' \in Parts
  BY DEF Typed, TypeOK, Advance, Commands, Parts

LEMMA PartsTyped ==
  /\ InodeBlocks \in Parts /\ BitmapBlocks \in Parts /\ Single \in Parts
  /\ {} \in Parts
  BY DEF Parts

LEMMA CleanTyped ==
  /\ Nothing \in Iregion /\ Fresh \in Iregion
  /\ {0} \subseteq Blocks /\ 2 \in 0 .. MaxEntry /\ 0 \in 0 .. MaxEntry
  /\ Root \in Inodes
  BY MountAssumption DEF MountAssumption, Nothing, Fresh, Iregion, Root

\* The commands.
LEMMA CommandTyped ==
  ASSUME Typed, Command
  PROVE  Typed'
<1> USE DEF Typed, TypeOK, CallFits, vars, device, cache, buffers, call, history,
            ClearBuffers, Mkfs, Mount, Unmount
<1>0. /\ \A c \in Commands : c \in {"none"} \union Mkfs \union Mount \union Unmount
      /\ Parts = SUBSET (InodeBlocks \union BitmapBlocks \union Single)
  BY DEF Commands, Parts
<1>1. CASE write_superblock
  BY <1>1 DEF write_superblock
<1>2. CASE write_inode_bitmap
  BY <1>2, PartsTyped, <1>0 DEF write_inode_bitmap
<1>3. CASE write_inode_region
  <2>1. PICK blk \in left : /\ d_iregion' = Region(d_iregion, Fresh, blk)
                            /\ d_entry' = Entry(d_entry, 2, blk)
                            /\ Advance(blk, "k_dbitmap", BitmapBlocks)
    BY <1>3 DEF write_inode_region
  <2>2. d_iregion' \in Iregion /\ d_entry' \in 0 .. MaxEntry
    BY <2>1, CleanTyped, CopyTyped
  <2>3. /\ command' \in {command, "k_dbitmap"}
        /\ command' \in Commands /\ left' \in Parts
    BY <2>1, AdvanceTyped, PartsTyped DEF Commands
  <2> QED BY <1>3, <2>2, <2>3, <1>0 DEF write_inode_region
<1>4. CASE write_data_bitmap
  <2>1. PICK blk \in left : /\ d_dbitmap' = Bits(d_dbitmap, Blocks \ {0}, blk)
                            /\ Advance(blk, "k_dregion", {})
    BY <1>4 DEF write_data_bitmap
  <2>2. d_dbitmap' \in SUBSET Blocks
    BY <2>1 DEF Bits
  <2>3. /\ command' \in {command, "k_dregion"}
        /\ command' \in Commands /\ left' \in Parts
    BY <2>1, AdvanceTyped, PartsTyped DEF Commands
  <2> QED BY <1>4, <2>2, <2>3, <1>0 DEF write_data_bitmap
<1>5. CASE write_data_region
  <2>1. slots' \in [Slots -> Inodes]
    BY <1>5, CleanTyped DEF write_data_region
  <2> QED BY <1>5, <2>1 DEF write_data_region
<1>6. CASE mount_vsfs
  BY <1>6 DEF mount_vsfs
<1>7. CASE MountInodeBitmap
  BY <1>7, PartsTyped, <1>0 DEF MountInodeBitmap
<1>8. CASE MountInodeRegion
  <2>1. PICK blk \in left : /\ c_iregion' = Region(c_iregion, b_iregion, blk)
                            /\ c_entry' = Entry(c_entry, b_entry, blk)
                            /\ Advance(blk, "m_dbitmap", BitmapBlocks)
    BY <1>8 DEF MountInodeRegion
  <2>2. c_iregion' \in Iregion /\ c_entry' \in 0 .. MaxEntry
    BY <2>1, CopyTyped
  <2>3. /\ command' \in {command, "m_dbitmap"}
        /\ command' \in Commands /\ left' \in Parts
    BY <2>1, AdvanceTyped, PartsTyped DEF Commands
  <2> QED BY <1>8, <2>2, <2>3, <1>0 DEF MountInodeRegion
<1>9. CASE MountDataBitmap
  <2>1. PICK blk \in left : /\ c_dbitmap' = Bits(c_dbitmap, b_dbitmap, blk)
                            /\ Advance(blk, "none", {})
                            /\ \/ ClearBuffers /\ mixed' \in {mixed, {}}
                               \/ UNCHANGED <<buffers, mixed>>
    BY <1>9 DEF MountDataBitmap
  <2>2. c_dbitmap' \in SUBSET Blocks
    BY <2>1, CopyTyped DEF Bits
  <2>3. /\ command' \in {command, "none"}
        /\ command' \in Commands /\ left' \in Parts
    BY <2>1, AdvanceTyped, PartsTyped DEF Commands
  <2>4. /\ b_ibitmap' \in SUBSET Inodes /\ b_dbitmap' \in SUBSET Blocks
        /\ b_iregion' \in Iregion /\ b_entry' \in 0 .. MaxEntry
        /\ mixed' \in SUBSET {"cache", "device", "copy"}
    BY <2>1, CleanTyped
  <2> QED BY <1>9, <2>2, <2>3, <2>4, <1>0 DEF MountDataBitmap
<1>10. CASE unmount_vsfs
  BY <1>10, PartsTyped, <1>0 DEF unmount_vsfs
<1>11. CASE UnmountInodeRegion
  <2>1. PICK blk \in left : /\ b_iregion' = Region(b_iregion, c_iregion, blk)
                            /\ b_entry' = Entry(b_entry, c_entry, blk)
                            /\ Advance(blk, "u_dbitmap", BitmapBlocks)
    BY <1>11 DEF UnmountInodeRegion
  <2>2. b_iregion' \in Iregion /\ b_entry' \in 0 .. MaxEntry
    BY <2>1, CopyTyped
  <2>3. /\ command' \in {command, "u_dbitmap"}
        /\ command' \in Commands /\ left' \in Parts
    BY <2>1, AdvanceTyped, PartsTyped DEF Commands
  <2> QED BY <1>11, <2>2, <2>3, <1>0 DEF UnmountInodeRegion
<1>12. CASE UnmountDataBitmap
  <2>1. PICK blk \in left : /\ b_dbitmap' = Bits(b_dbitmap, c_dbitmap, blk)
                            /\ Advance(blk, "w_ibitmap", {})
    BY <1>12 DEF UnmountDataBitmap
  <2>2. b_dbitmap' \in SUBSET Blocks
    BY <2>1 DEF Bits
  <2>3. /\ command' \in {command, "w_ibitmap"}
        /\ command' \in Commands /\ left' \in Parts
    BY <2>1, AdvanceTyped, PartsTyped DEF Commands
  <2> QED BY <1>12, <2>2, <2>3, <1>0 DEF UnmountDataBitmap
<1>13. CASE WriteInodeBitmap
  BY <1>13, PartsTyped, <1>0 DEF WriteInodeBitmap
<1>14. CASE WriteDataBitmap
  <2>1. PICK blk \in left : /\ d_dbitmap' = Bits(d_dbitmap, b_dbitmap, blk)
                            /\ Advance(blk, "w_iregion", InodeBlocks)
    BY <1>14 DEF WriteDataBitmap
  <2>2. d_dbitmap' \in SUBSET Blocks
    BY <2>1 DEF Bits
  <2>3. /\ command' \in {command, "w_iregion"}
        /\ command' \in Commands /\ left' \in Parts
    BY <2>1, AdvanceTyped, PartsTyped DEF Commands
  <2> QED BY <1>14, <2>2, <2>3, <1>0 DEF WriteDataBitmap
<1>15. CASE WriteInodeRegion
  <2>1. PICK blk \in left : /\ d_iregion' = Region(d_iregion, b_iregion, blk)
                            /\ d_entry' = Entry(d_entry, b_entry, blk)
                            /\ Advance(blk, "none", {})
                            /\ \/ ClearBuffers /\ saved' \in {"yes", saved}
                               \/ UNCHANGED <<buffers, saved>>
    BY <1>15 DEF WriteInodeRegion
  <2>2. d_iregion' \in Iregion /\ d_entry' \in 0 .. MaxEntry
    BY <2>1, CopyTyped
  <2>3. /\ command' \in {command, "none"}
        /\ command' \in Commands /\ left' \in Parts
    BY <2>1, AdvanceTyped, PartsTyped DEF Commands
  <2>4. /\ b_ibitmap' \in SUBSET Inodes /\ b_dbitmap' \in SUBSET Blocks
        /\ b_iregion' \in Iregion /\ b_entry' \in 0 .. MaxEntry
        /\ saved' \in {"no", "copied", "yes"}
    BY <2>1, CleanTyped
  <2> QED BY <1>15, <2>2, <2>3, <2>4, <1>0 DEF WriteInodeRegion
<1>16. CASE CommandDies
  BY <1>16, CleanTyped, PartsTyped, <1>0 DEF CommandDies
<1> QED
  BY Command, <1>1, <1>2, <1>3, <1>4, <1>5, <1>6, <1>7, <1>8, <1>9, <1>10, <1>11,
     <1>12, <1>13, <1>14, <1>15, <1>16 DEF Command

\* The shell, the failure and the stuttering step.
LEMMA ShellTyped ==
  ASSUME Typed, Shell \/ PowerLoss \/ UNCHANGED vars
  PROVE  Typed'
<1> USE DEF Typed, TypeOK, CallFits, vars, device, cache, buffers, call, history,
            ClearBuffers, EndCall, MayStart, Mount
<1>1. CASE vsfs_creat
  <2>1. ino' \in Inodes /\ c_ibitmap' \in SUBSET Inodes
    BY <1>1 DEF vsfs_creat
  <2>2. mixed' \in SUBSET {"cache", "device", "copy"}
    BY <1>1 DEF vsfs_creat
  <2> QED BY <1>1, <2>1, <2>2 DEF vsfs_creat
<1>2. CASE CreatWriteName
  <2>1. slots' \in [Slots -> Inodes]
    BY <1>2 DEF CreatWriteName
  <2> QED BY <1>2, <2>1 DEF CreatWriteName
<1>3. CASE CreatAddEntry
  <2>1. c_entry' \in 0 .. MaxEntry
    BY <1>3, MountAssumption DEF CreatAddEntry, MountAssumption
  <2>2. c_iregion' \in Iregion
    BY <1>3 DEF CreatAddEntry, Iregion
  <2> QED BY <1>3, <2>1, <2>2 DEF CreatAddEntry
<1>4. CASE Grow
  <2>1. c_entry \in 0 .. MaxEntry /\ MaxEntry \in Nat
    BY MountAssumption DEF MountAssumption
  <2>2. PICK k \in 2 .. c_entry - 1 : ino' = slots[k]
    BY <1>4 DEF Grow
  <2>3. k \in Slots
    BY <2>1, <2>2 DEF Slots
  <2>4. ino' \in Inodes
    BY <2>2, <2>3
  <2> QED BY <1>4, <2>4 DEF Grow
<1>5. CASE TakeBlock
  <2>1. c_dbitmap' \in SUBSET Blocks /\ taken' \in SUBSET Blocks
    BY <1>5 DEF TakeBlock
  <2> QED BY <1>5, <2>1 DEF TakeBlock
<1>6. CASE StorePointer
  <2>1. c_iregion' \in Iregion
    BY <1>6 DEF StorePointer, Iregion
  <2> QED BY <1>6, <2>1 DEF StorePointer
<1>7. CASE ShellReturns
  BY <1>7, CleanTyped DEF ShellReturns
<1>8. CASE ShellDies
  BY <1>8, CleanTyped DEF ShellDies
<1>9. CASE PowerLoss
  BY <1>9, CleanTyped, PartsTyped DEF PowerLoss, Parts
<1>10. CASE UNCHANGED vars
  BY <1>10
<1> QED
  BY <1>1, <1>2, <1>3, <1>4, <1>5, <1>6, <1>7, <1>8, <1>9, <1>10 DEF Shell

\* For every number of inodes and blocks every variable has its type: the entry
\* count never passes the directory block, also when a mount replaces it.
THEOREM TypeCorrect == Spec => []TypeOK
<1>1. Init => Typed
  BY InitTyped
<1>2. Typed /\ [Next]_vars => Typed'
  BY CommandTyped, ShellTyped DEF Next
<1>3. Typed => TypeOK
  BY DEF Typed
<1> QED BY <1>1, <1>2, <1>3, PTL DEF Spec

----------------------------------------------------------------------------
(* Covers and Exclusive under the copies *)

LEMMA CoversCopied ==
  ASSUME NEW to, NEW from, NEW blk, NEW bits, NEW old, NEW new
  PROVE  /\ Covers(to, bits) /\ Covers(from, bits) => Covers(Region(to, from, blk), bits)
         /\ Covers(to, old) /\ Covers(to, new) => Covers(to, Bits(old, new, blk))
         /\ Covers(to, old) /\ new \subseteq old => Covers(to, new)
         /\ 0 \notin bits => Covers(Fresh, bits)
         /\ Covers(Nothing, bits) /\ Covers(to, {})
  BY DEF Covers, Region, Bits, Fresh, Nothing

LEMMA ExclusiveCopied ==
  ASSUME NEW to, NEW from, NEW blk, NEW s
  PROVE  /\ Exclusive(to, s) /\ Exclusive(from, s) => Exclusive(Region(to, from, blk), s)
         /\ Exclusive(s, to) /\ Exclusive(s, from) => Exclusive(s, Region(to, from, blk))
         /\ Exclusive(to, to) /\ Exclusive(from, from) /\ Exclusive(to, from)
              => LET r == Region(to, from, blk) IN Exclusive(r, r)
         /\ Exclusive(to, s) => Exclusive(s, to)
         /\ (\A n \in Inodes \ {Root} : 0 \notin s[n]) => Exclusive(Fresh, s)
         /\ Exclusive(Fresh, Fresh)
         /\ Exclusive(Nothing, s) /\ Exclusive(s, Nothing)
<1>1. \A n \in Inodes : Region(to, from, blk)[n] \in {to[n], from[n]}
  BY DEF Region
<1>2. Exclusive(to, s) => Exclusive(s, to)
  BY DEF Exclusive
<1>3. /\ Exclusive(to, s) /\ Exclusive(from, s) => Exclusive(Region(to, from, blk), s)
      /\ Exclusive(s, to) /\ Exclusive(s, from) => Exclusive(s, Region(to, from, blk))
  BY <1>1 DEF Exclusive
<1>4. Exclusive(to, to) /\ Exclusive(from, from) /\ Exclusive(to, from)
        => LET r == Region(to, from, blk) IN Exclusive(r, r)
  BY <1>1 DEF Exclusive
<1>5. /\ (\A n \in Inodes \ {Root} : 0 \notin s[n]) => Exclusive(Fresh, s)
      /\ Exclusive(Fresh, Fresh)
  BY DEF Exclusive, Fresh
<1>6. Exclusive(Nothing, s) /\ Exclusive(s, Nothing)
  BY DEF Exclusive, Nothing
<1> QED BY <1>2, <1>3, <1>4, <1>5, <1>6

\* When a part is done, whatever is in no part left is in it or was done before.
LEMMA AdvanceDone ==
  ASSUME NEW blk \in left, NEW next, NEW parts, Advance(blk, next, parts)
  PROVE  \/ /\ command' = next /\ left' = parts
            /\ \A x : x \in blk \/ x \notin UNION left
         \/ /\ command' = command
            /\ \A x : x \notin UNION left' => x \in blk \/ x \notin UNION left
<1>1. CASE left = {blk}
  BY <1>1 DEF Advance
<1>2. CASE left # {blk}
  <2>1. \A x : x \notin UNION (left \ {blk}) => x \in blk \/ x \notin UNION left
    OBVIOUS
  <2> QED BY <1>2, <2>1 DEF Advance
<1> QED BY <1>1, <1>2

----------------------------------------------------------------------------
(* The invariant is inductive *)

LEMMA InitHolds == Init => IInv
<1> SUFFICES ASSUME Init PROVE IInv
  OBVIOUS
<1>1. /\ d_iregion = Fresh /\ c_iregion = Nothing /\ b_iregion = Nothing
      /\ c_dbitmap = {} /\ b_dbitmap = {} /\ taken = {} /\ command = "none"
      /\ 0 \notin d_dbitmap
  BY DEF Init
<1>2. ZeroKept
  BY <1>1 DEF ZeroKept, Fresh, Nothing
<1>3. Coverage /\ TakenApart
  BY <1>1, CoversCopied DEF Coverage, TakenApart, Unowned
<1>4. Owners
  BY <1>1, ExclusiveCopied DEF Owners
<1>5. PartsDone
  BY <1>1 DEF IInv, PartsDone, Mount, Mkfs
<1> QED BY <1>2, <1>3, <1>4, <1>5 DEF IInv

\* A step that leaves inodes and data bitmaps alone.
LEMMA Elsewhere ==
  ASSUME Typed, IInv,
         UNCHANGED <<d_iregion, d_dbitmap, c_iregion, c_dbitmap, b_iregion, b_dbitmap>>,
         taken' \in {taken, {}}, shell' # "store" => taken' = {}
  PROVE  ZeroKept' /\ Coverage' /\ TakenApart' /\ Owners'
  BY CoversCopied
     DEF IInv, ZeroKept, Coverage, TakenApart, Owners, Unowned, Covers, Exclusive

\* mkfs clears the inodes, then the bitmap.
LEMMA MkfsKeeps ==
  ASSUME Typed, IInv,
         \/ write_superblock \/ write_inode_bitmap \/ write_inode_region
         \/ write_data_bitmap \/ write_data_region
  PROVE  IInv'
<1> USE DEF device, cache, buffers, call, history, Typed, CallFits, Mount, Mkfs
<1>0. /\ UNCHANGED <<c_iregion, c_dbitmap, b_iregion, b_dbitmap, taken, shell>>
      /\ command \notin Mount /\ command' \notin Mount /\ b_dbitmap = {}
  BY DEF write_superblock, write_inode_bitmap, write_inode_region, write_data_bitmap,
         write_data_region, Advance, IInv, PartsDone
<1>1. CASE write_superblock \/ write_data_region
  <2>1. UNCHANGED <<d_iregion, d_dbitmap>> /\ command' \in {"k_ibitmap", "none"}
    BY <1>1 DEF write_superblock, write_data_region
  <2>2. PartsDone'
    BY <1>0, <2>1 DEF PartsDone
  <2>3. shell' # "store" => taken' = {}
    BY <1>0 DEF IInv, TakenApart
  <2> QED BY <1>0, <2>1, <2>2, <2>3, Elsewhere DEF IInv
<1>2. CASE write_inode_bitmap
  <2>1. /\ UNCHANGED <<d_iregion, d_dbitmap>>
        /\ command' = "k_iregion" /\ left' = InodeBlocks
    BY <1>2 DEF write_inode_bitmap
  <2>2. PartsDone'
    BY <1>0, <2>1, MountAssumption DEF PartsDone, MountAssumption
  <2>3. shell' # "store" => taken' = {}
    BY <1>0 DEF IInv, TakenApart
  <2> QED BY <1>0, <2>1, <2>2, <2>3, Elsewhere DEF IInv
<1>3. CASE write_inode_region
  <2>1. PICK blk \in left : /\ d_iregion' = Region(d_iregion, Fresh, blk)
                            /\ Advance(blk, "k_dbitmap", BitmapBlocks)
    BY <1>3 DEF write_inode_region
  <2>2. command = "k_iregion" /\ UNCHANGED d_dbitmap
    BY <1>3 DEF write_inode_region
  <2>3. ZeroKept'
    BY <1>0, <2>1, <2>2 DEF IInv, ZeroKept, Region, Fresh
  <2>4. Coverage' /\ TakenApart'
    <3>1. \A x : 0 \notin x => Covers(Fresh, x)
      BY CoversCopied
    <3>2. \A x : Covers(d_iregion, x) /\ Covers(Fresh, x) => Covers(d_iregion', x)
      BY <2>1, CoversCopied
    <3> QED
      BY <1>0, <2>2, <3>1, <3>2 DEF IInv, ZeroKept, Coverage, TakenApart, Unowned
  <2>5. Owners'
    <3>1. /\ Exclusive(Fresh, d_iregion) /\ Exclusive(Fresh, c_iregion)
          /\ Exclusive(Fresh, b_iregion) /\ Exclusive(Fresh, Fresh)
      BY ExclusiveCopied DEF IInv, ZeroKept
    <3>2. Exclusive(d_iregion, Fresh)
      BY <3>1, ExclusiveCopied
    <3>3. /\ Exclusive(d_iregion', d_iregion') /\ Exclusive(d_iregion', c_iregion)
          /\ Exclusive(d_iregion', b_iregion)
      BY <2>1, <3>1, <3>2, ExclusiveCopied DEF IInv, Owners
    <3> QED BY <1>0, <3>3 DEF IInv, Owners
  <2>6. PartsDone'
    <3>1. \A n \in Inodes : n \in blk \/ n \notin UNION left => d_iregion'[n] \subseteq {0}
      BY <2>1, <2>2 DEF IInv, PartsDone, Region, Fresh
    <3> QED BY <1>0, <2>1, <2>2, <3>1, AdvanceDone DEF IInv, PartsDone, Mount, Mkfs
  <2> QED BY <2>3, <2>4, <2>5, <2>6 DEF IInv
<1>4. CASE write_data_bitmap
  <2>1. PICK blk \in left : /\ d_dbitmap' = Bits(d_dbitmap, Blocks \ {0}, blk)
                            /\ Advance(blk, "k_dregion", {})
    BY <1>4 DEF write_data_bitmap
  <2>2. command = "k_dbitmap" /\ UNCHANGED d_iregion
    BY <1>4 DEF write_data_bitmap
  <2>3. Covers(d_iregion, Blocks \ {0})
    BY <2>2 DEF IInv, PartsDone, Covers
  <2>4. Covers(d_iregion, d_dbitmap')
    BY <2>1, <2>3, CoversCopied DEF IInv, Coverage
  <2>5. ZeroKept'
    BY <1>0, <2>1, <2>2 DEF IInv, ZeroKept, Bits
  <2>6. PartsDone'
    BY <1>0, <2>1, <2>2, AdvanceDone DEF IInv, PartsDone, Mount, Mkfs
  <2> QED
    BY <1>0, <2>2, <2>4, <2>5, <2>6 DEF IInv, Coverage, TakenApart, Owners, Unowned
<1> QED BY <1>1, <1>2, <1>3, <1>4

\* mount: the buffers hold the device, and the inodes are copied before the
\* bitmap that covers them.
LEMMA MountKeeps ==
  ASSUME Typed, IInv,
         mount_vsfs \/ MountInodeBitmap \/ MountInodeRegion \/ MountDataBitmap
  PROVE  IInv'
<1> USE DEF device, cache, buffers, call, history, Typed, CallFits
<1>0. /\ UNCHANGED <<d_iregion, d_dbitmap, taken, shell>> /\ shell = "idle"
      /\ taken = {}
  BY DEF mount_vsfs, MountInodeBitmap, MountInodeRegion, MountDataBitmap, Mount, IInv,
         TakenApart
<1>1. CASE mount_vsfs
  <2>1. /\ b_iregion' = d_iregion /\ b_dbitmap' = d_dbitmap
        /\ UNCHANGED <<c_iregion, c_dbitmap>> /\ command' = "m_ibitmap"
    BY <1>1 DEF mount_vsfs
  <2>2. ZeroKept' /\ Coverage' /\ TakenApart'
    BY <1>0, <2>1, CoversCopied DEF IInv, ZeroKept, Coverage, TakenApart, Unowned
  <2>3. Owners'
    BY <1>0, <2>1 DEF IInv, Owners
  <2>4. PartsDone'
    BY <1>0, <2>1 DEF IInv, PartsDone, Mount, Mkfs
  <2> QED BY <2>2, <2>3, <2>4 DEF IInv
<1>2. CASE MountInodeBitmap
  <2>1. /\ UNCHANGED <<c_iregion, c_dbitmap, b_iregion, b_dbitmap>>
        /\ command = "m_ibitmap" /\ command' = "m_iregion" /\ left' = Single
    BY <1>2 DEF MountInodeBitmap
  <2>2. UNION Single = Inodes
    BY DEF Single
  <2>3. PartsDone'
    BY <1>0, <2>1, <2>2 DEF IInv, PartsDone, Mount, Mkfs
  <2> QED BY <1>0, <2>1, <2>3, Elsewhere DEF IInv
<1>3. CASE MountInodeRegion
  <2>1. PICK blk \in left : /\ c_iregion' = Region(c_iregion, b_iregion, blk)
                            /\ Advance(blk, "m_dbitmap", BitmapBlocks)
    BY <1>3 DEF MountInodeRegion
  <2>2. /\ UNCHANGED <<c_dbitmap, b_iregion, b_dbitmap>> /\ command = "m_iregion"
        /\ b_iregion = d_iregion /\ b_dbitmap = d_dbitmap
    BY <1>3 DEF MountInodeRegion, IInv, PartsDone, Mount, Mkfs
  <2>3. ZeroKept'
    BY <1>0, <2>1, <2>2 DEF IInv, ZeroKept, Region
  <2>4. Coverage' /\ TakenApart'
    BY <1>0, <2>1, <2>2, CoversCopied DEF IInv, Coverage, TakenApart, Unowned
  <2>5. Owners'
    <3>1. /\ Exclusive(c_iregion, d_iregion) /\ Exclusive(c_iregion, b_iregion)
      BY ExclusiveCopied DEF IInv, Owners
    <3>2. Exclusive(c_iregion', c_iregion') /\ Exclusive(d_iregion, c_iregion')
      BY <2>1, <2>2, <3>1, ExclusiveCopied DEF IInv, Owners
    <3> QED BY <1>0, <2>2, <3>2 DEF IInv, Owners
  <2>6. PartsDone'
    <3>1. \A n \in Inodes : n \in blk \/ n \notin UNION left => c_iregion'[n] = d_iregion[n]
      BY <2>1, <2>2 DEF IInv, PartsDone, Region
    <3> QED BY <1>0, <2>1, <2>2, <3>1, AdvanceDone DEF IInv, PartsDone, Mount, Mkfs
  <2> QED BY <2>3, <2>4, <2>5, <2>6 DEF IInv
<1>4. CASE MountDataBitmap
  <2>1. PICK blk \in left : /\ c_dbitmap' = Bits(c_dbitmap, b_dbitmap, blk)
                            /\ Advance(blk, "none", {})
    BY <1>4 DEF MountDataBitmap
  <2>2. /\ UNCHANGED c_iregion /\ command = "m_dbitmap"
        /\ b_iregion = d_iregion /\ b_dbitmap = d_dbitmap
        /\ \/ b_iregion' = Nothing /\ b_dbitmap' = {} /\ left = {blk}
           \/ UNCHANGED <<b_iregion, b_dbitmap>> /\ left # {blk}
    BY <1>4, <2>1 DEF MountDataBitmap, IInv, PartsDone, Mount, ClearBuffers
  <2>3. ZeroKept'
    BY <1>0, <2>1, <2>2 DEF IInv, ZeroKept, Bits, Nothing
  <2>4. Unowned(c_dbitmap)' /\ Covers(d_iregion, b_dbitmap')
        /\ Covers(b_iregion', b_dbitmap')
    <3>1. Covers(c_iregion, d_dbitmap)
      BY <2>2 DEF IInv, PartsDone, Coverage, Covers
    <3>2. Covers(c_iregion, c_dbitmap') /\ Covers(d_iregion, c_dbitmap')
      BY <2>1, <2>2, <3>1, CoversCopied DEF IInv, Coverage, Unowned
    <3>3. Covers(b_iregion', c_dbitmap')
      BY <2>2, <3>2, CoversCopied
    <3>4. Covers(d_iregion, b_dbitmap') /\ Covers(b_iregion', b_dbitmap')
      BY <2>2, CoversCopied DEF IInv, Coverage
    <3> QED BY <1>0, <2>2, <3>2, <3>3, <3>4 DEF Unowned
  <2>5. Coverage' /\ TakenApart'
    BY <1>0, <2>4, CoversCopied DEF IInv, Coverage, TakenApart, Unowned
  <2>6. Owners'
    BY <1>0, <2>2, ExclusiveCopied DEF IInv, Owners
  <2>7. PartsDone'
    BY <1>0, <2>1, <2>2 DEF IInv, PartsDone, Mount, Mkfs, Advance
  <2> QED BY <2>3, <2>5, <2>6, <2>7 DEF IInv
<1> QED BY <1>1, <1>2, <1>3, <1>4

\* unmount copies: what the bitmap copied later calls free, no inode copied
\* earlier has, as blocks only leave the bitmap meanwhile.
LEMMA UnmountKeeps ==
  ASSUME Typed, IInv, unmount_vsfs \/ UnmountInodeRegion \/ UnmountDataBitmap
  PROVE  IInv'
<1> USE DEF device, cache, buffers, call, history
<1>0. UNCHANGED <<d_iregion, d_dbitmap, c_iregion, c_dbitmap, taken, shell>>
  BY DEF unmount_vsfs, UnmountInodeRegion, UnmountDataBitmap
<1>1. CASE unmount_vsfs
  <2>1. /\ UNCHANGED <<b_iregion, b_dbitmap>> /\ command' = "u_iregion"
        /\ b_dbitmap = {}
    BY <1>1 DEF unmount_vsfs, IInv, PartsDone
  <2>2. PartsDone'
    BY <2>1 DEF IInv, PartsDone, Mount, Mkfs
  <2>3. shell' # "store" => taken' = {}
    BY <1>0 DEF IInv, TakenApart
  <2> QED BY <1>0, <2>1, <2>2, <2>3, Elsewhere DEF IInv
<1>2. CASE UnmountInodeRegion
  <2>1. PICK blk \in left : /\ b_iregion' = Region(b_iregion, c_iregion, blk)
                            /\ Advance(blk, "u_dbitmap", BitmapBlocks)
    BY <1>2 DEF UnmountInodeRegion
  <2>2. UNCHANGED b_dbitmap /\ command = "u_iregion" /\ b_dbitmap = {}
    BY <1>2 DEF UnmountInodeRegion, IInv, PartsDone
  <2>3. ZeroKept'
    BY <1>0, <2>1, <2>2 DEF IInv, ZeroKept, Region
  <2>4. Coverage' /\ TakenApart'
    BY <1>0, <2>1, <2>2, CoversCopied DEF IInv, Coverage, TakenApart, Unowned
  <2>5. Owners'
    BY <1>0, <2>1, ExclusiveCopied DEF IInv, Owners
  <2>6. PartsDone'
    BY <2>1, <2>2 DEF IInv, PartsDone, Mount, Mkfs, Advance
  <2> QED BY <2>3, <2>4, <2>5, <2>6 DEF IInv
<1>3. CASE UnmountDataBitmap
  <2>1. PICK blk \in left : /\ b_dbitmap' = Bits(b_dbitmap, c_dbitmap, blk)
                            /\ Advance(blk, "w_ibitmap", {})
    BY <1>3 DEF UnmountDataBitmap
  <2>2. UNCHANGED b_iregion /\ command = "u_dbitmap"
    BY <1>3 DEF UnmountDataBitmap
  <2>3. ZeroKept'
    BY <1>0, <2>1, <2>2 DEF IInv, ZeroKept, Bits
  <2>4. Coverage' /\ TakenApart'
    BY <1>0, <2>1, <2>2, CoversCopied DEF IInv, Coverage, TakenApart, Unowned
  <2>5. Owners'
    BY <1>0, <2>2 DEF IInv, Owners
  <2>6. PartsDone'
    BY <2>1, <2>2 DEF IInv, PartsDone, Mount, Mkfs, Advance
  <2> QED BY <2>3, <2>4, <2>5, <2>6 DEF IInv
<1> QED BY <1>1, <1>2, <1>3

\* unmount writes: the bitmap first, then the inodes it covers.
LEMMA WriteKeeps ==
  ASSUME Typed, IInv, WriteInodeBitmap \/ WriteDataBitmap \/ WriteInodeRegion
  PROVE  IInv'
<1> USE DEF device, cache, buffers, call, history
<1>0. UNCHANGED <<c_iregion, c_dbitmap, taken, shell>>
  BY DEF WriteInodeBitmap, WriteDataBitmap, WriteInodeRegion
<1>1. CASE WriteInodeBitmap
  <2>1. /\ UNCHANGED <<d_iregion, d_dbitmap, b_iregion, b_dbitmap>>
        /\ command' = "w_dbitmap" /\ left' = BitmapBlocks
    BY <1>1 DEF WriteInodeBitmap
  <2>2. d_dbitmap \subseteq UNION BitmapBlocks
    BY MountAssumption DEF MountAssumption, Typed, TypeOK
  <2>3. PartsDone'
    BY <2>1, <2>2 DEF PartsDone, Mount, Mkfs
  <2>4. shell' # "store" => taken' = {}
    BY <1>0 DEF IInv, TakenApart
  <2> QED BY <1>0, <2>1, <2>3, <2>4, Elsewhere DEF IInv
<1>2. CASE WriteDataBitmap
  <2>1. PICK blk \in left : /\ d_dbitmap' = Bits(d_dbitmap, b_dbitmap, blk)
                            /\ Advance(blk, "w_iregion", InodeBlocks)
    BY <1>2 DEF WriteDataBitmap
  <2>2. UNCHANGED <<d_iregion, b_iregion, b_dbitmap>> /\ command = "w_dbitmap"
    BY <1>2 DEF WriteDataBitmap
  <2>3. ZeroKept'
    BY <1>0, <2>1, <2>2 DEF IInv, ZeroKept, Bits
  <2>4. Coverage' /\ TakenApart' /\ Owners'
    BY <1>0, <2>1, <2>2, CoversCopied
       DEF IInv, Coverage, TakenApart, Unowned, Owners
  <2>5. PartsDone'
    <3>1. \A b \in d_dbitmap' : b \in blk \/ b \notin UNION left => b \in b_dbitmap
      BY <2>1, <2>2 DEF IInv, PartsDone, Bits
    <3> QED BY <2>1, <2>2, <3>1, AdvanceDone DEF PartsDone, Mount, Mkfs
  <2> QED BY <2>3, <2>4, <2>5 DEF IInv
<1>3. CASE WriteInodeRegion
  <2>1. PICK blk \in left : /\ d_iregion' = Region(d_iregion, b_iregion, blk)
                            /\ Advance(blk, "none", {})
    BY <1>3 DEF WriteInodeRegion
  <2>2. /\ UNCHANGED d_dbitmap /\ command = "w_iregion"
        /\ \/ b_iregion' = Nothing /\ b_dbitmap' = {} /\ command' = "none"
           \/ UNCHANGED <<b_iregion, b_dbitmap, command>>
    BY <1>3, <2>1 DEF WriteInodeRegion, ClearBuffers, Advance
  <2>3. d_dbitmap \subseteq b_dbitmap
    BY <2>2 DEF IInv, PartsDone
  <2>4. Covers(b_iregion, d_dbitmap)
    BY <2>3, CoversCopied DEF IInv, Coverage
  <2>5. ZeroKept'
    BY <1>0, <2>1, <2>2 DEF IInv, ZeroKept, Region, Nothing
  <2>6. Coverage' /\ TakenApart'
    <3>1. \A x : Covers(d_iregion, x) /\ Covers(b_iregion, x) => Covers(d_iregion', x)
      BY <2>1, CoversCopied
    <3>2. \A x : Covers(b_iregion, x) => Covers(b_iregion', x)
      BY <2>2, CoversCopied
    <3>3. Covers(d_iregion', b_dbitmap') /\ Covers(b_iregion', b_dbitmap')
      BY <2>2, <3>1, CoversCopied DEF IInv, Coverage
    <3> QED
      BY <1>0, <2>2, <2>4, <3>1, <3>2, <3>3
         DEF IInv, Coverage, TakenApart, Unowned
  <2>7. Owners'
    <3>1. Exclusive(b_iregion, d_iregion)
      BY ExclusiveCopied DEF IInv, Owners
    <3>2. /\ Exclusive(d_iregion', d_iregion') /\ Exclusive(d_iregion', c_iregion)
          /\ Exclusive(d_iregion', b_iregion)
      BY <2>1, <3>1, ExclusiveCopied DEF IInv, Owners
    <3> QED BY <1>0, <2>2, <3>2, ExclusiveCopied DEF IInv, Owners
  <2>8. PartsDone'
    BY <2>2, <2>3 DEF PartsDone, Mount, Mkfs
  <2> QED BY <2>5, <2>6, <2>7, <2>8 DEF IInv
<1> QED BY <1>1, <1>2, <1>3

\* The shell takes a block nobody has and gives it to one inode.
LEMMA ShellKeeps ==
  ASSUME Typed, IInv, Shell
  PROVE  IInv'
<1> USE DEF device, cache, buffers, call, history, EndCall
<1>0. UNCHANGED <<d_iregion, d_dbitmap, b_iregion, b_dbitmap, command, left>>
  BY DEF Shell, vsfs_creat, CreatWriteName, CreatAddEntry, Grow, TakeBlock,
         StorePointer, ShellReturns, ShellDies
<1>1. CASE vsfs_creat \/ CreatWriteName \/ Grow \/ ShellReturns \/ ShellDies
  <2>1. /\ UNCHANGED <<c_iregion, c_dbitmap>> /\ taken' \in {taken, {}}
        /\ shell' # "store" => taken' = {}
    BY <1>1 DEF vsfs_creat, CreatWriteName, Grow, ShellReturns, ShellDies, MayStart,
       IInv, TakenApart
  <2>2. PartsDone'
    BY <1>0, <2>1 DEF IInv, PartsDone
  <2> QED BY <1>0, <2>1, <2>2, Elsewhere DEF IInv
<1>2. command \notin Mount \/ shell = "idle"
  BY DEF Typed, CallFits
<1>3. CASE CreatAddEntry
  <2>1. /\ c_iregion' = [c_iregion EXCEPT ![ino] = {}]
        /\ UNCHANGED <<c_dbitmap, taken>> /\ taken = {} /\ command \notin Mount
    BY <1>2, <1>3 DEF CreatAddEntry, IInv, TakenApart
  <2>2. \A n \in Inodes : c_iregion'[n] \subseteq c_iregion[n]
    BY <2>1 DEF Typed, TypeOK, Iregion
  <2>3. ZeroKept' /\ Coverage' /\ TakenApart' /\ Owners'
    BY <1>0, <2>1, <2>2
       DEF IInv, ZeroKept, Coverage, TakenApart, Owners, Unowned, Covers, Exclusive
  <2>4. PartsDone'
    BY <1>0, <2>1 DEF IInv, PartsDone, Mount
  <2> QED BY <2>3, <2>4 DEF IInv
<1>4. CASE TakeBlock
  <2>1. PICK b \in c_dbitmap : c_dbitmap' = c_dbitmap \ {b} /\ taken' = {b}
    BY <1>4 DEF TakeBlock
  <2>2. UNCHANGED c_iregion /\ shell' = "store"
    BY <1>4 DEF TakeBlock
  <2>3. ZeroKept' /\ Coverage'
    BY <1>0, <2>1, <2>2, CoversCopied DEF IInv, ZeroKept, Coverage, Unowned
  <2>4. TakenApart'
    <3>1. taken' \subseteq c_dbitmap
      BY <2>1
    <3>2. Unowned(taken')
      BY <3>1, CoversCopied DEF IInv, Coverage, Unowned
    <3> QED
      BY <1>0, <2>1, <2>2, <3>2 DEF TakenApart, Unowned, IInv, ZeroKept
  <2>5. Owners' /\ PartsDone'
    BY <1>0, <2>2 DEF IInv, Owners, PartsDone
  <2> QED BY <2>3, <2>4, <2>5 DEF IInv
<1>5. CASE StorePointer
  <2>1. /\ c_iregion' = [c_iregion EXCEPT ![ino] = @ \union taken]
        /\ UNCHANGED c_dbitmap /\ taken' = {} /\ command \notin Mount
    BY <1>2, <1>5 DEF StorePointer
  <2>2. \A n \in Inodes : /\ n # ino => c_iregion'[n] = c_iregion[n]
                          /\ c_iregion'[n] \subseteq c_iregion[n] \union taken
    BY <2>1 DEF Typed, TypeOK, Iregion
  <2>3. ZeroKept' /\ Coverage' /\ TakenApart'
    BY <1>0, <2>1, <2>2
       DEF IInv, ZeroKept, Coverage, TakenApart, Unowned, Covers
  <2>4. Owners'
    <3>1. ASSUME NEW s, Exclusive(s, c_iregion), Covers(s, taken)
          PROVE  Exclusive(s, c_iregion')
      <4>1. SUFFICES ASSUME NEW n \in Inodes, NEW m \in Inodes, n # m
                     PROVE  s[n] \intersect c_iregion'[m] = {}
        BY DEF Exclusive
      <4>2. s[n] \intersect c_iregion[m] = {} /\ s[n] \intersect taken = {}
        BY <3>1, <4>1 DEF Covers, Exclusive
      <4>3. c_iregion'[m] \subseteq c_iregion[m] \union taken
        BY <2>2
      <4> QED BY <4>2, <4>3
    <3>2. /\ Exclusive(d_iregion, c_iregion') /\ Exclusive(b_iregion, c_iregion')
          /\ Exclusive(c_iregion, c_iregion')
      BY <3>1 DEF IInv, TakenApart, Unowned, Owners
    <3>3. Exclusive(c_iregion', c_iregion')
      <4>1. SUFFICES ASSUME NEW n \in Inodes, NEW m \in Inodes, n # m
                     PROVE  c_iregion'[n] \intersect c_iregion'[m] = {}
        BY DEF Exclusive
      <4>2. n # ino \/ m # ino
        BY <4>1
      <4> QED BY <2>2, <3>2, <4>1, <4>2 DEF Exclusive
    <3> QED BY <1>0, <3>2, <3>3 DEF IInv, Owners
  <2>5. PartsDone'
    BY <1>0, <2>1 DEF IInv, PartsDone, Mount
  <2> QED BY <2>3, <2>4, <2>5 DEF IInv
<1> QED BY <1>1, <1>3, <1>4, <1>5 DEF Shell

\* A process dies, or all of them with the shared memory.
LEMMA FailureKeeps ==
  ASSUME Typed, IInv, CommandDies \/ PowerLoss
  PROVE  IInv'
<1>1. /\ UNCHANGED <<d_iregion, d_dbitmap>>
      /\ b_iregion' = Nothing /\ b_dbitmap' = {} /\ command' = "none"
      /\ \/ UNCHANGED <<c_iregion, c_dbitmap, taken, shell>>
         \/ c_iregion' = Nothing /\ c_dbitmap' = {} /\ taken' = {}
  BY DEF CommandDies, PowerLoss, device, cache, call, ClearBuffers, EndCall
<1>2. ZeroKept'
  BY <1>1 DEF IInv, ZeroKept, Nothing
<1>3. Coverage' /\ TakenApart'
  BY <1>1, CoversCopied DEF IInv, Coverage, TakenApart, Unowned
<1>4. Owners'
  BY <1>1, ExclusiveCopied DEF IInv, Owners
<1>5. PartsDone'
  BY <1>1 DEF PartsDone, Mount, Mkfs
<1> QED BY <1>2, <1>3, <1>4, <1>5 DEF IInv

LEMMA StepKeeps ==
  ASSUME Typed, IInv, [Next]_vars
  PROVE  Typed' /\ IInv'
<1>1. Typed'
  BY CommandTyped, ShellTyped DEF Next
<1>2. CASE UNCHANGED vars
  <2>1. /\ UNCHANGED <<d_iregion, d_dbitmap, c_iregion, c_dbitmap, b_iregion, b_dbitmap>>
        /\ UNCHANGED <<taken, shell, command, left>>
    BY <1>2 DEF vars, device, cache, buffers, call
  <2>2. PartsDone' /\ (shell' # "store" => taken' = {})
    BY <2>1 DEF IInv, PartsDone, TakenApart
  <2> QED BY <1>1, <2>1, <2>2, Elsewhere DEF IInv
<1>3. CASE Next
  BY <1>1, <1>3, MkfsKeeps, MountKeeps, UnmountKeeps, WriteKeeps, ShellKeeps,
     FailureKeeps DEF Next, Command
<1> QED BY <1>2, <1>3

LEMMA Inductive ==
  /\ Spec => []IInv
  /\ IInv => BitmapCoversDevice /\ BitmapCoversCache /\ OneOwner
<1>1. Init => Typed /\ IInv
  BY InitTyped, InitHolds
<1>2. Typed /\ IInv /\ [Next]_vars => Typed' /\ IInv'
  BY StepKeeps
<1>3. IInv => BitmapCoversDevice /\ BitmapCoversCache
  BY DEF IInv, Coverage, Unowned, BitmapCoversDevice, BitmapCoversCache
<1>4. IInv => OneOwner
  BY DEF IInv, Owners, Exclusive, OneOwner
<1>5. Spec => []IInv
  BY <1>1, <1>2, PTL DEF Spec
<1> QED BY <1>3, <1>4, <1>5

----------------------------------------------------------------------------

\* Whenever the power fails or a process dies, in whatever order the parts of
\* the regions were written, no inode on the device points to a block that its
\* bitmap calls free.
THEOREM DeviceCovered == Spec => []BitmapCoversDevice
  BY Inductive, PTL

\* The shell never gives away a block that an inode has, in shared memory or on
\* the device.
THEOREM CacheCovered == Spec => []BitmapCoversCache
  BY Inductive, PTL

\* No mix of old and new inodes gives a block two owners.
THEOREM BlocksHaveOneOwner == Spec => []OneOwner
  BY Inductive, PTL

----------------------------------------------------------------------------
(* What a complete unmount leaves *)

\* What an unmount that nothing disturbs has copied and written so far.
SavedParts ==
  /\ saved = "yes" => command \in {"none", "m_ibitmap"} /\ UnmountSaves
  /\ saved = "copied" => command \in Unmount \union {"none", "m_ibitmap"}
  /\ saved = "copied" /\ command \in Unmount =>
       /\ b_ibitmap = c_ibitmap
       /\ command = "u_iregion" =>
            /\ \A n \in Inodes \ UNION left : b_iregion[n] = c_iregion[n]
            /\ Root \notin UNION left => b_entry = c_entry
       /\ command # "u_iregion" => b_iregion = c_iregion /\ b_entry = c_entry
       /\ command = "u_dbitmap" =>
            \A b \in Blocks \ UNION left : b \in b_dbitmap <=> b \in c_dbitmap
       /\ command \notin {"u_iregion", "u_dbitmap"} => b_dbitmap = c_dbitmap
       /\ command \in {"w_dbitmap", "w_iregion"} => d_ibitmap = c_ibitmap
       /\ command = "w_dbitmap" =>
            \A b \in Blocks \ UNION left : b \in d_dbitmap <=> b \in c_dbitmap
       /\ command = "w_iregion" =>
            /\ d_dbitmap = c_dbitmap
            /\ \A n \in Inodes \ UNION left : d_iregion[n] = c_iregion[n]
            /\ Root \notin UNION left => d_entry = c_entry

\* The commands before unmount, and a failure.
LEMMA SavedElsewhere ==
  ASSUME Typed, SavedParts,
         \/ write_superblock \/ write_inode_bitmap \/ write_inode_region
         \/ write_data_bitmap \/ write_data_region
         \/ mount_vsfs \/ MountInodeBitmap \/ MountInodeRegion \/ MountDataBitmap
         \/ unmount_vsfs \/ CommandDies \/ PowerLoss
  PROVE  SavedParts'
<1> USE DEF SavedParts, UnmountSaves, device, cache, buffers, history, Mount, Mkfs, Unmount
<1>1. CASE write_superblock \/ PowerLoss \/ MountInodeBitmap
  BY <1>1 DEF write_superblock, PowerLoss, MountInodeBitmap
<1>2. CASE \/ write_inode_bitmap \/ write_inode_region \/ write_data_bitmap
           \/ write_data_region \/ MountInodeRegion \/ MountDataBitmap
  <2>1. saved \notin {"yes", "copied"} /\ saved' = saved
    BY <1>2 DEF write_inode_bitmap, write_inode_region, write_data_bitmap,
       write_data_region, MountInodeRegion, MountDataBitmap
  <2> QED BY <2>1
<1>3. CASE mount_vsfs
  BY <1>3 DEF mount_vsfs
<1>4. CASE unmount_vsfs
  <2>1. UNION Single = Inodes /\ Root \in Inodes
    BY MountAssumption DEF Single, MountAssumption
  <2> QED BY <1>4, <2>1 DEF unmount_vsfs
<1>5. CASE CommandDies
  BY <1>5 DEF CommandDies
<1> QED BY <1>1, <1>2, <1>3, <1>4, <1>5

\* The copies and the writes of unmount.
LEMMA SavedByUnmount ==
  ASSUME Typed, SavedParts,
         \/ UnmountInodeRegion \/ UnmountDataBitmap
         \/ WriteInodeBitmap \/ WriteDataBitmap \/ WriteInodeRegion
  PROVE  SavedParts'
<1> USE DEF device, cache, buffers, history, Mount, Mkfs, Unmount
<1>0. CASE saved # "copied"
  <2>1. saved \notin {"yes", "copied"} /\ saved' = saved
    BY <1>0 DEF SavedParts, UnmountInodeRegion, UnmountDataBitmap, WriteInodeBitmap,
       WriteDataBitmap, WriteInodeRegion
  <2> QED BY <2>1 DEF SavedParts
<1>1. CASE saved = "copied" /\ UnmountInodeRegion
  <2>1. PICK blk \in left : /\ b_iregion' = Region(b_iregion, c_iregion, blk)
                            /\ b_entry' = Entry(b_entry, c_entry, blk)
                            /\ Advance(blk, "u_dbitmap", BitmapBlocks)
    BY <1>1 DEF UnmountInodeRegion
  <2>2. /\ command = "u_iregion" /\ saved' = "copied"
        /\ UNCHANGED <<b_ibitmap, c_ibitmap, c_iregion, c_entry, b_dbitmap, c_dbitmap>>
    BY <1>1 DEF UnmountInodeRegion
  <2>3. /\ \A n \in Inodes : n \in blk \/ n \notin UNION left => b_iregion'[n] = c_iregion[n]
        /\ Root \in blk \/ Root \notin UNION left => b_entry' = c_entry
    BY <1>1, <2>1, <2>2 DEF SavedParts, Region, Entry
  <2>4. CASE command' = "u_iregion"
    <3>1. \A x : x \notin UNION left' => x \in blk \/ x \notin UNION left
      BY <2>1, <2>4, AdvanceDone
    <3> QED BY <1>1, <2>2, <2>3, <2>4, <3>1 DEF SavedParts
  <2>5. CASE command' # "u_iregion"
    <3>1. /\ command' = "u_dbitmap" /\ left' = BitmapBlocks
          /\ \A x : x \in blk \/ x \notin UNION left
      BY <2>1, <2>2, <2>5, AdvanceDone
    <3>2. b_iregion' = c_iregion
      BY <2>1, <2>3, <3>1 DEF Typed, TypeOK, Iregion, Region
    <3>3. b_entry' = c_entry
      BY <2>3, <3>1
    <3>4. UNION left' = Blocks
      BY <3>1, MountAssumption DEF MountAssumption
    <3> QED BY <1>1, <2>2, <3>1, <3>2, <3>3, <3>4 DEF SavedParts
  <2> QED BY <2>4, <2>5
<1>2. CASE saved = "copied" /\ UnmountDataBitmap
  <2>1. PICK blk \in left : /\ b_dbitmap' = Bits(b_dbitmap, c_dbitmap, blk)
                            /\ Advance(blk, "w_ibitmap", {})
    BY <1>2 DEF UnmountDataBitmap
  <2>2. /\ command = "u_dbitmap" /\ saved' = "copied"
        /\ UNCHANGED <<b_ibitmap, c_ibitmap, b_iregion, c_iregion, b_entry, c_entry,
                       c_dbitmap>>
    BY <1>2 DEF UnmountDataBitmap
  <2>3. \A b \in Blocks : b \in blk \/ b \notin UNION left
                            => (b \in b_dbitmap' <=> b \in c_dbitmap)
    BY <1>2, <2>1, <2>2 DEF SavedParts, Bits
  <2>4. b_dbitmap' \subseteq Blocks /\ c_dbitmap \subseteq Blocks
    BY <2>1 DEF Typed, TypeOK, Bits
  <2>5. CASE command' = "u_dbitmap"
    <3>1. \A x : x \notin UNION left' => x \in blk \/ x \notin UNION left
      BY <2>1, <2>5, AdvanceDone
    <3> QED BY <1>2, <2>2, <2>3, <2>5, <3>1 DEF SavedParts
  <2>6. CASE command' # "u_dbitmap"
    <3>1. command' = "w_ibitmap" /\ \A x : x \in blk \/ x \notin UNION left
      BY <2>1, <2>2, <2>6, AdvanceDone
    <3>2. b_dbitmap' = c_dbitmap
      BY <2>3, <2>4, <3>1
    <3> QED BY <1>2, <2>2, <3>1, <3>2 DEF SavedParts
  <2> QED BY <2>5, <2>6
<1>3. CASE saved = "copied" /\ WriteInodeBitmap
  <2>1. UNION BitmapBlocks = Blocks
    BY MountAssumption DEF MountAssumption
  <2> QED BY <1>3, <2>1 DEF SavedParts, WriteInodeBitmap
<1>4. CASE saved = "copied" /\ WriteDataBitmap
  <2>1. PICK blk \in left : /\ d_dbitmap' = Bits(d_dbitmap, b_dbitmap, blk)
                            /\ Advance(blk, "w_iregion", InodeBlocks)
    BY <1>4 DEF WriteDataBitmap
  <2>2. /\ command = "w_dbitmap" /\ saved' = "copied"
        /\ UNCHANGED <<b_ibitmap, c_ibitmap, b_iregion, c_iregion, b_entry, c_entry,
                       b_dbitmap, c_dbitmap, d_ibitmap>>
    BY <1>4 DEF WriteDataBitmap
  <2>3. \A b \in Blocks : b \in blk \/ b \notin UNION left
                            => (b \in d_dbitmap' <=> b \in c_dbitmap)
    BY <1>4, <2>1, <2>2 DEF SavedParts, Bits
  <2>4. d_dbitmap' \subseteq Blocks /\ c_dbitmap \subseteq Blocks
    BY <2>1 DEF Typed, TypeOK, Bits
  <2>5. CASE command' = "w_dbitmap"
    <3>1. \A x : x \notin UNION left' => x \in blk \/ x \notin UNION left
      BY <2>1, <2>5, AdvanceDone
    <3> QED BY <1>4, <2>2, <2>3, <2>5, <3>1 DEF SavedParts
  <2>6. CASE command' # "w_dbitmap"
    <3>1. /\ command' = "w_iregion" /\ left' = InodeBlocks
          /\ \A x : x \in blk \/ x \notin UNION left
      BY <2>1, <2>2, <2>6, AdvanceDone
    <3>2. d_dbitmap' = c_dbitmap
      BY <2>3, <2>4, <3>1
    <3>3. UNION left' = Inodes /\ Root \in Inodes
      BY <3>1, MountAssumption DEF MountAssumption
    <3> QED BY <1>4, <2>2, <3>1, <3>2, <3>3 DEF SavedParts
  <2> QED BY <2>5, <2>6
<1>5. CASE saved = "copied" /\ WriteInodeRegion
  <2>1. PICK blk \in left : /\ d_iregion' = Region(d_iregion, b_iregion, blk)
                            /\ d_entry' = Entry(d_entry, b_entry, blk)
                            /\ Advance(blk, "none", {})
                            /\ IF left = {blk} THEN saved' = "yes"
                               ELSE saved' = "copied" /\ UNCHANGED buffers
    BY <1>5 DEF WriteInodeRegion
  <2>2. /\ command = "w_iregion"
        /\ UNCHANGED <<c_ibitmap, c_iregion, c_entry, c_dbitmap, d_ibitmap, d_dbitmap>>
    BY <1>5 DEF WriteInodeRegion
  <2>3. /\ \A n \in Inodes : n \in blk \/ n \notin UNION left => d_iregion'[n] = c_iregion[n]
        /\ Root \in blk \/ Root \notin UNION left => d_entry' = c_entry
    BY <1>5, <2>1, <2>2 DEF SavedParts, Region, Entry
  <2>4. CASE left # {blk}
    <3>1. command' = "w_iregion" /\ left' = left \ {blk}
      BY <2>1, <2>2, <2>4 DEF Advance
    <3>2. \A x : x \notin UNION left' => x \in blk \/ x \notin UNION left
      BY <3>1
    <3> QED BY <1>5, <2>1, <2>2, <2>3, <2>4, <3>1, <3>2 DEF SavedParts
  <2>5. CASE left = {blk}
    <3>1. command' = "none" /\ \A x : x \in blk \/ x \notin UNION left
      BY <2>1, <2>5 DEF Advance
    <3>2. d_iregion' = c_iregion
      BY <2>1, <2>3, <3>1 DEF Typed, TypeOK, Iregion, Region
    <3>3. d_entry' = c_entry
      BY <2>3, <3>1
    <3> QED BY <1>5, <2>1, <2>2, <2>5, <3>1, <3>2, <3>3 DEF SavedParts, UnmountSaves
  <2> QED BY <2>4, <2>5
<1> QED BY <1>0, <1>1, <1>2, <1>3, <1>4, <1>5 DEF Typed, TypeOK

\* A change of the cache ends what unmount has; the other steps leave both.
LEMMA SavedByShell ==
  ASSUME SavedParts, Shell \/ UNCHANGED vars
  PROVE  SavedParts'
<1> USE DEF device, cache, buffers, call, history, vars
<1>1. CASE vsfs_creat \/ CreatAddEntry \/ TakeBlock \/ StorePointer
  <2>1. saved' = "no"
    BY <1>1 DEF vsfs_creat, CreatAddEntry, TakeBlock, StorePointer
  <2> QED BY <2>1 DEF SavedParts
<1>2. CASE CreatWriteName \/ Grow \/ ShellReturns \/ ShellDies \/ UNCHANGED vars
  <2>1. UNCHANGED <<device, cache, buffers, command, left, saved>>
    BY <1>2 DEF CreatWriteName, Grow, ShellReturns, ShellDies
  <2> QED BY <2>1 DEF SavedParts, UnmountSaves
<1> QED BY <1>1, <1>2 DEF Shell

\* When unmount has written the last block and nothing changed the cache
\* meanwhile, bitmaps, inodes and entry count on the device are those of the
\* cache, in however many parts they were copied and written, until the next
\* change.
THEOREM UnmountIsComplete == Spec => []UnmountSaves
<1>1. Init => Typed /\ SavedParts
  BY InitTyped DEF Init, SavedParts, UnmountSaves
<1>2. Typed /\ SavedParts /\ [Next]_vars => Typed' /\ SavedParts'
  BY CommandTyped, ShellTyped, SavedElsewhere, SavedByUnmount, SavedByShell
     DEF Next, Command
<1>3. SavedParts => UnmountSaves
  BY DEF SavedParts, UnmountSaves
<1> QED BY <1>1, <1>2, <1>3, PTL DEF Spec
----------------------------------------------------------------------------
(* The names on the device *)

Within(r, s) == \A n \in Inodes : r[n] \subseteq s[n]
Unused(bits, r) == \A n \in bits : r[n] = {}
NamesOf(count, bits) ==
  \A k, h \in 2 .. count - 1 :
    slots[k] \notin bits /\ (k # h => slots[k] # slots[h])

\* Only mount gives an inode to the root, and its pointers come with the count.
RootKept ==
  /\ Root \notin d_ibitmap /\ Root \notin c_ibitmap /\ Root \notin b_ibitmap
  /\ shell # "idle" => ino # Root /\ c_iregion[Root] # {} /\ shm = "present"
  /\ d_iregion[Root] # {} => d_entry >= 2
  /\ c_iregion[Root] # {} => c_entry >= 2
  /\ b_iregion[Root] # {} => b_entry >= 2

\* Where the halves of two states may have met.
Stages ==
  /\ command \in Mkfs => "device" \in mixed
  /\ command \in {"m_iregion", "m_dbitmap"} => "cache" \in mixed
  /\ command \in {"w_dbitmap", "w_iregion"} => "device" \in mixed \/ mixed = {}
  /\ shm = "absent" => command \in Mkfs \union {"none", "m_ibitmap"}
  /\ shm = "absent" => c_iregion = Nothing
  /\ command \in Mount =>
       /\ b_ibitmap = d_ibitmap /\ b_entry = d_entry
       /\ command # "m_ibitmap" => c_ibitmap = d_ibitmap /\ shm = "present"
       /\ command = "m_iregion" => Root \in UNION left \/ c_entry = d_entry
       /\ command = "m_dbitmap" => c_entry = d_entry
  /\ command = "k_iregion" => Root \in UNION left \/ d_entry = 2
  /\ command \in {"k_dbitmap", "k_dregion"} => d_entry = 2
  /\ command = "k_dregion" => \A n \in Inodes : d_iregion[n] \subseteq {0}

\* The device as the next mount needs it.
DeviceSound ==
  "device" \notin mixed =>
    /\ Unused(d_ibitmap, d_iregion)
    /\ NamesOf(d_entry, d_ibitmap)
    /\ c_iregion[Root] # {} => d_entry <= c_entry

\* The cache is ahead of the device.
CacheSound ==
  mixed \subseteq {"copy"} /\ shm = "present" =>
    /\ c_ibitmap \subseteq d_ibitmap
    /\ Unused(c_ibitmap, c_iregion)
    /\ NamesOf(c_entry, c_ibitmap)
    /\ Within(d_iregion, c_iregion)
    /\ d_entry <= c_entry
    /\ shell # "idle" => ino \notin c_ibitmap
    /\ shell \in {"name", "entry"} =>
         /\ c_iregion[ino] = {}
         /\ \A k \in 2 .. c_entry - 1 : slots[k] # ino
    /\ shell = "entry" => slots[c_entry] = ino

\* The inodes unmount has in its buffers.
Copied == IF command = "u_iregion" THEN Inodes \ UNION left ELSE Inodes

\* The buffers of unmount are between the device and the cache.
BuffersSound ==
  mixed \subseteq {"copy"} /\ command \in Unmount =>
    /\ \A n \in Copied :
         d_iregion[n] \subseteq b_iregion[n] /\ b_iregion[n] \subseteq c_iregion[n]
    /\ Root \in Copied => d_entry <= b_entry /\ b_entry <= c_entry
    /\ mixed = {} =>
         /\ c_ibitmap \subseteq b_ibitmap /\ b_ibitmap \subseteq d_ibitmap
         /\ command = "u_iregion" => b_ibitmap = c_ibitmap
         /\ \A n \in b_ibitmap \intersect Copied : b_iregion[n] = {}
         /\ Root \in Copied => NamesOf(b_entry, b_ibitmap)
         /\ command \in {"w_dbitmap", "w_iregion"} => d_ibitmap = b_ibitmap

NInv == RootKept /\ Stages /\ DeviceSound /\ CacheSound /\ BuffersSound

\* No mix: the device, the cache and the buffers are of one history.
LEMMA Mixed ==
  /\ "device" \in mixed => ~(mixed \subseteq {"copy"}) /\ mixed # {}
  /\ "cache" \in mixed => ~(mixed \subseteq {"copy"}) /\ mixed # {}
  /\ mixed = {} => mixed \subseteq {"copy"}
  /\ mixed \subseteq {"copy"} => "device" \notin mixed
  /\ Typed /\ "device" \notin mixed /\ "cache" \notin mixed => mixed \subseteq {"copy"}
  BY DEF Typed, TypeOK

\* mkfs: nothing is claimed of the device before its last write.
LEMMA NamesMkfs ==
  ASSUME Typed, IInv, NInv,
         \/ write_superblock \/ write_inode_bitmap \/ write_inode_region
         \/ write_data_bitmap \/ write_data_region
  PROVE  NInv'
<1> USE DEF device, cache, buffers, call, history, Mount, Mkfs, Unmount
<1>0. /\ UNCHANGED <<c_ibitmap, c_iregion, c_entry, b_ibitmap, b_iregion, b_entry>>
      /\ UNCHANGED <<shm, shell, ino>>
      /\ command' \notin Mount \union Unmount
  <2>1. CASE write_superblock \/ write_inode_bitmap \/ write_data_region
    BY <2>1 DEF write_superblock, write_inode_bitmap, write_data_region
  <2>2. CASE write_inode_region
    BY <2>2 DEF write_inode_region, Advance
  <2>3. CASE write_data_bitmap
    BY <2>3 DEF write_data_bitmap, Advance
  <2> QED BY <2>1, <2>2, <2>3
<1>1. /\ d_ibitmap' \in {d_ibitmap, Inodes \ {Root}}
      /\ d_iregion'[Root] # {} => d_entry' >= 2
  <2>1. CASE write_superblock \/ write_inode_bitmap \/ write_data_region
             \/ write_data_bitmap
    BY <2>1 DEF write_superblock, write_inode_bitmap, write_data_region,
       write_data_bitmap, NInv, RootKept
  <2>2. CASE write_inode_region
    <3>1. PICK blk \in left : /\ d_iregion' = Region(d_iregion, Fresh, blk)
                              /\ d_entry' = Entry(d_entry, 2, blk)
      BY <2>2 DEF write_inode_region
    <3> QED
      BY <2>2, <3>1, CleanTyped DEF write_inode_region, NInv, RootKept, Region, Entry
  <2> QED BY <2>1, <2>2
<1>2. RootKept'
  BY <1>0, <1>1 DEF NInv, RootKept
<1>3. CASE write_superblock \/ write_inode_bitmap \/ write_inode_region
           \/ write_data_bitmap
  <2>1. "device" \in mixed'
    BY <1>3 DEF NInv, Stages, write_superblock, write_inode_bitmap,
       write_inode_region, write_data_bitmap
  <2>2. /\ command' \in Mkfs
        /\ command' = "k_iregion" => Root \in UNION left' \/ d_entry' = 2
        /\ command' \in {"k_dbitmap", "k_dregion"} => d_entry' = 2
        /\ command' = "k_dregion" => \A n \in Inodes : d_iregion'[n] \subseteq {0}
    <3>1. CASE write_superblock
      BY <3>1 DEF write_superblock
    <3>2. CASE write_inode_bitmap
      <4>1. Root \in UNION InodeBlocks
        BY MountAssumption DEF MountAssumption
      <4> QED BY <3>2, <4>1 DEF write_inode_bitmap
    <3>3. CASE write_inode_region
      <4>1. PICK blk \in left : /\ d_entry' = Entry(d_entry, 2, blk)
                                /\ Advance(blk, "k_dbitmap", BitmapBlocks)
        BY <3>3 DEF write_inode_region
      <4>2. command = "k_iregion" /\ (Root \in UNION left \/ d_entry = 2)
        BY <3>3 DEF write_inode_region, NInv, Stages
      <4>3. Root \in blk \/ Root \notin UNION left => d_entry' = 2
        BY <4>1, <4>2 DEF Entry
      <4> QED BY <4>1, <4>2, <4>3, AdvanceDone
    <3>4. CASE write_data_bitmap
      <4>1. /\ command = "k_dbitmap" /\ command' \in {"k_dbitmap", "k_dregion"}
            /\ UNCHANGED <<d_iregion, d_entry>>
        BY <3>4 DEF write_data_bitmap, Advance
      <4>2. d_entry = 2 /\ \A n \in Inodes : d_iregion[n] \subseteq {0}
        BY <4>1 DEF NInv, Stages, IInv, PartsDone
      <4> QED BY <4>1, <4>2
    <3> QED BY <1>3, <3>1, <3>2, <3>3, <3>4
  <2>3. Stages'
    BY <1>0, <2>1, <2>2 DEF NInv, Stages
  <2> QED BY <1>2, <2>1, <2>3, Mixed DEF NInv, DeviceSound, CacheSound, BuffersSound
<1>4. CASE write_data_region
  <2>1. /\ command = "k_dregion" /\ command' = "none" /\ mixed' = {"cache"}
        /\ UNCHANGED <<d_ibitmap, d_iregion, d_entry>>
    BY <1>4 DEF write_data_region
  <2>2. /\ d_entry = 2 /\ \A n \in Inodes : d_iregion[n] \subseteq {0}
        /\ \A n \in Inodes \ {Root} : 0 \notin d_iregion[n]
    BY <2>1 DEF NInv, Stages, IInv, ZeroKept
  <2>3. Stages'
    BY <1>0, <2>1 DEF NInv, Stages
  <2>4. \A n \in d_ibitmap : n \in Inodes \ {Root}
    BY DEF Typed, TypeOK, NInv, RootKept
  <2>5. DeviceSound'
    <3>1. Unused(d_ibitmap, d_iregion)'
      BY <2>1, <2>2, <2>4 DEF Unused
    <3>2. NamesOf(d_entry, d_ibitmap)'
      BY <2>1, <2>2 DEF NamesOf
    <3>3. c_iregion'[Root] # {} => d_entry' <= c_entry'
      BY <1>0, <2>1, <2>2 DEF NInv, RootKept, Typed, TypeOK
    <3> QED BY <3>1, <3>2, <3>3 DEF DeviceSound
  <2> QED BY <1>2, <2>1, <2>3, <2>5, Mixed DEF NInv, CacheSound, BuffersSound
<1> QED BY <1>3, <1>4

\* mount: when its last copy is done the cache is the device.
LEMMA NamesMount ==
  ASSUME Typed, IInv, NInv,
         mount_vsfs \/ MountInodeBitmap \/ MountInodeRegion \/ MountDataBitmap
  PROVE  NInv'
<1> USE DEF device, cache, buffers, call, history, Mount, Mkfs, Unmount
<1>0. /\ UNCHANGED <<d_ibitmap, d_iregion, d_entry, slots, shell, ino>>
      /\ shell = "idle" /\ command' \notin Unmount \union Mkfs
  <2>1. CASE mount_vsfs \/ MountInodeBitmap
    BY <2>1 DEF mount_vsfs, MountInodeBitmap, Typed, CallFits
  <2>2. CASE MountInodeRegion
    BY <2>2 DEF MountInodeRegion, Advance, Typed, CallFits
  <2>3. CASE MountDataBitmap
    BY <2>3 DEF MountDataBitmap, Advance, Typed, CallFits
  <2> QED BY <2>1, <2>2, <2>3
<1>1. BuffersSound'
  BY <1>0 DEF BuffersSound
<1>2. CASE mount_vsfs
  <2>1. /\ UNCHANGED <<mixed, shm, c_ibitmap, c_iregion, c_entry, left>>
        /\ command = "none" /\ command' = "m_ibitmap"
        /\ b_ibitmap' = d_ibitmap /\ b_iregion' = d_iregion /\ b_entry' = d_entry
    BY <1>2 DEF mount_vsfs
  <2>2. RootKept' /\ Stages'
    BY <1>0, <2>1 DEF NInv, RootKept, Stages
  <2>3. DeviceSound' /\ CacheSound'
    BY <1>0, <2>1 DEF NInv, DeviceSound, CacheSound, NamesOf
  <2> QED BY <1>1, <2>2, <2>3 DEF NInv
<1>3. CASE MountInodeBitmap
  <2>1. /\ UNCHANGED <<c_iregion, c_entry, b_ibitmap, b_iregion, b_entry>>
        /\ command = "m_ibitmap" /\ command' = "m_iregion" /\ left' = Single
        /\ shm' = "present" /\ c_ibitmap' = b_ibitmap
        /\ "cache" \in mixed' /\ ("device" \in mixed <=> "device" \in mixed')
    BY <1>3 DEF MountInodeBitmap
  <2>2. Root \in UNION Single
    BY CleanTyped DEF Single
  <2>3. RootKept' /\ Stages'
    BY <1>0, <2>1, <2>2 DEF NInv, RootKept, Stages
  <2>4. DeviceSound'
    BY <1>0, <2>1 DEF NInv, DeviceSound, NamesOf
  <2> QED BY <1>1, <2>1, <2>3, <2>4, Mixed DEF NInv, CacheSound
<1>4. CASE MountInodeRegion
  <2>1. PICK blk \in left : /\ c_iregion' = Region(c_iregion, b_iregion, blk)
                            /\ c_entry' = Entry(c_entry, b_entry, blk)
                            /\ Advance(blk, "m_dbitmap", BitmapBlocks)
    BY <1>4 DEF MountInodeRegion
  <2>2. /\ UNCHANGED <<mixed, shm, c_ibitmap, b_ibitmap, b_iregion, b_entry>>
        /\ command = "m_iregion" /\ "cache" \in mixed
        /\ b_ibitmap = d_ibitmap /\ b_entry = d_entry /\ c_ibitmap = d_ibitmap
        /\ shm = "present" /\ command' \in {"m_iregion", "m_dbitmap"}
        /\ Root \in UNION left \/ c_entry = d_entry
    BY <1>4, <2>1 DEF MountInodeRegion, NInv, Stages, Advance
  <2>3. IF Root \in blk THEN c_iregion'[Root] = b_iregion[Root] /\ c_entry' = b_entry
                        ELSE c_iregion'[Root] = c_iregion[Root] /\ c_entry' = c_entry
    BY <2>1, CleanTyped DEF Region, Entry
  <2>4. RootKept'
    BY <1>0, <2>2, <2>3 DEF NInv, RootKept
  <2>5. /\ command' = "m_iregion" => Root \in UNION left' \/ c_entry' = d_entry
        /\ command' = "m_dbitmap" => c_entry' = d_entry
    BY <2>1, <2>2, <2>3, AdvanceDone
  <2>6. Stages'
    BY <1>0, <2>2, <2>5 DEF NInv, Stages
  <2>7. c_iregion'[Root] # {} => d_entry <= c_entry' \/ "device" \in mixed
    BY <2>2, <2>3 DEF NInv, DeviceSound, Typed, TypeOK
  <2>8. DeviceSound'
    BY <1>0, <2>2, <2>7 DEF NInv, DeviceSound, NamesOf
  <2> QED BY <1>1, <2>2, <2>4, <2>6, <2>8, Mixed DEF NInv, CacheSound
<1>5. CASE MountDataBitmap
  <2>1. PICK blk \in left : /\ Advance(blk, "none", {})
                            /\ IF left = {blk}
                                 THEN ClearBuffers
                                      /\ mixed' = IF "device" \in mixed THEN mixed ELSE {}
                                 ELSE UNCHANGED <<buffers, mixed>>
    BY <1>5 DEF MountDataBitmap
  <2>2. /\ UNCHANGED <<shm, c_ibitmap, c_iregion, c_entry>>
        /\ command = "m_dbitmap" /\ "cache" \in mixed
        /\ b_ibitmap = d_ibitmap /\ b_entry = d_entry /\ c_ibitmap = d_ibitmap
        /\ c_entry = d_entry /\ shm = "present"
    BY <1>5 DEF MountDataBitmap, NInv, Stages
  <2>3. /\ c_iregion = d_iregion
        /\ d_entry \in Nat
    BY <2>2 DEF IInv, PartsDone, Typed, TypeOK, Iregion
  <2>4. CASE left # {blk}
    <3>1. UNCHANGED <<command, mixed, b_ibitmap, b_iregion, b_entry>>
      BY <2>1, <2>4 DEF Advance
    <3>2. RootKept' /\ Stages'
      BY <1>0, <2>2, <3>1 DEF NInv, RootKept, Stages
    <3>3. DeviceSound' /\ CacheSound'
      BY <1>0, <2>2, <3>1 DEF NInv, DeviceSound, CacheSound, NamesOf
    <3> QED BY <1>1, <3>2, <3>3 DEF NInv
  <2>5. CASE left = {blk}
    <3>1. /\ command' = "none" /\ b_ibitmap' = {} /\ b_iregion' = Nothing
          /\ "device" \in mixed <=> "device" \in mixed'
      BY <2>1, <2>5 DEF Advance, ClearBuffers
    <3>2. RootKept' /\ Stages'
      BY <1>0, <2>2, <3>1, CleanTyped DEF NInv, RootKept, Stages, Nothing
    <3>3. DeviceSound'
      BY <1>0, <2>2, <3>1 DEF NInv, DeviceSound, NamesOf
    <3>4. CacheSound'
      BY <1>0, <2>2, <2>3, <3>1, <3>3, Mixed
         DEF DeviceSound, CacheSound, NamesOf, Within
    <3> QED BY <1>1, <3>2, <3>3, <3>4 DEF NInv
  <2> QED BY <2>4, <2>5
<1> QED BY <1>2, <1>3, <1>4, <1>5

\* The copies of unmount.
LEMMA NamesCopied ==
  ASSUME Typed, IInv, NInv, unmount_vsfs \/ UnmountInodeRegion \/ UnmountDataBitmap
  PROVE  NInv'
<1> USE DEF device, cache, buffers, call, history, Mount, Mkfs, Unmount
<1>0. /\ UNCHANGED <<d_ibitmap, d_iregion, d_entry, slots, shell, ino>>
      /\ UNCHANGED <<shm, c_ibitmap, c_iregion, c_entry>>
      /\ shm = "present"
  BY DEF unmount_vsfs, UnmountInodeRegion, UnmountDataBitmap, NInv, Stages,
     Typed, TypeOK
<1>1. CASE unmount_vsfs
  <2>1. /\ UNCHANGED <<b_iregion, b_entry>>
        /\ command = "none" /\ command' = "u_iregion" /\ left' = Single
        /\ mixed' = mixed \ {"copy"} /\ b_ibitmap' = c_ibitmap
    BY <1>1 DEF unmount_vsfs
  <2>2. UNION Single = Inodes /\ Root \in Inodes
    BY CleanTyped DEF Single
  <2>3. RootKept' /\ Stages'
    BY <1>0, <2>1 DEF NInv, RootKept, Stages
  <2>4. /\ "device" \in mixed <=> "device" \in mixed'
        /\ mixed \subseteq {"copy"} <=> mixed' \subseteq {"copy"}
    BY <2>1
  <2>5. DeviceSound'
    BY <1>0, <2>4 DEF NInv, DeviceSound, NamesOf
  <2>6. CacheSound'
    BY <1>0, <2>4 DEF NInv, CacheSound, NamesOf
  <2>7. BuffersSound'
    <3>1. Copied' = {}
      BY <2>1, <2>2 DEF Copied
    <3> QED BY <1>0, <2>1, <2>4, <3>1, Mixed DEF NInv, CacheSound, BuffersSound
  <2> QED BY <2>3, <2>5, <2>6, <2>7 DEF NInv
<1>2. CASE UnmountInodeRegion
  <2>1. PICK blk \in left : /\ b_iregion' = Region(b_iregion, c_iregion, blk)
                            /\ b_entry' = Entry(b_entry, c_entry, blk)
                            /\ Advance(blk, "u_dbitmap", BitmapBlocks)
    BY <1>2 DEF UnmountInodeRegion
  <2>2. /\ UNCHANGED <<b_ibitmap, mixed>> /\ command = "u_iregion"
        /\ command' \in {"u_iregion", "u_dbitmap"}
    BY <1>2, <2>1 DEF UnmountInodeRegion, Advance
  <2>3. /\ \A n \in Inodes : b_iregion'[n] = IF n \in blk THEN c_iregion[n] ELSE b_iregion[n]
        /\ b_entry' = IF Root \in blk THEN c_entry ELSE b_entry
        /\ Root \in Inodes
    BY <2>1, CleanTyped DEF Region, Entry
  <2>4. RootKept' /\ Stages'
    BY <1>0, <2>2, <2>3 DEF NInv, RootKept, Stages
  <2>5. DeviceSound' /\ CacheSound'
    BY <1>0, <2>2 DEF NInv, DeviceSound, CacheSound, NamesOf
  <2>6. \A n \in Copied' : n \in blk \/ n \in Copied
    BY <2>1, <2>2, AdvanceDone DEF Copied
  <2>7. ASSUME mixed \subseteq {"copy"}
        PROVE  /\ \A n \in Copied' : /\ d_iregion[n] \subseteq b_iregion'[n]
                                     /\ b_iregion'[n] \subseteq c_iregion[n]
               /\ Root \in Copied' => d_entry <= b_entry' /\ b_entry' <= c_entry
    <3>1. Copied' \subseteq Inodes
      BY DEF Copied
    <3>2. Within(d_iregion, c_iregion) /\ d_entry <= c_entry /\ c_entry \in Nat
      BY <1>0, <2>7 DEF NInv, CacheSound, Typed, TypeOK
    <3> QED BY <2>2, <2>3, <2>6, <2>7, <3>1, <3>2 DEF NInv, BuffersSound, Within
  <2>8. ASSUME mixed = {}
        PROVE  /\ c_ibitmap \subseteq b_ibitmap /\ b_ibitmap \subseteq d_ibitmap
               /\ b_ibitmap = c_ibitmap
               /\ \A n \in b_ibitmap \intersect Copied' : b_iregion'[n] = {}
               /\ Root \in Copied' => NamesOf(b_entry', b_ibitmap)
    <3>1. b_ibitmap = c_ibitmap /\ b_ibitmap \subseteq d_ibitmap
      BY <2>2, <2>8 DEF NInv, BuffersSound
    <3>2. Unused(c_ibitmap, c_iregion) /\ NamesOf(c_entry, c_ibitmap)
      BY <1>0, <2>8 DEF NInv, CacheSound
    <3>3. b_ibitmap \subseteq Inodes
      BY DEF Typed, TypeOK
    <3>4. \A n \in b_ibitmap \intersect Copied' : b_iregion'[n] = {}
      BY <2>2, <2>3, <2>6, <2>8, <3>1, <3>2, <3>3 DEF NInv, BuffersSound, Unused
    <3>5. Root \in Copied' => NamesOf(b_entry', b_ibitmap)
      BY <2>2, <2>3, <2>6, <2>8, <3>1, <3>2 DEF NInv, BuffersSound
    <3> QED BY <3>1, <3>4, <3>5
  <2>9. BuffersSound'
    BY <1>0, <2>2, <2>7, <2>8 DEF BuffersSound, NamesOf
  <2> QED BY <2>4, <2>5, <2>9 DEF NInv
<1>3. CASE UnmountDataBitmap
  <2>1. /\ UNCHANGED <<b_ibitmap, b_iregion, b_entry, mixed>> /\ command = "u_dbitmap"
        /\ command' \in {"u_dbitmap", "w_ibitmap"}
    BY <1>3 DEF UnmountDataBitmap, Advance
  <2>2. RootKept' /\ Stages'
    BY <1>0, <2>1 DEF NInv, RootKept, Stages
  <2>3. DeviceSound' /\ CacheSound'
    BY <1>0, <2>1 DEF NInv, DeviceSound, CacheSound, NamesOf
  <2>4. Copied' = Inodes /\ Copied = Inodes
    BY <2>1 DEF Copied
  <2>5. BuffersSound'
    BY <1>0, <2>1, <2>4 DEF NInv, BuffersSound, NamesOf
  <2> QED BY <2>2, <2>3, <2>5 DEF NInv
<1> QED BY <1>1, <1>2, <1>3

\* The writes of unmount: inode bitmap before the inodes and the entry count.
LEMMA NamesWritten ==
  ASSUME Typed, IInv, NInv, WriteInodeBitmap \/ WriteDataBitmap \/ WriteInodeRegion
  PROVE  NInv'
<1> USE DEF device, cache, buffers, call, history, Mount, Mkfs, Unmount
<1>0. /\ UNCHANGED <<slots, shell, ino>>
      /\ UNCHANGED <<shm, c_ibitmap, c_iregion, c_entry>>
      /\ shm = "present" /\ Copied = Inodes /\ Root \in Inodes
      /\ d_ibitmap \subseteq Inodes /\ b_ibitmap \subseteq Inodes /\ c_ibitmap \subseteq Inodes
      /\ d_entry \in Nat /\ b_entry \in Nat /\ c_entry \in Nat
  BY CleanTyped DEF WriteInodeBitmap, WriteDataBitmap, WriteInodeRegion, NInv, Stages,
     Copied, Typed, TypeOK
<1>1. CASE WriteInodeBitmap
  <2>1. /\ UNCHANGED <<d_iregion, d_entry, b_ibitmap, b_iregion, b_entry>>
        /\ command = "w_ibitmap" /\ command' = "w_dbitmap"
        /\ d_ibitmap' = b_ibitmap
        /\ (mixed = {} /\ mixed' = {}) \/ "device" \in mixed'
    BY <1>1 DEF WriteInodeBitmap
  <2>2. RootKept' /\ Stages'
    BY <1>0, <2>1 DEF NInv, RootKept, Stages
  <2>3. CASE "device" \in mixed'
    BY <2>2, <2>3, Mixed DEF NInv, DeviceSound, CacheSound, BuffersSound
  <2>4. CASE mixed = {} /\ mixed' = {}
    <3>1. c_ibitmap \subseteq b_ibitmap /\ b_ibitmap \subseteq d_ibitmap
      BY <2>1, <2>4 DEF NInv, BuffersSound
    <3>2. DeviceSound'
      BY <1>0, <2>1, <2>4, <3>1 DEF NInv, DeviceSound, NamesOf, Unused
    <3>3. CacheSound'
      BY <1>0, <2>1, <2>4, <3>1 DEF NInv, CacheSound, NamesOf
    <3>4. Copied' = Inodes
      BY <2>1 DEF Copied
    <3>5. BuffersSound'
      BY <1>0, <2>1, <2>4, <3>1, <3>4 DEF NInv, BuffersSound, NamesOf
    <3> QED BY <2>2, <3>2, <3>3, <3>5 DEF NInv
  <2> QED BY <2>1, <2>3, <2>4
<1>2. CASE WriteDataBitmap
  <2>1. /\ UNCHANGED <<d_ibitmap, d_iregion, d_entry, b_ibitmap, b_iregion, b_entry, mixed>>
        /\ command = "w_dbitmap" /\ command' \in {"w_dbitmap", "w_iregion"}
    BY <1>2 DEF WriteDataBitmap, Advance
  <2>2. RootKept' /\ Stages'
    BY <1>0, <2>1 DEF NInv, RootKept, Stages
  <2>3. DeviceSound' /\ CacheSound'
    BY <1>0, <2>1 DEF NInv, DeviceSound, CacheSound, NamesOf
  <2>4. Copied' = Inodes
    BY <2>1 DEF Copied
  <2>5. BuffersSound'
    BY <1>0, <2>1, <2>4 DEF NInv, BuffersSound, NamesOf
  <2> QED BY <2>2, <2>3, <2>5 DEF NInv
<1>3. CASE WriteInodeRegion
  <2>1. PICK blk \in left : /\ d_iregion' = Region(d_iregion, b_iregion, blk)
                            /\ d_entry' = Entry(d_entry, b_entry, blk)
                            /\ Advance(blk, "none", {})
                            /\ IF left = {blk} THEN ClearBuffers ELSE UNCHANGED buffers
    BY <1>3 DEF WriteInodeRegion
  <2>2. /\ UNCHANGED <<d_ibitmap, mixed>> /\ command = "w_iregion"
        /\ \/ command' = "none" /\ b_ibitmap' = {} /\ b_iregion' = Nothing
           \/ UNCHANGED <<command, b_ibitmap, b_iregion, b_entry>>
    BY <1>3, <2>1 DEF WriteInodeRegion, Advance, ClearBuffers
  <2>3. /\ \A n \in Inodes : d_iregion'[n] = IF n \in blk THEN b_iregion[n] ELSE d_iregion[n]
        /\ d_entry' = IF Root \in blk THEN b_entry ELSE d_entry
    BY <2>1 DEF Region, Entry
  <2>4. RootKept' /\ Stages'
    BY <1>0, <2>2, <2>3 DEF NInv, RootKept, Stages, Nothing
  <2>5. CASE "device" \in mixed
    BY <2>2, <2>4, <2>5, Mixed DEF NInv, DeviceSound, CacheSound, BuffersSound
  <2>6. CASE mixed = {}
    <3>1. /\ d_ibitmap = b_ibitmap /\ NamesOf(b_entry, b_ibitmap)
          /\ \A n \in b_ibitmap : b_iregion[n] = {}
          /\ \A n \in Inodes :
               d_iregion[n] \subseteq b_iregion[n] /\ b_iregion[n] \subseteq c_iregion[n]
          /\ d_entry <= b_entry /\ b_entry <= c_entry
      BY <1>0, <2>2, <2>6 DEF NInv, BuffersSound
    <3>2. /\ Within(d_iregion', c_iregion)
          /\ \A n \in Inodes : d_iregion'[n] \subseteq b_iregion[n]
          /\ d_entry' <= c_entry /\ d_entry' <= b_entry
      BY <1>0, <2>3, <3>1 DEF Within
    <3>3. DeviceSound'
      <4>1. Unused(d_ibitmap, d_iregion')
        BY <1>0, <2>3, <2>6, <3>1 DEF NInv, DeviceSound, Unused
      <4>2. NamesOf(d_entry', d_ibitmap)
        BY <2>3, <2>6, <3>1 DEF NInv, DeviceSound
      <4> QED BY <1>0, <2>2, <3>2, <4>1, <4>2 DEF DeviceSound, NamesOf
    <3>4. CacheSound'
      BY <1>0, <2>2, <2>6, <3>2 DEF NInv, CacheSound, NamesOf
    <3>5. CASE command' = "none"
      BY <2>4, <3>3, <3>4, <3>5 DEF NInv, BuffersSound
    <3>6. CASE UNCHANGED <<command, b_ibitmap, b_iregion, b_entry>>
      <4>1. Copied' = Inodes
        BY <2>2, <3>6 DEF Copied
      <4>2. c_ibitmap \subseteq b_ibitmap
        BY <2>2, <2>6 DEF NInv, BuffersSound
      <4>3. BuffersSound'
        BY <1>0, <2>2, <2>6, <3>1, <3>2, <3>6, <4>1, <4>2 DEF BuffersSound, NamesOf
      <4> QED BY <2>4, <3>3, <3>4, <4>3 DEF NInv
    <3> QED BY <2>2, <3>5, <3>6
  <2> QED BY <2>2, <2>5, <2>6 DEF NInv, Stages
<1> QED BY <1>1, <1>2, <1>3

\* The shell: an inode nobody names is named behind the names that count.
LEMMA NamesShell ==
  ASSUME Typed, IInv, NInv, Shell
  PROVE  NInv'
<1> USE DEF device, cache, buffers, call, history, Mount, Mkfs, Unmount, EndCall
<1>0. /\ UNCHANGED <<d_ibitmap, d_iregion, d_entry, b_ibitmap, b_iregion, b_entry>>
      /\ UNCHANGED <<shm, command, left>>
      /\ Copied' = Copied /\ Copied \subseteq Inodes
      /\ d_entry \in Nat /\ b_entry \in Nat /\ c_entry \in Nat
      /\ d_ibitmap \subseteq Inodes /\ b_ibitmap \subseteq Inodes /\ c_ibitmap \subseteq Inodes
      /\ ino \in Inodes
  <2>1. /\ UNCHANGED <<d_ibitmap, d_iregion, d_entry, b_ibitmap, b_iregion, b_entry>>
        /\ UNCHANGED <<shm, command, left>>
    BY DEF Shell, vsfs_creat, CreatWriteName, CreatAddEntry, Grow, TakeBlock,
           StorePointer, ShellReturns, ShellDies
  <2>2. Copied' = Copied /\ Copied \subseteq Inodes
    BY <2>1 DEF Copied
  <2> QED BY <2>1, <2>2 DEF Typed, TypeOK
<1>1. /\ "device" \in mixed' <=> "device" \in mixed
      /\ mixed \subseteq {"copy"} <=> mixed' \subseteq {"copy"}
      /\ mixed \subseteq mixed'
  BY DEF Shell, vsfs_creat, CreatWriteName, CreatAddEntry, Grow, TakeBlock,
         StorePointer, ShellReturns, ShellDies
<1>2. shm = "present" /\ command \notin Mount
  BY DEF Shell, vsfs_creat, CreatWriteName, CreatAddEntry, Grow, TakeBlock, MayStart,
         StorePointer, ShellReturns, ShellDies, NInv, RootKept, Typed, CallFits
<1>3. CASE vsfs_creat
  <2>1. PICK n \in c_ibitmap : c_ibitmap' = c_ibitmap \ {n} /\ ino' = n
    BY <1>3 DEF vsfs_creat
  <2>2. /\ UNCHANGED <<slots, c_iregion, c_entry>>
        /\ shell = "idle" /\ shell' = "name" /\ c_iregion[Root] # {}
        /\ command = "u_iregion" => mixed' # {}
        /\ command # "u_iregion" => mixed' = mixed
    BY <1>3 DEF vsfs_creat, MayStart
  <2>3. RootKept' /\ Stages'
    BY <1>0, <1>2, <2>1, <2>2, <1>1 DEF NInv, RootKept, Stages
  <2>4. DeviceSound'
    BY <1>0, <1>1, <2>2 DEF NInv, DeviceSound, NamesOf
  <2>5. CacheSound'
    BY <1>0, <1>1, <1>2, <2>1, <2>2 DEF NInv, CacheSound, NamesOf, Unused
  <2>6. BuffersSound'
    BY <1>0, <1>1, <2>1, <2>2 DEF NInv, BuffersSound, NamesOf
  <2> QED BY <2>3, <2>4, <2>5, <2>6 DEF NInv
<1>4. CASE CreatWriteName
  <2>1. /\ UNCHANGED <<c_ibitmap, c_iregion, c_entry, ino, mixed>>
        /\ shell = "name" /\ shell' = "entry" /\ c_iregion[Root] # {}
        /\ slots' = [slots EXCEPT ![c_entry] = ino]
    BY <1>4 DEF CreatWriteName, NInv, RootKept
  <2>2. c_entry \in Slots /\ slots \in [Slots -> Inodes]
    BY <2>1, MountAssumption DEF Typed, TypeOK, CallFits, Slots, MountAssumption
  <2>3. slots'[c_entry] = ino /\ \A k : k \in Slots /\ k # c_entry => slots'[k] = slots[k]
    BY <2>1, <2>2
  <2>4. \A e \in Nat : e <= c_entry => \A k \in 2 .. e - 1 : slots'[k] = slots[k]
    <3>1. \A e \in Nat : e <= c_entry => \A k \in 2 .. e - 1 : k \in Slots /\ k # c_entry
      BY <2>2, <1>0, MountAssumption DEF Slots, MountAssumption
    <3> QED BY <2>3, <3>1
  <2>5. RootKept' /\ Stages'
    BY <1>0, <1>2, <2>1 DEF NInv, RootKept, Stages
  <2>6. DeviceSound'
    BY <1>0, <2>1, <2>4 DEF NInv, DeviceSound, NamesOf
  <2>7. CacheSound'
    BY <1>0, <1>2, <2>1, <2>3, <2>4 DEF NInv, CacheSound, NamesOf
  <2>8. BuffersSound'
    BY <1>0, <2>1, <2>4 DEF NInv, BuffersSound, NamesOf
  <2> QED BY <2>5, <2>6, <2>7, <2>8 DEF NInv
<1>5. CASE CreatAddEntry
  <2>1. /\ UNCHANGED <<c_ibitmap, ino, mixed, slots>>
        /\ shell = "entry" /\ shell' = "alloc"
        /\ c_entry' = c_entry + 1 /\ c_iregion' = [c_iregion EXCEPT ![ino] = {}]
        /\ ino # Root /\ c_iregion[Root] # {}
    BY <1>5 DEF CreatAddEntry, NInv, RootKept
  <2>2. \A n \in Inodes : c_iregion'[n] = IF n = ino THEN {} ELSE c_iregion[n]
    BY <2>1 DEF Typed, TypeOK, Iregion
  <2>3. c_iregion'[Root] = c_iregion[Root]
    BY <2>1, <2>2, CleanTyped
  <2>4. RootKept' /\ Stages'
    BY <1>0, <1>2, <2>1, <2>3 DEF NInv, RootKept, Stages
  <2>5. DeviceSound'
    BY <1>0, <2>1, <2>3 DEF NInv, DeviceSound, NamesOf
  <2>6. ASSUME mixed \subseteq {"copy"}
        PROVE  /\ \A n \in Inodes : c_iregion'[n] = c_iregion[n]
               /\ NamesOf(c_entry, c_ibitmap) /\ slots[c_entry] = ino /\ ino \notin c_ibitmap
               /\ \A k \in 2 .. c_entry - 1 : slots[k] # ino
    BY <1>2, <2>1, <2>2, <2>6 DEF NInv, CacheSound
  <2>7. ASSUME mixed \subseteq {"copy"}
        PROVE  NamesOf(c_entry', c_ibitmap)
    <3>1. SUFFICES ASSUME NEW k \in 2 .. c_entry, NEW h \in 2 .. c_entry
                   PROVE  /\ slots[k] \notin c_ibitmap
                          /\ k # h => slots[k] # slots[h]
      BY <2>1, <1>0 DEF NamesOf
    <3>2. /\ k = c_entry \/ k \in 2 .. c_entry - 1
          /\ h = c_entry \/ h \in 2 .. c_entry - 1
      BY <1>0
    <3> QED BY <2>6, <2>7, <3>2 DEF NamesOf
  <2>8. CacheSound'
    <3>1. SUFFICES ASSUME mixed \subseteq {"copy"}
                   PROVE  /\ c_ibitmap \subseteq d_ibitmap
                          /\ Unused(c_ibitmap, c_iregion')
                          /\ NamesOf(c_entry', c_ibitmap)
                          /\ Within(d_iregion, c_iregion')
                          /\ d_entry <= c_entry' /\ ino \notin c_ibitmap
      BY <1>0, <2>1 DEF CacheSound, NamesOf
    <3> QED BY <1>0, <1>2, <2>1, <2>6, <2>7, <3>1 DEF NInv, CacheSound, Unused, Within
  <2>9. BuffersSound'
    BY <1>0, <2>1, <2>6 DEF NInv, BuffersSound, NamesOf
  <2> QED BY <2>4, <2>5, <2>8, <2>9 DEF NInv
<1>6. CASE Grow
  <2>1. PICK k \in 2 .. c_entry - 1 : slots[k] # Root /\ ino' = slots[k]
    BY <1>6 DEF Grow
  <2>2. /\ UNCHANGED <<c_ibitmap, c_iregion, c_entry, slots, mixed>>
        /\ ino' # Root /\ c_iregion[Root] # {}
        /\ shell = "idle" /\ shell' = "alloc"
    BY <1>6 DEF Grow, MayStart
  <2>3. RootKept' /\ Stages' /\ DeviceSound' /\ BuffersSound'
    BY <1>0, <1>2, <2>2
       DEF NInv, RootKept, Stages, DeviceSound, BuffersSound, NamesOf
  <2>4. mixed \subseteq {"copy"} => ino' \notin c_ibitmap
    BY <1>2, <2>1 DEF NInv, CacheSound, NamesOf
  <2>5. CacheSound'
    BY <1>0, <2>2, <2>4 DEF NInv, CacheSound, NamesOf
  <2> QED BY <2>3, <2>5 DEF NInv
<1>7. CASE TakeBlock \/ ShellReturns \/ ShellDies
  <2>1. /\ UNCHANGED <<c_ibitmap, c_iregion, c_entry, slots, mixed>>
        /\ \/ shell' = "idle"
           \/ shell = "alloc" /\ shell' = "store" /\ ino' = ino
    BY <1>7 DEF TakeBlock, ShellReturns, ShellDies
  <2>2. RootKept' /\ Stages' /\ DeviceSound' /\ CacheSound' /\ BuffersSound'
    BY <1>0, <1>2, <2>1
       DEF NInv, RootKept, Stages, DeviceSound, CacheSound, BuffersSound, NamesOf
  <2> QED BY <2>2 DEF NInv
<1>8. CASE StorePointer
  <2>1. /\ UNCHANGED <<c_ibitmap, c_entry, slots, mixed, ino>>
        /\ shell = "store" /\ shell' = "alloc" /\ ino # Root /\ c_iregion[Root] # {}
        /\ c_iregion' = [c_iregion EXCEPT ![ino] = @ \union taken]
    BY <1>8 DEF StorePointer, NInv, RootKept
  <2>2. \A n \in Inodes : /\ c_iregion[n] \subseteq c_iregion'[n]
                          /\ n # ino => c_iregion'[n] = c_iregion[n]
    BY <2>1 DEF Typed, TypeOK, Iregion
  <2>3. c_iregion'[Root] = c_iregion[Root]
    BY <2>1, <2>2, CleanTyped
  <2>4. RootKept' /\ Stages' /\ DeviceSound'
    BY <1>0, <1>2, <2>1, <2>3 DEF NInv, RootKept, Stages, DeviceSound, NamesOf
  <2>5. CacheSound'
    BY <1>0, <1>2, <2>1, <2>2 DEF NInv, CacheSound, NamesOf, Unused, Within
  <2>6. BuffersSound'
    BY <1>0, <2>1, <2>2 DEF NInv, BuffersSound, NamesOf
  <2> QED BY <2>4, <2>5, <2>6 DEF NInv
<1> QED BY <1>3, <1>4, <1>5, <1>6, <1>7, <1>8 DEF Shell

\* A process dies, or all of them with the shared memory.
LEMMA NamesFailure ==
  ASSUME Typed, IInv, NInv, CommandDies \/ PowerLoss \/ UNCHANGED vars
  PROVE  NInv'
<1> USE DEF device, cache, buffers, call, history, Mount, Mkfs, Unmount, vars
<1>1. CASE UNCHANGED vars
  <2>1. RootKept' /\ Stages' /\ DeviceSound' /\ CacheSound' /\ BuffersSound'
    BY <1>1 DEF NInv, RootKept, Stages, DeviceSound, CacheSound, BuffersSound, NamesOf,
       Copied
  <2> QED BY <2>1 DEF NInv
<1>2. CASE CommandDies
  <2>1. /\ UNCHANGED <<d_ibitmap, d_iregion, d_entry, c_ibitmap, c_iregion, c_entry>>
        /\ UNCHANGED <<slots, shm, shell, ino, mixed>>
        /\ command' = "none" /\ b_ibitmap' = {} /\ b_iregion' = Nothing
    BY <1>2 DEF CommandDies, ClearBuffers
  <2>2. RootKept' /\ Stages' /\ DeviceSound' /\ CacheSound' /\ BuffersSound'
    BY <2>1, CleanTyped DEF NInv, RootKept, Stages, DeviceSound, CacheSound,
       BuffersSound, NamesOf, Nothing
  <2> QED BY <2>2 DEF NInv
<1>3. CASE PowerLoss
  <2>1. /\ UNCHANGED <<d_ibitmap, d_iregion, d_entry, slots>>
        /\ c_ibitmap' = {} /\ c_iregion' = Nothing
        /\ shm' = "absent" /\ shell' = "idle"
        /\ "device" \in mixed' <=> "device" \in mixed
        /\ command' = "none" /\ b_ibitmap' = {} /\ b_iregion' = Nothing
    BY <1>3 DEF PowerLoss, ClearBuffers, EndCall
  <2>2. RootKept' /\ Stages' /\ DeviceSound' /\ CacheSound' /\ BuffersSound'
    BY <2>1, CleanTyped DEF NInv, RootKept, Stages, DeviceSound, CacheSound,
       BuffersSound, NamesOf, Nothing
  <2> QED BY <2>2 DEF NInv
<1> QED BY <1>1, <1>2, <1>3

LEMMA InitNames == Init => NInv
<1> SUFFICES ASSUME Init PROVE NInv
  OBVIOUS
<1>1. RootKept
  BY CleanTyped DEF Init, RootKept, Fresh, Nothing
<1>2. Stages /\ CacheSound /\ BuffersSound
  BY DEF Init, Stages, CacheSound, BuffersSound, Mount, Mkfs, Unmount
<1>3. DeviceSound
  BY CleanTyped DEF Init, DeviceSound, Unused, Fresh, NamesOf, Nothing
<1> QED BY <1>1, <1>2, <1>3 DEF NInv

LEMMA NamesInductive == Spec => [](Typed /\ IInv /\ NInv)
<1>1. Init => Typed /\ IInv /\ NInv
  BY InitTyped, InitHolds, InitNames
<1>2. Typed /\ IInv /\ NInv /\ [Next]_vars => Typed' /\ IInv' /\ NInv'
  <2> SUFFICES ASSUME Typed, IInv, NInv, [Next]_vars PROVE Typed' /\ IInv' /\ NInv'
    OBVIOUS
  <2>1. Typed' /\ IInv'
    BY StepKeeps
  <2>2. NInv'
    BY NamesMkfs, NamesMount, NamesCopied, NamesWritten, NamesShell, NamesFailure
       DEF Next, Command
  <2> QED BY <2>1, <2>2
<1> QED BY <1>1, <1>2, PTL DEF Spec

\* A name on the device that counts belongs to an inode the device's bitmap
\* calls used and to no other name, wherever an unmount was cut and whatever the
\* shell created beside it, unless halves of two states met on the device.
THEOREM NamesAreSound == Spec => []NamesSound
<1>1. NInv => NamesSound
  BY DEF NInv, DeviceSound, NamesOf, NamesSound
<1> QED BY <1>1, NamesInductive, PTL

\* What one unmount put on the device no later mount, unmount or failure takes
\* away: the entry count never falls and no inode loses a block.
THEOREM DeviceNeverShrinks == Spec => DeviceOnlyGrows
<1> USE DEF device, cache, buffers, call, history, Mount, Mkfs, Unmount, vars
<1>1. ASSUME Typed, IInv, NInv, [Next]_vars,
             mixed \subseteq {"copy"}, mixed' \subseteq {"copy"}
      PROVE  /\ d_entry <= d_entry'
             /\ \A n \in Inodes : d_iregion[n] \subseteq d_iregion'[n]
  <2>0. d_entry \in Nat
    BY <1>1 DEF Typed, TypeOK
  <2>1. CASE WriteInodeRegion
    <3>1. PICK blk \in left : /\ d_iregion' = Region(d_iregion, b_iregion, blk)
                              /\ d_entry' = Entry(d_entry, b_entry, blk)
      BY <2>1 DEF WriteInodeRegion
    <3>2. Copied = Inodes /\ command = "w_iregion"
      BY <2>1 DEF WriteInodeRegion, Copied
    <3>3. /\ \A n \in Inodes : d_iregion[n] \subseteq b_iregion[n]
          /\ d_entry <= b_entry
      BY <1>1, <3>2, CleanTyped DEF NInv, BuffersSound
    <3> QED BY <2>0, <3>1, <3>3 DEF Region, Entry
  <2>2. CASE \/ write_superblock \/ write_inode_bitmap \/ write_inode_region
             \/ write_data_bitmap \/ write_data_region
    <3>1. write_superblock \/ command \in Mkfs
      BY <2>2 DEF write_inode_bitmap, write_inode_region, write_data_bitmap,
         write_data_region
    <3>2. "device" \in mixed \/ "device" \in mixed'
      BY <1>1, <3>1 DEF NInv, Stages, write_superblock
    <3> QED BY <1>1, <3>2
  <2>3. CASE ~(\/ WriteInodeRegion \/ write_superblock \/ write_inode_bitmap
               \/ write_inode_region \/ write_data_bitmap \/ write_data_region)
    <3>1. UNCHANGED <<d_iregion, d_entry>>
      BY <1>1, <2>3 DEF Next, Command, Shell, mount_vsfs, MountInodeBitmap,
         MountInodeRegion, MountDataBitmap, unmount_vsfs, UnmountInodeRegion,
         UnmountDataBitmap, WriteInodeBitmap, WriteDataBitmap, CommandDies,
         vsfs_creat, CreatWriteName, CreatAddEntry, Grow, TakeBlock, StorePointer,
         ShellReturns, ShellDies, PowerLoss
    <3> QED BY <2>0, <3>1
  <2> QED BY <2>1, <2>2, <2>3
<1> QED BY <1>1, NamesInductive, PTL DEF Spec, DeviceOnlyGrows

=============================================================================
