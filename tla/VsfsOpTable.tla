---------------------------- MODULE VsfsOpTable ----------------------------
(***************************************************************************)
(* The open file table of src/inc/vsfsio_spdk.h: vsfs_open and vsfs_close  *)
(* of several processes on the table "optab" in shared memory.             *)
(*                                                                         *)
(* Shared: the counter op_counter and the entries op_ftable.  Private to a *)
(* process: its list of descriptors, each pointing straight at an entry,   *)
(* and the heap its file_t structures live in; an entry holds the address  *)
(* of one of them.  Nothing is locked (the entry's lock field is only ever *)
(* set to 0), so the calls of two processes interleave: one step of a call  *)
(* updates the shared table at most once.  The counter is raised and       *)
(* lowered by a plain ++ and --: one step where the processes share a core *)
(* and the compiler emits one instruction (AtomicCount), a load and a      *)
(* store that other processes can get between otherwise.  Filling an entry *)
(* and copying one are a step each: what is checked with several processes *)
(* is the counter, not what a half-written entry holds.                    *)
(*                                                                         *)
(* A descriptor list is kept as the set of its nodes: vsfs_open numbers a  *)
(* node one above the tail, so the head is the least number and the tail   *)
(* the greatest.                                                           *)
(***************************************************************************)
EXTENDS Integers, FiniteSets

CONSTANTS
  Procs,     \* processes with the file system mounted
  Inodes,    \* inodes of the files that exist
  NULL,      \* no process, no inode: the zeroed entry
  OP_LIMIT,  \* entries of the table (341 with the 8 KiB of vsfs.h)
  LIFO,      \* callers close the newest descriptor first, and all of them
             \* before they open again (testopen.c); FALSE: any order
  Deaths,    \* whether processes may be killed
  AtomicCount, \* whether (*op_counter)++ and -- are one step
  USHORT,    \* 2^16, the modulus of the unsigned short counter
  MaxIndex   \* bound: the greatest descriptor number

ASSUME OpTableAssumption ==
  /\ IsFiniteSet(Procs) /\ NULL \notin Procs \union Inodes
  /\ OP_LIMIT \in Nat \ {0} /\ MaxIndex \in Nat
  /\ LIFO \in BOOLEAN /\ Deaths \in BOOLEAN /\ AtomicCount \in BOOLEAN
  /\ USHORT \in Nat /\ OP_LIMIT + Cardinality(Procs) < USHORT

VARIABLES
  op_counter, \* *op_counter
  op_ftable,  \* the entries, at and above op_counter too
  fds,        \* nodes reachable from the fd_table of each process
  dangling,   \* processes whose fd_table->tail was freed
  heap,       \* addresses of the live file_t structures of each process
  pc,         \* where the running call of each process is
  node,       \* the node that call opens or closes
  faulted,    \* history: processes that died of a memory error of their own
  lost        \* history: entries counted that no descriptor will give back

vars == <<op_counter, op_ftable, fds, dangling, heap, pc, node, faulted, lost>>

\* A process may pass the limit check and be counted late, so the counter can
\* exceed OP_LIMIT by one per other process; the shared mapping has room.
Slots == 0 .. OP_LIMIT + Cardinality(Procs) - 1
Addrs == 0 .. OP_LIMIT + Cardinality(Procs)

\* A node of the list; count is what a running call has read of the counter.
NoNode == [proc |-> NULL, index |-> 0, inode |-> NULL, slot |-> 0,
           stranded |-> FALSE, count |-> 0]
ZeroEntry == [inode_nr |-> NULL, ptr_counter |-> 0, owner |-> NULL, addr |-> 0]

Opening == {"check", "fill", "point", "count", "add"}
Closing == {"free", "drop", "move", "uncount", "sub"}

FdsOf(p) == {f \in fds : f.proc = p}
IsHead(f) == \A g \in FdsOf(f.proc) : f.index <= g.index
IsTail(f) == \A g \in FdsOf(f.proc) : f.index >= g.index

\* creat_open_file_table, run by mount_vsfs: counter and entries zeroed.
Init ==
  /\ op_counter = 0
  /\ op_ftable = [s \in Slots |-> ZeroEntry]
  /\ fds = {} /\ dangling = {}
  /\ heap = [p \in Procs |-> {}]
  /\ pc = [p \in Procs |-> "idle"]
  /\ node = [p \in Procs |-> NoNode]
  /\ faulted = {} /\ lost = 0

Goto(p, label) == pc' = [pc EXCEPT ![p] = label]

\* The call of p ends; its node is no longer referred to.
Done(p) == Goto(p, "idle") /\ node' = [node EXCEPT ![p] = NoNode]

----------------------------------------------------------------------------
(* Death of a process: its descriptors go, what they counted stays counted. *)

Die(p) ==
  /\ fds' = fds \ FdsOf(p)
  /\ dangling' = dangling \ {p}
  /\ heap' = [heap EXCEPT ![p] = {}]
  /\ lost' = lost + Cardinality(FdsOf(p)) + (IF pc[p] \in Closing THEN 1 ELSE 0)
  /\ Done(p)
  /\ UNCHANGED <<op_counter, op_ftable>>

\* A memory error the code itself makes.
Fault(p) == Die(p) /\ faulted' = faulted \union {p}

Killed(p) ==
  /\ Deaths
  /\ pc[p] # "idle" \/ FdsOf(p) # {}
  /\ Die(p) /\ UNCHANGED faulted

----------------------------------------------------------------------------
(* vsfs_open *)

\* Mutant: a failed open takes its descriptors off the counter, like a close.
Mut_FailOpenUncounts(p) ==
  /\ fds' = fds \ FdsOf(p)
  /\ dangling' = dangling \ {p}
  /\ lost' = lost + Cardinality(FdsOf(p))
  /\ Done(p)
  /\ op_counter' = op_counter - Cardinality(FdsOf(p))
  /\ UNCHANGED <<op_ftable, heap, faulted>>

\* free_fd_path, free_fd: a failed open frees the whole list, and every open
\* descriptor of the process with it; their entries stay counted.
FailOpen(p) ==
  /\ fds' = fds \ FdsOf(p)
  /\ dangling' = dangling \ {p}
  /\ lost' = lost + Cardinality(FdsOf(p))
  /\ Done(p)
  /\ UNCHANGED <<op_counter, op_ftable, heap, faulted>>

\* The number of a node appended to the list: 1, or one above the tail's.
IsNextIndex(p, k) ==
  IF FdsOf(p) = {} THEN k = 1
  ELSE \E f \in FdsOf(p) : IsTail(f) /\ k = f.index + 1

\* The node is appended after fd_table->tail.  If that was freed, the append
\* writes to freed memory: it may be fatal, or the new node is out of reach.
OpenAppend(p, n) ==
  /\ pc[p] = "idle"
  /\ LIFO => p \notin dangling
  /\ \/ \E k \in 1 .. MaxIndex :
          /\ IsNextIndex(p, k)
          /\ Goto(p, "check")
          /\ node' = [node EXCEPT ![p] =
               [proc |-> p, index |-> k, inode |-> n, slot |-> 0,
                stranded |-> p \in dangling, count |-> 0]]
          /\ UNCHANGED <<op_counter, op_ftable, fds, dangling, heap, faulted,
                         lost>>
     \/ p \in dangling /\ Fault(p)

\* The pathname is not in the directory.
OpenNotFound(p) == pc[p] = "idle" /\ FdsOf(p) # {} /\ FailOpen(p)

\* Mutant: the limit test lets one more through.
Mut_LimitOffByOne(p) ==
  /\ pc[p] = "check"
  /\ \/ /\ op_counter <= OP_LIMIT
        /\ Goto(p, "fill")
        /\ UNCHANGED <<op_counter, op_ftable, fds, dangling, heap, node,
                       faulted, lost>>
     \/ op_counter > OP_LIMIT /\ FailOpen(p)

OpenCheck(p) ==
  /\ pc[p] = "check"
  /\ \/ /\ op_counter < OP_LIMIT
        /\ Goto(p, "fill")
        /\ UNCHANGED <<op_counter, op_ftable, fds, dangling, heap, node,
                       faulted, lost>>
     \/ op_counter >= OP_LIMIT /\ FailOpen(p)

\* Addresses of p's structures that some entry still holds.
InUse(p) == {op_ftable[s].addr : s \in {t \in Slots : op_ftable[t].owner = p}}

\* The entry at *op_counter is filled.  malloc gave an address not in use (the
\* structures no entry points to are never seen again, so they are dropped).
OpenFill(p) ==
  /\ pc[p] = "fill"
  /\ \E a \in Addrs :
       /\ \A b \in Addrs : b \notin heap[p] \intersect InUse(p) => a <= b
       /\ a \notin heap[p] \intersect InUse(p)
       /\ op_ftable' = [op_ftable EXCEPT ![op_counter] =
            [inode_nr |-> node[p].inode, ptr_counter |-> 1, owner |-> p,
             addr |-> a]]
       /\ heap' = [heap EXCEPT ![p] = (@ \intersect InUse(p)) \union {a}]
  /\ Goto(p, "point")
  /\ UNCHANGED <<op_counter, fds, dangling, node, faulted, lost>>

\* Mutant: the pointer is taken after the counter moved.
Mut_PointAfterCount(p) ==
  /\ pc[p] = "point"
  /\ node' = [node EXCEPT ![p].slot = op_counter + 1]
  /\ Goto(p, "count")
  /\ UNCHANGED <<op_counter, op_ftable, fds, dangling, heap, faulted, lost>>

\* fd_table->tail->ptr = &op_ftable[*op_counter], the counter read again.
OpenPoint(p) ==
  /\ pc[p] = "point"
  /\ node' = [node EXCEPT ![p].slot = op_counter]
  /\ Goto(p, "count")
  /\ UNCHANGED <<op_counter, op_ftable, fds, dangling, heap, faulted, lost>>

\* vsfs_open returns the descriptor.
OpenDone(p) ==
  /\ IF node[p].stranded
       THEN lost' = lost + 1 /\ UNCHANGED fds
       ELSE fds' = fds \union {[node[p] EXCEPT !.count = 0]} /\ UNCHANGED lost
  /\ Done(p)
  /\ UNCHANGED <<op_ftable, dangling, heap, faulted>>

\* (*op_counter)++ in one step, or in two.
OpenCount(p) ==
  /\ pc[p] = "count" /\ AtomicCount
  /\ op_counter' = (op_counter + 1) % USHORT
  /\ OpenDone(p)

LoadCounter(p, label) ==
  /\ node' = [node EXCEPT ![p].count = op_counter]
  /\ Goto(p, label)
  /\ UNCHANGED <<op_counter, op_ftable, fds, dangling, heap, faulted, lost>>

OpenLoad(p) == pc[p] = "count" /\ ~ AtomicCount /\ LoadCounter(p, "add")

OpenStore(p) ==
  /\ pc[p] = "add"
  /\ op_counter' = (node[p].count + 1) % USHORT
  /\ OpenDone(p)

----------------------------------------------------------------------------
(* vsfs_close *)

\* Mutant: a node found by its predecessor stays in the list.
Mut_TailNotFreed(p, index) ==
  /\ pc[p] = "idle"
  /\ \E f \in FdsOf(p) : LIFO => IsTail(f) /\ f.index = index
  /\ \/ \E f \in FdsOf(p) :
          /\ f.index = index /\ (IsHead(f) \/ IsTail(f))
          /\ fds' = IF IsHead(f) THEN fds \ {f} ELSE fds
          /\ dangling' = IF FdsOf(p) = {f} THEN dangling \ {p}
                         ELSE IF IsHead(f) THEN dangling ELSE dangling \union {p}
          /\ node' = [node EXCEPT ![p] = f]
          /\ Goto(p, "free")
          /\ UNCHANGED <<op_counter, op_ftable, heap, faulted, lost>>
     \/ /\ \A f \in FdsOf(p) : f.index = index => ~IsHead(f) /\ ~IsTail(f)
        /\ Fault(p)

\* The search takes the head, or a node by its predecessor.  It neither stops
\* at the match nor tests for the end of the list, so only the head and the
\* last node can be removed; anything else dereferences the NULL at the end.
\* Removing the last node leaves fd_table->tail pointing at it.
CloseFind(p, index) ==
  /\ pc[p] = "idle"
  /\ \E f \in FdsOf(p) : LIFO => IsTail(f) /\ f.index = index
  /\ \/ \E f \in FdsOf(p) :
          /\ f.index = index /\ (IsHead(f) \/ IsTail(f))
          /\ fds' = fds \ {f}
          /\ dangling' = IF FdsOf(p) = {f} THEN dangling \ {p}
                         ELSE IF IsHead(f) THEN dangling ELSE dangling \union {p}
          /\ node' = [node EXCEPT ![p] = f]
          /\ Goto(p, "free")
          /\ UNCHANGED <<op_counter, op_ftable, heap, faulted, lost>>
     \/ /\ \A f \in FdsOf(p) : f.index = index => ~IsHead(f) /\ ~IsTail(f)
        /\ Fault(p)

\* free(ptr->file_ptr).  A structure of this process is freed.  An address that
\* is not (no longer, another process's, or NULL) is a memory error, fatal or
\* unnoticed; NULL is always fatal.
CloseFree(p) ==
  LET e == op_ftable[node[p].slot]
      mine == e.owner = p /\ e.addr \in heap[p]
  IN  /\ pc[p] = "free"
      /\ \/ /\ e.owner # NULL
            /\ heap' = [heap EXCEPT ![p] = IF mine THEN @ \ {e.addr} ELSE @]
            /\ Goto(p, "drop")
            /\ UNCHANGED <<op_counter, op_ftable, fds, dangling, node,
                           faulted, lost>>
         \/ ~mine /\ Fault(p)

\* ptr_counter--, unless it is 0 already: then the call fails, with the node
\* gone from the list and the table as it was.
CloseDrop(p) ==
  LET s == node[p].slot
  IN  /\ pc[p] = "drop"
      /\ IF op_ftable[s].ptr_counter = 0
           THEN lost' = lost + 1 /\ Done(p) /\ UNCHANGED op_ftable
           ELSE /\ op_ftable' = [op_ftable EXCEPT ![s].ptr_counter = @ - 1]
                /\ Goto(p, "move")
                /\ UNCHANGED <<node, lost>>
      /\ UNCHANGED <<op_counter, fds, dangling, heap, faulted>>

\* The last entry is copied over the closed one.  A ptr_counter another process
\* has raised meanwhile keeps the entry; a counter of 0 is an error.
CloseMove(p) ==
  LET s == node[p].slot
  IN  /\ pc[p] = "move"
      /\ IF op_ftable[s].ptr_counter # 0 \/ op_counter <= 0
           THEN lost' = lost + 1 /\ Done(p) /\ UNCHANGED op_ftable
           ELSE /\ op_ftable' = IF op_counter > 1
                     THEN [op_ftable EXCEPT ![s] = op_ftable[op_counter - 1]]
                     ELSE op_ftable
                /\ Goto(p, "uncount")
                /\ UNCHANGED <<node, lost>>
      /\ UNCHANGED <<op_counter, fds, dangling, heap, faulted>>

\* Mutant: the counter falls by two.
Mut_UncountTwice(p) ==
  /\ pc[p] = "uncount" /\ AtomicCount
  /\ op_counter' = (op_counter - 2) % USHORT
  /\ Done(p)
  /\ UNCHANGED <<op_ftable, fds, dangling, heap, faulted, lost>>

\* (*op_counter)-- in one step, or in two.
CloseUncount(p) ==
  /\ pc[p] = "uncount" /\ AtomicCount
  /\ op_counter' = (op_counter - 1) % USHORT
  /\ Done(p)
  /\ UNCHANGED <<op_ftable, fds, dangling, heap, faulted, lost>>

CloseLoad(p) == pc[p] = "uncount" /\ ~ AtomicCount /\ LoadCounter(p, "sub")

CloseStore(p) ==
  /\ pc[p] = "sub"
  /\ op_counter' = (node[p].count - 1) % USHORT
  /\ Done(p)
  /\ UNCHANGED <<op_ftable, fds, dangling, heap, faulted, lost>>

----------------------------------------------------------------------------
(* mount_vsfs again, once nobody has a file open *)

Remount ==
  /\ fds = {} /\ \A p \in Procs : pc[p] = "idle"
  /\ op_counter' = 0 /\ lost' = 0
  /\ op_ftable' = [s \in Slots |-> ZeroEntry]
  /\ UNCHANGED <<fds, dangling, heap, pc, node, faulted>>

Open(p) == (\E n \in Inodes : OpenAppend(p, n)) \/ OpenNotFound(p)
           \/ OpenCheck(p) \/ OpenFill(p) \/ OpenPoint(p) \/ OpenCount(p)
           \/ OpenLoad(p) \/ OpenStore(p)
Close(p) == (\E index \in 1 .. MaxIndex : CloseFind(p, index))
            \/ CloseFree(p) \/ CloseDrop(p) \/ CloseMove(p) \/ CloseUncount(p)
            \/ CloseLoad(p) \/ CloseStore(p)

Next == (\E p \in Procs : Open(p) \/ Close(p) \/ Killed(p)) \/ Remount

Spec == Init /\ [][Next]_vars

----------------------------------------------------------------------------
(* Properties *)

Nodes == [proc : Procs, index : 1 .. MaxIndex, inode : Inodes,
          slot : Slots, stranded : BOOLEAN, count : 0 .. USHORT - 1]

\* Every variable has its type; the counter stays in the mapped table.
TypeOK ==
  /\ op_counter \in 0 .. OP_LIMIT + Cardinality(Procs) - 1
  /\ op_ftable \in [Slots -> [inode_nr : Inodes \union {NULL},
                              ptr_counter : 0 .. 1,
                              owner : Procs \union {NULL}, addr : Addrs]]
  /\ fds \in SUBSET Nodes
  /\ dangling \in SUBSET Procs
  /\ heap \in [Procs -> SUBSET Addrs]
  /\ pc \in [Procs -> {"idle"} \union Opening \union Closing]
  /\ node \in [Procs -> Nodes \union {NoNode}]
  /\ faulted \in SUBSET Procs
  /\ lost \in Nat

InFlight(labels) == {p \in Procs : pc[p] \in labels}

\* The counter accounts for every entry: one per descriptor, one per close that
\* has not given its entry back yet, and the lost ones (killed processes,
\* failed opens, closes that found another process's entry).  With AtomicCount,
\* or one process, it holds for any interleaving of calls that are not locked
\* against each other, and means that no sequence of opens, closes and deaths
\* makes the unsigned short wrap.
CountExact ==
  op_counter = Cardinality(fds) + Cardinality(InFlight(Closing)) + lost

\* The limit is tested long before the counter moves; processes that passed the
\* test together overshoot it by at most one each but the first.
OvershootBounded ==
  op_counter + Cardinality(InFlight({"fill", "point", "count", "add"}))
    <= OP_LIMIT + Cardinality(Procs) - 1

\* Every descriptor has an entry of its own below the counter, filled for its
\* file, referred to once, with a file_t of its process that is not freed.
DescriptorsSound ==
  /\ \A f \in fds :
       LET e == op_ftable[f.slot]
       IN  /\ f.slot < op_counter
           /\ e.inode_nr = f.inode /\ e.ptr_counter = 1
           /\ e.owner = f.proc /\ e.addr \in heap[f.proc]
  /\ \A f, g \in fds : f # g =>
       /\ f.slot # g.slot
       /\ op_ftable[f.slot].addr # op_ftable[g.slot].addr

\* An open file's entry names the file it was opened for (the fd is "about the
\* file", vsfsio_spdk.h:1196).
DescriptorNamesItsFile ==
  \A f \in fds : op_ftable[f.slot].inode_nr = f.inode

\* Closing a descriptor the process has open never kills it: vsfs_close returns
\* 0 or -1 (vsfsio_spdk.h:683).
CloseReturns == faulted = {}

=============================================================================
