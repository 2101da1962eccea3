------------------------ MODULE VsfsOpTable_proofs ------------------------
(***************************************************************************)
(* Proofs about VsfsOpTable, for any number of processes, files, entries   *)
(* and descriptors and every interleaving of their steps.  If the counter  *)
(* is updated in one step (AtomicCount): the types, that the shared        *)
(* counter accounts exactly for the entries in use, and how far it passes  *)
(* its limit.  With the counter loaded and stored in two steps: that one   *)
(* process alone which closes the newest descriptor first keeps its        *)
(* descriptors sound and is never killed.                                  *)
(***************************************************************************)
EXTENDS VsfsOpTableModesMC, FiniteSetTheorems, TLAPS

\* The node of a running call is a proper node, one that vsfs_open is adding is
\* numbered above the ones the process has, and the sets counted are finite.
NodesInv ==
  /\ IsFiniteSet(fds)
  /\ \A p \in Procs : pc[p] # "idle" => node[p] \in Nodes /\ node[p].proc = p
  /\ \A p \in Procs : pc[p] \in Opening =>
       \A f \in FdsOf(p) : f.index < node[p].index

CountInv == NodesInv /\ CountExact /\ OvershootBounded

IInv == TypeOK /\ CountInv

ProcState == {"idle"} \union Opening \union Closing
Window == {"fill", "point", "count", "add"}

\* What a process at l adds to the number of those in a phase.
In(l, labels) == IF l \in labels THEN 1 ELSE 0

LEMMA InType == ASSUME NEW l, NEW labels PROVE In(l, labels) \in Int
BY DEF In

LEMMA NoWrap ==
  ASSUME NEW c \in Nat, NEW m \in Nat, c < m
  PROVE  c % m = c
OBVIOUS

LEMMA InFlightFinite ==
  ASSUME NEW labels
  PROVE  /\ IsFiniteSet(InFlight(labels))
         /\ Cardinality(InFlight(labels)) \in Nat
         /\ Cardinality(InFlight(labels)) <= Cardinality(Procs)
         /\ Cardinality(Procs) \in Nat
BY OpTableAssumption, FS_Subset, FS_CardinalityType DEF OpTableAssumption, InFlight

\* How the number of processes in a phase changes when one of them moves.
LEMMA InFlightMove ==
  ASSUME NEW labels, TypeOK, NEW p \in Procs, NEW l \in ProcState, Goto(p, l)
  PROVE  Cardinality(InFlight(labels))' =
           Cardinality(InFlight(labels))
             + In(l, labels)
             - In(pc[p], labels)
<1>0. IsFiniteSet(InFlight(labels)) /\ Cardinality(InFlight(labels)) \in Nat
  BY InFlightFinite
<1>1. p \in InFlight(labels) <=> pc[p] \in labels
  BY DEF InFlight
<1>2. CASE l \in labels
  <2>1. InFlight(labels)' = InFlight(labels) \union {p}
    BY <1>2 DEF InFlight, TypeOK, Goto
  <2>2. Cardinality(InFlight(labels) \union {p}) =
          IF p \in InFlight(labels) THEN Cardinality(InFlight(labels))
          ELSE Cardinality(InFlight(labels)) + 1
    BY <1>0, FS_AddElement
  <2> QED BY <1>0, <1>1, <1>2, <2>1, <2>2 DEF In
<1>3. CASE l \notin labels
  <2>1. InFlight(labels)' = InFlight(labels) \ {p}
    BY <1>3 DEF InFlight, TypeOK, Goto
  <2>2. Cardinality(InFlight(labels) \ {p}) =
          IF p \in InFlight(labels) THEN Cardinality(InFlight(labels)) - 1
          ELSE Cardinality(InFlight(labels))
    BY <1>0, FS_RemoveElement
  <2> QED BY <1>0, <1>1, <1>3, <2>1, <2>2 DEF In
<1> QED BY <1>2, <1>3

LEMMA InFlightSame ==
  ASSUME NEW labels, UNCHANGED pc
  PROVE  Cardinality(InFlight(labels))' = Cardinality(InFlight(labels))
BY DEF InFlight

\* Taking every descriptor of a process away.
LEMMA RemoveFdsOf ==
  ASSUME IsFiniteSet(fds), NEW p \in Procs
  PROVE  /\ IsFiniteSet(fds \ FdsOf(p))
         /\ Cardinality(FdsOf(p)) \in Nat /\ Cardinality(fds) \in Nat
         /\ Cardinality(fds \ FdsOf(p)) = Cardinality(fds) - Cardinality(FdsOf(p))
<1>1. FdsOf(p) \subseteq fds /\ fds \intersect FdsOf(p) = FdsOf(p)
  BY DEF FdsOf
<1>2. IsFiniteSet(FdsOf(p))
  BY <1>1, FS_Subset
<1>3. Cardinality(FdsOf(p)) \in Nat /\ Cardinality(fds) \in Nat
  BY <1>2, FS_CardinalityType
<1>4. /\ IsFiniteSet(fds \ FdsOf(p))
      /\ Cardinality(fds \ FdsOf(p)) =
           Cardinality(fds) - Cardinality(fds \intersect FdsOf(p))
  BY FS_Difference
<1> QED BY <1>1, <1>3, <1>4

----------------------------------------------------------------------------
(* What a step of one process has to show, invariant by invariant *)

LEMMA NodesKept ==
  ASSUME TypeOK, NodesInv, NEW p \in Procs, NEW l \in ProcState, Goto(p, l),
         NEW nd, node' = [node EXCEPT ![p] = nd], fds' \subseteq fds,
         l # "idle" => nd \in Nodes /\ nd.proc = p,
         l \in Opening => \A f \in FdsOf(p) : f.index < nd.index
  PROVE  NodesInv'
<1>1. IsFiniteSet(fds')
  BY FS_Subset DEF NodesInv
<1>2. \A q \in Procs : q # p => pc'[q] = pc[q] /\ node'[q] = node[q]
  BY DEF TypeOK, Goto
<1>3. pc'[p] = l /\ node'[p] = nd
  BY DEF TypeOK, Goto
<1>4. \A q \in Procs : \A f \in FdsOf(q)' : f \in FdsOf(q)
  BY DEF FdsOf
<1>5. \A q \in Procs : pc'[q] # "idle" => node'[q] \in Nodes /\ node'[q].proc = q
  BY <1>2, <1>3 DEF NodesInv
<1>6. \A q \in Procs : pc'[q] \in Opening =>
        \A f \in FdsOf(q)' : f.index < node'[q].index
  BY <1>2, <1>3, <1>4 DEF NodesInv
<1>7. Nodes' = Nodes
  BY DEF Nodes, Slots
<1> QED BY <1>1, <1>5, <1>6, <1>7 DEF NodesInv

LEMMA OvershootKept ==
  ASSUME TypeOK, OvershootBounded, NEW p \in Procs, NEW l \in ProcState,
         Goto(p, l), op_counter' \in Int,
         op_counter' + In(l, Window)
           <= op_counter + In(pc[p], Window)
  PROVE  OvershootBounded'
<1>1. Cardinality(InFlight(Window))' = Cardinality(InFlight(Window))
        + In(l, Window) - In(pc[p], Window)
  BY InFlightMove
<1>2. Cardinality(InFlight(Window)) \in Nat /\ Cardinality(Procs) \in Nat
  BY InFlightFinite
<1>3. op_counter + Cardinality(InFlight(Window)) <= OP_LIMIT + Cardinality(Procs) - 1
  BY DEF OvershootBounded, Window
<1>4. op_counter \in Int /\ OP_LIMIT \in Int
  BY <1>2, OpTableAssumption DEF TypeOK, OpTableAssumption
<1>5. op_counter' + Cardinality(InFlight(Window))'
        <= OP_LIMIT + Cardinality(Procs) - 1
  BY <1>1, <1>2, <1>3, <1>4, InType
<1> QED BY <1>5 DEF OvershootBounded, Window

LEMMA CountKept ==
  ASSUME TypeOK, CountExact, NEW p \in Procs, NEW l \in ProcState, Goto(p, l),
         Cardinality(fds) \in Int, Cardinality(fds') \in Int, lost' \in Int,
         op_counter' = op_counter + (Cardinality(fds') - Cardinality(fds))
           + In(l, Closing)
           - In(pc[p], Closing) + (lost' - lost)
  PROVE  CountExact'
<1>1. Cardinality(InFlight(Closing))' = Cardinality(InFlight(Closing))
        + In(l, Closing) - In(pc[p], Closing)
  BY InFlightMove
<1>2. Cardinality(InFlight(Closing)) \in Nat
  BY InFlightFinite
<1>3. lost \in Int
  BY DEF TypeOK
<1> QED BY <1>1, <1>2, <1>3, InType DEF CountExact

\* The counter stays in the mapped table.
LEMMA CounterRange ==
  ASSUME OvershootBounded', op_counter' \in Nat
  PROVE  op_counter' \in 0 .. OP_LIMIT + Cardinality(Procs) - 1
<1>1. Cardinality(InFlight(Window))' \in Nat /\ Cardinality(Procs) \in Nat
  <2>1. InFlight(Window)' \subseteq Procs
    BY DEF InFlight
  <2>2. IsFiniteSet(Procs) /\ IsFiniteSet(InFlight(Window)')
    BY <2>1, FS_Subset, OpTableAssumption DEF OpTableAssumption
  <2> QED BY <2>2, FS_CardinalityType
<1>2. op_counter' + Cardinality(InFlight(Window))' <= OP_LIMIT + Cardinality(Procs) - 1
  BY DEF OvershootBounded, Window
<1>3. OP_LIMIT \in Nat
  BY OpTableAssumption DEF OpTableAssumption
<1> QED BY <1>1, <1>2, <1>3

\* While a process is between the limit test and the count, the counter names a
\* slot; while one is closing, the counter is at least 1.
LEMMA CounterIsSlot ==
  ASSUME IInv, NEW p \in Procs, pc[p] \in Window
  PROVE  op_counter \in Slots
<1>1. Cardinality(InFlight(Window)) \in Nat /\ Cardinality(Procs) \in Nat
  BY InFlightFinite
<1> QED BY <1>1, OpTableAssumption DEF IInv, TypeOK, Slots, OpTableAssumption

LEMMA ClosingIsCounted ==
  ASSUME IInv, NEW p \in Procs, pc[p] \in Closing
  PROVE  op_counter >= 1
<1>1. IsFiniteSet(InFlight(Closing)) /\ Cardinality(InFlight(Closing)) \in Nat
  BY InFlightFinite
<1>2. p \in InFlight(Closing)
  BY DEF InFlight
<1>3. Cardinality(InFlight(Closing)) # 0
  BY <1>1, <1>2, FS_EmptySet
<1>4. Cardinality(fds) \in Nat
  BY FS_CardinalityType DEF IInv, CountInv, NodesInv
<1>5. op_counter = Cardinality(fds) + Cardinality(InFlight(Closing)) + lost /\ lost \in Nat
  BY DEF IInv, CountInv, CountExact, TypeOK
<1> QED BY <1>1, <1>3, <1>4, <1>5

----------------------------------------------------------------------------
(* Initial states *)

THEOREM InitInv == Init => IInv
<1> SUFFICES ASSUME Init PROVE IInv
  OBVIOUS
<1>1. Cardinality(Procs) \in Nat
  BY InFlightFinite
<1>1a. OP_LIMIT \in Nat \ {0} /\ 0 \in Slots /\ 0 \in Addrs
  BY <1>1, OpTableAssumption DEF OpTableAssumption, Slots, Addrs
<1>2. TypeOK
  BY <1>1, <1>1a DEF Init, TypeOK, ZeroEntry, NoNode, Opening, Closing
<1>3. InFlight(Closing) = {} /\ InFlight({"fill", "point", "count", "add"}) = {}
  BY DEF Init, InFlight, Closing
<1>3a. Cardinality({}) = 0 /\ IsFiniteSet({})
  BY FS_EmptySet
<1>4. NodesInv
  BY <1>3a DEF Init, NodesInv, FdsOf, Opening
<1>5. CountExact
  BY <1>3, <1>3a DEF Init, CountExact
<1>6. 0 + 0 <= OP_LIMIT + Cardinality(Procs) - 1
  BY <1>1, <1>1a
<1>7. OvershootBounded
  BY <1>3, <1>3a, <1>6 DEF Init, OvershootBounded
<1> QED BY <1>2, <1>4, <1>5, <1>7 DEF IInv, CountInv

----------------------------------------------------------------------------
(* The steps *)

LEMMA Basics ==
  ASSUME IInv
  PROVE  /\ TypeOK /\ NodesInv /\ CountExact /\ OvershootBounded
         /\ op_counter \in Nat /\ OP_LIMIT \in Nat \ {0} /\ lost \in Nat
         /\ USHORT \in Nat /\ op_counter + 1 < USHORT /\ 0 \in 0 .. USHORT - 1
         /\ Cardinality(Procs) \in Nat
         /\ Cardinality(fds) \in Nat /\ IsFiniteSet(fds)
<1>1. Cardinality(Procs) \in Nat
  BY InFlightFinite
<1>2. TypeOK /\ NodesInv /\ CountExact /\ OvershootBounded
  BY DEF IInv, CountInv
<1>3. IsFiniteSet(fds) /\ Cardinality(fds) \in Nat
  BY <1>2, FS_CardinalityType DEF NodesInv
<1> QED BY <1>1, <1>2, <1>3, OpTableAssumption DEF TypeOK, OpTableAssumption

LEMMA Retyped ==
  ASSUME TypeOK, OvershootBounded', op_counter' \in Nat,
         op_ftable' \in [Slots -> [inode_nr : Inodes \union {NULL},
                                   ptr_counter : 0 .. 1,
                                   owner : Procs \union {NULL}, addr : Addrs]],
         fds' \in SUBSET Nodes, dangling' \in SUBSET Procs,
         heap' \in [Procs -> SUBSET Addrs],
         pc' \in [Procs -> ProcState], node' \in [Procs -> Nodes \union {NoNode}],
         faulted' \in SUBSET Procs, lost' \in Nat
  PROVE  TypeOK'
<1>1. op_counter' \in 0 .. OP_LIMIT + Cardinality(Procs) - 1
  BY CounterRange
<1>2. Slots' = Slots /\ Addrs' = Addrs /\ NoNode' = NoNode /\ Nodes' = Nodes
      /\ Opening' = Opening /\ Closing' = Closing
  BY DEF Slots, Addrs, NoNode, Nodes, Opening, Closing
<1> QED BY <1>1, <1>2 DEF TypeOK, ProcState

\* Death and failed open: the descriptors of p become lost entries.
LEMMA Emptied ==
  ASSUME IInv, NEW p \in Procs, Done(p), fds' = fds \ FdsOf(p),
         lost' = lost + Cardinality(FdsOf(p)) + In(pc[p], Closing),
         op_counter' = op_counter, op_ftable' = op_ftable,
         dangling' = dangling \ {p}, heap' \in [Procs -> SUBSET Addrs],
         faulted' \in SUBSET Procs
  PROVE  IInv'
<1>1. TypeOK /\ NodesInv /\ CountExact /\ OvershootBounded /\ op_counter \in Nat
      /\ lost \in Nat /\ IsFiniteSet(fds)
  BY Basics
<1>2. Goto(p, "idle") /\ node' = [node EXCEPT ![p] = NoNode] /\ "idle" \in ProcState
  BY DEF Done, ProcState
<1>3. /\ In("idle", Closing) = 0 /\ In("idle", Window) = 0
      /\ In(pc[p], Closing) \in Nat /\ In(pc[p], Window) \in Nat
  BY DEF In, Closing, Window
<1>4. /\ IsFiniteSet(fds') /\ Cardinality(FdsOf(p)) \in Nat /\ Cardinality(fds) \in Nat
      /\ Cardinality(fds') = Cardinality(fds) - Cardinality(FdsOf(p))
  BY <1>1, RemoveFdsOf
<1>5. Cardinality(fds') \in Nat
  BY <1>4, FS_CardinalityType
<1>6. lost' \in Nat
  BY <1>1, <1>3, <1>4
<1>7. CountExact'
  <2>1. op_counter' = op_counter + (Cardinality(fds') - Cardinality(fds))
          + In("idle", Closing) - In(pc[p], Closing) + (lost' - lost)
    BY <1>1, <1>3, <1>4
  <2>2. Cardinality(fds) \in Int /\ Cardinality(fds') \in Int /\ lost' \in Int
    BY <1>4, <1>5, <1>6
  <2> QED BY <1>1, <1>2, <2>1, <2>2, CountKept
<1>8. OvershootBounded'
  <2>1. op_counter' + In("idle", Window) <= op_counter + In(pc[p], Window)
    BY <1>1, <1>3
  <2> QED BY <1>1, <1>2, <2>1, OvershootKept
<1>9. NodesInv'
  BY <1>1, <1>2, NodesKept, "idle" \notin Opening DEF Opening
<1>10. TypeOK'
  BY <1>1, <1>2, <1>6, <1>8, Retyped DEF TypeOK, Goto, ProcState
<1> QED BY <1>7, <1>8, <1>9, <1>10 DEF IInv, CountInv

LEMMA DieStep ==
  ASSUME IInv, NEW p \in Procs, Die(p), faulted' \in SUBSET Procs
  PROVE  IInv'
<1>1. heap' \in [Procs -> SUBSET Addrs]
  BY DEF Die, IInv, TypeOK
<1> QED BY <1>1, Emptied DEF Die, In

LEMMA FaultStep ==
  ASSUME IInv, NEW p \in Procs, Fault(p)
  PROVE  IInv'
BY DieStep DEF Fault, IInv, TypeOK

LEMMA FailOpenStep ==
  ASSUME IInv, NEW p \in Procs, FailOpen(p), pc[p] \notin Closing
  PROVE  IInv'
<1>1. lost' = lost + Cardinality(FdsOf(p)) + In(pc[p], Closing)
  <2>1. In(pc[p], Closing) = 0
    BY DEF In
  <2>2. lost \in Nat /\ Cardinality(FdsOf(p)) \in Nat
    BY Basics, RemoveFdsOf
  <2> QED BY <2>1, <2>2 DEF FailOpen
<1> QED BY <1>1, Emptied DEF FailOpen, IInv, TypeOK

\* A step that moves p on and leaves the counter and the descriptors alone: an
\* entry that p was closing may become lost, and p may pass the limit test.
LEMMA Moved ==
  ASSUME IInv, NEW p \in Procs, NEW l \in ProcState, Goto(p, l),
         NEW nd \in Nodes \union {NoNode}, node' = [node EXCEPT ![p] = nd],
         l # "idle" => nd \in Nodes /\ nd.proc = p,
         l \in Opening => \A f \in FdsOf(p) : f.index < nd.index,
         fds' = fds, op_counter' = op_counter,
         lost' = lost + In(pc[p], Closing) - In(l, Closing), lost' \in Nat,
         In(l, Window) <= In(pc[p], Window) \/ op_counter < OP_LIMIT,
         op_ftable' \in [Slots -> [inode_nr : Inodes \union {NULL},
                                   ptr_counter : 0 .. 1,
                                   owner : Procs \union {NULL}, addr : Addrs]],
         dangling' \in SUBSET Procs, heap' \in [Procs -> SUBSET Addrs],
         faulted' \in SUBSET Procs
  PROVE  IInv'
<1>1. TypeOK /\ NodesInv /\ CountExact /\ OvershootBounded /\ op_counter \in Nat
      /\ lost \in Nat /\ Cardinality(fds) \in Nat /\ Cardinality(Procs) \in Nat
      /\ OP_LIMIT \in Nat
  BY Basics
<1>2. In(l, Closing) \in Int /\ In(pc[p], Closing) \in Int
  BY InType
<1>3. CountExact'
  <2>1. op_counter' = op_counter + (Cardinality(fds') - Cardinality(fds))
          + In(l, Closing) - In(pc[p], Closing) + (lost' - lost)
    BY <1>1, <1>2
  <2>2. Cardinality(fds) \in Int /\ Cardinality(fds') \in Int /\ lost' \in Int
    BY <1>1
  <2> QED BY <1>1, <2>1, <2>2, CountKept
<1>4. OvershootBounded'
  <2>1. CASE In(l, Window) <= In(pc[p], Window)
    <3>1. op_counter' + In(l, Window) <= op_counter + In(pc[p], Window)
      BY <1>1, <2>1, InType
    <3> QED BY <1>1, <3>1, OvershootKept
  <2>2. CASE op_counter < OP_LIMIT
    <3>1. /\ Cardinality(InFlight(Window)') \in Nat
          /\ Cardinality(InFlight(Window)') <= Cardinality(Procs)
      <4>1. InFlight(Window)' \subseteq Procs
        BY DEF InFlight
      <4> QED BY <4>1, FS_Subset, FS_CardinalityType, OpTableAssumption
              DEF OpTableAssumption
    <3>2. op_counter' + Cardinality(InFlight(Window)')
            <= OP_LIMIT + Cardinality(Procs) - 1
      BY <1>1, <2>2, <3>1
    <3> QED BY <3>2 DEF OvershootBounded, Window
  <2> QED BY <2>1, <2>2
<1>5. NodesInv'
  BY <1>1, NodesKept
<1>6. TypeOK'
  <2>1. pc' \in [Procs -> ProcState] /\ node' \in [Procs -> Nodes \union {NoNode}]
    BY <1>1 DEF TypeOK, Goto, ProcState
  <2>2. fds' \in SUBSET Nodes
    BY <1>1 DEF TypeOK
  <2> QED BY <1>1, <1>4, <2>1, <2>2, Retyped
<1> QED BY <1>3, <1>4, <1>5, <1>6 DEF IInv, CountInv

LEMMA OpenAppendStep ==
  ASSUME IInv, NEW p \in Procs, NEW n \in Inodes, OpenAppend(p, n)
  PROVE  IInv'
<1>1. CASE Fault(p)
  BY <1>1, FaultStep
<1>2. ASSUME NEW k \in 1 .. MaxIndex, IsNextIndex(p, k), Goto(p, "check"),
             node' = [node EXCEPT ![p] =
               [proc |-> p, index |-> k, inode |-> n, slot |-> 0,
                stranded |-> p \in dangling, count |-> 0]],
             UNCHANGED <<op_counter, op_ftable, fds, dangling, heap, faulted, lost>>
      PROVE  IInv'
  <2> DEFINE nd == [proc |-> p, index |-> k, inode |-> n, slot |-> 0,
                    stranded |-> p \in dangling, count |-> 0]
  <2>1. OP_LIMIT \in Nat \ {0} /\ Cardinality(Procs) \in Nat /\ TypeOK /\ lost \in Nat
        /\ op_counter \in Nat
    BY Basics
  <2>2. 0 \in Slots
    BY <2>1 DEF Slots
  <2>3. nd \in Nodes /\ nd.proc = p /\ nd.index = k
    BY <2>2, (p \in dangling) \in BOOLEAN, Basics DEF Nodes
  <2>4. \A f \in FdsOf(p) : f.index < k
    <3>1. \A f \in FdsOf(p) : f.index \in Int /\ f.proc = p
      BY <2>1 DEF FdsOf, TypeOK, Nodes
    <3> QED BY <1>2, <3>1 DEF IsNextIndex, IsTail
  <2>5. "check" \in ProcState /\ In("check", Closing) = 0 /\ In("check", Window) = 0
        /\ In(pc[p], Closing) = 0 /\ In(pc[p], Window) = 0
    BY DEF OpenAppend, In, ProcState, Opening, Closing, Window
  <2>6. lost' = lost + In(pc[p], Closing) - In("check", Closing) /\ lost' \in Nat
        /\ In("check", Window) <= In(pc[p], Window)
    BY <1>2, <2>1, <2>5
  <2> HIDE DEF nd
  <2>7. node' = [node EXCEPT ![p] = nd]
    BY <1>2 DEF nd
  <2> QED BY <1>2, <2>1, <2>3, <2>4, <2>5, <2>6, <2>7, Moved DEF TypeOK
<1> QED BY <1>1, <1>2 DEF OpenAppend

LEMMA OpenNotFoundStep ==
  ASSUME IInv, NEW p \in Procs, OpenNotFound(p)
  PROVE  IInv'
BY FailOpenStep DEF OpenNotFound, Closing

\* What the steps of a running call know of it.
LEMMA Running ==
  ASSUME IInv, NEW p \in Procs, pc[p] # "idle"
  PROVE  /\ node[p] \in Nodes /\ node[p].proc = p /\ node[p].slot \in Slots
         /\ node = [node EXCEPT ![p] = node[p]]
         /\ pc[p] \in Opening => \A f \in FdsOf(p) : f.index < node[p].index
<1>1. TypeOK /\ NodesInv
  BY Basics
<1>2. node[p] \in Nodes /\ node[p].proc = p
  BY <1>1 DEF NodesInv
<1> QED BY <1>1, <1>2 DEF NodesInv, TypeOK, Nodes

LEMMA OpenCheckStep ==
  ASSUME IInv, NEW p \in Procs, OpenCheck(p)
  PROVE  IInv'
<1>1. CASE FailOpen(p)
  BY <1>1, FailOpenStep DEF OpenCheck, Closing
<1>2. CASE /\ op_counter < OP_LIMIT /\ Goto(p, "fill")
           /\ UNCHANGED <<op_counter, op_ftable, fds, dangling, heap, node,
                          faulted, lost>>
  <2>1. pc[p] # "idle" /\ pc[p] \in Opening /\ "fill" \in ProcState
        /\ In("fill", Closing) = 0 /\ In(pc[p], Closing) = 0
    BY DEF OpenCheck, In, ProcState, Opening, Closing
  <2>2. TypeOK /\ lost \in Nat
    BY Basics
  <2>3. lost' = lost + In(pc[p], Closing) - In("fill", Closing) /\ lost' \in Nat
    BY <1>2, <2>1, <2>2
  <2>4. node' = [node EXCEPT ![p] = node[p]] /\ node[p] \in Nodes
        /\ node[p].proc = p /\ \A f \in FdsOf(p) : f.index < node[p].index
    BY <1>2, <2>1, Running
  <2> QED BY <1>2, <2>1, <2>2, <2>3, <2>4, Moved DEF TypeOK
<1> QED BY <1>1, <1>2 DEF OpenCheck

LEMMA OpenFillStep ==
  ASSUME IInv, NEW p \in Procs, OpenFill(p)
  PROVE  IInv'
<1>1. pc[p] # "idle" /\ pc[p] \in Opening /\ pc[p] \in Window /\ "point" \in ProcState
      /\ In("point", Closing) = 0 /\ In(pc[p], Closing) = 0
      /\ In("point", Window) = 1 /\ In(pc[p], Window) = 1
  BY DEF OpenFill, In, ProcState, Opening, Closing, Window
<1>2. TypeOK /\ lost \in Nat
  BY Basics
<1>3. lost' = lost + In(pc[p], Closing) - In("point", Closing) /\ lost' \in Nat
      /\ In("point", Window) <= In(pc[p], Window)
  BY <1>1, <1>2 DEF OpenFill
<1>4. node' = [node EXCEPT ![p] = node[p]] /\ node[p] \in Nodes
      /\ node[p].proc = p /\ \A f \in FdsOf(p) : f.index < node[p].index
  BY <1>1, Running DEF OpenFill
<1>5. /\ op_ftable' \in [Slots -> [inode_nr : Inodes \union {NULL},
                                   ptr_counter : 0 .. 1,
                                   owner : Procs \union {NULL}, addr : Addrs]]
      /\ heap' \in [Procs -> SUBSET Addrs]
  <2>1. PICK a \in Addrs :
          /\ op_ftable' = [op_ftable EXCEPT ![op_counter] =
               [inode_nr |-> node[p].inode, ptr_counter |-> 1, owner |-> p,
                addr |-> a]]
          /\ heap' = [heap EXCEPT ![p] = (@ \intersect InUse(p)) \union {a}]
    BY DEF OpenFill
  <2>2. [inode_nr |-> node[p].inode, ptr_counter |-> 1, owner |-> p, addr |-> a]
          \in [inode_nr : Inodes \union {NULL}, ptr_counter : 0 .. 1,
               owner : Procs \union {NULL}, addr : Addrs]
    BY <1>4 DEF Nodes
  <2>3. op_counter \in Slots
    BY <1>1, CounterIsSlot
  <2> QED BY <1>2, <2>1, <2>2, <2>3 DEF TypeOK
<1> QED BY <1>1, <1>2, <1>3, <1>4, <1>5, Moved DEF OpenFill, TypeOK

LEMMA OpenPointStep ==
  ASSUME IInv, NEW p \in Procs, OpenPoint(p)
  PROVE  IInv'
<1>1. pc[p] # "idle" /\ pc[p] \in Opening /\ pc[p] \in Window /\ "count" \in ProcState
      /\ In("count", Closing) = 0 /\ In(pc[p], Closing) = 0
      /\ In("count", Window) = 1 /\ In(pc[p], Window) = 1
  BY DEF OpenPoint, In, ProcState, Opening, Closing, Window
<1>2. TypeOK /\ lost \in Nat
  BY Basics
<1>3. lost' = lost + In(pc[p], Closing) - In("count", Closing) /\ lost' \in Nat
      /\ In("count", Window) <= In(pc[p], Window)
  BY <1>1, <1>2 DEF OpenPoint
<1>4. PICK nd : nd = [node[p] EXCEPT !.slot = op_counter]
  OBVIOUS
<1>5. node[p] \in Nodes /\ node[p].proc = p /\ op_counter \in Slots
      /\ \A f \in FdsOf(p) : f.index < node[p].index
  BY <1>1, Running, CounterIsSlot
<1>6. nd \in Nodes /\ nd.proc = p /\ nd.index = node[p].index
  BY <1>4, <1>5 DEF Nodes
<1>7. node' = [node EXCEPT ![p] = nd]
  BY <1>2, <1>4 DEF OpenPoint, TypeOK
<1>8. \A f \in FdsOf(p) : f.index < nd.index
  BY <1>5, <1>6
<1> QED BY <1>1, <1>2, <1>3, <1>6, <1>7, <1>8, Moved DEF OpenPoint, TypeOK

LEMMA CloseFreeStep ==
  ASSUME IInv, NEW p \in Procs, CloseFree(p)
  PROVE  IInv'
<1>1. CASE Fault(p)
  BY <1>1, FaultStep
<1>2. CASE ~ Fault(p)
  <2>1. pc[p] # "idle" /\ "drop" \in ProcState /\ "drop" \notin Opening
        /\ In("drop", Closing) = 1 /\ In(pc[p], Closing) = 1
        /\ In("drop", Window) = 0 /\ In(pc[p], Window) = 0
    BY DEF CloseFree, In, ProcState, Opening, Closing, Window
  <2>2. TypeOK /\ lost \in Nat
    BY Basics
  <2>3. /\ Goto(p, "drop") /\ heap' \in [Procs -> SUBSET Addrs]
        /\ UNCHANGED <<op_counter, op_ftable, fds, dangling, node, faulted, lost>>
    BY <1>2, <2>2 DEF CloseFree, TypeOK
  <2>4. lost' = lost + In(pc[p], Closing) - In("drop", Closing) /\ lost' \in Nat
        /\ In("drop", Window) <= In(pc[p], Window)
    BY <2>1, <2>2, <2>3
  <2>5. node' = [node EXCEPT ![p] = node[p]] /\ node[p] \in Nodes /\ node[p].proc = p
    BY <2>1, <2>3, Running
  <2> QED BY <2>1, <2>2, <2>3, <2>4, <2>5, Moved DEF TypeOK
<1> QED BY <1>1, <1>2

\* Both ends of a phase of vsfs_close that may give up: the entry is lost.
LEMMA CloseGivesUp ==
  ASSUME IInv, NEW p \in Procs, pc[p] \in Closing, lost' = lost + 1, Done(p),
         UNCHANGED <<op_counter, op_ftable, fds, dangling, heap, faulted>>
  PROVE  IInv'
<1>1. "idle" \in ProcState /\ "idle" \notin Opening
      /\ In("idle", Closing) = 0 /\ In(pc[p], Closing) = 1
      /\ In("idle", Window) = 0 /\ In(pc[p], Window) = 0
  BY DEF In, ProcState, Opening, Closing, Window
<1>2. TypeOK /\ lost \in Nat
  BY Basics
<1>3. lost' = lost + In(pc[p], Closing) - In("idle", Closing) /\ lost' \in Nat
      /\ In("idle", Window) <= In(pc[p], Window)
  BY <1>1, <1>2
<1> QED BY <1>1, <1>2, <1>3, Moved DEF Done, TypeOK

\* And the ones where it goes on.
LEMMA CloseGoesOn ==
  ASSUME IInv, NEW p \in Procs, pc[p] \in Closing, NEW l \in Closing, Goto(p, l),
         UNCHANGED <<op_counter, fds, dangling, heap, node, faulted, lost>>,
         op_ftable' \in [Slots -> [inode_nr : Inodes \union {NULL},
                                   ptr_counter : 0 .. 1,
                                   owner : Procs \union {NULL}, addr : Addrs]]
  PROVE  IInv'
<1>1. l \in ProcState /\ l \notin Opening /\ pc[p] # "idle"
      /\ In(l, Closing) = 1 /\ In(pc[p], Closing) = 1
      /\ In(l, Window) = 0 /\ In(pc[p], Window) = 0
  BY DEF In, ProcState, Opening, Closing, Window
<1>2. TypeOK /\ lost \in Nat
  BY Basics
<1>3. lost' = lost + In(pc[p], Closing) - In(l, Closing) /\ lost' \in Nat
      /\ In(l, Window) <= In(pc[p], Window)
  BY <1>1, <1>2
<1>4. node' = [node EXCEPT ![p] = node[p]] /\ node[p] \in Nodes /\ node[p].proc = p
  BY <1>1, Running
<1> QED BY <1>1, <1>2, <1>3, <1>4, Moved DEF TypeOK

LEMMA CloseDropStep ==
  ASSUME IInv, NEW p \in Procs, CloseDrop(p)
  PROVE  IInv'
<1>1. pc[p] \in Closing /\ pc[p] # "idle" /\ "move" \in Closing
  BY DEF CloseDrop, Closing
<1>2. CASE op_ftable[node[p].slot].ptr_counter = 0
  BY <1>1, <1>2, CloseGivesUp DEF CloseDrop
<1>3. CASE op_ftable[node[p].slot].ptr_counter # 0
  <2>1. node[p].slot \in Slots /\ TypeOK
    BY <1>1, Running, Basics
  <2>2. PICK s \in Slots : s = node[p].slot
    BY <2>1
  <2>3. op_ftable' = [op_ftable EXCEPT ![s].ptr_counter = @ - 1]
    BY <1>3, <2>2 DEF CloseDrop
  <2>4. op_ftable[s].ptr_counter - 1 \in 0 .. 1
    BY <1>3, <2>1, <2>2 DEF TypeOK
  <2>5. op_ftable' \in [Slots -> [inode_nr : Inodes \union {NULL},
                                  ptr_counter : 0 .. 1,
                                  owner : Procs \union {NULL}, addr : Addrs]]
    BY <2>1, <2>3, <2>4 DEF TypeOK
  <2> QED BY <1>1, <1>3, <2>5, CloseGoesOn DEF CloseDrop
<1> QED BY <1>2, <1>3

LEMMA CloseMoveStep ==
  ASSUME IInv, NEW p \in Procs, CloseMove(p)
  PROVE  IInv'
<1>1. pc[p] \in Closing /\ pc[p] # "idle" /\ "uncount" \in Closing
  BY DEF CloseMove, Closing
<1>2. CASE op_ftable[node[p].slot].ptr_counter # 0 \/ op_counter <= 0
  BY <1>1, <1>2, CloseGivesUp DEF CloseMove
<1>3. CASE ~ (op_ftable[node[p].slot].ptr_counter # 0 \/ op_counter <= 0)
  <2>1. node[p].slot \in Slots /\ TypeOK /\ op_counter \in Nat
    BY <1>1, Running, Basics
  <2>2. op_counter > 1 => op_counter - 1 \in Slots
    BY <2>1, Basics DEF TypeOK, Slots
  <2>3. op_ftable' \in [Slots -> [inode_nr : Inodes \union {NULL},
                                  ptr_counter : 0 .. 1,
                                  owner : Procs \union {NULL}, addr : Addrs]]
    BY <1>3, <2>1, <2>2 DEF CloseMove, TypeOK
  <2> QED BY <1>1, <1>3, <2>3, CloseGoesOn DEF CloseMove
<1> QED BY <1>2, <1>3

\* The two steps that move the counter, and the one that takes a node off.

LEMMA OpenCountStep ==
  ASSUME IInv, NEW p \in Procs, OpenCount(p)
  PROVE  IInv'
<1>1. pc[p] # "idle" /\ pc[p] \in Opening /\ "idle" \in ProcState
      /\ In("idle", Closing) = 0 /\ In(pc[p], Closing) = 0
      /\ In("idle", Window) = 0 /\ In(pc[p], Window) = 1
  BY DEF OpenCount, In, ProcState, Opening, Closing, Window
<1>2. TypeOK /\ NodesInv /\ CountExact /\ OvershootBounded /\ op_counter \in Nat
      /\ lost \in Nat /\ IsFiniteSet(fds) /\ Cardinality(fds) \in Nat
  BY Basics
<1>3. node[p] \in Nodes /\ node[p].proc = p
      /\ \A f \in FdsOf(p) : f.index < node[p].index
  BY <1>1, Running
<1>4. PICK nd : nd = [node[p] EXCEPT !.count = 0]
  OBVIOUS
<1>4a. nd \in Nodes /\ nd.proc = p /\ nd \notin fds
  <2>1. nd \in Nodes /\ nd.proc = p /\ nd.index = node[p].index
    BY <1>3, <1>4, Basics DEF Nodes
  <2> QED BY <1>3, <2>1 DEF FdsOf, Nodes
<1>5. Goto(p, "idle") /\ op_counter' = op_counter + 1
      /\ node' = [node EXCEPT ![p] = NoNode]
      /\ UNCHANGED <<op_ftable, dangling, heap, faulted>>
  <2>1. op_counter' = (op_counter + 1) % USHORT
    BY DEF OpenCount
  <2>2. op_counter' = op_counter + 1
    BY <2>1, Basics, NoWrap
  <2> QED BY <2>2 DEF OpenCount, OpenDone, Done
<1>6. /\ fds' \subseteq fds \union {nd} /\ lost' \in Nat
      /\ IsFiniteSet(fds') /\ Cardinality(fds') \in Nat
      /\ Cardinality(fds') + lost' = Cardinality(fds) + lost + 1
  <2>1. CASE node[p].stranded
    BY <1>2, <2>1 DEF OpenCount, OpenDone
  <2>2. CASE ~ node[p].stranded
    <3>1. fds' = fds \union {nd} /\ lost' = lost
      BY <1>4, <2>2 DEF OpenCount, OpenDone
    <3>2. /\ IsFiniteSet(fds \union {nd})
          /\ Cardinality(fds \union {nd}) = Cardinality(fds) + 1
      BY <1>2, <1>4a, FS_AddElement
    <3> QED BY <1>2, <3>1, <3>2
  <2> QED BY <2>1, <2>2
<1>7. CountExact'
  <2>1. op_counter' = op_counter + (Cardinality(fds') - Cardinality(fds))
          + In("idle", Closing) - In(pc[p], Closing) + (lost' - lost)
    BY <1>1, <1>2, <1>5, <1>6
  <2>2. Cardinality(fds) \in Int /\ Cardinality(fds') \in Int /\ lost' \in Int
    BY <1>2, <1>6
  <2> QED BY <1>1, <1>2, <1>5, <2>1, <2>2, CountKept
<1>8. OvershootBounded'
  <2>1. op_counter' + In("idle", Window) <= op_counter + In(pc[p], Window)
        /\ op_counter' \in Int
    BY <1>1, <1>2, <1>5
  <2> QED BY <1>1, <1>2, <1>5, <2>1, OvershootKept
<1>9. NodesInv'
  <2>1. Nodes' = Nodes /\ "idle" \notin Opening
    BY DEF Nodes, Slots, Opening
  <2>2. pc'[p] = "idle" /\ \A q \in Procs : q # p =>
          pc'[q] = pc[q] /\ node'[q] = node[q] /\ FdsOf(q)' \subseteq FdsOf(q)
    BY <1>2, <1>4a, <1>5, <1>6 DEF TypeOK, Goto, FdsOf
  <2> QED BY <1>2, <1>6, <2>1, <2>2 DEF NodesInv
<1>10. TypeOK'
  <2>1. pc' \in [Procs -> ProcState] /\ node' \in [Procs -> Nodes \union {NoNode}]
    BY <1>2, <1>5 DEF TypeOK, Goto, ProcState
  <2>2. op_counter' \in Nat /\ fds' \in SUBSET Nodes
    BY <1>2, <1>4a, <1>5, <1>6 DEF TypeOK
  <2> QED BY <1>2, <1>5, <1>6, <1>8, <2>1, <2>2, Retyped DEF TypeOK
<1> QED BY <1>7, <1>8, <1>9, <1>10 DEF IInv, CountInv

LEMMA CloseFindStep ==
  ASSUME IInv, NEW p \in Procs, NEW index \in 1 .. MaxIndex, CloseFind(p, index)
  PROVE  IInv'
<1>1. CASE Fault(p)
  BY <1>1, FaultStep
<1>2. ASSUME NEW f \in FdsOf(p), fds' = fds \ {f}, dangling' \in SUBSET Procs,
             node' = [node EXCEPT ![p] = f], Goto(p, "free"), pc[p] = "idle",
             UNCHANGED <<op_counter, op_ftable, heap, faulted, lost>>
      PROVE  IInv'
  <2>1. "free" \in ProcState /\ "free" \notin Opening
        /\ In("free", Closing) = 1 /\ In(pc[p], Closing) = 0
        /\ In("free", Window) = 0 /\ In(pc[p], Window) = 0
    BY <1>2 DEF In, ProcState, Opening, Closing, Window
  <2>2. TypeOK /\ NodesInv /\ CountExact /\ OvershootBounded /\ op_counter \in Nat
        /\ lost \in Nat /\ IsFiniteSet(fds) /\ Cardinality(fds) \in Nat
    BY Basics
  <2>3. f \in fds /\ f \in Nodes /\ f.proc = p
    BY <2>2 DEF FdsOf, TypeOK
  <2>4. Cardinality(fds') = Cardinality(fds) - 1 /\ Cardinality(fds') \in Nat
    <3>1. /\ IsFiniteSet(fds \ {f})
          /\ Cardinality(fds \ {f}) = Cardinality(fds) - 1
      BY <2>2, <2>3, FS_RemoveElement
    <3> QED BY <1>2, <3>1, FS_CardinalityType
  <2>5. CountExact'
    <3>1. op_counter' = op_counter + (Cardinality(fds') - Cardinality(fds))
            + In("free", Closing) - In(pc[p], Closing) + (lost' - lost)
      BY <1>2, <2>1, <2>2, <2>4
    <3>2. Cardinality(fds) \in Int /\ Cardinality(fds') \in Int /\ lost' \in Int
      BY <1>2, <2>2, <2>4
    <3> QED BY <1>2, <2>1, <2>2, <3>1, <3>2, CountKept
  <2>6. OvershootBounded'
    <3>1. op_counter' + In("free", Window) <= op_counter + In(pc[p], Window)
          /\ op_counter' \in Int
      BY <1>2, <2>1, <2>2
    <3> QED BY <1>2, <2>1, <2>2, <3>1, OvershootKept
  <2>7. NodesInv'
    BY <1>2, <2>1, <2>2, <2>3, NodesKept
  <2>8. TypeOK'
    <3>1. pc' \in [Procs -> ProcState] /\ node' \in [Procs -> Nodes \union {NoNode}]
      BY <1>2, <2>1, <2>2, <2>3 DEF TypeOK, Goto, ProcState
    <3> QED BY <1>2, <2>2, <2>6, <3>1, Retyped DEF TypeOK
  <2> QED BY <2>5, <2>6, <2>7, <2>8 DEF IInv, CountInv
<1>3. dangling \in SUBSET Procs
  BY Basics DEF TypeOK
<1> QED BY <1>1, <1>2, <1>3 DEF CloseFind

LEMMA CloseUncountStep ==
  ASSUME IInv, NEW p \in Procs, CloseUncount(p)
  PROVE  IInv'
<1>1. "idle" \in ProcState /\ "idle" \notin Opening /\ pc[p] \in Closing
      /\ In("idle", Closing) = 0 /\ In(pc[p], Closing) = 1
      /\ In("idle", Window) = 0 /\ In(pc[p], Window) = 0
  BY DEF CloseUncount, In, ProcState, Opening, Closing, Window
<1>2. TypeOK /\ NodesInv /\ CountExact /\ OvershootBounded /\ op_counter \in Nat
      /\ lost \in Nat /\ Cardinality(fds) \in Nat
  BY Basics
<1>3. Goto(p, "idle") /\ op_counter' = op_counter - 1 /\ op_counter' \in Nat
      /\ node' = [node EXCEPT ![p] = NoNode]
      /\ UNCHANGED <<op_ftable, fds, dangling, heap, faulted, lost>>
  <2>1. op_counter - 1 \in Nat /\ op_counter - 1 < USHORT /\ USHORT \in Nat
    BY <1>1, Basics, ClosingIsCounted
  <2>2. op_counter' = op_counter - 1 /\ op_counter' \in Nat
    BY <2>1, NoWrap DEF CloseUncount
  <2> QED BY <2>2 DEF CloseUncount, Done
<1>4. CountExact'
  <2>1. op_counter' = op_counter + (Cardinality(fds') - Cardinality(fds))
          + In("idle", Closing) - In(pc[p], Closing) + (lost' - lost)
    BY <1>1, <1>2, <1>3
  <2>2. Cardinality(fds) \in Int /\ Cardinality(fds') \in Int /\ lost' \in Int
    BY <1>2, <1>3
  <2> QED BY <1>1, <1>2, <1>3, <2>1, <2>2, CountKept
<1>5. OvershootBounded'
  <2>1. op_counter' + In("idle", Window) <= op_counter + In(pc[p], Window)
        /\ op_counter' \in Int
    BY <1>1, <1>2, <1>3
  <2> QED BY <1>1, <1>2, <1>3, <2>1, OvershootKept
<1>6. NodesInv'
  BY <1>1, <1>2, <1>3, NodesKept
<1>7. TypeOK'
  <2>1. pc' \in [Procs -> ProcState] /\ node' \in [Procs -> Nodes \union {NoNode}]
    BY <1>1, <1>2, <1>3 DEF TypeOK, Goto, ProcState
  <2> QED BY <1>2, <1>3, <1>5, <2>1, Retyped DEF TypeOK
<1> QED BY <1>4, <1>5, <1>6, <1>7 DEF IInv, CountInv

LEMMA RemountStep ==
  ASSUME IInv, Remount
  PROVE  IInv'
<1>1. TypeOK /\ OP_LIMIT \in Nat \ {0} /\ Cardinality(Procs) \in Nat
  BY Basics
<1>2. /\ op_counter' = 0 /\ lost' = 0 /\ fds' = {} /\ pc' = pc
      /\ op_ftable' = [s \in Slots |-> ZeroEntry]
      /\ UNCHANGED <<dangling, heap, node, faulted>>
      /\ \A q \in Procs : pc[q] = "idle"
  BY DEF Remount
<1>3. InFlight(Closing)' = {} /\ InFlight({"fill", "point", "count", "add"})' = {}
  BY <1>2 DEF InFlight, Closing
<1>4. Cardinality({}) = 0 /\ IsFiniteSet({})
  BY FS_EmptySet
<1>5. CountExact'
  BY <1>2, <1>3, <1>4 DEF CountExact
<1>6. OvershootBounded'
  <2>1. 0 + 0 <= OP_LIMIT + Cardinality(Procs) - 1
    BY <1>1
  <2> QED BY <1>2, <1>3, <1>4, <2>1 DEF OvershootBounded
<1>7. NodesInv'
  BY <1>2, <1>4 DEF NodesInv, Opening
<1>8. TypeOK'
  <2>1. 0 \in Addrs
    BY <1>1 DEF Addrs
  <2>2. op_ftable' \in [Slots -> [inode_nr : Inodes \union {NULL},
                                  ptr_counter : 0 .. 1,
                                  owner : Procs \union {NULL}, addr : Addrs]]
    BY <1>2, <2>1 DEF ZeroEntry
  <2>3. pc' \in [Procs -> ProcState] /\ node' \in [Procs -> Nodes \union {NoNode}]
    BY <1>1, <1>2 DEF TypeOK, ProcState
  <2> QED BY <1>1, <1>2, <1>6, <2>2, <2>3, Retyped DEF TypeOK
<1> QED BY <1>5, <1>6, <1>7, <1>8 DEF IInv, CountInv

LEMMA StutterStep ==
  ASSUME IInv, UNCHANGED vars
  PROVE  IInv'
BY DEF vars, IInv, CountInv, TypeOK, NodesInv, CountExact, OvershootBounded,
       InFlight, FdsOf, Nodes, Slots, Addrs, NoNode, Opening, Closing

\* With AtomicCount no call is between a load and a store of the counter.
Unsplit == \A p \in Procs : pc[p] \notin {"add", "sub"}

LEMMA UnsplitStep ==
  ASSUME AtomicCount, TypeOK, Unsplit, [Next]_vars
  PROVE  Unsplit'
<1>1. ASSUME NEW p \in Procs, NEW l \in ProcState \ {"add", "sub"}, Goto(p, l)
      PROVE  Unsplit'
  BY <1>1 DEF Unsplit, TypeOK, Goto
<1>2. {"idle", "check", "fill", "point", "count", "free", "drop", "move", "uncount"}
        = ProcState \ {"add", "sub"}
  BY DEF ProcState, Opening, Closing
<1>3. ASSUME NEW p \in Procs, Open(p)
      PROVE  \E l \in ProcState \ {"add", "sub"} : Goto(p, l)
  BY <1>2, <1>3 DEF Unsplit, Open, OpenAppend, OpenNotFound, OpenCheck, OpenFill,
     OpenPoint, OpenCount, OpenLoad, OpenStore, OpenDone, FailOpen, Fault, Die, Done
<1>4. ASSUME NEW p \in Procs, Close(p)
      PROVE  \E l \in ProcState \ {"add", "sub"} : Goto(p, l)
  BY <1>2, <1>4 DEF Unsplit, Close, CloseFind, CloseFree, CloseDrop, CloseMove,
     CloseUncount, CloseLoad, CloseStore, Fault, Die, Done
<1>5. ASSUME NEW p \in Procs, Killed(p)
      PROVE  \E l \in ProcState \ {"add", "sub"} : Goto(p, l)
  BY <1>2, <1>5 DEF Killed, Die, Done
<1>6. CASE UNCHANGED pc
  BY <1>6 DEF Unsplit
<1> QED BY <1>1, <1>3, <1>4, <1>5, <1>6 DEF Next, Remount, vars

THEOREM NextInv ==
  ASSUME AtomicCount
  PROVE  IInv /\ Unsplit /\ [Next]_vars => IInv' /\ Unsplit'
<1> SUFFICES ASSUME IInv, Unsplit, [Next]_vars PROVE IInv'
  BY UnsplitStep DEF IInv
<1>1. CASE UNCHANGED vars
  BY <1>1, StutterStep
<1>2. CASE Remount
  BY <1>2, RemountStep
<1>3. ASSUME NEW p \in Procs, Open(p)
      PROVE  IInv'
  BY <1>3, OpenAppendStep, OpenNotFoundStep, OpenCheckStep, OpenFillStep,
     OpenPointStep, OpenCountStep DEF Open, OpenLoad, OpenStore, Unsplit
<1>4. ASSUME NEW p \in Procs, Close(p)
      PROVE  IInv'
  BY <1>4, CloseFindStep, CloseFreeStep, CloseDropStep, CloseMoveStep,
     CloseUncountStep DEF Close, CloseLoad, CloseStore, Unsplit
<1>5. ASSUME NEW p \in Procs, Killed(p)
      PROVE  IInv'
  BY <1>5, DieStep DEF Killed, IInv, TypeOK
<1> QED BY <1>1, <1>2, <1>3, <1>4, <1>5 DEF Next

----------------------------------------------------------------------------
(* The theorems *)

\* The inductive invariant holds in every behaviour of the table, if the
\* counter is updated in one step.
THEOREM Invariance ==
  ASSUME AtomicCount
  PROVE  Spec => []IInv
<1>1. Init => IInv /\ Unsplit
  BY InitInv DEF Init, Unsplit
<1>2. IInv /\ Unsplit /\ [Next]_vars => IInv' /\ Unsplit'
  BY NextInv
<1> QED BY <1>1, <1>2, PTL DEF Spec

\* Types: in particular op_counter always names a slot of the mapped table or
\* the one past the last entry vsfs_open may fill, however many processes race
\* through the limit test.
THEOREM TypeCorrect ==
  ASSUME AtomicCount
  PROVE  Spec => []TypeOK
<1>1. IInv => TypeOK
  BY DEF IInv
<1> QED BY <1>1, Invariance, PTL

\* The counter that vsfs_open raises and vsfs_close lowers without a lock is
\* exactly the entries in use, closing or lost.
THEOREM CountIsExact ==
  ASSUME AtomicCount
  PROVE  Spec => []CountExact
<1>1. IInv => CountExact
  BY DEF IInv, CountInv
<1> QED BY <1>1, Invariance, PTL

\* The check of OP_LIMIT and the later count may be overtaken by other
\* processes, but only by one entry for each of them.
THEOREM OvershootIsBounded ==
  ASSUME AtomicCount
  PROVE  Spec => []OvershootBounded
<1>1. IInv => OvershootBounded
  BY DEF IInv, CountInv
<1> QED BY <1>1, Invariance, PTL

----------------------------------------------------------------------------
(* One orderly process alone (VsfsOpTableModesMC) *)

Entry == [inode_nr : Inodes \union {NULL}, ptr_counter : Nat,
          owner : Procs \union {NULL}, addr : Nat]
Call == [proc : Procs, index : Nat, inode : Inodes, slot : Nat,
         stranded : BOOLEAN, count : Nat]

\* The types of a process alone; its slots are 0 .. OP_LIMIT.
AloneTyped ==
  /\ op_ftable \in [DOMAIN op_ftable -> Entry] /\ 0 .. OP_LIMIT \subseteq DOMAIN op_ftable
  /\ heap \in [Procs -> SUBSET Nat]
  /\ pc \in [Procs -> {"idle"} \union Opening \union Closing]
  /\ node \in [Procs -> Call \union {NoNode}]
  /\ fds \in SUBSET Call
  /\ op_counter \in 0 .. OP_LIMIT + 1

\* Entry s is f's: filled for its file, referred to once, with a file_t of its
\* process that is not freed.
Filled(s, f) ==
  /\ op_ftable[s].inode_nr = f.inode /\ op_ftable[s].ptr_counter = 1
  /\ op_ftable[s].owner = f.proc /\ op_ftable[s].addr \in heap[f.proc]

Apart(s) == \A f \in fds : op_ftable[f.slot].addr # op_ftable[s].addr

\* The descriptors of p are numbered 1 .. n, and descriptor i has the entry
\* base + i - 1, above those that failed opens have left behind.
Stacked(p, base, n) ==
  /\ \A f \in fds : /\ f.proc = p /\ f.index \in 1 .. n
                    /\ f.slot = base + f.index - 1
                    /\ Filled(f.slot, f)
  /\ \A f, g \in fds : f # g =>
       f.index # g.index /\ op_ftable[f.slot].addr # op_ftable[g.slot].addr
  /\ \A i \in 1 .. n : \E f \in fds : f.index = i

OpeningSound(p, base) ==
  pc[p] \in Opening =>
    /\ node[p] \in Call /\ node[p].proc = p /\ ~ node[p].stranded
    /\ node[p].index = op_counter - base + 1
    /\ pc[p] # "check" => op_counter <= OP_LIMIT
    /\ pc[p] \in {"point", "count", "add"} => Filled(op_counter, node[p]) /\ Apart(op_counter)
    /\ pc[p] \in {"count", "add"} => node[p].slot = op_counter
    /\ pc[p] = "add" => node[p].count = op_counter

\* The newest descriptor is closed, so its entry is the last one.
ClosingSound(p, base) ==
  pc[p] \in Closing =>
    /\ node[p] \in Call /\ node[p].proc = p
    /\ node[p].slot = op_counter - 1 /\ base < op_counter
    /\ pc[p] = "free" => Filled(op_counter - 1, node[p]) /\ Apart(op_counter - 1)
    /\ pc[p] = "drop" => op_ftable[op_counter - 1].ptr_counter = 1
    /\ pc[p] = "move" => op_ftable[op_counter - 1].ptr_counter = 0
    /\ pc[p] = "sub" => node[p].count = op_counter

AloneAt(p, base) ==
  /\ base <= op_counter
  /\ Stacked(p, base, op_counter - base - (IF pc[p] \in Closing THEN 1 ELSE 0))
  /\ OpeningSound(p, base) /\ ClosingSound(p, base)

AloneInv ==
  alone # NULL =>
    AloneTyped /\ faulted = {} /\ \E base \in Nat : AloneAt(alone, base)

LEMMA AloneBasics ==
  ASSUME AloneTyped, NEW p \in Procs
  PROVE  /\ op_counter \in Nat /\ OP_LIMIT \in Nat /\ op_counter <= OP_LIMIT + 1
         /\ USHORT \in Nat /\ OP_LIMIT + 1 < USHORT
         /\ p # NULL
<1>1. Cardinality(Procs) \in Nat /\ Cardinality(Procs) # 0
  <2>1. IsFiniteSet(Procs)
    BY OpTableAssumption DEF OpTableAssumption
  <2> QED BY <2>1, FS_CardinalityType, FS_EmptySet
<1> QED BY <1>1, OpTableAssumption DEF OpTableAssumption, AloneTyped

LEMMA AloneSlots ==
  ASSUME NEW p \in Procs
  PROVE  Orderly(p)!Slots = 0 .. OP_LIMIT + 1
<1>1. Orderly(p)!Cardinality({p}) = Cardinality({p})
  BY DEF Orderly!Cardinality, Cardinality
<1>2. Cardinality({p}) = 1 /\ OP_LIMIT \in Nat
  BY FS_Singleton, OpTableAssumption DEF OpTableAssumption
<1> QED BY <1>1, <1>2 DEF Orderly!Slots

\* The calls' steps that leave the counter, the descriptors, the table and the
\* heap alone.
LEMMA AloneGoto ==
  ASSUME AloneTyped, NEW p \in Procs, NEW base \in Nat, AloneAt(p, base),
         NEW l \in ProcState, pc' = [pc EXCEPT ![p] = l],
         NEW nd \in Call \union {NoNode}, node' = [node EXCEPT ![p] = nd],
         UNCHANGED <<op_counter, fds, op_ftable, heap>>,
         l \in Closing <=> pc[p] \in Closing,
         OpeningSound(p, base)', ClosingSound(p, base)'
  PROVE  AloneTyped' /\ AloneAt(p, base)'
<1>1. pc'[p] = l /\ pc[p] \in ProcState
  BY DEF AloneTyped, ProcState
<1>2. AloneTyped'
  BY DEF AloneTyped, ProcState, Opening, Closing, Call, NoNode, Entry
<1>3. Stacked(p, base, op_counter - base - (IF pc[p] \in Closing THEN 1 ELSE 0))'
  BY <1>1 DEF AloneAt, Stacked, Filled, Closing
<1> QED BY <1>2, <1>3 DEF AloneAt

LEMMA AloneOpenAppend ==
  ASSUME AloneTyped, NEW p \in Procs, NEW base \in Nat, AloneAt(p, base),
         NEW n \in Inodes, Orderly(p)!OpenAppend(p, n)
  PROVE  faulted' = faulted /\ AloneTyped' /\ AloneAt(p, base)'
<1>1. /\ op_counter \in Nat /\ OP_LIMIT \in Nat /\ op_counter <= OP_LIMIT + 1
      /\ base <= op_counter
  BY AloneBasics DEF AloneAt
<1>2. PICK k \in 1 .. MaxIndex :
        /\ Orderly(p)!IsNextIndex(p, k)
        /\ pc' = [pc EXCEPT ![p] = "check"]
        /\ node' = [node EXCEPT ![p] =
             [proc |-> p, index |-> k, inode |-> n, slot |-> 0,
              stranded |-> p \in dangling, count |-> 0]]
        /\ UNCHANGED <<op_counter, op_ftable, fds, dangling, heap, faulted, lost>>
        /\ pc[p] = "idle" /\ p \notin dangling
  <2>1. p \notin dangling
    BY DEF Orderly!OpenAppend
  <2> QED BY <2>1 DEF Orderly!OpenAppend, Orderly!Goto
<1>3. Stacked(p, base, op_counter - base)
  BY <1>1, <1>2 DEF AloneAt, Closing
<1>4. k = op_counter - base + 1
  <2>1. \A f \in fds : f.proc = p
    BY <1>3 DEF Stacked
  <2>2. Orderly(p)!FdsOf(p) = fds
    BY <2>1 DEF Orderly!FdsOf
  <2>3. CASE fds = {}
    <3>1. k = 1
      BY <1>2, <2>2, <2>3 DEF Orderly!IsNextIndex
    <3>2. op_counter - base < 1
      BY <1>1, <1>3, <2>3 DEF Stacked
    <3> QED BY <1>1, <3>1, <3>2
  <2>4. CASE fds # {}
    <3>1. PICK f \in fds : (\A g \in fds : f.index >= g.index) /\ k = f.index + 1
      BY <1>2, <2>1, <2>2, <2>4 DEF Orderly!IsNextIndex, Orderly!IsTail
    <3>2. f.index \in 1 .. op_counter - base
      BY <1>3 DEF Stacked
    <3>3. PICK g \in fds : g.index = op_counter - base
      BY <1>1, <1>3, <3>2 DEF Stacked
    <3> QED BY <1>1, <3>1, <3>2, <3>3
  <2> QED BY <2>3, <2>4
<1> DEFINE nd == [proc |-> p, index |-> k, inode |-> n, slot |-> 0,
                  stranded |-> p \in dangling, count |-> 0]
<1>5. nd \in Call /\ nd.proc = p /\ ~ nd.stranded /\ nd.index = k
  <2>1. nd \in Call /\ nd.proc = p /\ nd.index = k
    BY (p \in dangling) \in BOOLEAN DEF Call
  <2>2. ~ nd.stranded
    BY <1>2
  <2> QED BY <2>1, <2>2
<1>6. node' = [node EXCEPT ![p] = nd]
  BY <1>2
<1> HIDE DEF nd
<1>7. pc'[p] = "check" /\ node'[p] = nd
  BY <1>2, <1>6 DEF AloneTyped
<1>8. OpeningSound(p, base)'
  BY <1>1, <1>2, <1>4, <1>5, <1>7 DEF OpeningSound, Call
<1>9. ClosingSound(p, base)'
  BY <1>7 DEF ClosingSound, Closing
<1>10. "check" \in ProcState /\ "check" \notin Closing /\ pc[p] \notin Closing
  BY <1>2 DEF ProcState, Opening, Closing
<1> QED BY <1>2, <1>5, <1>6, <1>8, <1>9, <1>10, AloneGoto

\* A failed open leaves its descriptors' entries behind.
LEMMA AloneFailOpen ==
  ASSUME AloneTyped, NEW p \in Procs, NEW base \in Nat, AloneAt(p, base),
         Orderly(p)!FailOpen(p), pc[p] \notin Closing
  PROVE  faulted' = faulted /\ AloneTyped' /\ \E b \in Nat : AloneAt(p, b)'
<1>1. op_counter \in Nat
  BY AloneBasics
<1>2. /\ fds' = fds \ Orderly(p)!FdsOf(p)
      /\ pc' = [pc EXCEPT ![p] = "idle"] /\ node' = [node EXCEPT ![p] = Orderly(p)!NoNode]
      /\ UNCHANGED <<op_counter, op_ftable, heap, faulted>>
  BY DEF Orderly!FailOpen, Orderly!Done, Orderly!Goto
<1>3. fds' = {}
  <2>1. \A f \in fds : f.proc = p
    BY DEF AloneAt, Stacked
  <2> QED BY <1>2, <2>1 DEF Orderly!FdsOf
<1>4. pc'[p] = "idle"
  BY <1>2 DEF AloneTyped
<1>5. Orderly(p)!NoNode = NoNode
  BY DEF Orderly!NoNode, NoNode
<1>6. AloneTyped'
  BY <1>2, <1>3, <1>5 DEF AloneTyped, Call, NoNode, Entry
<1>7. PICK b \in Nat : b = op_counter
  BY <1>1
<1>8. Stacked(p, b, 0)'
  BY <1>3 DEF Stacked
<1>9. OpeningSound(p, b)' /\ ClosingSound(p, b)'
  BY <1>4 DEF OpeningSound, ClosingSound, Opening, Closing
<1>10. "idle" \notin Closing /\ op_counter' = b /\ b - b - 0 = 0 /\ b <= b
  BY <1>2, <1>7 DEF Closing
<1>11. AloneAt(p, b)'
  BY <1>4, <1>8, <1>9, <1>10 DEF AloneAt
<1> QED BY <1>2, <1>6, <1>11

LEMMA AloneOpenCheck ==
  ASSUME AloneTyped, NEW p \in Procs, NEW base \in Nat, AloneAt(p, base),
         Orderly(p)!OpenCheck(p)
  PROVE  faulted' = faulted /\ AloneTyped' /\ \E b \in Nat : AloneAt(p, b)'
<1>1. op_counter \in Nat /\ OP_LIMIT \in Nat
  BY AloneBasics
<1>2. CASE Orderly(p)!FailOpen(p)
  <2>1. pc[p] \notin Closing
    BY DEF Orderly!OpenCheck, Closing
  <2> QED BY <1>1, <1>2, <2>1, AloneFailOpen
<1>3. CASE ~ Orderly(p)!FailOpen(p)
  <2>1. /\ pc[p] = "check" /\ op_counter < OP_LIMIT + 1
        /\ pc' = [pc EXCEPT ![p] = "fill"]
        /\ UNCHANGED <<op_counter, op_ftable, fds, dangling, heap, node, faulted, lost>>
    BY <1>3 DEF Orderly!OpenCheck, Orderly!Goto
  <2>2. /\ pc'[p] = "fill" /\ node' = [node EXCEPT ![p] = node[p]]
        /\ node[p] \in Call \union {NoNode}
    BY <2>1 DEF AloneTyped
  <2>3. OpeningSound(p, base)
    BY DEF AloneAt
  <2>4. OpeningSound(p, base)'
    BY <1>1, <2>1, <2>2, <2>3 DEF OpeningSound, Opening, Call
  <2>5. ClosingSound(p, base)'
    BY <2>2 DEF ClosingSound, Closing
  <2>6. "fill" \in ProcState /\ "fill" \notin Closing /\ pc[p] \notin Closing
    BY <2>1 DEF ProcState, Opening, Closing
  <2> QED BY <2>1, <2>2, <2>4, <2>5, <2>6, AloneGoto
<1> QED BY <1>2, <1>3

LEMMA AloneOpenFill ==
  ASSUME AloneTyped, NEW p \in Procs, NEW base \in Nat, AloneAt(p, base),
         Orderly(p)!OpenFill(p)
  PROVE  faulted' = faulted /\ AloneTyped' /\ AloneAt(p, base)'
<1>1. op_counter \in Nat /\ OP_LIMIT \in Nat /\ base <= op_counter
  BY AloneBasics DEF AloneAt
<1>2. PICK a \in Nat :
        /\ a \notin heap[p] \intersect Orderly(p)!InUse(p)
        /\ op_ftable' = [op_ftable EXCEPT ![op_counter] =
             [inode_nr |-> node[p].inode, ptr_counter |-> 1, owner |-> p, addr |-> a]]
        /\ heap' = [heap EXCEPT ![p] = (@ \intersect Orderly(p)!InUse(p)) \union {a}]
  <2>1. \A a \in Orderly(p)!Addrs : a \in Nat
    BY DEF Orderly!Addrs
  <2> QED BY <2>1 DEF Orderly!OpenFill
<1>3. /\ pc[p] = "fill" /\ pc' = [pc EXCEPT ![p] = "point"]
      /\ UNCHANGED <<op_counter, fds, node, faulted>>
  BY DEF Orderly!OpenFill, Orderly!Goto
<1>4. /\ node[p] \in Call /\ node[p].proc = p /\ ~ node[p].stranded
      /\ node[p].index = op_counter - base + 1 /\ op_counter <= OP_LIMIT
      /\ Stacked(p, base, op_counter - base)
  BY <1>1, <1>3 DEF AloneAt, OpeningSound, Opening, Closing
<1>5. /\ op_counter \in DOMAIN op_ftable
      /\ op_ftable'[op_counter] = [inode_nr |-> node[p].inode, ptr_counter |-> 1,
                                   owner |-> p, addr |-> a]
      /\ \A s : s \in DOMAIN op_ftable /\ s # op_counter => op_ftable'[s] = op_ftable[s]
      /\ heap'[p] = (heap[p] \intersect Orderly(p)!InUse(p)) \union {a}
  BY <1>1, <1>2, <1>4 DEF AloneTyped
<1>6. \A f \in fds : /\ op_ftable'[f.slot] = op_ftable[f.slot]
                     /\ op_ftable[f.slot].addr \in heap[p] \intersect Orderly(p)!InUse(p)
  <2>1. SUFFICES ASSUME NEW f \in fds
                 PROVE  /\ op_ftable'[f.slot] = op_ftable[f.slot]
                        /\ op_ftable[f.slot].addr
                             \in heap[p] \intersect Orderly(p)!InUse(p)
    OBVIOUS
  <2>2. f.index \in 1 .. op_counter - base /\ f.slot = base + f.index - 1
        /\ Filled(f.slot, f) /\ f.proc = p
    BY <1>4 DEF Stacked
  <2>3. f.slot \in 0 .. OP_LIMIT /\ f.slot # op_counter
    BY <1>1, <1>4, <2>2
  <2>4. f.slot \in Orderly(p)!Slots
    BY <1>1, <2>3, AloneSlots
  <2>5. op_ftable[f.slot].addr \in heap[p] /\ op_ftable[f.slot].owner = p
    BY <2>2 DEF Filled
  <2> QED BY <1>5, <2>3, <2>4, <2>5 DEF AloneTyped, Orderly!InUse
<1>7. AloneTyped'
  <2>1. [inode_nr |-> node[p].inode, ptr_counter |-> 1, owner |-> p, addr |-> a] \in Entry
    BY <1>4 DEF Entry, Call
  <2>2. op_ftable' \in [DOMAIN op_ftable -> Entry]
    BY <1>2, <2>1 DEF AloneTyped
  <2>3. DOMAIN op_ftable' = DOMAIN op_ftable
    BY <2>2
  <2>4. heap' \in [Procs -> SUBSET Nat]
    BY <1>2 DEF AloneTyped
  <2>5. pc' \in [Procs -> {"idle"} \union Opening \union Closing]
    BY <1>3 DEF AloneTyped, Opening
  <2> QED BY <1>3, <2>2, <2>3, <2>4, <2>5 DEF AloneTyped, Entry, Call, NoNode, Opening, Closing
<1>8. pc'[p] = "point"
  BY <1>3 DEF AloneTyped
<1>9. Stacked(p, base, op_counter - base)'
  BY <1>3, <1>4, <1>5, <1>6 DEF Stacked, Filled
<1>10. OpeningSound(p, base)'
  <2>1. Filled(op_counter, node[p])'
    BY <1>3, <1>4, <1>5 DEF Filled
  <2>2. Apart(op_counter)'
    BY <1>2, <1>3, <1>5, <1>6 DEF Apart
  <2> QED BY <1>3, <1>4, <1>8, <2>1, <2>2 DEF OpeningSound, Call
<1>11. ClosingSound(p, base)'
  BY <1>8 DEF ClosingSound, Closing
<1>12. pc'[p] \notin Closing /\ op_counter' - base - 0 = op_counter - base
  BY <1>1, <1>3, <1>8 DEF Closing
<1> QED BY <1>1, <1>3, <1>7, <1>9, <1>10, <1>11, <1>12 DEF AloneAt

LEMMA AloneOpenPoint ==
  ASSUME AloneTyped, NEW p \in Procs, NEW base \in Nat, AloneAt(p, base),
         \/ Orderly(p)!OpenPoint(p) \/ Orderly(p)!OpenLoad(p)
  PROVE  faulted' = faulted /\ AloneTyped' /\ AloneAt(p, base)'
<1>1. op_counter \in Nat /\ OP_LIMIT \in Nat /\ base <= op_counter
  BY AloneBasics DEF AloneAt
<1>2. /\ pc[p] \in {"point", "count"}
      /\ UNCHANGED <<op_counter, op_ftable, fds, heap, faulted>>
      /\ IF pc[p] = "point"
           THEN /\ pc' = [pc EXCEPT ![p] = "count"]
                /\ node' = [node EXCEPT ![p] = [node[p] EXCEPT !.slot = op_counter]]
           ELSE /\ pc' = [pc EXCEPT ![p] = "add"]
                /\ node' = [node EXCEPT ![p] = [node[p] EXCEPT !.count = op_counter]]
  BY DEF Orderly!OpenPoint, Orderly!OpenLoad, Orderly!LoadCounter, Orderly!Goto,
     AloneTyped
<1>3. OpeningSound(p, base) /\ node[p] \in Call
  BY <1>2 DEF AloneAt, OpeningSound, Opening
<1>4. PICK nd : nd = IF pc[p] = "point" THEN [node[p] EXCEPT !.slot = op_counter]
                     ELSE [node[p] EXCEPT !.count = op_counter]
  OBVIOUS
<1>5. /\ nd \in Call /\ nd.proc = node[p].proc /\ nd.index = node[p].index
      /\ nd.inode = node[p].inode /\ nd.stranded = node[p].stranded
      /\ nd.slot = IF pc[p] = "point" THEN op_counter ELSE node[p].slot
      /\ nd.count = IF pc[p] = "point" THEN node[p].count ELSE op_counter
  BY <1>1, <1>3, <1>4 DEF Call
<1>6. PICK l : l = IF pc[p] = "point" THEN "count" ELSE "add"
  OBVIOUS
<1>7. /\ pc' = [pc EXCEPT ![p] = l] /\ node' = [node EXCEPT ![p] = nd]
      /\ pc'[p] = l /\ node'[p] = nd
  BY <1>2, <1>4, <1>6 DEF AloneTyped
<1>8. OpeningSound(p, base)'
  BY <1>2, <1>3, <1>5, <1>6, <1>7 DEF OpeningSound, Opening, Filled, Apart, Call
<1>9. ClosingSound(p, base)'
  BY <1>6, <1>7 DEF ClosingSound, Closing
<1>10. l \in ProcState /\ l \notin Closing /\ pc[p] \notin Closing
  BY <1>2, <1>6 DEF ProcState, Opening, Closing
<1> QED BY <1>2, <1>5, <1>7, <1>8, <1>9, <1>10, AloneGoto

\* The counter moves up and the descriptor is on top of the others.
LEMMA AloneOpenDone ==
  ASSUME AloneTyped, NEW p \in Procs, NEW base \in Nat, AloneAt(p, base),
         Orderly(p)!OpenCount(p) \/ Orderly(p)!OpenStore(p)
  PROVE  faulted' = faulted /\ AloneTyped' /\ AloneAt(p, base)'
<1>1. op_counter \in Nat /\ OP_LIMIT \in Nat /\ base <= op_counter
      /\ USHORT \in Nat /\ OP_LIMIT + 1 < USHORT
  BY AloneBasics DEF AloneAt
<1>2. /\ pc[p] = "add" /\ op_counter' = (node[p].count + 1) % USHORT
      /\ Orderly(p)!OpenDone(p)
  BY DEF Orderly!OpenCount, Orderly!OpenStore
<1>3. /\ node[p] \in Call /\ node[p].proc = p /\ ~ node[p].stranded
      /\ node[p].index = op_counter - base + 1 /\ op_counter <= OP_LIMIT
      /\ Filled(op_counter, node[p]) /\ Apart(op_counter)
      /\ node[p].slot = op_counter /\ node[p].count = op_counter
      /\ Stacked(p, base, op_counter - base)
  BY <1>1, <1>2 DEF AloneAt, OpeningSound, Opening, Closing
<1>4. op_counter' = op_counter + 1
  BY <1>1, <1>2, <1>3, NoWrap
<1>5. PICK nd : nd = [node[p] EXCEPT !.count = 0]
  OBVIOUS
<1>6. /\ nd \in Call /\ nd.proc = p /\ nd.index = op_counter - base + 1
      /\ nd.slot = op_counter /\ nd.inode = node[p].inode
  BY <1>3, <1>5 DEF Call
<1>7. /\ fds' = fds \union {nd}
      /\ pc' = [pc EXCEPT ![p] = "idle"] /\ node' = [node EXCEPT ![p] = NoNode]
      /\ UNCHANGED <<op_ftable, heap, faulted>>
  BY <1>2, <1>3, <1>5 DEF Orderly!OpenDone, Orderly!Done, Orderly!Goto, Orderly!NoNode,
     NoNode
<1>8. pc'[p] = "idle"
  BY <1>7 DEF AloneTyped
<1>9. AloneTyped'
  <2>1. op_counter' \in 0 .. OP_LIMIT + 1 /\ fds' \in SUBSET Call
    BY <1>1, <1>3, <1>4, <1>6, <1>7 DEF AloneTyped
  <2> QED BY <1>7, <2>1 DEF AloneTyped, Entry, Call, NoNode, Opening, Closing
<1>10. PICK n \in Nat : n = op_counter - base
  BY <1>1
<1>11. Stacked(p, base, n + 1)'
  <2>1. \A f \in fds' : /\ f.proc = p /\ f.index \in 1 .. n + 1
                        /\ f.slot = base + f.index - 1
                        /\ Filled(f.slot, f)'
    <3>1. \A f \in fds : /\ f.proc = p /\ f.index \in 1 .. n
                         /\ f.slot = base + f.index - 1 /\ Filled(f.slot, f)
      BY <1>3, <1>10 DEF Stacked
    <3>2. \A f \in fds : f.index \in 1 .. n + 1 /\ Filled(f.slot, f)'
      BY <1>7, <1>10, <3>1 DEF Filled
    <3>3. Filled(nd.slot, nd)'
      <4>1. Filled(nd.slot, node[p])
        BY <1>3, <1>6
      <4> QED BY <1>3, <1>6, <1>7, <4>1 DEF Filled
    <3>4. nd.index \in 1 .. n + 1 /\ nd.slot = base + nd.index - 1
      BY <1>1, <1>6, <1>10
    <3> QED BY <1>6, <1>7, <3>1, <3>2, <3>3, <3>4
  <2>2. \A f \in fds : /\ f.index # nd.index
                       /\ op_ftable[f.slot].addr # op_ftable[nd.slot].addr
    BY <1>1, <1>3, <1>6, <1>10 DEF Stacked, Apart
  <2>3. \A f, g \in fds' : f # g =>
          f.index # g.index /\ op_ftable'[f.slot].addr # op_ftable'[g.slot].addr
    <3>1. SUFFICES ASSUME NEW f \in fds', NEW g \in fds', f # g
                   PROVE  /\ f.index # g.index
                          /\ op_ftable[f.slot].addr # op_ftable[g.slot].addr
      BY <1>7
    <3>2. CASE f \in fds /\ g \in fds
      BY <1>3, <3>1, <3>2 DEF Stacked
    <3>3. CASE f = nd \/ g = nd
      BY <1>7, <2>2, <3>1, <3>3
    <3> QED BY <1>7, <3>2, <3>3
  <2>4. \A i \in 1 .. n + 1 : \E f \in fds' : f.index = i
    BY <1>1, <1>3, <1>6, <1>7, <1>10 DEF Stacked
  <2> QED BY <2>1, <2>3, <2>4 DEF Stacked
<1>12. OpeningSound(p, base)' /\ ClosingSound(p, base)'
  BY <1>8 DEF OpeningSound, ClosingSound, Opening, Closing
<1>13. pc'[p] \notin Closing /\ op_counter' - base - 0 = n + 1 /\ base <= op_counter'
  BY <1>1, <1>4, <1>8, <1>10 DEF Closing
<1> QED BY <1>7, <1>9, <1>11, <1>12, <1>13 DEF AloneAt

\* The newest descriptor is the tail: it is found, and it was the top.
LEMMA AloneCloseFind ==
  ASSUME AloneTyped, NEW p \in Procs, NEW base \in Nat, AloneAt(p, base),
         NEW index \in 1 .. MaxIndex, Orderly(p)!CloseFind(p, index)
  PROVE  faulted' = faulted /\ AloneTyped' /\ AloneAt(p, base)'
<1>1. op_counter \in Nat /\ OP_LIMIT \in Nat /\ base <= op_counter
  BY AloneBasics DEF AloneAt
<1>2. pc[p] = "idle"
  BY DEF Orderly!CloseFind
<1>3. Stacked(p, base, op_counter - base)
  BY <1>1, <1>2 DEF AloneAt, Closing
<1>4. Orderly(p)!FdsOf(p) = fds /\ \A f \in fds : f.proc = p
  BY <1>3 DEF Orderly!FdsOf, Stacked
<1>5. PICK t \in fds : (\A g \in fds : t.index >= g.index) /\ t.index = index
  BY <1>4 DEF Orderly!CloseFind, Orderly!IsTail
<1>6. Orderly(p)!IsTail(t)
  BY <1>4, <1>5 DEF Orderly!IsTail
<1>7. \E f \in fds :
        /\ f.index = index
        /\ fds' = fds \ {f} /\ node' = [node EXCEPT ![p] = f]
        /\ pc' = [pc EXCEPT ![p] = "free"]
        /\ UNCHANGED <<op_counter, op_ftable, heap, faulted, lost>>
  BY <1>4, <1>5, <1>6 DEF Orderly!CloseFind, Orderly!Goto
<1>8. \A f \in fds : f.index = index => f = t
  BY <1>3, <1>5 DEF Stacked
<1>9. /\ fds' = fds \ {t} /\ node' = [node EXCEPT ![p] = t]
      /\ pc' = [pc EXCEPT ![p] = "free"]
      /\ UNCHANGED <<op_counter, op_ftable, heap, faulted, lost>>
  BY <1>7, <1>8
<1>10. /\ t \in Call /\ t.proc = p /\ t.index \in 1 .. op_counter - base
       /\ t.slot = base + t.index - 1 /\ Filled(t.slot, t)
  BY <1>3 DEF Stacked, AloneTyped
<1>11. t.index = op_counter - base /\ t.slot = op_counter - 1 /\ base < op_counter
  <2>1. PICK g \in fds : g.index = op_counter - base
    BY <1>1, <1>3, <1>10 DEF Stacked
  <2> QED BY <1>1, <1>5, <1>10, <2>1
<1>12. /\ pc'[p] = "free" /\ node'[p] = t
  BY <1>9 DEF AloneTyped
<1>13. AloneTyped'
  BY <1>9, <1>10 DEF AloneTyped, Entry, Call, NoNode, Opening, Closing
<1>14. PICK n \in Nat : n = op_counter - base - 1
  BY <1>1, <1>11
<1>15. Stacked(p, base, n)'
  <2>1. \A f \in fds' : f \in fds /\ f # t
    BY <1>9
  <2>2. \A f \in fds' : /\ f.proc = p /\ f.index \in 1 .. n /\ f.slot = base + f.index - 1
                        /\ Filled(f.slot, f)'
    <3>1. SUFFICES ASSUME NEW f \in fds'
                   PROVE  /\ f.proc = p /\ f.index \in 1 .. n
                          /\ f.slot = base + f.index - 1 /\ Filled(f.slot, f)
      BY <1>9 DEF Filled
    <3>2. f.proc = p /\ f.index \in 1 .. op_counter - base /\ Filled(f.slot, f)
          /\ f.slot = base + f.index - 1 /\ f.index # t.index
      BY <1>3, <2>1 DEF Stacked
    <3> QED BY <1>1, <1>11, <1>14, <3>2
  <2>3. \A f, g \in fds' : f # g =>
          f.index # g.index /\ op_ftable'[f.slot].addr # op_ftable'[g.slot].addr
    BY <1>3, <1>9, <2>1 DEF Stacked
  <2>4. \A i \in 1 .. n : \E f \in fds' : f.index = i
    <3>1. SUFFICES ASSUME NEW i \in 1 .. n PROVE \E f \in fds' : f.index = i
      OBVIOUS
    <3>2. i \in 1 .. op_counter - base /\ i # t.index
      BY <1>1, <1>11, <1>14
    <3>3. PICK f \in fds : f.index = i
      BY <1>3, <3>2 DEF Stacked
    <3> QED BY <1>9, <3>2, <3>3
  <2> QED BY <2>2, <2>3, <2>4 DEF Stacked
<1>16. ClosingSound(p, base)'
  <2>1. Apart(op_counter - 1)'
    BY <1>3, <1>9, <1>11 DEF Apart, Stacked
  <2>2. Filled(op_counter - 1, t)'
    BY <1>9, <1>10, <1>11 DEF Filled
  <2> QED BY <1>9, <1>10, <1>11, <1>12, <2>1, <2>2 DEF ClosingSound, Call
<1>17. OpeningSound(p, base)'
  BY <1>12 DEF OpeningSound, Opening
<1>18. pc'[p] \in Closing /\ op_counter' - base - 1 = n /\ base <= op_counter'
  BY <1>1, <1>9, <1>12, <1>14 DEF Closing
<1> QED BY <1>9, <1>13, <1>15, <1>16, <1>17, <1>18 DEF AloneAt

\* What the steps of a close know.
LEMMA AloneClosing ==
  ASSUME AloneTyped, NEW p \in Procs, NEW base \in Nat, AloneAt(p, base),
         pc[p] \in Closing
  PROVE  /\ op_counter \in Nat /\ OP_LIMIT \in Nat /\ base < op_counter
         /\ op_counter - 1 \in DOMAIN op_ftable /\ op_ftable[op_counter - 1] \in Entry
         /\ ClosingSound(p, base) /\ node[p] \in Call
         /\ node[p].slot = op_counter - 1 /\ node[p].proc = p
         /\ Stacked(p, base, op_counter - base - 1)
         /\ \A f \in fds : f.slot \in DOMAIN op_ftable /\ f.slot # op_counter - 1
<1>1. op_counter \in Nat /\ OP_LIMIT \in Nat /\ op_counter <= OP_LIMIT + 1
  BY AloneBasics
<1>2. /\ ClosingSound(p, base) /\ node[p] \in Call /\ base < op_counter
      /\ node[p].slot = op_counter - 1 /\ node[p].proc = p
      /\ Stacked(p, base, op_counter - base - 1)
  BY DEF AloneAt, ClosingSound
<1>3. op_counter - 1 \in DOMAIN op_ftable /\ op_ftable[op_counter - 1] \in Entry
  <2>1. op_counter - 1 \in 0 .. OP_LIMIT
    BY <1>1, <1>2
  <2> QED BY <2>1 DEF AloneTyped
<1>4. \A f \in fds : f.slot \in DOMAIN op_ftable /\ f.slot # op_counter - 1
  <2>1. SUFFICES ASSUME NEW f \in fds
                 PROVE  f.slot \in 0 .. OP_LIMIT /\ f.slot # op_counter - 1
    BY DEF AloneTyped
  <2>2. f.index \in 1 .. op_counter - base - 1 /\ f.slot = base + f.index - 1
    BY <1>2 DEF Stacked
  <2> QED BY <1>1, <1>2, <2>2
<1> QED BY <1>1, <1>2, <1>3, <1>4

\* The file_t is the descriptor's own: free takes it, and no other's.
LEMMA AloneCloseFree ==
  ASSUME AloneTyped, NEW p \in Procs, NEW base \in Nat, AloneAt(p, base),
         Orderly(p)!CloseFree(p)
  PROVE  faulted' = faulted /\ AloneTyped' /\ AloneAt(p, base)'
<1>0. pc[p] = "free" /\ pc[p] \in Closing
  BY DEF Orderly!CloseFree, Closing
<1>1. /\ op_counter \in Nat /\ base < op_counter
      /\ ClosingSound(p, base) /\ node[p] \in Call
      /\ node[p].slot = op_counter - 1 /\ node[p].proc = p
      /\ Stacked(p, base, op_counter - base - 1)
  BY <1>0, AloneClosing
<1>2. /\ op_ftable[op_counter - 1].owner = p /\ op_ftable[op_counter - 1].addr \in heap[p]
      /\ op_ftable[op_counter - 1].ptr_counter = 1 /\ Apart(op_counter - 1)
  BY <1>0, <1>1 DEF ClosingSound, Filled
<1>3. /\ heap' = [heap EXCEPT ![p] = heap[p] \ {op_ftable[op_counter - 1].addr}]
      /\ pc' = [pc EXCEPT ![p] = "drop"]
      /\ UNCHANGED <<op_counter, op_ftable, fds, node, faulted>>
  BY <1>1, <1>2 DEF Orderly!CloseFree, Orderly!Goto, AloneTyped
<1>4. pc'[p] = "drop" /\ heap'[p] = heap[p] \ {op_ftable[op_counter - 1].addr}
  BY <1>3 DEF AloneTyped
<1>5. AloneTyped'
  <2>1. heap' \in [Procs -> SUBSET Nat]
    BY <1>3 DEF AloneTyped
  <2> QED BY <1>3, <2>1 DEF AloneTyped, Entry, Call, NoNode, Opening, Closing
<1>6. PICK n : n = op_counter - base - 1
  OBVIOUS
<1>7. Stacked(p, base, n)'
  BY <1>1, <1>2, <1>3, <1>4, <1>6 DEF Stacked, Filled, Apart
<1>8. OpeningSound(p, base)' /\ ClosingSound(p, base)'
  BY <1>1, <1>2, <1>3, <1>4 DEF OpeningSound, ClosingSound, Opening, Call
<1>9. pc'[p] \in Closing /\ op_counter' - base - 1 = n /\ base <= op_counter'
  BY <1>1, <1>3, <1>4, <1>6 DEF Closing
<1> QED BY <1>3, <1>5, <1>7, <1>8, <1>9 DEF AloneAt

\* The entry's count falls to 0; what is copied over it is the entry itself.
LEMMA AloneCloseTable ==
  ASSUME AloneTyped, NEW p \in Procs, NEW base \in Nat, AloneAt(p, base),
         Orderly(p)!CloseDrop(p) \/ Orderly(p)!CloseMove(p)
  PROVE  faulted' = faulted /\ AloneTyped' /\ AloneAt(p, base)'
<1>0. pc[p] \in {"drop", "move"} /\ pc[p] \in Closing
  BY DEF Orderly!CloseDrop, Orderly!CloseMove, Closing
<1>1. /\ op_counter \in Nat /\ base < op_counter
      /\ op_counter - 1 \in DOMAIN op_ftable /\ op_ftable[op_counter - 1] \in Entry
      /\ ClosingSound(p, base) /\ node[p] \in Call
      /\ node[p].slot = op_counter - 1 /\ node[p].proc = p
      /\ Stacked(p, base, op_counter - base - 1)
      /\ \A f \in fds : f.slot \in DOMAIN op_ftable /\ f.slot # op_counter - 1
  BY <1>0, AloneClosing
<1>2. op_ftable[op_counter - 1].ptr_counter = IF pc[p] = "drop" THEN 1 ELSE 0
  BY <1>0, <1>1 DEF ClosingSound
<1>3. PICK l \in {"move", "uncount"} : l = IF pc[p] = "drop" THEN "move" ELSE "uncount"
  OBVIOUS
<1>4. /\ pc' = [pc EXCEPT ![p] = l]
      /\ UNCHANGED <<op_counter, fds, heap, node, faulted>>
      /\ op_ftable' \in [DOMAIN op_ftable -> Entry]
      /\ pc[p] = "drop" => op_ftable'[op_counter - 1].ptr_counter = 0
      /\ \A s \in DOMAIN op_ftable : s # op_counter - 1 => op_ftable'[s] = op_ftable[s]
  <2>1. CASE Orderly(p)!CloseDrop(p)
    <3>1. pc[p] = "drop" /\ op_ftable[op_counter - 1].ptr_counter = 1
      BY <1>2, <2>1 DEF Orderly!CloseDrop
    <3>2. /\ op_ftable' = [op_ftable EXCEPT ![op_counter - 1].ptr_counter = @ - 1]
          /\ pc' = [pc EXCEPT ![p] = "move"]
          /\ UNCHANGED <<op_counter, fds, heap, node, faulted>>
      BY <1>1, <2>1, <3>1 DEF Orderly!CloseDrop, Orderly!Goto
    <3>3. /\ op_ftable'[op_counter - 1].ptr_counter = 0
          /\ op_ftable'[op_counter - 1] \in Entry
      BY <1>1, <3>1, <3>2 DEF AloneTyped, Entry
    <3>4. \A s \in DOMAIN op_ftable : s # op_counter - 1 => op_ftable'[s] = op_ftable[s]
      BY <1>1, <3>2 DEF AloneTyped
    <3>5. op_ftable' \in [DOMAIN op_ftable -> Entry]
      BY <1>1, <3>2, <3>3, <3>4 DEF AloneTyped
    <3> QED BY <1>3, <3>1, <3>2, <3>3, <3>4, <3>5
  <2>2. CASE Orderly(p)!CloseMove(p)
    <3>1. pc[p] = "move" /\ op_ftable[op_counter - 1].ptr_counter = 0
      BY <1>2, <2>2 DEF Orderly!CloseMove
    <3>2. /\ \/ op_ftable' = op_ftable
             \/ op_ftable' = [op_ftable EXCEPT ![op_counter - 1] = op_ftable[op_counter - 1]]
          /\ pc' = [pc EXCEPT ![p] = "uncount"]
          /\ UNCHANGED <<op_counter, fds, heap, node, faulted>>
      BY <1>1, <2>2, <3>1 DEF Orderly!CloseMove, Orderly!Goto
    <3>3. op_ftable' = op_ftable
      BY <1>1, <3>2 DEF AloneTyped
    <3> QED BY <1>1, <1>3, <3>1, <3>2, <3>3 DEF AloneTyped
  <2> QED BY <2>1, <2>2
<1>5. pc'[p] = l
  BY <1>4 DEF AloneTyped
<1>6. AloneTyped'
  <2>1. DOMAIN op_ftable' = DOMAIN op_ftable
    BY <1>4
  <2> QED BY <1>3, <1>4, <2>1 DEF AloneTyped, Entry, Call, NoNode, Opening, Closing
<1>7. PICK n : n = op_counter - base - 1
  OBVIOUS
<1>8. Stacked(p, base, n)'
  <2>1. \A f \in fds : op_ftable'[f.slot] = op_ftable[f.slot]
    BY <1>1, <1>4
  <2> QED BY <1>1, <1>4, <1>7, <2>1 DEF Stacked, Filled
<1>9. OpeningSound(p, base)' /\ ClosingSound(p, base)'
  BY <1>1, <1>3, <1>4, <1>5 DEF OpeningSound, ClosingSound, Opening, Call
<1>10. pc'[p] \in Closing /\ op_counter' - base - 1 = n /\ base <= op_counter'
  BY <1>1, <1>3, <1>4, <1>5, <1>7 DEF Closing
<1> QED BY <1>4, <1>6, <1>8, <1>9, <1>10 DEF AloneAt

\* The counter moves down: the closed entry is above it again.
LEMMA AloneCloseCount ==
  ASSUME AloneTyped, NEW p \in Procs, NEW base \in Nat, AloneAt(p, base),
         \/ Orderly(p)!CloseUncount(p) \/ Orderly(p)!CloseLoad(p)
         \/ Orderly(p)!CloseStore(p)
  PROVE  faulted' = faulted /\ AloneTyped' /\ AloneAt(p, base)'
<1>0. pc[p] \in {"uncount", "sub"} /\ pc[p] \in Closing
  BY DEF Orderly!CloseUncount, Orderly!CloseLoad, Orderly!CloseStore, Closing
<1>1. /\ op_counter \in Nat /\ base < op_counter /\ OP_LIMIT \in Nat
      /\ ClosingSound(p, base) /\ node[p] \in Call
      /\ node[p].slot = op_counter - 1 /\ node[p].proc = p
      /\ Stacked(p, base, op_counter - base - 1)
  BY <1>0, AloneClosing
<1>2. CASE Orderly(p)!CloseLoad(p)
  <2>1. /\ node' = [node EXCEPT ![p] = [node[p] EXCEPT !.count = op_counter]]
        /\ pc' = [pc EXCEPT ![p] = "sub"]
        /\ UNCHANGED <<op_counter, op_ftable, fds, heap, faulted>>
    BY <1>2 DEF Orderly!CloseLoad, Orderly!LoadCounter, Orderly!Goto, AloneTyped
  <2>2. PICK nd : nd = [node[p] EXCEPT !.count = op_counter]
    OBVIOUS
  <2>3. nd \in Call /\ nd.proc = p /\ nd.slot = op_counter - 1 /\ nd.count = op_counter
    BY <1>1, <2>2 DEF Call
  <2>4. node' = [node EXCEPT ![p] = nd] /\ node'[p] = nd /\ pc'[p] = "sub"
    BY <2>1, <2>2 DEF AloneTyped
  <2>5. OpeningSound(p, base)' /\ ClosingSound(p, base)'
    BY <1>1, <2>1, <2>3, <2>4 DEF OpeningSound, ClosingSound, Opening, Call
  <2>6. "sub" \in ProcState /\ "sub" \in Closing
    BY DEF ProcState, Closing
  <2> QED BY <1>0, <2>1, <2>3, <2>4, <2>5, <2>6, AloneGoto
<1>3. CASE ~ Orderly(p)!CloseLoad(p)
  <2>1. /\ pc[p] = "sub" /\ op_counter' = (node[p].count - 1) % USHORT
        /\ pc' = [pc EXCEPT ![p] = "idle"] /\ node' = [node EXCEPT ![p] = NoNode]
        /\ UNCHANGED <<op_ftable, fds, heap, faulted>>
    BY <1>3 DEF Orderly!CloseUncount, Orderly!CloseStore, Orderly!Done, Orderly!Goto,
       Orderly!NoNode, NoNode
  <2>2. node[p].count = op_counter
    BY <1>1, <2>1 DEF ClosingSound, Closing
  <2>3. op_counter' = op_counter - 1
    <3>1. op_counter - 1 \in Nat /\ op_counter - 1 < USHORT /\ USHORT \in Nat
      BY <1>1, AloneBasics
    <3> QED BY <2>1, <2>2, <3>1, NoWrap
  <2>4. pc'[p] = "idle"
    BY <2>1 DEF AloneTyped
  <2>5. AloneTyped'
    <3>1. op_counter' \in 0 .. OP_LIMIT + 1
      BY <1>1, <2>3 DEF AloneTyped
    <3> QED BY <2>1, <3>1 DEF AloneTyped, Entry, Call, NoNode, Opening, Closing
  <2>6. PICK n : n = op_counter - base - 1
    OBVIOUS
  <2>7. Stacked(p, base, n)'
    BY <1>1, <2>1, <2>6 DEF Stacked, Filled
  <2>8. OpeningSound(p, base)' /\ ClosingSound(p, base)'
    BY <2>4 DEF OpeningSound, ClosingSound, Opening, Closing
  <2>9. pc'[p] \notin Closing /\ op_counter' - base - 0 = n /\ base <= op_counter'
    BY <1>1, <2>3, <2>4, <2>6 DEF Closing
  <2> QED BY <2>1, <2>5, <2>7, <2>8, <2>9 DEF AloneAt
<1> QED BY <1>2, <1>3

LEMMA AloneRemount ==
  ASSUME AloneTyped, NEW p \in Procs, Orderly(p)!Remount
  PROVE  faulted' = faulted /\ AloneTyped' /\ AloneAt(p, 0)'
<1>1. /\ fds' = {} /\ op_counter' = 0 /\ pc' = pc /\ pc[p] = "idle"
      /\ UNCHANGED <<heap, node, faulted>>
      /\ op_ftable' = [s \in Orderly(p)!Slots |-> Orderly(p)!ZeroEntry]
  BY DEF Orderly!Remount
<1>2. OP_LIMIT \in Nat
  BY AloneBasics
<1>3. /\ op_ftable' \in [DOMAIN op_ftable' -> Entry]
      /\ 0 .. OP_LIMIT \subseteq DOMAIN op_ftable'
  <2>1. Orderly(p)!ZeroEntry \in Entry
    BY DEF Orderly!ZeroEntry, Entry
  <2> QED BY <1>1, <1>2, <2>1, AloneSlots
<1>4. AloneTyped'
  BY <1>1, <1>2, <1>3 DEF AloneTyped, Entry, Call, NoNode, Opening, Closing
<1>5. Stacked(p, 0, 0)'
  BY <1>1 DEF Stacked
<1>6. OpeningSound(p, 0)' /\ ClosingSound(p, 0)'
  BY <1>1 DEF OpeningSound, ClosingSound, Opening, Closing
<1>7. pc'[p] \notin Closing /\ op_counter' - 0 - 0 = 0 /\ 0 <= op_counter'
  BY <1>1 DEF Closing
<1> QED BY <1>1, <1>4, <1>5, <1>6, <1>7 DEF AloneAt

LEMMA AloneInductive == SpecBoth => []AloneInv
<1>1. InitBoth => AloneInv
  <2> SUFFICES ASSUME Init, alone \in Procs PROVE AloneInv
    BY DEF InitBoth, AloneInv
  <2>1. Cardinality(Procs) \in Nat /\ Cardinality(Procs) # 0 /\ OP_LIMIT \in Nat
    <3>1. IsFiniteSet(Procs)
      BY OpTableAssumption DEF OpTableAssumption
    <3> QED BY <3>1, FS_CardinalityType, FS_EmptySet, OpTableAssumption
            DEF OpTableAssumption
  <2>2. /\ op_ftable \in [DOMAIN op_ftable -> Entry]
        /\ 0 .. OP_LIMIT \subseteq DOMAIN op_ftable
    <3>1. ZeroEntry \in Entry
      BY DEF ZeroEntry, Entry
    <3> QED BY <2>1, <3>1 DEF Init, Slots
  <2>3. AloneTyped
    BY <2>1, <2>2 DEF Init, AloneTyped
  <2>4. AloneAt(alone, 0)
    BY <2>1 DEF Init, AloneAt, Stacked, OpeningSound, ClosingSound, Opening, Closing
  <2> QED BY <2>3, <2>4 DEF AloneInv, Init
<1>2. AloneInv /\ [NextBoth]_<<vars, alone>> => AloneInv'
  <2> SUFFICES ASSUME AloneInv, [NextBoth]_<<vars, alone>>, alone # NULL
               PROVE  AloneInv'
    BY DEF AloneInv, NextBoth
  <2>1. CASE UNCHANGED <<vars, alone>>
    BY <2>1 DEF AloneInv, vars, AloneTyped, AloneAt, Stacked, Filled, OpeningSound,
       ClosingSound, Apart, Entry, Call, NoNode, Opening, Closing
  <2>2. CASE NextBoth
    <3>1. PICK p \in Procs : alone = p /\ alone' = alone /\ Orderly(p)!Next
      BY <2>2 DEF NextBoth
    <3>2. PICK base \in Nat : AloneTyped /\ faulted = {} /\ AloneAt(p, base)
      BY <3>1 DEF AloneInv
    <3>3. CASE Orderly(p)!Open(p)
      <4>1. faulted' = faulted /\ AloneTyped' /\ \E b \in Nat : AloneAt(p, b)'
        <5>1. CASE \E n \in Inodes : Orderly(p)!OpenAppend(p, n)
          BY <3>2, <5>1, AloneOpenAppend
        <5>2. CASE Orderly(p)!OpenNotFound(p)
          BY <3>2, <5>2, AloneFailOpen DEF Orderly!OpenNotFound, Closing
        <5>3. CASE Orderly(p)!OpenCheck(p)
          BY <3>2, <5>3, AloneOpenCheck
        <5>4. CASE Orderly(p)!OpenFill(p)
          BY <3>2, <5>4, AloneOpenFill
        <5>5. CASE Orderly(p)!OpenPoint(p) \/ Orderly(p)!OpenLoad(p)
          BY <3>2, <5>5, AloneOpenPoint
        <5>6. CASE Orderly(p)!OpenCount(p) \/ Orderly(p)!OpenStore(p)
          BY <3>2, <5>6, AloneOpenDone
        <5> QED BY <3>3, <5>1, <5>2, <5>3, <5>4, <5>5, <5>6 DEF Orderly!Open
      <4> QED BY <3>1, <3>2, <4>1 DEF AloneInv
    <3>4. CASE Orderly(p)!Close(p)
      <4>1. faulted' = faulted /\ AloneTyped' /\ AloneAt(p, base)'
        BY <3>2, <3>4, AloneCloseFind, AloneCloseFree, AloneCloseTable, AloneCloseCount
           DEF Orderly!Close
      <4> QED BY <3>1, <3>2, <4>1 DEF AloneInv
    <3>5. CASE Orderly(p)!Remount
      <4>1. faulted' = faulted /\ AloneTyped' /\ AloneAt(p, 0)'
        BY <3>2, <3>5, AloneRemount
      <4> QED BY <3>1, <3>2, <4>1 DEF AloneInv
    <3> QED BY <3>1, <3>3, <3>4, <3>5 DEF Orderly!Next, Orderly!Killed
  <2> QED BY <2>1, <2>2
<1> QED BY <1>1, <1>2, PTL DEF SpecBoth

\* A process alone that closes the newest descriptor first keeps, with a counter
\* loaded and stored in two steps and whatever opens fail, an entry and a file_t
\* of its own for every descriptor, below the counter.
THEOREM OrderlyKeepsDescriptors == SpecBoth => []SoundWhenAlone
<1>1. AloneInv => SoundWhenAlone
  <2> SUFFICES ASSUME AloneInv, alone # NULL PROVE DescriptorsSound
    BY DEF SoundWhenAlone
  <2>1. PICK base \in Nat : AloneTyped /\ AloneAt(alone, base)
    BY DEF AloneInv
  <2>2. PICK n \in Int : n <= op_counter - base /\ Stacked(alone, base, n)
    BY <2>1 DEF AloneAt, AloneTyped
  <2>3. \A f \in fds : /\ f.slot < op_counter
                       /\ Filled(f.slot, f)
    BY <2>1, <2>2 DEF Stacked, AloneTyped
  <2>4. \A f, g \in fds : f # g =>
          f.slot # g.slot /\ op_ftable[f.slot].addr # op_ftable[g.slot].addr
    BY <2>1, <2>2 DEF Stacked
  <2> QED BY <2>3, <2>4 DEF DescriptorsSound, Filled
<1> QED BY <1>1, AloneInductive, PTL

\* And none of its closes touches memory that was freed or is another's.
THEOREM OrderlyNeverFaults == SpecBoth => []ReturnsWhenAlone
<1>1. AloneInv => ReturnsWhenAlone
  BY DEF AloneInv, ReturnsWhenAlone, CloseReturns
<1> QED BY <1>1, AloneInductive, PTL

=============================================================================
