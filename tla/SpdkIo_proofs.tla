---------------------------- MODULE SpdkIo_proofs ----------------------------
(***************************************************************************)
(* Proofs about SpdkIo, for any number of processes, queues and blocks.    *)
(***************************************************************************)
EXTENDS SpdkIo, TLAPS

\* A process never has two transfers in flight, not even one that is gone.
OneTransfer == \A r, s \in Transfers : r.proc = s.proc => r = s

\* A request has blocks of its own left to move, and none when the device
\* reports success.
Moved(r) == r.todo \subseteq 0 .. r.num - 1 /\ (r.status = "ok" => r.todo = {})
SuccessMoved == \A r \in in_flight : Moved(r)

\* The inductive invariant.
Inv == TypeOK /\ NoLateCompletion /\ OneTransfer /\ SuccessMoved

\* Every variable has its type at the start, and nothing is in flight.
LEMMA InitInv == Init => Inv
<1> SUFFICES ASSUME Init PROVE Inv
  OBVIOUS
<1>1. TypeOK
  BY SpdkAssumption DEF Init, TypeOK, Contents
<1> QED
  BY <1>1 DEF Init, Inv, NoLateCompletion, OneTransfer, SuccessMoved, Transfers

\* Starting, leaving and dying touch no request.
LEMMA ProcessInv ==
  ASSUME Inv, NEW p \in Procs,
         init_spdk(p) \/ InitFails(p) \/ exit_spdk(p) \/ Dies(p)
  PROVE  Inv'
<1> USE DEF Inv, init_spdk, InitFails, exit_spdk, Dies, Gone, Goto
<1>1. in_flight' = in_flight /\ disk' = disk /\ buffer' = buffer
  OBVIOUS
<1>2. \A q \in Procs : pc[q] = "poll" => pc'[q] \in {"poll", "gone"}
                       /\ (pc'[q] = "poll" => type'[q] = type[q])
  BY DEF TypeOK
<1>3. \A q \in Procs : pc'[q] # "gone" => pc[q] # "gone"
  BY DEF TypeOK
<1>4. TypeOK'
  BY DEF TypeOK
<1>5. NoLateCompletion'
  <2> SUFFICES ASSUME NEW r \in Transfers', pc'[r.proc] # "gone"
               PROVE  /\ pc'[r.proc] = "poll" /\ type'[r.proc] = r.queue
                      /\ \A s \in Transfers' : s.proc = r.proc => s = r
    BY DEF NoLateCompletion
  <2>1. r \in Transfers /\ Transfers' = Transfers /\ r.proc \in Procs
    BY <1>1 DEF Transfers, TypeOK, Requests
  <2> QED
    BY <2>1, <1>2, <1>3 DEF NoLateCompletion
<1>6. OneTransfer' /\ SuccessMoved'
  BY <1>1 DEF OneTransfer, SuccessMoved, Transfers
<1> QED
  BY <1>4, <1>5, <1>6

\* The request a submission adds.
NewRequest(p, q, cid, kind, first, num, data) ==
  [proc |-> p, queue |-> q, cid |-> cid, kind |-> kind, first |-> first,
   num |-> num, todo |-> 0 .. num - 1, data |-> data, status |-> "sent"]

\* What a submission adds is a request that has moved nothing yet.
LEMMA SubmitAdds ==
  ASSUME Inv, NEW p \in Procs, NEW q \in Queues, NEW kind \in {"read", "write", "trim"},
         NEW first \in Lbas, NEW num \in 1 .. MaxBlocks, NEW data \in Contents,
         Submit(p, q, kind, first, num, data)
  PROVE  /\ pc[p] = "idle"
         /\ \E n \in Requests :
              /\ in_flight' = in_flight \union {n}
              /\ n.proc = p /\ n.queue = q /\ n.kind = kind /\ n.first = first
              /\ n.num = num /\ n.todo = 0 .. num - 1
              /\ n.data = data /\ n.status = "sent" /\ Moved(n)
<1>1. PICK cid \in 0 .. POOL - 1 :
        in_flight' = in_flight \union {NewRequest(p, q, cid, kind, first, num, data)}
  BY DEF Submit, NewRequest
<1>2. 0 .. num - 1 \in SUBSET Offsets
  BY SpdkAssumption DEF Offsets
<1>3. num \in 0 .. MaxBlocks
  OBVIOUS
<1>4. NewRequest(p, q, cid, kind, first, num, data) \in Requests
  BY <1>2, <1>3 DEF NewRequest, Requests
<1> QED
  BY <1>1, <1>4 DEF Submit, NewRequest, Moved

\* A submitted transfer is the only one of its process: it was idle.
LEMMA TransferInv ==
  ASSUME Inv, NEW p \in Procs, NEW q \in Queues, NEW kind \in {"read", "write"},
         NEW first \in Lbas, NEW num \in 1 .. MaxBlocks, NEW data \in Contents,
         Transfer(p, q, kind, first, num, data)
  PROVE  Inv'
<1> USE DEF Inv
<1>1. PICK n \in Requests :
        /\ pc[p] = "idle" /\ in_flight' = in_flight \union {n}
        /\ n.proc = p /\ n.queue = q /\ Moved(n) /\ IsTransfer(n)
  <2>1. Submit(p, q, kind, first, num, data)
    BY DEF Transfer
  <2>2. kind \in {"read", "write", "trim"}
    OBVIOUS
  <2> QED
    BY <2>1, <2>2, SubmitAdds DEF IsTransfer
<1>2. /\ pc' = [pc EXCEPT ![p] = "poll"] /\ type' = [type EXCEPT ![p] = q]
      /\ buffer' = [buffer EXCEPT ![p] = data] /\ UNCHANGED <<disk, qpair>>
  BY DEF Transfer, Goto
<1>3. TypeOK'
  BY <1>1, <1>2 DEF TypeOK
<1>4. \A r \in Transfers : r.proc \in Procs /\ r.proc # p
  BY <1>1 DEF NoLateCompletion, Transfers, TypeOK, Requests
<1>5. Transfers' = Transfers \union {n}
  BY <1>1 DEF Transfers
<1>6. NoLateCompletion'
  <2>1. \A r \in Transfers : pc'[r.proc] = pc[r.proc] /\ type'[r.proc] = type[r.proc]
    BY <1>2, <1>4 DEF TypeOK
  <2>2. pc'[p] = "poll" /\ type'[p] = q
    BY <1>2 DEF TypeOK
  <2> QED
    BY <1>1, <1>4, <1>5, <2>1, <2>2 DEF NoLateCompletion
<1>7. OneTransfer'
  BY <1>1, <1>4, <1>5 DEF OneTransfer
<1>8. SuccessMoved'
  BY <1>1 DEF SuccessMoved
<1> QED
  BY <1>3, <1>6, <1>7, <1>8

\* A trim adds a request that is not a transfer.
LEMMA TrimInv ==
  ASSUME Inv, NEW p \in Procs, NEW q \in Queues, NEW first \in Lbas,
         NEW num \in 1 .. MaxBlocks, trim_spdk(p, q, first, num)
  PROVE  Inv'
<1> USE DEF Inv
<1>0. Blank \in Contents
  BY DEF Blank, Contents
<1>1. PICK n \in Requests :
        in_flight' = in_flight \union {n} /\ Moved(n) /\ ~ IsTransfer(n)
  <2>1. Submit(p, q, "trim", first, num, Blank)
    BY DEF trim_spdk
  <2> QED
    BY <2>1, <1>0, SubmitAdds DEF IsTransfer
<1>2. UNCHANGED <<disk, buffer, pc, qpair, type>>
  BY DEF trim_spdk
<1>3. Transfers' = Transfers
  BY <1>1 DEF Transfers
<1>4. TypeOK'
  BY <1>1, <1>2 DEF TypeOK
<1>5. NoLateCompletion' /\ OneTransfer' /\ SuccessMoved'
  BY <1>1, <1>2, <1>3 DEF NoLateCompletion, OneTransfer, SuccessMoved
<1> QED
  BY <1>4, <1>5

\* A poll takes finished requests away, and ends the call with its transfer.
LEMMA PollInv ==
  ASSUME Inv, NEW p \in Procs, Poll(p)
  PROVE  Inv'
<1> USE DEF Inv, Poll, Goto
<1>1. TypeOK'
  BY DEF TypeOK
<1>2. in_flight' \subseteq in_flight /\ Transfers' \subseteq Transfers
  BY DEF Transfers
<1>3. OneTransfer' /\ SuccessMoved'
  BY <1>2 DEF OneTransfer, SuccessMoved
<1>4. NoLateCompletion'
  <2> SUFFICES ASSUME NEW r \in Transfers', pc'[r.proc] # "gone"
               PROVE  pc'[r.proc] = "poll" /\ type'[r.proc] = r.queue
    BY <1>3 DEF NoLateCompletion, OneTransfer
  <2>1. r \in Transfers /\ r.proc \in Procs /\ r \in in_flight'
    BY <1>2 DEF Transfers, TypeOK, Requests
  <2>2. CASE r.proc # p
    BY <2>1, <2>2 DEF NoLateCompletion, TypeOK
  <2>3. CASE r.proc = p
    <3>1. ASSUME NEW s \in Finished(p, type[p]), IsTransfer(s) PROVE FALSE
      <4>1. s \in Transfers /\ s.proc = p
        BY <3>1 DEF Finished, Pending, Transfers
      <4>2. s = r
        BY <4>1, <2>1, <2>3 DEF OneTransfer
      <4> QED
        BY <3>1, <4>2, <2>1
    <3>2. UNCHANGED <<pc, type>>
      BY <3>1
    <3> QED
      BY <3>2, <2>1 DEF NoLateCompletion
  <2> QED
    BY <2>2, <2>3
<1> QED
  BY <1>1, <1>3, <1>4

\* The device replaces a request by one of the same call that is further on.
LEMMA ReplaceInv ==
  ASSUME Inv, NEW r \in in_flight, NEW s \in Requests, Replace(r, s),
         s.proc = r.proc, s.queue = r.queue, s.kind = r.kind,
         Moved(s),
         buffer' \in [Procs -> Contents],
         disk' \in [Lbas -> Values \union {Zeroed}],
         UNCHANGED <<pc, qpair, type>>
  PROVE  Inv'
<1> USE DEF Inv, Replace
<1>1. TypeOK'
  BY DEF TypeOK
<1>2. SuccessMoved'
  BY DEF SuccessMoved
<1>3. \A t \in Transfers' : t \in Transfers \/ (t = s /\ r \in Transfers)
  BY DEF Transfers, IsTransfer
<1>4. r \in Transfers => \A t \in Transfers' : t.proc = r.proc => t = s
  BY <1>3 DEF OneTransfer, Transfers
<1>5. OneTransfer'
  BY <1>3, <1>4 DEF OneTransfer
<1>6. NoLateCompletion'
  BY <1>3, <1>5 DEF NoLateCompletion, OneTransfer
<1> QED
  BY <1>1, <1>2, <1>5, <1>6

\* What the device moves is inside the device.
LEMMA MovesInside ==
  ASSUME NEW r \in Requests, Moved(r), InRange(r), NEW k \in r.todo
  PROVE  r.first + k \in Lbas
<1>1. k \in 0 .. r.num - 1
  BY DEF Moved
<1>2. r.num \in Nat /\ r.first \in Nat
  BY SpdkAssumption DEF Requests, Lbas
<1> QED
  BY <1>1, <1>2, SpdkAssumption DEF Lbas, InRange

\* A step of the device on one request.
LEMMA ServeInv ==
  ASSUME Inv, NEW r \in in_flight, Serve(r)
  PROVE  Inv'
<1> USE DEF Inv
<1>0. r \in Requests /\ Moved(r)
  BY DEF TypeOK, SuccessMoved
<1>1. CASE Succeed(r)
  <2> DEFINE s == [r EXCEPT !.status = "ok"]
  <2>1. s \in Requests /\ Moved(s) /\ s.proc = r.proc /\ s.queue = r.queue
        /\ s.kind = r.kind
    BY <1>0, <1>1 DEF Succeed, Requests, Moved
  <2>2. Replace(r, s) /\ UNCHANGED <<disk, buffer, pc, qpair, type>>
    BY <1>1 DEF Succeed
  <2> HIDE DEF s
  <2> QED
    BY <2>1, <2>2, ReplaceInv DEF TypeOK
<1>2. CASE FailRequest(r)
  <2> DEFINE s == [r EXCEPT !.status = "error"]
  <2>1. s \in Requests /\ Moved(s) /\ s.proc = r.proc
        /\ s.queue = r.queue /\ s.kind = r.kind
    BY <1>0 DEF Requests, Moved
  <2>2. Replace(r, s) /\ UNCHANGED <<disk, buffer, pc, qpair, type>>
    BY <1>2 DEF FailRequest
  <2> HIDE DEF s
  <2> QED
    BY <2>1, <2>2, ReplaceInv DEF TypeOK
<1>3. ASSUME NEW k \in r.todo, MoveBlock(r, k) PROVE Inv'
  <2> DEFINE s == [r EXCEPT !.todo = @ \ {k}]
  <2>1. s \in Requests /\ Moved(s) /\ s.proc = r.proc
        /\ s.queue = r.queue /\ s.kind = r.kind
    BY <1>0, <1>3 DEF Requests, MoveBlock, Moved
  <2>2. Replace(r, s) /\ UNCHANGED <<pc, qpair, type>>
    BY <1>3 DEF MoveBlock
  <2>3. r.first + k \in Lbas
    BY <1>0, <1>3, MovesInside DEF MoveBlock
  <2>4. /\ buffer' \in [Procs -> Contents]
        /\ disk' \in [Lbas -> Values \union {Zeroed}]
    <3>1. k \in Offsets /\ r.proc \in Procs /\ r.data \in Contents
      BY <1>0 DEF Requests
    <3>2. disk[r.first + k] \in Values \union {Zeroed}
          /\ r.data[k] \in Values \union {Zeroed}
      BY <2>3, <3>1 DEF TypeOK, Contents
    <3>3. CASE buffer' = [buffer EXCEPT ![r.proc][k] = disk[r.first + k]]
               /\ UNCHANGED disk
      BY <3>1, <3>2, <3>3 DEF TypeOK, Contents
    <3>4. ASSUME NEW v \in Values \union {Zeroed},
                 disk' = [disk EXCEPT ![r.first + k] = v], UNCHANGED buffer
          PROVE  disk' \in [Lbas -> Values \union {Zeroed}] /\ buffer' \in [Procs -> Contents]
      BY <3>4, <2>3 DEF TypeOK
    <3> QED
      BY <1>3, <3>2, <3>3, <3>4 DEF MoveBlock
  <2> HIDE DEF s
  <2> QED
    BY <2>1, <2>2, <2>4, ReplaceInv
<1> QED
  BY <1>1, <1>2, <1>3 DEF Serve

\* The device drops a request of a process that is gone.
LEMMA AbortInv ==
  ASSUME Inv, NEW r \in in_flight, Abort(r)
  PROVE  Inv'
<1> USE DEF Inv, Abort
<1>1. TypeOK'
  BY DEF TypeOK
<1>2. Transfers' \subseteq Transfers
  BY DEF Transfers
<1> QED
  BY <1>1, <1>2 DEF OneTransfer, SuccessMoved, NoLateCompletion

\* The invariant is kept by every step.
LEMMA NextInv == Inv /\ [Next]_vars => Inv'
<1> SUFFICES ASSUME Inv, [Next]_vars PROVE Inv'
  OBVIOUS
<1>1. CASE UNCHANGED vars
  BY <1>1 DEF vars, Inv, TypeOK, NoLateCompletion, OneTransfer, SuccessMoved,
              Transfers
<1>2. ASSUME NEW p \in Procs,
             init_spdk(p) \/ InitFails(p) \/ exit_spdk(p) \/ Dies(p)
      PROVE  Inv'
  BY <1>2, ProcessInv
<1>3. ASSUME NEW p \in Procs, Call(p) PROVE Inv'
  <2>1. PICK q \in Queues, first \in Lbas, num \in 1 .. MaxBlocks :
          \/ read_spdk(p, q, first, num)
          \/ \E data \in Payloads : write_spdk(p, q, first, num, data)
          \/ trim_spdk(p, q, first, num)
    BY <1>3 DEF Call
  <2>2. CASE read_spdk(p, q, first, num)
    <3>1. Blank \in Contents
      BY DEF Blank, Contents
    <3> QED
      BY <2>2, <3>1, TransferInv DEF read_spdk
  <2>3. ASSUME NEW data \in Payloads, write_spdk(p, q, first, num, data) PROVE Inv'
    BY <2>3, PayloadAssumption, TransferInv DEF write_spdk
  <2>4. CASE trim_spdk(p, q, first, num)
    BY <2>4, TrimInv
  <2> QED
    BY <2>1, <2>2, <2>3, <2>4
<1>4. ASSUME NEW p \in Procs, Poll(p) PROVE Inv'
  BY <1>4, PollInv
<1>5. ASSUME NEW r \in in_flight, Serve(r) \/ Abort(r) PROVE Inv'
  BY <1>5, ServeInv, AbortInv
<1> QED
  BY <1>1, <1>2, <1>3, <1>4, <1>5 DEF Next

\* The invariant holds in every behaviour.
LEMMA InvHolds == Spec => []Inv
<1> QED
  BY InitInv, NextInv, PTL DEF Spec

\* Every variable has its type: no request moves a block outside the buffer of
\* its call or outside the device.
THEOREM TypeCorrect == Spec => []TypeOK
<1>1. Inv => TypeOK
  BY DEF Inv
<1> QED
  BY <1>1, InvHolds, PTL

\* For any number of processes and queues: no transfer outlives its call.
THEOREM NoCompletionIsLate == Spec => []NoLateCompletion
<1>1. Inv => NoLateCompletion
  BY DEF Inv
<1> QED
  BY <1>1, InvHolds, PTL

----------------------------------------------------------------------------
(* The refinement: every step is a step of BlockDevice or changes nothing   *)
(* there.                                                                  *)

LEMMA InitImplements == Init => Device!Init
  BY DEF Init, Device!Init, AbstractTransfers, AbstractDiscards, Transfers,
         Lbas, Device!Lbas, Offsets, Device!Offsets

\* A step that touches no request and lets no process go is not seen.
LEMMA Unseen ==
  ASSUME Inv, UNCHANGED <<disk, buffer, in_flight>>,
         \A r \in Transfers : pc'[r.proc] = "gone" <=> pc[r.proc] = "gone"
  PROVE  UNCHANGED Device!vars
<1>1. Transfers' = Transfers /\ AbstractDiscards' = AbstractDiscards
  BY DEF Transfers, AbstractDiscards
<1>2. \A r \in Transfers : Abstract(r)' = Abstract(r)
  BY DEF Abstract
<1>3. AbstractTransfers' = AbstractTransfers
  BY <1>1, <1>2 DEF AbstractTransfers
<1> QED
  BY <1>1, <1>3 DEF Device!vars

\* One transfer is replaced by a later state of it.
LEMMA ReplaceAbstract ==
  ASSUME Inv, NEW r \in Transfers, NEW s, IsTransfer(s), s.proc = r.proc,
         Replace(r, s), pc' = pc
  PROVE  AbstractTransfers' =
           (AbstractTransfers \ {Abstract(r)}) \union {Abstract(s)'}
<1>1. Transfers' = (Transfers \ {r}) \union {s}
  BY DEF Transfers, Replace
<1>2. \A t \in Transfers \ {r} : t.proc # r.proc
  BY DEF Inv, OneTransfer
<1>3. \A t \in Transfers : Abstract(t)' = Abstract(t) /\ Abstract(t).proc = t.proc
  BY DEF Abstract
<1>4. \A t \in Transfers \ {r} : Abstract(t) # Abstract(r)
  BY <1>2, <1>3
<1>5. AbstractTransfers \ {Abstract(r)} = {Abstract(t) : t \in Transfers \ {r}}
  BY <1>4 DEF AbstractTransfers
<1>6. AbstractTransfers' =
        {Abstract(t)' : t \in Transfers \ {r}} \union {Abstract(s)'}
  BY <1>1 DEF AbstractTransfers
<1> QED
  BY <1>3, <1>5, <1>6

\* One transfer is taken away.
LEMMA RemoveAbstract ==
  ASSUME Inv, NEW r \in Transfers, Transfers' = Transfers \ {r},
         \A t \in Transfers \ {r} : pc'[t.proc] = "gone" <=> pc[t.proc] = "gone"
  PROVE  AbstractTransfers' = AbstractTransfers \ {Abstract(r)}
<1>1. \A t \in Transfers \ {r} : t.proc # r.proc
  BY DEF Inv, OneTransfer
<1>2. \A t \in Transfers \ {r} : Abstract(t)' = Abstract(t)
  BY DEF Abstract
<1>3. \A t \in Transfers \ {r} : Abstract(t) # Abstract(r)
  BY <1>1 DEF Abstract
<1>4. AbstractTransfers \ {Abstract(r)} = {Abstract(t) : t \in Transfers \ {r}}
  BY <1>3 DEF AbstractTransfers
<1>5. AbstractTransfers' = {Abstract(t)' : t \in Transfers \ {r}}
  BY DEF AbstractTransfers
<1> QED
  BY <1>2, <1>4, <1>5

\* A process that starts is not seen; one that goes away lets its transfer fail.
LEMMA ProcessImplements ==
  ASSUME Inv, NEW p \in Procs,
         init_spdk(p) \/ InitFails(p) \/ exit_spdk(p) \/ Dies(p)
  PROVE  [Device!Next]_(Device!vars)
<1>1. UNCHANGED <<disk, buffer, in_flight>>
  BY DEF init_spdk, InitFails, exit_spdk, Dies, Gone
<1>2. CASE \A r \in Transfers : pc'[r.proc] = "gone" <=> pc[r.proc] = "gone"
  BY <1>1, <1>2, Unseen
<1>3. ASSUME NEW r \in Transfers, ~ (pc'[r.proc] = "gone" <=> pc[r.proc] = "gone")
      PROVE  Device!Fail(Abstract(r)) /\ Abstract(r) \in AbstractTransfers
  <2>1. r.proc \in Procs
    BY DEF Inv, TypeOK, Transfers, Requests
  <2>2. /\ r.proc = p /\ pc[p] # "gone" /\ pc'[p] = "gone"
        /\ \A t \in Procs \ {p} : pc'[t] = pc[t]
    BY <1>3, <2>1 DEF Inv, TypeOK, init_spdk, InitFails, exit_spdk, Dies, Gone,
                      Goto
  <2>3. \A t \in Transfers \ {r} : t.proc \in Procs \ {p}
    BY <2>2 DEF Inv, OneTransfer, TypeOK, Transfers, Requests
  <2>4. Transfers' = Transfers /\ AbstractDiscards' = AbstractDiscards
    BY <1>1 DEF Transfers, AbstractDiscards
  <2>5. \A t \in Transfers \ {r} : Abstract(t)' = Abstract(t)
                                   /\ Abstract(t) # Abstract(r)
    BY <2>2, <2>3 DEF Abstract
  <2>6. Abstract(r)' = [Abstract(r) EXCEPT !.failed = "yes"]
    BY <2>2 DEF Abstract
  <2>7. AbstractTransfers' =
          (AbstractTransfers \ {Abstract(r)}) \union {Abstract(r)'}
    <3>1. AbstractTransfers \ {Abstract(r)} = {Abstract(t) : t \in Transfers \ {r}}
      BY <2>5 DEF AbstractTransfers
    <3>2. AbstractTransfers' =
            {Abstract(t)' : t \in Transfers \ {r}} \union {Abstract(r)'}
      BY <2>4 DEF AbstractTransfers
    <3> QED
      BY <2>5, <3>1, <3>2
  <2> QED
    BY <1>1, <2>4, <2>6, <2>7 DEF Device!Fail, AbstractTransfers
<1> QED
  BY <1>2, <1>3 DEF Device!Next

\* A submitted transfer begins one.
LEMMA TransferImplements ==
  ASSUME Inv, NEW p \in Procs, NEW q \in Queues, NEW kind \in {"read", "write"},
         NEW first \in Lbas, NEW num \in 1 .. MaxBlocks, NEW data \in Contents,
         Transfer(p, q, kind, first, num, data)
  PROVE  Device!Begin(p)
<1>1. PICK n \in Requests :
        /\ pc[p] = "idle" /\ in_flight' = in_flight \union {n} /\ IsTransfer(n)
        /\ n.proc = p /\ n.kind = kind /\ n.first = first
        /\ n.todo = 0 .. num - 1 /\ n.data = data /\ n.status = "sent"
  <2>1. Submit(p, q, kind, first, num, data)
    BY DEF Transfer
  <2>2. kind \in {"read", "write", "trim"}
    OBVIOUS
  <2> QED
    BY <2>1, <2>2, SubmitAdds DEF IsTransfer
<1>2. /\ pc' = [pc EXCEPT ![p] = "poll"]
      /\ buffer' = [buffer EXCEPT ![p] = data] /\ UNCHANGED disk
  BY DEF Transfer, Goto
<1>3. \A r \in Transfers : r.proc \in Procs /\ r.proc # p
  BY <1>1 DEF Inv, NoLateCompletion, Transfers, TypeOK, Requests
<1>4. Transfers' = Transfers \union {n}
  BY <1>1 DEF Transfers
<1>5. \A r \in Transfers : Abstract(r)' = Abstract(r)
  BY <1>2, <1>3 DEF Abstract, Inv, TypeOK
<1>6. AbstractTransfers' = AbstractTransfers \union {Abstract(n)'}
  BY <1>4, <1>5 DEF AbstractTransfers
<1>7. pc'[p] = "poll"
  BY <1>2 DEF Inv, TypeOK
<1>8. Abstract(n)' = [proc |-> p, kind |-> kind, first |-> first,
                      todo |-> 0 .. num - 1, data |-> data, failed |-> "no"]
  BY <1>1, <1>7 DEF Abstract
<1>9. \A t \in AbstractTransfers : t.proc # p
  BY <1>3 DEF AbstractTransfers, Abstract
<1>10. AbstractDiscards' = AbstractDiscards
  BY <1>1 DEF AbstractDiscards, TrimsBlock, IsTransfer
<1>11. 0 .. num - 1 \in SUBSET Offsets
  BY SpdkAssumption DEF Offsets
<1> QED
  BY <1>2, <1>6, <1>8, <1>9, <1>10, <1>11
  DEF Device!Begin, Device!Lbas, Lbas, Device!Offsets, Offsets, Contents

\* A trim adds blocks to discard.
LEMMA TrimImplements ==
  ASSUME Inv, NEW p \in Procs, NEW q \in Queues, NEW first \in Lbas,
         NEW num \in 1 .. MaxBlocks, trim_spdk(p, q, first, num)
  PROVE  Device!Discard
<1>0. Blank \in Contents
  BY DEF Blank, Contents
<1>1. PICK n \in Requests : in_flight' = in_flight \union {n} /\ ~ IsTransfer(n)
  <2>1. Submit(p, q, "trim", first, num, Blank)
    BY DEF trim_spdk
  <2> QED
    BY <2>1, <1>0, SubmitAdds DEF IsTransfer
<1>2. UNCHANGED <<disk, buffer, pc>>
  BY DEF trim_spdk
<1>3. Transfers' = Transfers
  BY <1>1 DEF Transfers
<1>4. AbstractTransfers' = AbstractTransfers
  <2>1. \A r \in Transfers : Abstract(r)' = Abstract(r)
    BY <1>2 DEF Abstract
  <2> QED
    BY <1>3, <2>1 DEF AbstractTransfers
<1>5. AbstractDiscards' = AbstractDiscards \union {l \in Lbas : TrimsBlock(n, l)}
  BY <1>1 DEF AbstractDiscards
<1> QED
  BY <1>2, <1>4, <1>5 DEF Device!Discard, Device!Lbas, Lbas

\* Requests taken away take discards away, and add none.
LEMMA FewerDiscards ==
  ASSUME in_flight' \subseteq in_flight
  PROVE  AbstractDiscards' \subseteq AbstractDiscards
  BY DEF AbstractDiscards

\* A poll forgets trims, and ends the transfer if it finds it.
LEMMA PollImplements ==
  ASSUME Inv, NEW p \in Procs, Poll(p)
  PROVE  Device!Next
<1>1. UNCHANGED <<disk, buffer>> /\ in_flight' = in_flight \ Finished(p, type[p])
  BY DEF Poll
<1>2. AbstractDiscards' \in SUBSET AbstractDiscards
  BY <1>1, FewerDiscards
<1>3. \A q \in Procs : pc'[q] = "gone" <=> pc[q] = "gone"
  BY DEF Inv, TypeOK, Poll, Goto
<1>4. \A t \in Transfers : t.proc \in Procs
  BY DEF Inv, TypeOK, Transfers, Requests
<1>5. ASSUME NEW r \in Finished(p, type[p]), IsTransfer(r) PROVE Device!Next
  <2>1. r \in Transfers /\ r.proc = p /\ r.status # "sent" /\ r \in Requests
        /\ Moved(r)
    BY <1>5 DEF Finished, Pending, Transfers, Inv, TypeOK, SuccessMoved
  <2>2. Transfers' = Transfers \ {r}
    <3>1. \A s \in Finished(p, type[p]) : IsTransfer(s) => s = r
      BY <2>1 DEF Finished, Pending, Transfers, Inv, OneTransfer
    <3> QED
      BY <1>1, <1>5, <3>1 DEF Transfers
  <2>3. AbstractTransfers' = AbstractTransfers \ {Abstract(r)}
    BY <1>3, <1>4, <2>1, <2>2, RemoveAbstract
  <2>4. Abstract(r).todo = {} \/ Abstract(r).failed = "yes"
    BY <2>1 DEF Abstract, Requests, Moved
  <2>5. Abstract(r) \in AbstractTransfers
    BY <2>1 DEF AbstractTransfers
  <2> QED
    BY <1>1, <1>2, <2>3, <2>4, <2>5 DEF Device!Next, Device!End
<1>6. CASE \A r \in Finished(p, type[p]) : ~ IsTransfer(r)
  <2>1. Transfers' = Transfers
    BY <1>1, <1>6 DEF Transfers
  <2>2. \A r \in Transfers : Abstract(r)' = Abstract(r)
    BY <1>3, <1>4 DEF Abstract
  <2>3. AbstractTransfers' = AbstractTransfers
    BY <2>1, <2>2 DEF AbstractTransfers
  <2> QED
    BY <1>1, <1>2, <2>3 DEF Device!Next, Device!Forget
<1> QED
  BY <1>5, <1>6

\* A step of the device on a transfer moves a block or reports an error.
LEMMA ServeTransferImplements ==
  ASSUME Inv, NEW r \in in_flight, IsTransfer(r), Serve(r)
  PROVE  [Device!Next]_(Device!vars)
<1>1. r \in Transfers /\ r \in Requests /\ Moved(r)
  BY DEF Transfers, Inv, TypeOK, SuccessMoved
<1>2. Abstract(r) \in AbstractTransfers
  BY <1>1 DEF AbstractTransfers
<1>3. pc' = pc
  BY DEF Serve, Succeed, FailRequest, MoveBlock
<1>4. ASSUME NEW s, Replace(r, s), IsTransfer(s), s.proc = r.proc
      PROVE  /\ AbstractDiscards' = AbstractDiscards
             /\ AbstractTransfers' =
                  (AbstractTransfers \ {Abstract(r)}) \union {Abstract(s)'}
  BY <1>1, <1>3, <1>4, ReplaceAbstract
  DEF Replace, AbstractDiscards, TrimsBlock, IsTransfer
<1>5. CASE Succeed(r)
  <2> DEFINE s == [r EXCEPT !.status = "ok"]
  <2>1. Replace(r, s) /\ UNCHANGED <<disk, buffer>> /\ r.status = "sent"
    BY <1>5 DEF Succeed
  <2>2. IsTransfer(s) /\ s.proc = r.proc /\ Abstract(s)' = Abstract(r)
    BY <1>1, <1>3, <2>1 DEF IsTransfer, Requests, Abstract
  <2> HIDE DEF s
  <2> QED
    BY <1>2, <1>4, <2>1, <2>2 DEF Device!vars
<1>6. CASE FailRequest(r)
  <2> DEFINE s == [r EXCEPT !.status = "error"]
  <2>1. Replace(r, s) /\ UNCHANGED <<disk, buffer>>
    BY <1>6 DEF FailRequest
  <2>2. IsTransfer(s) /\ s.proc = r.proc
        /\ Abstract(s)' = [Abstract(r) EXCEPT !.failed = "yes"]
    BY <1>1, <1>3 DEF IsTransfer, Requests, Abstract
  <2> HIDE DEF s
  <2> QED
    BY <1>2, <1>4, <2>1, <2>2 DEF Device!Next, Device!Fail
<1>7. ASSUME NEW k \in r.todo, MoveBlock(r, k) PROVE Device!Next
  <2> DEFINE s == [r EXCEPT !.todo = @ \ {k}]
             t == Abstract(r)
  <2>1. Replace(r, s) /\ r.first + k \in Lbas
    BY <1>1, <1>7, MovesInside DEF MoveBlock
  <2>2. IsTransfer(s) /\ s.proc = r.proc
        /\ Abstract(s)' = [t EXCEPT !.todo = @ \ {k}]
    BY <1>1, <1>3 DEF IsTransfer, Requests, Abstract
  <2>3. /\ t.kind = r.kind /\ t.first = r.first /\ t.todo = r.todo
        /\ t.data = r.data /\ t.proc = r.proc
    BY DEF Abstract
  <2> HIDE DEF s, t
  <2>4. AbstractDiscards' = AbstractDiscards
        /\ AbstractTransfers' =
             (AbstractTransfers \ {t}) \union {[t EXCEPT !.todo = @ \ {k}]}
    BY <1>4, <2>1, <2>2 DEF t
  <2>5. CASE r.kind = "write"
    <3>1. disk' = [disk EXCEPT ![r.first + k] = r.data[k]] /\ UNCHANGED buffer
      BY <1>7, <2>5 DEF MoveBlock
    <3>2. Device!Move(t, k)
      BY <1>2, <2>1, <2>3, <2>4, <2>5, <3>1 DEF Device!Move, t, Device!Lbas, Lbas
    <3> QED
      BY <1>2, <2>3, <3>2 DEF Device!Next, t
  <2>6. CASE r.kind = "read"
    <3>1. buffer' = [buffer EXCEPT ![r.proc][k] = disk[r.first + k]]
          /\ UNCHANGED disk
      BY <1>7, <2>6 DEF MoveBlock
    <3>2. Device!Move(t, k)
      BY <1>2, <2>1, <2>3, <2>4, <2>6, <3>1 DEF Device!Move, t, Device!Lbas, Lbas
    <3> QED
      BY <1>2, <2>3, <3>2 DEF Device!Next, t
  <2> QED
    BY <2>5, <2>6 DEF IsTransfer
<1> QED
  BY <1>5, <1>6, <1>7 DEF Serve

\* A step of the device on a trim zeroes a block or is not seen.
LEMMA ServeTrimImplements ==
  ASSUME Inv, NEW r \in in_flight, ~ IsTransfer(r), Serve(r)
  PROVE  [Device!Next]_(Device!vars)
<1>1. r \in Requests /\ Moved(r) /\ r.kind = "trim"
  BY DEF Inv, TypeOK, SuccessMoved, Requests, IsTransfer
<1>2. pc' = pc
  BY DEF Serve, Succeed, FailRequest, MoveBlock
<1>3. ASSUME NEW s, Replace(r, s), s.kind = "trim"
      PROVE  AbstractTransfers' = AbstractTransfers
  <2>1. Transfers' = Transfers
    BY <1>3 DEF Replace, Transfers, IsTransfer
  <2>2. \A t \in Transfers : Abstract(t)' = Abstract(t)
    BY <1>2 DEF Abstract
  <2> QED
    BY <2>1, <2>2 DEF AbstractTransfers
<1>4. CASE Succeed(r) \/ FailRequest(r)
  <2>1. PICK s : Replace(r, s) /\ s.kind = "trim" /\ s.first = r.first
                 /\ s.todo = r.todo
    <3>1. \A x \in {"ok", "error"} :
            LET s == [r EXCEPT !.status = x]
            IN  s.kind = "trim" /\ s.first = r.first /\ s.todo = r.todo
      BY <1>1 DEF Requests
    <3> QED
      BY <1>4, <3>1 DEF Succeed, FailRequest
  <2>2. UNCHANGED <<disk, buffer>>
    BY <1>4 DEF Succeed, FailRequest
  <2>3. AbstractDiscards' = AbstractDiscards
    BY <1>1, <2>1 DEF AbstractDiscards, TrimsBlock, Replace
  <2> QED
    BY <1>3, <2>1, <2>2, <2>3 DEF Device!vars
<1>5. ASSUME NEW k \in r.todo, MoveBlock(r, k) PROVE Device!Next
  <2> DEFINE s == [r EXCEPT !.todo = @ \ {k}]
             l == r.first + k
  <2>1. Replace(r, s) /\ l \in Lbas
    BY <1>1, <1>5, MovesInside DEF MoveBlock
  <2>2. s.kind = "trim" /\ s.first = r.first /\ s.todo = r.todo \ {k}
    BY <1>1 DEF Requests
  <2>3. disk' = [disk EXCEPT ![l] = Zeroed] /\ UNCHANGED buffer
    BY <1>1, <1>5 DEF MoveBlock
  <2>4. l - r.first = k /\ r.first \in Int
    BY <1>1 DEF Requests, Lbas, Moved
  <2> HIDE DEF s
  <2>5. l \in AbstractDiscards
    BY <1>1, <2>1, <2>4 DEF AbstractDiscards, TrimsBlock
  <2>6. AbstractDiscards' \subseteq AbstractDiscards
    BY <1>1, <2>1, <2>2 DEF AbstractDiscards, TrimsBlock, Replace
  <2>7. \A m \in Lbas \ {l} : TrimsBlock(r, m) => TrimsBlock(s, m)
    BY <1>1, <2>2, <2>4 DEF TrimsBlock, Lbas
  <2>8. AbstractDiscards \ {l} \subseteq AbstractDiscards'
    BY <2>1, <2>7 DEF AbstractDiscards, Replace
  <2>9. AbstractDiscards' \in {AbstractDiscards, AbstractDiscards \ {l}}
    BY <2>6, <2>8
  <2>10. AbstractTransfers' = AbstractTransfers
    BY <1>3, <2>1, <2>2
  <2> QED
    BY <2>1, <2>3, <2>5, <2>9, <2>10 DEF Device!Next, Device!Zero, Device!Lbas, Lbas
<1> QED
  BY <1>4, <1>5 DEF Serve

\* A dropped request of a process that is gone ends a transfer or forgets a trim.
LEMMA AbortImplements ==
  ASSUME Inv, NEW r \in in_flight, Abort(r)
  PROVE  Device!Next
<1>1. UNCHANGED <<disk, buffer, pc>> /\ in_flight' = in_flight \ {r}
  BY DEF Abort
<1>2. AbstractDiscards' \in SUBSET AbstractDiscards
  BY <1>1, FewerDiscards
<1>3. CASE IsTransfer(r)
  <2>1. r \in Transfers /\ Transfers' = Transfers \ {r}
    BY <1>1, <1>3 DEF Transfers
  <2>2. AbstractTransfers' = AbstractTransfers \ {Abstract(r)}
    BY <1>1, <2>1, RemoveAbstract
  <2>3. Abstract(r).failed = "yes" /\ Abstract(r) \in AbstractTransfers
    BY <2>1 DEF Abort, Abstract, AbstractTransfers
  <2> QED
    BY <1>1, <1>2, <2>2, <2>3 DEF Device!Next, Device!End
<1>4. CASE ~ IsTransfer(r)
  <2>1. Transfers' = Transfers
    BY <1>1, <1>4 DEF Transfers
  <2>2. AbstractTransfers' = AbstractTransfers
    <3>1. \A t \in Transfers : Abstract(t)' = Abstract(t)
      BY <1>1 DEF Abstract
    <3> QED
      BY <2>1, <3>1 DEF AbstractTransfers
  <2> QED
    BY <1>1, <1>2, <2>2 DEF Device!Next, Device!Forget
<1> QED
  BY <1>3, <1>4

\* Every step is a step of the block device or is not seen there.
LEMMA StepImplements == Inv /\ [Next]_vars => [Device!Next]_(Device!vars)
<1> SUFFICES ASSUME Inv, [Next]_vars PROVE [Device!Next]_(Device!vars)
  OBVIOUS
<1>1. CASE UNCHANGED vars
  BY <1>1, Unseen DEF vars
<1>2. ASSUME NEW p \in Procs,
             init_spdk(p) \/ InitFails(p) \/ exit_spdk(p) \/ Dies(p)
      PROVE  [Device!Next]_(Device!vars)
  BY <1>2, ProcessImplements
<1>3. ASSUME NEW p \in Procs, Call(p) PROVE Device!Next
  <2>1. PICK q \in Queues, first \in Lbas, num \in 1 .. MaxBlocks :
          \/ read_spdk(p, q, first, num)
          \/ \E data \in Payloads : write_spdk(p, q, first, num, data)
          \/ trim_spdk(p, q, first, num)
    BY <1>3 DEF Call
  <2>2. CASE read_spdk(p, q, first, num)
    <3>1. Blank \in Contents
      BY DEF Blank, Contents
    <3>2. Device!Begin(p)
      BY <2>2, <3>1, TransferImplements DEF read_spdk
    <3> QED
      BY <3>2 DEF Device!Next
  <2>3. ASSUME NEW data \in Payloads, write_spdk(p, q, first, num, data)
        PROVE  Device!Next
    <3>1. Device!Begin(p)
      BY <2>3, PayloadAssumption, TransferImplements DEF write_spdk
    <3> QED
      BY <3>1 DEF Device!Next
  <2>4. CASE trim_spdk(p, q, first, num)
    <3>1. Device!Discard
      BY <2>4, TrimImplements
    <3> QED
      BY <3>1 DEF Device!Next
  <2> QED
    BY <2>1, <2>2, <2>3, <2>4
<1>4. ASSUME NEW p \in Procs, Poll(p) PROVE Device!Next
  BY <1>4, PollImplements
<1>5. ASSUME NEW r \in in_flight, Serve(r) PROVE [Device!Next]_(Device!vars)
  BY <1>5, ServeTransferImplements, ServeTrimImplements
<1>6. ASSUME NEW r \in in_flight, Abort(r) PROVE Device!Next
  BY <1>6, AbortImplements
<1> QED
  BY <1>1, <1>2, <1>3, <1>4, <1>5, <1>6 DEF Next

\* For any number of processes, queues and blocks, any order of service, errors
\* and deaths: the layer implements the block device of BlockDevice.
THEOREM LayerIsBlockDevice == Spec => Implements
<1> QED
  BY InitImplements, StepImplements, InvHolds, PTL DEF Spec, Implements, Device!Spec

=============================================================================
