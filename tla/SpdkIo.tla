------------------------------- MODULE SpdkIo -------------------------------
(***************************************************************************)
(* The block device layer, src/spdkapi/spdk.c: processes (mkfs, mount,     *)
(* unmount, the shell, the benchmark programs) attach to one NVMe device,  *)
(* each with queue pairs of its own, submit one transfer at a time and     *)
(* poll its queue until the completion callback has run.  A trim is        *)
(* submitted and not waited for: a later poll on its queue collects it.    *)
(*                                                                         *)
(* The device executes the requests of all queues in any order, a transfer *)
(* block by block, and reports success or an error for each; the callback  *)
(* io_complete does not look at which.  A process may die or exit with     *)
(* requests in flight, which the device then executes or drops.  A request *)
(* refused at once (rc # 0) changes nothing and is not a step.             *)
(***************************************************************************)
EXTENDS Integers, FiniteSets

CONSTANTS
  Procs,     \* processes that open the device
  Queues,    \* IO_QUEUE and MG_QUEUE
  NR_LBAS,   \* blocks of the device; PER_DEV_BLOCKS is 1
  Values,    \* what a client writes into a block
  Zeroed,    \* what a block holds once it is trimmed
  NULL,      \* no queue
  POOL,      \* requests a queue pair can have in flight
  Payloads,  \* bound: the buffers that are written
  MaxBlocks  \* bound: blocks of one transfer

ASSUME SpdkAssumption ==
  /\ NR_LBAS \in Nat /\ POOL \in Nat /\ MaxBlocks \in Nat \ {0}
  /\ NULL \notin Queues

Lbas == 0 .. NR_LBAS - 1
Offsets == 0 .. MaxBlocks - 1
Contents == [Offsets -> Values \union {Zeroed}]

ASSUME PayloadAssumption == Payloads \subseteq Contents

VARIABLES
  disk,      \* the blocks of the device
  buffer,    \* the DMA buffer of each process
  in_flight, \* requests submitted and not collected
  pc,        \* where each process is
  qpair,     \* target.qpair of each process: the ones that were allocated
  type       \* the queue its running call polls

vars == <<disk, buffer, in_flight, pc, qpair, type>>

Init ==
  /\ disk = [l \in Lbas |-> Zeroed]
  /\ buffer = [p \in Procs |-> [k \in Offsets |-> Zeroed]]
  /\ in_flight = {}
  /\ pc = [p \in Procs |-> "start"]
  /\ qpair = [p \in Procs |-> {}]
  /\ type = [p \in Procs |-> NULL]

Goto(p, label) == pc' = [pc EXCEPT ![p] = label]

----------------------------------------------------------------------------
(* init_spdk, exit_spdk *)

\* attach_cb met the device: its first active namespace becomes the target.  A
\* queue pair that cannot be allocated is reported and stays NULL.
init_spdk(p) ==
  /\ pc[p] = "start"
  /\ \E allocated \in SUBSET Queues : qpair' = [qpair EXCEPT ![p] = allocated]
  /\ Goto(p, "idle")
  /\ UNCHANGED <<disk, buffer, in_flight, type>>

\* No environment, no controller at the address or no namespace: init_spdk
\* returns 1, which no caller tests.
InitFails(p) ==
  /\ pc[p] = "start"
  /\ Goto(p, "failed")
  /\ UNCHANGED <<disk, buffer, in_flight, qpair, type>>

Gone(p) ==
  /\ Goto(p, "gone")
  /\ qpair' = [qpair EXCEPT ![p] = {}]
  /\ type' = [type EXCEPT ![p] = NULL]
  /\ UNCHANGED <<disk, buffer, in_flight>>

\* Without a target exit_spdk prints a message; either way the process ends.
exit_spdk(p) == pc[p] \in {"idle", "failed"} /\ Gone(p)

\* The process is killed, or calls with a NULL namespace or queue pair.
Dies(p) == pc[p] # "gone" /\ Gone(p)

----------------------------------------------------------------------------
(* read_spdk, write_spdk, trim_spdk *)

Pending(p, q) == {r \in in_flight : r.proc = p /\ r.queue = q}
Taken(p, q) == {r.cid : r \in Pending(p, q)}

\* The request a submission takes from the pool of the queue pair.
IsFreeRequest(p, q, cid) ==
  /\ cid \notin Taken(p, q)
  /\ \A c \in 0 .. cid - 1 : c \in Taken(p, q)

\* Mutant: one block too many is asked for.
Mut_OneBlockMore(p, q, kind, first, num, data) ==
  /\ pc[p] = "idle" /\ q \in qpair[p]
  /\ \E cid \in 0 .. POOL - 1 :
       /\ IsFreeRequest(p, q, cid)
       /\ in_flight' = in_flight \union
            {[proc |-> p, queue |-> q, cid |-> cid, kind |-> kind,
              first |-> first, num |-> num + 1, todo |-> 0 .. num,
              data |-> data, status |-> "sent"]}

Submit(p, q, kind, first, num, data) ==
  /\ pc[p] = "idle" /\ q \in qpair[p]
  /\ \E cid \in 0 .. POOL - 1 :
       /\ IsFreeRequest(p, q, cid)
       /\ in_flight' = in_flight \union
            {[proc |-> p, queue |-> q, cid |-> cid, kind |-> kind,
              first |-> first, num |-> num, todo |-> 0 .. num - 1,
              data |-> data, status |-> "sent"]}

\* The client fills the buffer first, and clears it before it reads
\* (example.c).
Transfer(p, q, kind, first, num, data) ==
  /\ Submit(p, q, kind, first, num, data)
  /\ buffer' = [buffer EXCEPT ![p] = data]
  /\ type' = [type EXCEPT ![p] = q]
  /\ Goto(p, "poll")
  /\ UNCHANGED <<disk, qpair>>

Blank == [k \in Offsets |-> Zeroed]

read_spdk(p, q, first, num) == Transfer(p, q, "read", first, num, Blank)
write_spdk(p, q, first, num, data) == Transfer(p, q, "write", first, num, data)

trim_spdk(p, q, first, num) ==
  /\ Submit(p, q, "trim", first, num, Blank)
  /\ UNCHANGED <<disk, buffer, pc, qpair, type>>

Finished(p, q) == {r \in Pending(p, q) : r.status # "sent"}
IsTransfer(r) == r.kind \in {"read", "write"}

\* Mutant: one poll is enough.
Mut_PollOnce(p) ==
  /\ pc[p] = "poll"
  /\ in_flight' = in_flight \ Finished(p, type[p])
  /\ Goto(p, "idle") /\ type' = [type EXCEPT ![p] = NULL]
  /\ UNCHANGED <<disk, buffer, qpair>>

\* Mutant: the request is given up when the loop ends early.
Mut_PollGivesUp(p) ==
  /\ pc[p] = "poll"
  /\ in_flight' = in_flight \ Pending(p, type[p])
  /\ Goto(p, "idle") /\ type' = [type EXCEPT ![p] = NULL]
  /\ UNCHANGED <<disk, buffer, qpair>>

\* Mutant: another queue than the one of the request is polled.
Mut_PollOtherQueue(p) ==
  /\ pc[p] = "poll"
  /\ \E q \in Queues \ {type[p]} :
       /\ Finished(p, q) # {}
       /\ in_flight' = in_flight \ Finished(p, q)
  /\ UNCHANGED <<disk, buffer, pc, qpair, type>>

\* spdk_nvme_qpair_process_completions on the queue of the call: the callbacks
\* of all finished requests run.  io_complete sets is_completed, on the stack of
\* the call, whatever the status, and ends the loop; trim_complete only prints.
Poll(p) ==
  /\ pc[p] = "poll"
  /\ Finished(p, type[p]) # {}
  /\ in_flight' = in_flight \ Finished(p, type[p])
  /\ IF \E r \in Finished(p, type[p]) : IsTransfer(r)
     THEN Goto(p, "idle") /\ type' = [type EXCEPT ![p] = NULL]
     ELSE UNCHANGED <<pc, type>>
  /\ UNCHANGED <<disk, buffer, qpair>>

----------------------------------------------------------------------------
(* The device *)

Replace(r, s) == in_flight' = (in_flight \ {r}) \union {s}

InRange(r) == r.first + r.num <= NR_LBAS

MoveBlock(r, k) ==
  /\ r.status = "sent" /\ k \in r.todo /\ InRange(r)
  /\ Replace(r, [r EXCEPT !.todo = @ \ {k}])
  /\ \/ /\ r.kind = "read"
        /\ buffer' = [buffer EXCEPT ![r.proc][k] = disk[r.first + k]]
        /\ UNCHANGED disk
     \/ /\ r.kind = "write"
        /\ disk' = [disk EXCEPT ![r.first + k] = r.data[k]]
        /\ UNCHANGED buffer
     \/ /\ r.kind = "trim"
        /\ disk' = [disk EXCEPT ![r.first + k] = Zeroed]
        /\ UNCHANGED buffer
  /\ UNCHANGED <<pc, qpair, type>>

Succeed(r) ==
  /\ r.status = "sent" /\ r.todo = {}
  /\ Replace(r, [r EXCEPT !.status = "ok"])
  /\ UNCHANGED <<disk, buffer, pc, qpair, type>>

\* An address beyond the device, a bad medium, a queue pair that failed: at any
\* time, and after any part of the blocks.
FailRequest(r) ==
  /\ r.status = "sent"
  /\ Replace(r, [r EXCEPT !.status = "error"])
  /\ UNCHANGED <<disk, buffer, pc, qpair, type>>

\* The requests of a process that is gone are aborted sooner or later.
Abort(r) ==
  /\ pc[r.proc] = "gone"
  /\ in_flight' = in_flight \ {r}
  /\ UNCHANGED <<disk, buffer, pc, qpair, type>>

Serve(r) == Succeed(r) \/ FailRequest(r) \/ \E k \in r.todo : MoveBlock(r, k)

Call(p) ==
  \E q \in Queues, first \in Lbas, num \in 1 .. MaxBlocks :
    \/ read_spdk(p, q, first, num)
    \/ \E data \in Payloads : write_spdk(p, q, first, num, data)
    \/ trim_spdk(p, q, first, num)

Next ==
  \/ \E p \in Procs : init_spdk(p) \/ InitFails(p) \/ exit_spdk(p) \/ Dies(p)
  \/ \E p \in Procs : Call(p) \/ Poll(p)
  \/ \E r \in in_flight : Serve(r) \/ Abort(r)

\* The loop of read_spdk and write_spdk does nothing but poll, and an NVMe device
\* answers every command; the driver would reset one that does not.
ServeTransfer(p) ==
  \E r \in in_flight : r.proc = p /\ IsTransfer(r) /\ Serve(r)
Fairness == \A p \in Procs : WF_vars(Poll(p)) /\ WF_vars(ServeTransfer(p))

Spec == Init /\ [][Next]_vars
FairSpec == Spec /\ Fairness

----------------------------------------------------------------------------
(* Properties *)

Requests ==
  [proc : Procs, queue : Queues, cid : 0 .. POOL - 1,
   kind : {"read", "write", "trim"}, first : Lbas, num : 0 .. MaxBlocks,
   todo : SUBSET Offsets, data : Contents, status : {"sent", "ok", "error"}]

\* Every variable has its type.
TypeOK ==
  /\ disk \in [Lbas -> Values \union {Zeroed}]
  /\ buffer \in [Procs -> Contents]
  /\ in_flight \in SUBSET Requests
  /\ pc \in [Procs -> {"start", "failed", "idle", "poll", "gone"}]
  /\ qpair \in [Procs -> SUBSET Queues]
  /\ type \in [Procs -> Queues \union {NULL}]

Transfers == {r \in in_flight : IsTransfer(r)}

\* is_completed lives on the stack of read_spdk and write_spdk: no transfer is
\* still in flight when its call has returned, whatever the order the device
\* answers in, so no callback writes into a frame that is gone; and the queue
\* the call polls is the one its only transfer is in.
NoLateCompletion ==
  \A r \in Transfers : pc[r.proc] # "gone" =>
    /\ pc[r.proc] = "poll" /\ type[r.proc] = r.queue
    /\ \A s \in Transfers : s.proc = r.proc => s = r

\* What a request is to the caller: neither its queue nor its place in the pool.
\* The device may drop what a process that is gone asked for.
Abstract(r) ==
  [proc |-> r.proc, kind |-> r.kind, first |-> r.first, todo |-> r.todo,
   data |-> r.data,
   failed |-> IF r.status = "error" \/ pc[r.proc] = "gone" THEN "yes" ELSE "no"]
AbstractTransfers == {Abstract(r) : r \in Transfers}

\* The blocks a trim under way has not zeroed yet.
TrimsBlock(r, l) == r.kind = "trim" /\ l - r.first \in r.todo
AbstractDiscards == {l \in Lbas : \E r \in in_flight : TrimsBlock(r, l)}

Device ==
  INSTANCE BlockDevice WITH transfers <- AbstractTransfers,
                            discards <- AbstractDiscards

\* The layer implements the block device spdk.h describes: each block of a
\* transfer is read or written atomically between call and return, and a call
\* returns with blocks missing only when the device reported an error, which
\* the caller is not told.
Implements == Device!Spec

\* Every transfer that was submitted returns, unless the process dies: nothing
\* a trim, another queue or another process does keeps the poll loop going.
TransferReturns == \A p \in Procs : pc[p] = "poll" ~> pc[p] # "poll"

=============================================================================
