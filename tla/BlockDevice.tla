---------------------------- MODULE BlockDevice ----------------------------
(***************************************************************************)
(* What read_spdk and write_spdk of src/inc/spdk.h promise: a block device  *)
(* whose blocks are read and written atomically, one by one, some time      *)
(* between the call and its return.  A call may end with blocks missing     *)
(* only if the device reported an error for it or the process is gone.      *)
(***************************************************************************)
EXTENDS Integers

CONSTANTS
  Procs,    \* processes that opened the device
  NR_LBAS,  \* blocks of the device
  Values,   \* what a block may hold
  Zeroed,   \* what a block holds once it is trimmed
  MaxBlocks \* bound: blocks of one transfer

Lbas == 0 .. NR_LBAS - 1
Offsets == 0 .. MaxBlocks - 1

VARIABLES
  disk,     \* the blocks of the device
  buffer,   \* the DMA buffer of each process
  transfers,\* transfers under way: offsets still to move, and the first block
  discards  \* blocks a trim under way may still zero

vars == <<disk, buffer, transfers, discards>>

Init ==
  /\ disk = [l \in Lbas |-> Zeroed]
  /\ buffer = [p \in Procs |-> [k \in Offsets |-> Zeroed]]
  /\ transfers = {} /\ discards = {}

\* The process fills its buffer and calls write_spdk, or calls read_spdk.
Begin(p) ==
  /\ \A t \in transfers : t.proc # p
  /\ \E kind \in {"read", "write"}, first \in Lbas, todo \in SUBSET Offsets,
        data \in [Offsets -> Values \union {Zeroed}] :
       /\ transfers' = transfers \union
            {[proc |-> p, kind |-> kind, first |-> first, todo |-> todo,
              data |-> data, failed |-> "no"]}
       /\ buffer' = [buffer EXCEPT ![p] = data]
  /\ UNCHANGED <<disk, discards>>

\* One block is moved, in either direction.
Move(t, k) ==
  /\ t \in transfers /\ k \in t.todo /\ t.first + k \in Lbas
  /\ transfers' = (transfers \ {t}) \union {[t EXCEPT !.todo = @ \ {k}]}
  /\ IF t.kind = "write"
     THEN /\ disk' = [disk EXCEPT ![t.first + k] = t.data[k]]
          /\ UNCHANGED buffer
     ELSE /\ buffer' = [buffer EXCEPT ![t.proc][k] = disk[t.first + k]]
          /\ UNCHANGED disk
  /\ UNCHANGED discards

\* The device reports an error.
Fail(t) ==
  /\ t \in transfers
  /\ transfers' = (transfers \ {t}) \union {[t EXCEPT !.failed = "yes"]}
  /\ UNCHANGED <<disk, buffer, discards>>

\* The call returns, or the device drops what a process that is gone asked for.
End(t) ==
  /\ t \in transfers /\ (t.todo = {} \/ t.failed = "yes")
  /\ transfers' = transfers \ {t}
  /\ discards' \in SUBSET discards
  /\ UNCHANGED <<disk, buffer>>

\* Trims: asked for, done in any order or not at all.
Discard ==
  /\ \E todo \in SUBSET Lbas : discards' = discards \union todo
  /\ UNCHANGED <<disk, buffer, transfers>>
Zero(l) ==
  /\ l \in discards
  /\ disk' = [disk EXCEPT ![l] = Zeroed]
  /\ discards' \in {discards, discards \ {l}}
  /\ UNCHANGED <<buffer, transfers>>
Forget ==
  /\ discards' \in SUBSET discards
  /\ UNCHANGED <<disk, buffer, transfers>>

Next ==
  \/ \E p \in Procs : Begin(p)
  \/ \E t \in transfers : Fail(t) \/ End(t) \/ \E k \in t.todo : Move(t, k)
  \/ Discard \/ Forget \/ \E l \in Lbas : Zero(l)

Spec == Init /\ [][Next]_vars

=============================================================================
