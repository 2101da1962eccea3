------------------------------ MODULE SpdkIoMC ------------------------------
(***************************************************************************)
(* SpdkIo on a device of two blocks with two processes: the first makes    *)
(* every call, the second reads and writes the first block, so that their  *)
(* transfers overlap.                                                      *)
(***************************************************************************)
EXTENDS SpdkIo

CONSTANTS p1, p2, IO, MG

TwoProcs == {p1, p2}
TwoQueues == {IO, MG}

\* Buffers whose blocks are alike.
Uniform == {[k \in Offsets |-> v] : v \in Values}

\* Bounds: one trim of one block at a time; the second process as above.
Modest(r) ==
  /\ r.proc = p2 => r.kind # "trim" /\ r.num = 1 /\ r.first = 0
  /\ r.kind = "trim" => r.num = 1 /\ r.queue = IO

NextFew ==
  /\ Next
  /\ \A r \in in_flight' : Modest(r)
  /\ Cardinality({r \in in_flight' : r.kind = "trim"}) <= 1
  /\ qpair'[p1] \in {{}, TwoQueues} /\ qpair'[p2] \in {{}, {IO}}
FairFew == Init /\ [][NextFew]_vars /\ Fairness

=============================================================================
