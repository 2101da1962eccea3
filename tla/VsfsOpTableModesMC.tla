------------------------ MODULE VsfsOpTableModesMC -------------------------
(***************************************************************************)
(* VsfsOpTable used in one of two ways, chosen at the start: all processes  *)
(* at once on one file, closing in any order, or one orderly process alone, *)
(* which has several files and closes the newest descriptor first, as       *)
(* testopen.c does, with its updates of the counter in two steps.  Alone it *)
(* cannot overshoot the limit, so the same slots stand for a table of one   *)
(* entry more.                                                             *)
(***************************************************************************)
EXTENDS VsfsOpTableMC

VARIABLE alone  \* the orderly process, or NULL

Orderly(p) ==
  INSTANCE VsfsOpTable WITH Procs <- {p}, OP_LIMIT <- OP_LIMIT + 1,
                            LIFO <- TRUE, AtomicCount <- FALSE, Deaths <- FALSE

MaxShared == 1  \* bound: descriptor number of a process that is not alone

InitBoth == Init /\ alone \in Procs \union {NULL}
NextBoth ==
  /\ \/ /\ alone = NULL /\ Next
        /\ \A p \in Procs : node'[p].index <= MaxShared /\ node'[p].inode # n2
     \/ \E p \in Procs : alone = p /\ Orderly(p)!Next
  /\ UNCHANGED alone
SpecBoth == InitBoth /\ [][NextBoth]_<<vars, alone>>

\* The orderly process: every descriptor keeps an entry and a file_t of its
\* own, below the counter (src/test/testopen.c prints them).
SoundWhenAlone == alone # NULL => DescriptorsSound

\* The orderly process: none of its closes kills it.
ReturnsWhenAlone == alone # NULL => CloseReturns

=============================================================================
