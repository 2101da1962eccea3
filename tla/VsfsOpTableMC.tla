--------------------------- MODULE VsfsOpTableMC ---------------------------
(***************************************************************************)
(* VsfsOpTable with a table of two or three entries, so that it fills, is  *)
(* overshot and is drained, and with callers that close what they opened.  *)
(***************************************************************************)
EXTENDS VsfsOpTable, TLC

CONSTANTS p1, p2, n1, n2

OneProc == {p1}
TwoProcs == {p1, p2}
OneFile == {n1}
TwoFiles == {n1, n2}

\* The processes are alike: no action and no property tells one from another.
ProcSymmetry == Permutations(TwoProcs)

\* Callers close only numbers vsfs_open gave them.
NextOwnFds ==
  /\ Next
  /\ \A p \in Procs : p \in faulted' \ faulted /\ pc[p] = "idle" =>
       \/ p \in dangling
       \/ \E f \in FdsOf(p) : ~IsHead(f) /\ ~IsTail(f)
SpecOwnFds == Init /\ [][NextOwnFds]_vars

=============================================================================
