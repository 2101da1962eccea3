----------------------------- MODULE VsfsShmMC -----------------------------
(***************************************************************************)
(* VsfsShm with blocks of two cells, one block in level 1, block numbers   *)
(* that wrap at two, a largest size of two blocks and a limit one above    *)
(* it; programs make MaxCalls calls and tools run MaxTools times.  Names   *)
(* are given out in order.                                                 *)
(***************************************************************************)
EXTENDS VsfsShm

CONSTANTS MaxCalls, MaxTools, f1, f2, f3

ThreeNames == {f1, f2, f3}

VARIABLES calls, tools

InitMC == Init /\ calls = 0 /\ tools = 0

InOrder ==
  \A b \in Blocks, s \in Slots :
    disk'[b][s] # disk[b][s] /\ disk'[b][s] \in [name : Names, inode : Inodes] =>
      disk'[b][s].name = CASE ~Listed(f1) -> f1 [] ~Listed(f2) -> f2 [] OTHER -> f3

NextMC ==
  /\ Next
  /\ calls' = IF pc = "idle" /\ pc' # "gone" THEN calls + 1 ELSE calls
  /\ tools' = IF pc = "gone" /\ pc' = "gone" THEN tools + 1 ELSE tools
  /\ calls' <= MaxCalls /\ tools' <= MaxTools
  /\ InOrder
  /\ calls' > 1 => \A k \in DOMAIN fds' : k > Len(fds) => fds'[k].flags = "O_RDWR"

SpecMC == InitMC /\ [][NextMC]_<<vars, calls, tools>>

=============================================================================
