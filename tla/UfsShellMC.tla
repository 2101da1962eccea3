----------------------------- MODULE UfsShellMC -----------------------------
(***************************************************************************)
(* UfsShell with blocks of two cells, a largest size of two blocks and a   *)
(* limit one cell above it; the shell runs commands and other programs     *)
(* make calls, MaxCalls in all.                                            *)
(***************************************************************************)
EXTENDS UfsShell

CONSTANTS MaxCalls, a1, f1, f2, f3

ThreeNames == {f1, f2, f3}

VARIABLE calls
svarsMC == <<svars, calls>>

InitMC == ShellInit /\ calls = 0

\* Bounds: names are given out in order and the first mapping of a process is at
\* a1, which renaming makes general; a descriptor that is not read-write is
\* opened by the first call only; zeros are written behind a text only.
Named(inode, names) ==
  \A b \in Blocks, s \in Slots, name \in Names \ names :
    disk'[b][s] # Entry(name, inode)
Few ==
  /\ Named(1, {f1}) /\ Named(2, {f1, f2})
  /\ sb_cached = NULL /\ inode_reg = NULL => sb_cached' \in {NULL, a1}
  /\ calls' > 1 => \A k \in DOMAIN fds' : k > Len(fds) => fds'[k].flags = "O_RDWR"
  /\ \A b \in Blocks, s \in Slots :
       disk'[b][s] = Zeroed => disk[b][s] = Zeroed \/ (cmd = "writing" /\ s > 0)

\* A model that has ended stays as it is.
Ended == Astray /\ UNCHANGED svarsMC

\* A call counts one, a call that dies inside another one.
Cost ==
  CASE pc' = "gone" /\ <<next_block, next_inode>>' # <<next_block, next_inode>> -> 2
    [] (cmd = "prompt" \/ (cmd = "other" /\ pc = "idle")) /\ cmd' # "none" -> 1
    [] OTHER -> 0

Step ==
  /\ ShellNext \/ OtherNext
  /\ calls' = calls + Cost /\ calls' <= MaxCalls
  /\ Few

NextMC == Step \/ Ended

SpecMC == InitMC /\ [][NextMC]_svarsMC /\ Fairness

=============================================================================
