----------------------------- MODULE VsfsMkfsMC -----------------------------
(***************************************************************************)
(* VsfsMkfs with blocks of two sectors, an inode region of three blocks    *)
(* and bitmap blocks of four bits, on every device of one to twenty        *)
(* blocks: too small, exactly large enough, and at each place where the    *)
(* bitmap gets one block longer.                                           *)
(***************************************************************************)
EXTENDS VsfsMkfs

SmallDevices == 1 .. 20

=============================================================================
