----------------------------- MODULE FileStore -----------------------------
(***************************************************************************)
(* What the file system promises its users: named files, each a sequence   *)
(* of cells.  A step changes one file: it is created, or the cells of one  *)
(* block are overwritten, or its end moves.  No step loses a name or       *)
(* touches another file - until the store breaks, which the refinement     *)
(* allows in named circumstances only.                                     *)
(***************************************************************************)
EXTENDS Integers, Sequences

CONSTANTS
  Names,     \* file names
  BS,        \* cells of a block
  NewLengths \* lengths a new file may have

VARIABLES
  state, \* "sound" or "broken"
  files  \* the contents of the files there are

vars == <<state, files>>

Init == state = "sound" /\ files = <<>>

Unchanged(names) == \A n \in names : files'[n] = files[n]

\* vsfs_creat.
Create(name) ==
  /\ name \notin DOMAIN files
  /\ DOMAIN files' = DOMAIN files \union {name}
  /\ Unchanged(DOMAIN files)
  /\ Len(files'[name]) \in NewLengths

\* vsfs_write, one block of it.
Overwrite(name, first) ==
  /\ DOMAIN files' = DOMAIN files
  /\ Unchanged(DOMAIN files \ {name})
  /\ Len(files'[name]) = Len(files[name])
  /\ \A k \in 1 .. Len(files[name]) :
       k \notin first + 1 .. first + BS => files'[name][k] = files[name][k]

\* The end of vsfs_write: what remains of the file is as it was.
Resize(name) ==
  /\ DOMAIN files' = DOMAIN files
  /\ Unchanged(DOMAIN files \ {name})
  /\ \A k \in 1 .. Len(files[name]) :
       k <= Len(files'[name]) => files'[name][k] = files[name][k]

Break == state' = "broken" /\ files' = <<>>

Next ==
  /\ state = "sound"
  /\ \/ /\ state' = "sound"
        /\ \/ \E name \in Names : Create(name)
           \/ \E name \in DOMAIN files :
                \/ Resize(name)
                \/ \E b \in 0 .. Len(files[name]) \div BS :
                     Overwrite(name, b * BS)
     \/ Break

Spec == Init /\ [][Next]_vars

=============================================================================
