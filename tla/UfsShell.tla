------------------------------ MODULE UfsShell ------------------------------
(***************************************************************************)
(* The shell, src/ufs/ufs_sh.c, on the file interface: one process after   *)
(* the other, the shell or another program with the library (the           *)
(* benchmarks, the tests), works on the same cache and device.  A command  *)
(* of the shell is a fixed sequence of calls; another program makes any.   *)
(* The commands that only print (ls, p, pwd, help, and stat and rm, which  *)
(* are empty) change nothing and are left out.  mkfs, mount and unmount    *)
(* are in VsfsMount.                                                       *)
(***************************************************************************)
EXTENDS VsfsFile

VARIABLES
  cmd,     \* where the shell is, or which program runs
  printed  \* what cmd_read has printed, one text for each printf

shell == <<cmd, printed>>
svars == <<vars, shell>>

ShellInit == Init /\ cmd = "none" /\ printed = <<>>

\* A process that is gone runs no command.
Then(next) ==
  /\ cmd' = IF pc' = "gone" THEN "none" ELSE next
  /\ UNCHANGED printed

Shell == cmd \notin {"none", "other"}

env_init == cmd = "none" /\ Start /\ Then("prompt")
OtherProgram == cmd = "none" /\ Start /\ Then("other")

\* quit and env_exit; a signal at any time.
Quit == cmd # "none" /\ Exit /\ Then("none")

\* Every name of the line is created, without blocks.
cmd_create(name) ==
  /\ cmd \in {"prompt", "creating"}
  /\ vsfs_creat(name, 0) \/ CreatDies(name, 0)
  /\ Then("creating")
CreateDone == cmd = "creating" /\ UNCHANGED vars /\ Then("prompt")

\* cmd_read and cmd_write open the file read-write; without it they end.
OpenFor(name, next) ==
  /\ cmd = "prompt" /\ vsfs_open(name, "O_RDWR")
  /\ cmd' = IF fds' # <<>> THEN next ELSE "prompt"
  /\ printed' = <<>>

SeekStart == cmd = "seek" /\ SeekInside(1, 0) /\ Then("reading")

\* A command comes upon an inode_reg of an earlier mapping.
StaleCommand == cmd \in {"prompt", "creating"} /\ StaleHit /\ UNCHANGED shell

\* printf prints the buffer up to the first zero.  If there is none it runs on
\* behind the buffer: what it prints there is not modelled, and that it may not
\* come back is Quit.
Text(buffer) ==
  [cells |-> [s \in {t \in Slots : \A u \in 0 .. t : buffer[u] # Zeroed} |-> buffer[s]],
   runs_on |-> \A u \in Slots : buffer[u] # Zeroed]
Shown(f, b) == Text(Buffer(f, BS, b))

\* Mutant: a cleared buffer is printed in full length.
Mut_PrintWhole ==
  /\ cmd = "reading" /\ vsfs_read(1, BS)
  /\ \/ AtEnd(fds[1]) /\ cmd' = "close" /\ UNCHANGED printed
     \/ /\ ~AtEnd(fds[1]) /\ UNCHANGED cmd
        /\ \E b \in LastBlock(fds[1], BS) :
             printed' = Append(printed, Text(disk[b]))

\* Mutant: the loop waits for nothing read, and vsfs_read returns -1.
Mut_WaitsForNothing ==
  /\ cmd = "reading" /\ vsfs_read(1, BS)
  /\ \/ AtEnd(fds[1]) /\ UNCHANGED shell
     \/ /\ ~AtEnd(fds[1]) /\ UNCHANGED cmd
        /\ \E b \in LastBlock(fds[1], BS) :
             printed' = Append(printed, Shown(fds[1], b))

\* A block after the other is read and printed, until vsfs_read returns EOF.
ReadLoop ==
  /\ cmd = "reading" /\ vsfs_read(1, BS)
  /\ \/ AtEnd(fds[1]) /\ cmd' = "close" /\ UNCHANGED printed
     \/ /\ ~AtEnd(fds[1]) /\ UNCHANGED cmd
        /\ \E b \in LastBlock(fds[1], BS) :
             printed' = Append(printed, Shown(fds[1], b))

\* The user types a text, and one block is written at the start of the file.
WriteCall == cmd = "write" /\ vsfs_write(1, BS) /\ Then("writing")

\* A buffer of zeros with the text in it, which is shorter than the buffer.
TextBlocks ==
  {data \in [Slots -> Values] : \E n \in Slots :
     \A s \in Slots : (data[s] = Zeroed) <=> (s >= n)}

WriteWork ==
  /\ cmd = "writing"
  /\ (\E data \in TextBlocks : WriteBlock(data)) \/ WriteStrays \/ WriteEnd
  /\ UNCHANGED shell

CloseFile ==
  /\ cmd \in {"close", "writing"} /\ vsfs_close
  /\ cmd' = "prompt" /\ printed' = <<>>

InCommand == ~Astray /\ (SeekStart \/ ReadLoop \/ WriteWork \/ CloseFile)

ShellNext ==
  /\ ~Astray
  /\ \/ env_init \/ Quit \/ CreateDone \/ StaleCommand \/ WriteCall \/ InCommand
     \/ \E name \in Names :
          cmd_create(name) \/ OpenFor(name, "seek") \/ OpenFor(name, "write")

OtherNext ==
  /\ ~Astray
  /\ OtherProgram \/ (cmd = "other" /\ (Call \/ Work) /\ Then("other"))

\* The shell is one thread: within a command it goes on, but WriteCall waits for
\* what the user types.
Fairness == WF_svars(InCommand)

ShellSpec == ShellInit /\ [][ShellNext \/ OtherNext]_svars /\ Fairness

----------------------------------------------------------------------------
(* Properties *)

InodeNamed(name) ==
  CHOOSE inode \in Inodes : \E i \in 0 .. entry - 1 :
    disk[BlockOfEntry(i)][i % BS] = Entry(name, inode)

CellAt(inode, k) == disk[map[inode][(k - 1) \div BS + 1]][(k - 1) % BS]
Content(inode) ==
  [k \in 1 .. SizeOf(inode, map[inode]) |-> CellAt(inode, k)]

\* The k-th block of a file, with nothing behind its end.
BlockText(inode, k) ==
  Text([s \in Slots |->
          IF BS * (k - 1) + s < SizeOf(inode, map[inode])
          THEN disk[map[inode][k]][s] ELSE Zeroed])

\* When cmd_read comes to the end, it has printed every block of the file up to
\* its size, once and in order, each up to the first zero in it, whatever
\* programs made the file before, how they died and which blocks it has; it ran
\* behind its buffer where a block has no zero, and nowhere else.
ReadPrintsFile ==
  cmd = "close" =>
    LET inode == fds[1].inode
    IN  printed = [k \in 1 .. CeilBlocks(SizeOf(inode, map[inode])) |->
                     BlockText(inode, k)]

\* The directory is sound as long as its i-th block is the i-th of the device:
\* then the index vsfs_creat uses as a number is right.
InPlace == \A i \in DOMAIN map[Root] : map[Root][i] = i - 1
Sound == InPlace /\ ~Astray

StoreState == IF Sound THEN "sound" ELSE "broken"
StoreFiles ==
  IF Sound THEN [name \in {n \in Names : Listed(n)} |-> Content(InodeNamed(name))]
  ELSE <<>>

\* A new file is empty, or the longest if it has just so many blocks.
Store ==
  INSTANCE FileStore WITH state <- StoreState, files <- StoreFiles,
    NewLengths <- {0, W}

\* Shell and programs implement the store of named files, deaths inside creat,
\* inside an allocation and between any two block writes included, as long as
\* the directory blocks are in place, no call has used a block number or an
\* address that is wrong and no size reaches a pointer that was never stored.
Implements == Store!Spec

\* A read or write command that is not waiting for the user comes back to the
\* prompt, unless the process ends or the model does.
CommandReturns ==
  cmd \in {"seek", "reading", "writing", "close"} ~>
    (cmd \in {"prompt", "none"} \/ Astray)

=============================================================================
