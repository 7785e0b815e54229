-------------------------------- MODULE Shell ---------------------------------
(***************************************************************************)
(* init and the shell running commands (init.c, runcmd and main of sh.c)   *)
(* over fork, wait and exit of proc.c and the files of module File.  A     *)
(* process is the system calls it has still to make; a command is the tree *)
(* parsecmd returns.  The programs a command names are cat, echo and true: *)
(* one that copies its input, one that only writes, and one that does      *)
(* neither.                                                                *)
(***************************************************************************)
EXTENDS File, Sequences

CONSTANTS NPROC,
          Cmds,         \* the commands that may be typed
          Bytes         \* how much echo writes

VARIABLES
    table,      \* file and pipe tables
    proc        \* the process table
vars == <<table, proc>>

Slot == 1 .. NPROC
init == 1
Unused == [st |-> "unused", parent |-> 0, ofile |-> [fd \in Fd |-> 0], p |-> <<0, 0>>, pid |-> 0,
           code |-> <<>>]

-----------------------------------------------------------------------------
(* What a command does.                                                    *)

Fork(code) == <<"fork", code>>
exit == <<"exit">>

(* The child of a pipeline that takes end i of the pipe as descriptor i.   *)
MutantEnds(i) == << <<"close", i>>, <<"dup", i>>, <<"closep", i>> >>
Ends(i) == << <<"close", i>>, <<"dup", i>>, <<"closep", 0>>, <<"closep", 1>> >>

RECURSIVE runcmd(_)
runcmd(c) ==
    CASE c[1] = "bad" -> <<exit>>
      [] c[1] = "exec" -> << <<"exec", c[2]>> >>
      [] c[1] = "redir" -> << <<"close", c[2]>>, <<"open">> >> \o runcmd(c[3])
      [] c[1] = "list" -> <<Fork(runcmd(c[2])), <<"wait">> >> \o runcmd(c[3])
      [] c[1] = "pipe" ->
           << <<"pipe">>, Fork(Ends(1) \o runcmd(c[2])), Fork(Ends(0) \o runcmd(c[3])),
              <<"closep", 0>>, <<"closep", 1>>, <<"wait">>, <<"wait">>, exit>>
      [] c[1] = "back" -> <<Fork(runcmd(c[2])), exit>>

Program(name) ==
    CASE name = "cat" -> << <<"read">> >>
      [] name = "echo" -> [i \in 1 .. Bytes |-> <<"write">>] \o <<exit>>
      [] name = "true" -> <<exit>>
ShMain == << <<"console">>, <<"getcmd">> >>
InitLoop == <<Fork(ShMain), <<"waitsh">> >>

Init ==
    /\ proc = [q \in Slot |-> IF q = init
                 THEN [Unused EXCEPT !.st = "run", !.code = InitLoop,
                                     !.ofile = [fd \in Fd |-> IF fd < 3 THEN 1 ELSE 0]]
                 ELSE Unused]
    /\ table = [file |-> [i \in 1 .. NFILE |->
                            IF i = 1 THEN [Closed EXCEPT !.type = "inode", !.ref = 3] ELSE Closed],
                pipe |-> [j \in 1 .. NPIPE |-> NoPipe], panic |-> FALSE]

-----------------------------------------------------------------------------
(* The calls.  Does(p, call) says that p is about to make it, Then that it *)
(* goes on with the rest of its code.                                      *)

Does(p, call) == ~table.panic /\ proc[p].st = "run" /\ Head(proc[p].code)[1] = call
Arg(p) == Head(proc[p].code)[2]
Rest(p) == Tail(proc[p].code)
(* p makes a call on files with result r and goes on with code.            *)
Files(p, r, code) ==
    /\ table' = r.t
    /\ proc' = [proc EXCEPT ![p].ofile = r.o, ![p].code = code]

Close(p) == Does(p, "close") /\ Files(p, sys_close(table, proc[p].ofile, Arg(p)), Rest(p))
CloseP(p) ==
    Does(p, "closep") /\ Files(p, sys_close(table, proc[p].ofile, proc[p].p[Arg(p) + 1]), Rest(p))
Dup(p) == Does(p, "dup") /\ Files(p, sys_dup(table, proc[p].ofile, proc[p].p[Arg(p) + 1]), Rest(p))

(* The file of a redirection; there may be none by its name.               *)
Open(p) ==
    /\ Does(p, "open")
    /\ \/ LET r == sys_open(table, proc[p].ofile)
          IN  Files(p, r, IF r.fd = {} THEN <<exit>> ELSE Rest(p))
       \/ Files(p, [t |-> table, o |-> proc[p].ofile], <<exit>>)

(* main of sh.c opens the console until it has descriptors 0, 1 and 2.     *)
OpenConsole(p) ==
    /\ Does(p, "console")
    /\ LET r == sys_open(table, proc[p].ofile)
           enough == \E fd \in r.fd : fd >= 3
       IN  IF enough THEN Files(p, sys_close(r.t, r.o, Lowest(r.fd)), Rest(p))
           ELSE Files(p, r, IF r.fd = {} THEN Rest(p) ELSE proc[p].code)

Pipe(p) ==
    /\ Does(p, "pipe")
    /\ LET r == sys_pipe(table, proc[p].ofile)
       IN  /\ table' = r.t
           /\ proc' = [proc EXCEPT ![p].ofile = r.o,
                         ![p].code = IF r.fd = {} THEN <<exit>> ELSE Rest(p),
                         ![p].p = IF r.fd = {} THEN @ ELSE <<Lowest(r.fd), Lowest(r.fd \ {Lowest(r.fd)})>>]

(* fork; fork1 exits when there is no process for the child.               *)
FreeSlots == {q \in Slot : proc[q].st = "unused"}
MutantDupped(ofile) == table
Dupped(ofile) == filedup(table, ofile)
ForkCall(p) ==
    /\ Does(p, "fork")
    /\ IF FreeSlots = {}
       THEN proc' = [proc EXCEPT ![p].code = <<exit>>] /\ UNCHANGED table
       ELSE LET child == [proc[p] EXCEPT !.parent = p, !.code = Arg(p), !.pid = 0]
            IN  /\ proc' = [proc EXCEPT ![Lowest(FreeSlots)] = child, ![p].code = Rest(p),
                                        ![p].pid = IF p = init THEN Lowest(FreeSlots) ELSE @]
                /\ table' = Dupped(proc[p].ofile)

(* exec runs the program or fails; then runcmd exits.                      *)
Exec(p) ==
    /\ Does(p, "exec")
    /\ \/ proc' = [proc EXCEPT ![p].code = Program(Arg(p))]
       \/ proc' = [proc EXCEPT ![p].code = <<exit>>]
    /\ UNCHANGED table

Exit(p) ==
    /\ Does(p, "exit")
    /\ table' = IF p = init THEN Panic(table) ELSE CloseAll(table, proc[p].ofile)
    /\ proc' = [q \in Slot |->
                  IF q = p THEN [Unused EXCEPT !.st = "zombie", !.parent = proc[p].parent]
                  ELSE IF proc[q].parent = p THEN [proc[q] EXCEPT !.parent = init] ELSE proc[q]]

Children(p) == {q \in Slot : proc[q].st # "unused" /\ proc[q].parent = p}
Zombies(p) == {q \in Children(p) : proc[q].st = "zombie"}
Reap(p, q, code) == proc' = [proc EXCEPT ![q] = Unused, ![p].code = code] /\ UNCHANGED table
Wait(p) ==
    /\ Does(p, "wait")
    /\ \/ Zombies(p) # {} /\ Reap(p, Lowest(Zombies(p)), Rest(p))
       \/ /\ Children(p) = {}
          /\ proc' = [proc EXCEPT ![p].code = Rest(p)] /\ UNCHANGED table

(* init's wait: until the shell is gone; orphans it only reaps.            *)
WaitShell(p) ==
    /\ Does(p, "waitsh") /\ Zombies(p) # {}
    /\ LET q == Lowest(Zombies(p))
       IN  Reap(p, q, IF q = proc[p].pid THEN InitLoop ELSE proc[p].code)

(* The user types a command, or end of file.                               *)
GetCmd(p) ==
    /\ Does(p, "getcmd")
    /\ \/ \E c \in Cmds :
            proc' = [proc EXCEPT ![p].code = <<Fork(runcmd(c)), <<"wait">>, <<"getcmd">> >>]
       \/ proc' = [proc EXCEPT ![p].code = <<exit>>]
    /\ UNCHANGED table

-----------------------------------------------------------------------------
(* read and write of the programs: a file has nothing to read and room for *)
(* all; a pipe makes its reader and its writer wait.                       *)

At(p, fd) == IF proc[p].ofile[fd] = 0 THEN Closed ELSE table.file[proc[p].ofile[fd]]
GoOn(p, code) == proc' = [proc EXCEPT ![p].code = code]

Read(p) ==
    LET f == At(p, 0) IN
    /\ Does(p, "read")
    /\ \/ /\ f.type = "pipe" /\ ~f.writable /\ table.pipe[f.pipe].n > 0
          /\ table' = [table EXCEPT !.pipe[f.pipe].n = @ - 1]
          /\ GoOn(p, << <<"write">>, <<"read">> >>)
       \/ /\ f.type = "pipe" /\ ~f.writable =>
               table.pipe[f.pipe].n = 0 /\ ~table.pipe[f.pipe].writeopen
          /\ GoOn(p, <<exit>>) /\ UNCHANGED table

Write(p) ==
    LET f == At(p, 1) IN
    /\ Does(p, "write") /\ GoOn(p, Rest(p))
    /\ \/ /\ f.type = "pipe" /\ f.writable /\ table.pipe[f.pipe].readopen
          /\ table.pipe[f.pipe].n < PIPESIZE
          /\ table' = [table EXCEPT !.pipe[f.pipe].n = @ + 1]
       \/ /\ f.type = "pipe" /\ f.writable => ~table.pipe[f.pipe].readopen
          /\ UNCHANGED table

Step(p) == \/ Close(p) \/ CloseP(p) \/ Dup(p) \/ Open(p) \/ OpenConsole(p) \/ Pipe(p)
           \/ ForkCall(p) \/ Exec(p) \/ Exit(p) \/ Wait(p) \/ WaitShell(p)
           \/ Read(p) \/ Write(p)
Next == \E p \in Slot : Step(p) \/ GetCmd(p)

Spec == Init /\ [][Next]_vars
(* The scheduler runs some process as long as one can go on; the user may  *)
(* be idle.                                                                *)
Fairness == WF_vars(\E p \in Slot : Step(p))

-----------------------------------------------------------------------------
(* Properties.                                                             *)

TypeOK == /\ table \in Tables
          /\ \A p \in Slot : /\ proc[p].st \in {"unused", "run", "zombie"} /\ proc[p].parent \in 0 .. NPROC
                             /\ proc[p].ofile \in [Fd -> 0 .. NFILE]

(* The reference count of a file is the number of descriptors that name    *)
(* it, over all processes; with none the entry is free.                    *)
RefsExact ==
    ~table.panic => \A i \in 1 .. NFILE :
        /\ table.file[i].ref = Cardinality({x \in Slot \X Fd : proc[x[1]].ofile[x[2]] = i})
        /\ table.file[i].ref = 0 <=> table.file[i].type = "closed"

(* A pipe has its write side open exactly while some process can write to  *)
(* it, and its read side while some process can read from it: what makes   *)
(* end of file and the failure of a write come when they should.           *)
EndsExact ==
    ~table.panic => \A j \in 1 .. NPIPE, w \in BOOLEAN :
        (IF w THEN table.pipe[j].writeopen ELSE table.pipe[j].readopen) <=>
        \E p \in Slot, fd \in Fd : LET f == At(p, fd)
                                   IN  f.type = "pipe" /\ f.pipe = j /\ f.writable = w

(* The kernel panics in fileclose only when the file table, the memory for *)
(* pipes or the descriptors of the caller were exhausted before the step.  *)
Exhausted == \/ Cardinality(ClosedFiles(table)) < 2 \/ FreePipes(table) = {}
             \/ \E p \in Slot : FreeFds(proc[p].ofile) = {}
InitExits == Does(init, "exit")
PanicsExhausted == [][table'.panic => Exhausted \/ InitExits]_vars

(* Whatever is typed, and whichever forks, opens and execs fail, the shell *)
(* comes back to its prompt: no process of a pipeline waits for ever for   *)
(* input, room or a child.  (If the kernel panics nothing comes back.)     *)
AtPrompt == \E p \in Slot : Does(p, "getcmd")
ReturnsToPrompt == []<>(AtPrompt \/ table.panic)

=============================================================================
