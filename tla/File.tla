--------------------------------- MODULE File ---------------------------------
(***************************************************************************)
(* The file table (file.c), pipes as it sees them (pipealloc and pipeclose *)
(* of pipe.c), and the file descriptors of a process (sysfile.c).  These   *)
(* are operators on a record of the two tables, so that a system call that *)
(* opens, duplicates or closes several files is one step of its caller.    *)
(* A descriptor table maps a descriptor to an entry of the file table, 0   *)
(* where it is free.                                                       *)
(***************************************************************************)
EXTENDS Naturals, FiniteSets

CONSTANTS NFILE, NOFILE,
          NPIPE,        \* pages there are for pipes
          PIPESIZE

FileAssumption == {NFILE, NOFILE, NPIPE, PIPESIZE} \subseteq Nat \ {0}

Fd == 0 .. NOFILE - 1
Entry == [type : {"closed", "none", "inode", "pipe"}, ref : Nat, pipe : 0 .. NPIPE, writable : BOOLEAN]
Closed == [type |-> "closed", ref |-> 0, pipe |-> 0, writable |-> FALSE]
NoPipe == [readopen |-> FALSE, writeopen |-> FALSE, n |-> 0]
Tables == [file : [1 .. NFILE -> Entry],
           pipe : [1 .. NPIPE -> [readopen : BOOLEAN, writeopen : BOOLEAN, n : 0 .. PIPESIZE]],
           panic : BOOLEAN]

Lowest(S) == CHOOSE x \in S : \A y \in S : x <= y
Panic(t) == [t EXCEPT !.panic = TRUE]

(* filealloc takes the first of these.                                     *)
ClosedFiles(t) == {i \in 1 .. NFILE : t.file[i].type = "closed"}
FreePipes(t) == {j \in 1 .. NPIPE : t.pipe[j] = NoPipe}
FreeFds(ofile) == {fd \in Fd : ofile[fd] = 0}

pipeclose(t, f) ==
    LET p == t.pipe[f.pipe]
        q == IF f.writable THEN [p EXCEPT !.writeopen = FALSE] ELSE [p EXCEPT !.readopen = FALSE]
    IN  [t EXCEPT !.pipe[f.pipe] = IF q.readopen \/ q.writeopen THEN q ELSE NoPipe]

MutantFileclose(t, i) ==
    LET f == t.file[i]
        gone == [t EXCEPT !.file[i] = Closed]
    IN  IF f.ref > 1 THEN [t EXCEPT !.file[i].ref = @ - 1]
        ELSE IF f.type = "pipe" THEN pipeclose(gone, f) ELSE Panic(gone)
fileclose(t, i) ==
    LET f == t.file[i]
        gone == [t EXCEPT !.file[i] = Closed]
    IN  IF f.ref < 1 \/ f.type = "closed" THEN Panic(t)
        ELSE IF f.ref > 1 THEN [t EXCEPT !.file[i].ref = @ - 1]
        ELSE IF f.type = "pipe" THEN pipeclose(gone, f)
        ELSE IF f.type = "inode" THEN gone
        ELSE Panic(gone)

(* The references that fork, or several closes, add to or take from i.     *)
Holds(ofile, i) == Cardinality({fd \in Fd : ofile[fd] = i})
filedup(t, ofile) ==
    [t EXCEPT !.file = [i \in 1 .. NFILE |-> [t.file[i] EXCEPT !.ref = @ + Holds(ofile, i)]]]
CloseAll(t, ofile) ==
    LET to[fd \in 0 .. NOFILE] ==
          IF fd = 0 THEN t
          ELSE IF ofile[fd - 1] = 0 THEN to[fd - 1] ELSE fileclose(to[fd - 1], ofile[fd - 1])
    IN  to[NOFILE]

(* The calls return the tables t and ofile o after them and the            *)
(* descriptors fd they open, none of them when they fail.                  *)
sys_close(t, ofile, fd) ==
    IF ofile[fd] = 0 THEN [t |-> t, o |-> ofile, fd |-> {}]
    ELSE [t |-> fileclose(t, ofile[fd]), o |-> [ofile EXCEPT ![fd] = 0], fd |-> {}]

sys_dup(t, ofile, fd) ==
    LET new == Lowest(FreeFds(ofile)) IN
    IF ofile[fd] = 0 \/ FreeFds(ofile) = {} THEN [t |-> t, o |-> ofile, fd |-> {}]
    ELSE [t |-> [t EXCEPT !.file[ofile[fd]].ref = @ + 1],
          o |-> [ofile EXCEPT ![new] = ofile[fd]], fd |-> {new}]

(* The entry is still FD_NONE when there is no descriptor for it.          *)
sys_open(t, ofile) ==
    LET i == Lowest(ClosedFiles(t))
        new == Lowest(FreeFds(ofile))
        Opened(type) == [t EXCEPT !.file[i] = [Closed EXCEPT !.type = type, !.ref = 1]]
    IN  IF ClosedFiles(t) = {} THEN [t |-> t, o |-> ofile, fd |-> {}]
        ELSE IF FreeFds(ofile) = {} THEN [t |-> fileclose(Opened("none"), i), o |-> ofile, fd |-> {}]
        ELSE [t |-> Opened("inode"), o |-> [ofile EXCEPT ![new] = i], fd |-> {new}]

(* pipealloc gives back an entry it took as FD_NONE.                       *)
sys_pipe(t, ofile) ==
    LET i == Lowest(ClosedFiles(t))
        k == Lowest(ClosedFiles(t) \ {i})
        j == Lowest(FreePipes(t))
        a == Lowest(FreeFds(ofile))
        b == Lowest(FreeFds(ofile) \ {a})
        End(w) == [type |-> "pipe", ref |-> 1, pipe |-> j, writable |-> w]
        Made == [t EXCEPT !.file[i] = End(FALSE), !.file[k] = End(TRUE),
                          !.pipe[j] = [readopen |-> TRUE, writeopen |-> TRUE, n |-> 0]]
        Failed(u) == [t |-> u, o |-> ofile, fd |-> {}]
    IN  IF ClosedFiles(t) = {} THEN Failed(t)
        ELSE IF Cardinality(ClosedFiles(t)) = 1 \/ FreePipes(t) = {}
        THEN Failed(fileclose([t EXCEPT !.file[i] = [Closed EXCEPT !.type = "none", !.ref = 1]], i))
        ELSE IF Cardinality(FreeFds(ofile)) < 2 THEN Failed(fileclose(fileclose(Made, i), k))
        ELSE [t |-> Made, o |-> [ofile EXCEPT ![a] = i, ![b] = k], fd |-> {a, b}]

=============================================================================
