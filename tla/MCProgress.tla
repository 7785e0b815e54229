----------------------------- MODULE MCProgress -----------------------------
(***************************************************************************)
(* Instances of the modules whose processes wait for one another: the disk *)
(* driver, the shell's pipelines, the user's threads and processes that    *)
(* are killed.  Each is explored by itself: which one is chosen at the     *)
(* start.  The variables of the others are 0 throughout.                   *)
(***************************************************************************)
EXTENDS Naturals

CONSTANTS c1, p1, p2, s1, s2

VARIABLES
    part,
    d_queue, d_buf, d_pc, d_disk, d_ctl, d_irq,
    s_table, s_proc,
    t_main, t_pc, t_i, t_j, t_locked, t_cond_addr, t_asleep, t_cond_arr, t_numfilled, t_printed,
    k_state, k_pid, k_parent, k_chan, k_killed, k_mem, k_kstack, k_cond_addr, k_nextpid,
    k_cpu, k_pc, k_np, k_tickslock, k_used, k_badfree

diskVars == <<d_queue, d_buf, d_pc, d_disk, d_ctl, d_irq>>
shellVars == <<s_table, s_proc>>
threadVars == <<t_main, t_pc, t_i, t_j, t_locked, t_cond_addr, t_asleep, t_cond_arr,
                t_numfilled, t_printed>>
killVars == <<k_state, k_pid, k_parent, k_chan, k_killed, k_mem, k_kstack, k_cond_addr,
              k_nextpid, k_cpu, k_pc, k_np, k_tickslock, k_used, k_badfree>>
vars == <<part, diskVars, shellVars, threadVars, killVars>>

Disk == INSTANCE Ide WITH
    Proc <- {p1, p2}, Sector <- {1, 2}, Value <- {s1, s2}, MayFail <- TRUE,
    queue <- d_queue, buf <- d_buf, pc <- d_pc, disk <- d_disk, ctl <- d_ctl, irq <- d_irq

Run(program) == <<"exec", program>>

(* echo | cat | cat, with all the processes and files it needs.            *)
Ample == INSTANCE Shell WITH
    NFILE <- 5, NOFILE <- 5, NPIPE <- 2, PIPESIZE <- 1, NPROC <- 7, Bytes <- 2,
    Cmds <- {<<"pipe", Run("echo"), <<"pipe", Run("cat"), Run("cat")>> >>},
    table <- s_table, proc <- s_proc

(* A line that does not parse, echo | cat, and cat < file; true &, with    *)
(* too few of both when a command runs in the background.                  *)
Scarce == INSTANCE Shell WITH
    NFILE <- 4, NOFILE <- 5, NPIPE <- 2, PIPESIZE <- 1, NPROC <- 5, Bytes <- 2,
    Cmds <- {<<"bad">>, <<"pipe", Run("echo"), Run("cat")>>,
             <<"list", <<"redir", 0, Run("cat")>>, <<"back", Run("true")>> >>},
    table <- s_table, proc <- s_proc

Threads == INSTANCE UserThreads WITH
    Consumer <- {1, 2}, BUFF_SIZE <- 2, COND_ITERS <- 2,
    main <- t_main, pc <- t_pc, i <- t_i, j <- t_j, locked <- t_locked,
    cond_addr <- t_cond_addr, asleep <- t_asleep, cond_arr <- t_cond_arr,
    numfilled <- t_numfilled, printed <- t_printed

Killing == INSTANCE Proc WITH
    NPROC <- 3, CPU <- {c1}, NPAGE <- 6, MaxPid <- 3, Calls <- {"fork", "sleep", "kill"},
    state <- k_state, pid <- k_pid, parent <- k_parent, chan <- k_chan, killed <- k_killed,
    mem <- k_mem, kstack <- k_kstack, cond_addr <- k_cond_addr, nextpid <- k_nextpid,
    cpu <- k_cpu, pc <- k_pc, np <- k_np, tickslock <- k_tickslock, used <- k_used,
    badfree <- k_badfree

ASSUME Disk!IdeAssumption /\ Ample!FileAssumption /\ Scarce!FileAssumption /\ Threads!UserThreadsAssumption

-----------------------------------------------------------------------------

DiskOff == d_queue = 0 /\ d_buf = 0 /\ d_pc = 0 /\ d_disk = 0 /\ d_ctl = 0 /\ d_irq = 0
ShellOff == s_table = 0 /\ s_proc = 0
ThreadsOff == /\ t_main = 0 /\ t_pc = 0 /\ t_i = 0 /\ t_j = 0 /\ t_locked = 0 /\ t_cond_addr = 0
              /\ t_asleep = 0 /\ t_cond_arr = 0 /\ t_numfilled = 0 /\ t_printed = 0
KillOff == /\ k_state = 0 /\ k_pid = 0 /\ k_parent = 0 /\ k_chan = 0 /\ k_killed = 0 /\ k_mem = 0
           /\ k_kstack = 0 /\ k_cond_addr = 0 /\ k_nextpid = 0 /\ k_cpu = 0 /\ k_pc = 0
           /\ k_np = 0 /\ k_tickslock = 0 /\ k_used = 0 /\ k_badfree = 0

Init ==
    \/ part = "disk" /\ Disk!Init /\ ShellOff /\ ThreadsOff /\ KillOff
    \/ part = "ample" /\ Ample!Init /\ DiskOff /\ ThreadsOff /\ KillOff
    \/ part = "scarce" /\ Scarce!Init /\ DiskOff /\ ThreadsOff /\ KillOff
    \/ part = "threads" /\ Threads!Init /\ DiskOff /\ ShellOff /\ KillOff
    \/ part = "kill" /\ Killing!Init /\ DiskOff /\ ShellOff /\ ThreadsOff

Next ==
    \/ part = "disk" /\ Disk!Next /\ UNCHANGED <<part, shellVars, threadVars, killVars>>
    \/ part = "ample" /\ Ample!Next /\ UNCHANGED <<part, diskVars, threadVars, killVars>>
    \/ part = "scarce" /\ Scarce!Next /\ UNCHANGED <<part, diskVars, threadVars, killVars>>
    \/ part = "threads" /\ Threads!Next /\ UNCHANGED <<part, diskVars, shellVars, killVars>>
    \/ part = "kill" /\ Killing!Next /\ UNCHANGED <<part, diskVars, shellVars, threadVars>>

(* The fairness of each module, asked for only where it is the one chosen. *)
DiskFairness ==
    /\ WF_diskVars(part = "disk" /\ Disk!Complete)
    /\ WF_diskVars(part = "disk" /\ Disk!IdeIntr)
    /\ \A p \in {p1, p2} : WF_diskVars(part = "disk" /\ Disk!Resume(p))
ShellFairness ==
    WF_shellVars(\/ part = "ample" /\ \E p \in Ample!Slot : Ample!Step(p)
                 \/ part = "scarce" /\ \E p \in Scarce!Slot : Scarce!Step(p))
ThreadFairness ==
    /\ WF_threadVars(part = "threads" /\ Threads!Waited)
    /\ \A t \in Threads!Thread : WF_threadVars(part = "threads" /\ Threads!Step(t))
KillFairness ==
    /\ \A p \in {2, 3} : /\ SF_killVars(part = "kill" /\ Killing!Schedule(c1, p))
                         /\ SF_killVars(part = "kill" /\ Killing!Kernel(p))
    /\ WF_killVars(part = "kill" /\ Killing!Kernel(1))
    /\ \A p \in 1 .. 3 : WF_killVars(part = "kill" /\ Killing!Yield(p))
    /\ WF_killVars(part = "kill" /\ Killing!Tick)

FairSpec == Init /\ [][Next]_vars /\ DiskFairness /\ ShellFairness /\ ThreadFairness /\ KillFairness

-----------------------------------------------------------------------------
(* Properties: those of the modules, of the instance that was chosen, each *)
(* with the type invariant of its module.                                  *)

(* The queue of ide.c holds each unfinished request once, and the          *)
(* controller works on its head or has just finished it.                   *)
QueueOnDisk == part = "disk" => Disk!TypeOK /\ Disk!QueueOnDisk

(* ide_rw is one transfer of one sector at one moment: module Ide          *)
(* implements module Transfer.                                             *)
OneTransfer ==
    /\ part = "disk" => Disk!Moved!Init
    /\ [][part = "disk" => Disk!Moved!Next \/ UNCHANGED Disk!Moved!vars]_vars

(* Every call of ide_rw returns.                                           *)
Completes == \A p \in {p1, p2} : (part = "disk" /\ d_pc[p] # "idle") ~> (part = "disk" /\ d_pc[p] = "idle")

(* The reference count of a file is the number of descriptors naming it,   *)
(* and an end of a pipe is open exactly while some process has it open.    *)
RefsExact ==
    /\ part = "ample" => Ample!TypeOK /\ Ample!RefsExact /\ Ample!EndsExact
    /\ part = "scarce" => Scarce!TypeOK /\ Scarce!RefsExact /\ Scarce!EndsExact

(* fileclose panics only when files, pipes or descriptors have run out.    *)
PanicsExhausted ==
    [][/\ part = "ample" => ~s_table'.panic
       /\ part = "scarce" /\ s_table'.panic => Scarce!Exhausted \/ Scarce!InitExits]_vars

(* The shell always comes back to its prompt.                              *)
ReturnsToPrompt ==
    []<>(/\ part = "ample" => Ample!AtPrompt
         /\ part = "scarce" => Scarce!AtPrompt \/ s_table.panic)

(* The consumers print each buffer of the producer once and in order.      *)
PrintedInOrder == part = "threads" => Threads!TypeOK /\ Threads!PrintedInOrder

(* No signal is lost: cond_test ends once its threads are created.         *)
TestEnds ==
    (part = "threads" /\ \A t \in Threads!Thread : t_pc[t] # "none") ~>
        (part = "threads" /\ t_main = "done")

(* A killed process exits, from user space, wait, fork or sys_sleep.       *)
KilledExits ==
    \A p \in 2 .. 3 :
        (part = "kill" /\ k_state[p] \in Killing!Live /\ k_killed[p]) ~>
            (part = "kill" /\ k_state[p] = "ZOMBIE")

=============================================================================
