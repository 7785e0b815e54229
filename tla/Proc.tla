-------------------------------- MODULE Proc --------------------------------
(***************************************************************************)
(* The process table of proc.c with the system calls of sysproc.c and the  *)
(* part of trap.c that acts on processes: creation of processes and of     *)
(* threads, exit, wait, kill, sleep and wakeup, condition variables,       *)
(* growing a process, and the CPUs' switching between them.                *)
(*                                                                         *)
(* A critical section of proc_table_lock is one step; so is a switch,      *)
(* since the lock is held across swtch.  What runs without that lock is    *)
(* split where other CPUs, or the next process after a timer interrupt,    *)
(* can get in between.  Which RUNNABLE process a CPU takes is left open    *)
(* here; module Lottery models how lottery_scheduler draws it.             *)
(*                                                                         *)
(* Data: kernel memory is a set of pages.  A kernel stack and the memory   *)
(* of a process are a page each; kalloc takes the first free one.          *)
(* Killing process 1 makes the kernel panic ("init exiting"); here the     *)
(* process just makes no more calls.  Open files are not in this module.   *)
(***************************************************************************)
EXTENDS Integers, FiniteSets

CONSTANTS
    NPROC,     \* slots of the process table
    CPU,       \* processors
    NPAGE,     \* pages of kernel memory
    MaxPid,    \* bound: processes ever created
    Calls      \* system calls that user programs make

Proc == 1 .. NPROC
Page == 1 .. NPAGE
Init1 == 1                 \* initproc, the first slot
None == 0                  \* the null pointer
Ticks == -1                \* the channel &ticks
CondAddr == {0, 1}         \* cond_addr: never set, or a user's condition variable

ASSUME ProcAssumption ==
    /\ NPROC \in Nat \ {0} /\ NPAGE \in Nat \ {0, 1} /\ MaxPid \in Nat \ {0}
    /\ CPU # {}
    /\ Calls \subseteq {"fork", "thread_fork", "sbrk", "sleep", "kill", "cond"}

VARIABLES
    state, pid, parent, chan, killed, mem, kstack, cond_addr,  \* struct proc
    nextpid,
    cpu,         \* cpus[c].curproc
    pc,          \* where each process is, in user space or in a call
    np,          \* local of fork: the slot being filled
    tickslock,   \* its holder
    used,        \* pages kalloc has handed out
    badfree      \* history: kfree was called on a page that was free

table == <<state, pid, parent, chan, killed, mem, kstack, cond_addr, nextpid>>
locals == <<pc, np>>
memory == <<used, badfree>>
vars == <<table, cpu, locals, tickslock, memory>>

ProcState == {"UNUSED", "EMBRYO", "SLEEPING", "RUNNABLE", "RUNNING", "ZOMBIE"}
PC == {"user", "fork_stack", "thread_stack", "fork_mem", "fork_run",
       "wait", "sleep", "sleep_locked", "cond", "exit"}

(* After userinit.                                                         *)
Init ==
    /\ state = [p \in Proc |-> IF p = Init1 THEN "RUNNABLE" ELSE "UNUSED"]
    /\ pid = [p \in Proc |-> IF p = Init1 THEN 1 ELSE 0]
    /\ parent = [p \in Proc |-> None]
    /\ chan = [p \in Proc |-> None]
    /\ killed = [p \in Proc |-> FALSE]
    /\ kstack = [p \in Proc |-> IF p = Init1 THEN 1 ELSE None]
    /\ mem = [p \in Proc |-> IF p = Init1 THEN 2 ELSE None]
    /\ cond_addr = [p \in Proc |-> 0]
    /\ nextpid = 2
    /\ cpu = [c \in CPU |-> None]
    /\ pc = [p \in Proc |-> "user"]
    /\ np = [p \in Proc |-> None]
    /\ tickslock = None
    /\ used = {1, 2} /\ badfree = FALSE

-----------------------------------------------------------------------------
(* kalloc and kfree, as proc.c uses them.                                  *)

FirstFree(g) == g \in Page \ used /\ \A h \in Page \ used : g <= h
NoPage == Page \subseteq used
Kfree(S) == /\ used' = used \ S
            /\ badfree' = (badfree \/ ~(S \subseteq used))

-----------------------------------------------------------------------------
(* Switching.                                                              *)

Running(p) == state[p] = "RUNNING"

(* The CPU p runs on goes back to its scheduler.                           *)
MutantLeave(p) == UNCHANGED cpu
Leave(p) == cpu' = [c \in CPU |-> IF cpu[c] = p THEN None ELSE cpu[c]]

(* A process that resumes in sleep clears its channel first.               *)
Schedule(c, p) ==
    /\ cpu[c] = None /\ state[p] = "RUNNABLE"
    /\ state' = [state EXCEPT ![p] = "RUNNING"]
    /\ cpu' = [cpu EXCEPT ![c] = p]
    /\ chan' = [chan EXCEPT ![p] = None]
    /\ UNCHANGED <<pid, parent, killed, mem, kstack, cond_addr, nextpid, locals, tickslock, memory>>

(* A timer interrupt, in user space or in the kernel, unless a spinlock    *)
(* keeps interrupts off.                                                   *)
Yield(p) ==
    /\ Running(p) /\ pc[p] # "sleep_locked"
    /\ state' = [state EXCEPT ![p] = "RUNNABLE"]
    /\ Leave(p)
    /\ UNCHANGED <<pid, parent, chan, killed, mem, kstack, cond_addr, nextpid, locals, tickslock, memory>>

(* wakeup1(ch) on process table s.                                         *)
MutantWakeup1(s, ch) == s
Wakeup1(s, ch) ==
    [p \in Proc |-> IF s[p] = "SLEEPING" /\ chan[p] = ch THEN "RUNNABLE" ELSE s[p]]

(* A killed process is not let into a system call: trap exits it.          *)
Enter(p) == Running(p) /\ pc[p] = "user" /\ ~killed[p]

-----------------------------------------------------------------------------
(* fork and thread_fork: copyproc, copyproc_thread, allocproc.             *)

FirstUnused(q) ==
    q \in Proc /\ state[q] = "UNUSED" /\ \A r \in 1 .. q - 1 : state[r] # "UNUSED"

MutantNewPid == nextpid + 1
NewPid == nextpid

Allocproc(p, call) ==
    /\ Enter(p) /\ call \in Calls /\ nextpid <= MaxPid
    /\ \E q \in Proc :
         /\ FirstUnused(q)
         /\ state' = [state EXCEPT ![q] = "EMBRYO"]
         /\ pid' = [pid EXCEPT ![q] = NewPid]
         /\ np' = [np EXCEPT ![p] = q]
    /\ nextpid' = nextpid + 1
    /\ pc' = [pc EXCEPT ![p] = IF call = "fork" THEN "fork_stack" ELSE "thread_stack"]
    /\ UNCHANGED <<parent, chan, killed, mem, kstack, cond_addr, cpu, tickslock, memory>>

(* The kernel stack, and for a thread the memory it shares.                *)
ForkStack(p) ==
    /\ Running(p) /\ pc[p] \in {"fork_stack", "thread_stack"}
    /\ \E g \in Page :
         /\ FirstFree(g)
         /\ kstack' = [kstack EXCEPT ![np[p]] = g]
         /\ used' = used \cup {g}
    /\ parent' = [parent EXCEPT ![np[p]] = p]
    /\ IF pc[p] = "thread_stack"
       THEN /\ mem' = [mem EXCEPT ![np[p]] = mem[p]]
            /\ pc' = [pc EXCEPT ![p] = "fork_run"]
       ELSE /\ pc' = [pc EXCEPT ![p] = "fork_mem"]
            /\ UNCHANGED mem
    /\ UNCHANGED <<state, pid, chan, killed, cond_addr, nextpid, cpu, np, tickslock, badfree>>

ForkStackFails(p) ==
    /\ Running(p) /\ pc[p] \in {"fork_stack", "thread_stack"}
    /\ NoPage
    /\ state' = [state EXCEPT ![np[p]] = "UNUSED"]
    /\ kstack' = [kstack EXCEPT ![np[p]] = None]
    /\ pc' = [pc EXCEPT ![p] = "user"] /\ np' = [np EXCEPT ![p] = None]
    /\ UNCHANGED <<pid, parent, chan, killed, mem, cond_addr, nextpid, cpu, tickslock, memory>>

ForkMem(p) ==
    /\ Running(p) /\ pc[p] = "fork_mem"
    /\ \E g \in Page :
         /\ FirstFree(g)
         /\ mem' = [mem EXCEPT ![np[p]] = g]
         /\ used' = used \cup {g}
    /\ pc' = [pc EXCEPT ![p] = "fork_run"]
    /\ UNCHANGED <<state, pid, parent, chan, killed, kstack, cond_addr, nextpid, cpu, np, tickslock, badfree>>

ForkMemFails(p) ==
    /\ Running(p) /\ pc[p] = "fork_mem"
    /\ NoPage
    /\ Kfree({kstack[np[p]]})
    /\ kstack' = [kstack EXCEPT ![np[p]] = None]
    /\ mem' = [mem EXCEPT ![np[p]] = None]
    /\ state' = [state EXCEPT ![np[p]] = "UNUSED"]
    /\ parent' = [parent EXCEPT ![np[p]] = None]
    /\ pc' = [pc EXCEPT ![p] = "user"] /\ np' = [np EXCEPT ![p] = None]
    /\ UNCHANGED <<pid, chan, killed, cond_addr, nextpid, cpu, tickslock>>

(* sys_fork: np->state = RUNNABLE, without the lock.                       *)
ForkRun(p) ==
    /\ Running(p) /\ pc[p] = "fork_run"
    /\ state' = [state EXCEPT ![np[p]] = "RUNNABLE"]
    /\ pc' = [pc EXCEPT ![p] = "user", ![np[p]] = "user"]
    /\ np' = [np EXCEPT ![p] = None]
    /\ UNCHANGED <<pid, parent, chan, killed, mem, kstack, cond_addr, nextpid, cpu, tickslock, memory>>

(* growproc: the new memory before the old is freed.                       *)
Growproc(p) ==
    /\ Enter(p) /\ "sbrk" \in Calls
    /\ \E g \in Page :
         /\ FirstFree(g)
         /\ mem' = [mem EXCEPT ![p] = g]
         /\ used' = (used \cup {g}) \ {mem[p]}
    /\ badfree' = (badfree \/ mem[p] \notin used)
    /\ UNCHANGED <<state, pid, parent, chan, killed, kstack, cond_addr, nextpid, cpu, locals, tickslock>>

-----------------------------------------------------------------------------
(* exit, wait, kill.                                                       *)

(* Called by the program, or by trap for a killed or misbehaving process.  *)
(* Closing the files may take long; the process can be preempted there.    *)
ExitBegin(p) ==
    /\ Running(p) /\ pc[p] = "user" /\ p # Init1
    /\ pc' = [pc EXCEPT ![p] = "exit"]
    /\ UNCHANGED <<table, cpu, np, tickslock, memory>>

(* Abandoned children go to init, which may be waiting for a zombie.       *)
MutantAdopt(p) == parent
Adopt(p) == [q \in Proc |-> IF parent[q] = p THEN Init1 ELSE parent[q]]
WakeInit(s, p) ==
    IF \E q \in Proc : parent[q] = p /\ s[q] = "ZOMBIE" THEN Wakeup1(s, Init1) ELSE s

Exit(p) ==
    /\ Running(p) /\ pc[p] = "exit"
    /\ parent' = Adopt(p)
    /\ state' = [WakeInit(Wakeup1(state, parent[p]), p) EXCEPT ![p] = "ZOMBIE"]
    /\ killed' = [killed EXCEPT ![p] = FALSE]
    /\ pc' = [pc EXCEPT ![p] = "user"]
    /\ Leave(p)
    /\ UNCHANGED <<pid, chan, mem, kstack, cond_addr, nextpid, np, tickslock, memory>>

ZombieChild(p, z) == z \in Proc /\ state[z] = "ZOMBIE" /\ parent[z] = p
HasKids(p) == \E q \in Proc : state[q] # "UNUSED" /\ parent[q] = p
InWait(p) == Running(p) /\ (pc[p] = "wait" \/ Enter(p))

(* What wait frees of zombie z: not the memory its thread shares with it.  *)
MutantReaped(p, z) == IF mem[p] # mem[z] THEN {mem[z]} ELSE {}
Reaped(p, z) == {kstack[z]} \cup (IF mem[p] # mem[z] THEN {mem[z]} ELSE {})

(* wait finds a zombie: the first one in the table.                        *)
Reap(p) ==
    /\ InWait(p)
    /\ \E z \in Proc :
         /\ ZombieChild(p, z) /\ \A r \in 1 .. z - 1 : ~ZombieChild(p, r)
         /\ Kfree(Reaped(p, z))
         /\ state' = [state EXCEPT ![z] = "UNUSED"]
         /\ pid' = [pid EXCEPT ![z] = 0]
         /\ parent' = [parent EXCEPT ![z] = None]
    /\ pc' = [pc EXCEPT ![p] = "user"]
    /\ UNCHANGED <<chan, killed, mem, kstack, cond_addr, nextpid, cpu, np, tickslock>>

WaitFails(p) ==
    /\ Running(p) /\ pc[p] = "wait"
    /\ \A z \in Proc : ~ZombieChild(p, z)
    /\ ~HasKids(p) \/ killed[p]
    /\ pc' = [pc EXCEPT ![p] = "user"]
    /\ UNCHANGED <<table, cpu, np, tickslock, memory>>

WaitSleeps(p) ==
    /\ InWait(p)
    /\ \A z \in Proc : ~ZombieChild(p, z)
    /\ HasKids(p) /\ ~killed[p]
    /\ state' = [state EXCEPT ![p] = "SLEEPING"]
    /\ chan' = [chan EXCEPT ![p] = p]
    /\ pc' = [pc EXCEPT ![p] = "wait"]
    /\ Leave(p)
    /\ UNCHANGED <<pid, parent, killed, mem, kstack, cond_addr, nextpid, np, tickslock, memory>>

(* kill(v): the first slot with that pid, whatever its state.              *)
MutantKillState(q) == state
KillState(q) ==
    IF state[q] = "SLEEPING" THEN [state EXCEPT ![q] = "RUNNABLE"] ELSE state

Kill(p, q) ==
    /\ Enter(p) /\ "kill" \in Calls
    /\ \A r \in 1 .. q - 1 : pid[r] # pid[q]
    /\ killed' = [killed EXCEPT ![q] = TRUE]
    /\ state' = KillState(q)
    /\ UNCHANGED <<pid, parent, chan, mem, kstack, cond_addr, nextpid, cpu, locals, tickslock, memory>>

-----------------------------------------------------------------------------
(* sys_sleep and the clock; condition variables of user threads.           *)

(* The loop of sys_sleep, under tickslock: return when killed or when the  *)
(* time is over, else keep the lock up to the sleep.                       *)
SleepReturns(p) ==
    /\ Running(p) /\ pc[p] = "sleep" /\ tickslock = None
    /\ pc' = [pc EXCEPT ![p] = "user"]
    /\ UNCHANGED <<table, cpu, np, tickslock, memory>>

SleepTest(p) ==
    /\ "sleep" \in Calls /\ tickslock = None
    /\ Enter(p) \/ (Running(p) /\ pc[p] = "sleep" /\ ~killed[p])
    /\ tickslock' = p
    /\ pc' = [pc EXCEPT ![p] = "sleep_locked"]
    /\ UNCHANGED <<table, cpu, np, memory>>

(* sleep(&ticks, &tickslock).                                              *)
SleepSleeps(p) ==
    /\ Running(p) /\ pc[p] = "sleep_locked"
    /\ state' = [state EXCEPT ![p] = "SLEEPING"]
    /\ chan' = [chan EXCEPT ![p] = Ticks]
    /\ tickslock' = None
    /\ pc' = [pc EXCEPT ![p] = "sleep"]
    /\ Leave(p)
    /\ UNCHANGED <<pid, parent, killed, mem, kstack, cond_addr, nextpid, np, memory>>

(* The timer interrupt on CPU 0; its yield is the action Yield.            *)
Tick ==
    /\ tickslock = None
    /\ state' = Wakeup1(state, Ticks)
    /\ UNCHANGED <<pid, parent, chan, killed, mem, kstack, cond_addr, nextpid, cpu, locals, tickslock, memory>>

CondEnter(p) ==
    /\ Enter(p) /\ "cond" \in Calls
    /\ pc' = [pc EXCEPT ![p] = "cond"]
    /\ UNCHANGED <<table, cpu, np, tickslock, memory>>

(* sleep_on_cond: no test of killed, and chan keeps its value.             *)
SleepOnCond(p, a) ==
    /\ Running(p) /\ pc[p] = "cond"
    /\ cond_addr' = [cond_addr EXCEPT ![p] = a]
    /\ state' = [state EXCEPT ![p] = "SLEEPING"]
    /\ pc' = [pc EXCEPT ![p] = "user"]
    /\ Leave(p)
    /\ UNCHANGED <<pid, parent, chan, killed, mem, kstack, nextpid, np, tickslock, memory>>

WakeOnCond(p, a) ==
    /\ Running(p) /\ pc[p] = "cond"
    /\ state' = [q \in Proc |->
                   IF state[q] = "SLEEPING" /\ mem[q] = mem[p] /\ cond_addr[q] = a
                   THEN "RUNNABLE" ELSE state[q]]
    /\ pc' = [pc EXCEPT ![p] = "user"]
    /\ UNCHANGED <<pid, parent, chan, killed, mem, kstack, cond_addr, nextpid, cpu, np, tickslock, memory>>

-----------------------------------------------------------------------------
(* The steps a process takes by itself once it is in a call, or once it    *)
(* has been killed.                                                        *)
Kernel(p) ==
    \/ ForkStack(p) \/ ForkStackFails(p) \/ ForkMem(p) \/ ForkMemFails(p) \/ ForkRun(p)
    \/ Exit(p)
    \/ pc[p] = "wait" /\ (Reap(p) \/ WaitFails(p) \/ WaitSleeps(p))
    \/ SleepReturns(p) \/ SleepSleeps(p)
    \/ \E a \in CondAddr \ {0} : SleepOnCond(p, a) \/ WakeOnCond(p, a)
    \/ killed[p] /\ ExitBegin(p)

User(p) ==
    \/ \E call \in {"fork", "thread_fork"} : Allocproc(p, call)
    \/ Growproc(p)
    \/ pc[p] = "user" /\ (Reap(p) \/ WaitSleeps(p))
    \/ \E q \in Proc : Kill(p, q)
    \/ SleepTest(p) \/ CondEnter(p)
    \/ ~killed[p] /\ ExitBegin(p)

Next ==
    \/ \E c \in CPU, p \in Proc : Schedule(c, p)
    \/ \E p \in Proc : Yield(p) \/ Kernel(p) \/ User(p)
    \/ Tick

Spec == Init /\ [][Next]_vars

(* A runnable process is drawn again and again (module Lottery tells how   *)
(* far lottery_scheduler sees to that), a process on a CPU runs until the  *)
(* clock makes it yield, and the clock ticks.  Of init it is enough that   *)
(* it goes on where it cannot be preempted.                                *)
Fairness ==
    /\ \A p \in Proc \ {Init1} : SF_vars(\E c \in CPU : Schedule(c, p)) /\ SF_vars(Kernel(p))
    /\ WF_vars(Kernel(Init1))
    /\ \A p \in Proc : WF_vars(Yield(p))
    /\ WF_vars(Tick)

FairSpec == Spec /\ Fairness

-----------------------------------------------------------------------------
(* Properties.                                                             *)

Live == {"SLEEPING", "RUNNABLE", "RUNNING"}

(* Types.  Every pid allocproc gives out is one that nextpid has counted.  *)
TypeOK ==
    /\ state \in [Proc -> ProcState] /\ pid \in [Proc -> 0 .. MaxPid]
    /\ parent \in [Proc -> Proc \cup {None}]
    /\ chan \in [Proc -> Proc \cup {None, Ticks}]
    /\ killed \in [Proc -> BOOLEAN] /\ cond_addr \in [Proc -> CondAddr]
    /\ mem \in [Proc -> Page \cup {None}] /\ kstack \in [Proc -> Page \cup {None}]
    /\ nextpid \in 1 .. MaxPid + 1
    /\ cpu \in [CPU -> Proc \cup {None}]
    /\ pc \in [Proc -> PC] /\ np \in [Proc -> Proc \cup {None}]
    /\ tickslock \in Proc \cup {None}
    /\ used \subseteq Page /\ badfree \in BOOLEAN

(* A process is RUNNING exactly when it is the current process of a CPU,   *)
(* and no two CPUs run the same process (on the same kernel stack).        *)
OneCpuEach ==
    /\ \A p \in Proc : Running(p) <=> \E c \in CPU : cpu[c] = p
    /\ \A c, d \in CPU : cpu[c] = cpu[d] /\ cpu[c] # None => c = d

(* exit and wait do not miss each other: nobody sleeps in wait while it    *)
(* has a zombie child, its own or one passed to it as init.                *)
NoMissedZombie ==
    \A p, z \in Proc : state[p] = "SLEEPING" /\ chan[p] = p => ~ZombieChild(p, z)

(* No orphans: every process but init has a parent that has neither exited *)
(* nor been reaped, so there is always someone to wait for it.             *)
ParentsLive ==
    \A p \in Proc : state[p] \in Live \cup {"ZOMBIE"} /\ p # Init1 =>
        parent[p] \in Proc /\ state[parent[p]] \in Live

(* The processes, finished or being made, that own a stack, or a memory.   *)
Stacks == {p \in Proc : state[p] \in Live \cup {"ZOMBIE"} \/
                        \E q \in Proc : np[q] = p /\ pc[q] \in {"fork_mem", "fork_run"}}
Memories == {p \in Proc : state[p] \in Live \cup {"ZOMBIE"} \/
                          \E q \in Proc : np[q] = p /\ pc[q] = "fork_run"}

(* Pages are owned: with no threads, what kalloc has handed out are the    *)
(* kernel stacks and the memories of the processes in the table, none of   *)
(* them shared, lost, or freed twice; also when fork fails half way.       *)
PageOwnership ==
    /\ used = {kstack[p] : p \in Stacks} \cup {mem[p] : p \in Memories}
    /\ Cardinality(used) = Cardinality(Stacks) + Cardinality(Memories)
    /\ ~badfree

(* The memory of a process that may still run is not freed under it.       *)
MemoryInUse == ~badfree /\ \A p \in Proc : state[p] \in Live => mem[p] \in used

(* A killed process does exit, whatever call it was in.                    *)
KilledExits ==
    \A p \in Proc \ {Init1} : (state[p] \in Live /\ killed[p]) ~> state[p] = "ZOMBIE"

=============================================================================
