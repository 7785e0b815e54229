------------------------------- MODULE Spinlock -------------------------------
(***************************************************************************)
(* spinlock.c: acquire and release, step by step, with pushcli and popcli, *)
(* on CPUs that take interrupts and switch between processes.              *)
(*                                                                         *)
(* The code that uses the locks is reduced to the order in which it takes  *)
(* and gives them up.  A thread (a process, or the scheduler of a CPU) is  *)
(* a stack of such code: system call or scheduler loop at the bottom, the  *)
(* interrupt handlers that have interrupted it above.                      *)
(***************************************************************************)
EXTENDS Naturals, Sequences

CONSTANTS CPU, Proc,
          MaxDepth      \* bound on a thread's stack of nested handlers

VARIABLES
    lock,       \* locked and cpu of proc_table_lock and of a device's lock
    ie,         \* the interrupt flag of each CPU
    ncli, intena,
    cur,        \* the thread that runs on each CPU
    stack,      \* the frames of each thread, the running one first
    step,       \* how far each thread is within acquire or release
    state,      \* the processes' states
    panicked

vars == <<lock, ie, ncli, intena, cur, stack, step, state, panicked>>
flags == <<ie, ncli, intena>>

Lock == {"proc_table_lock", "device_lock"}
NoCpu == "none"
Thread == CPU \cup Proc     \* a CPU stands for its scheduler

(* The paths through the kernel.                                           *)
acquire(l) == <<"acquire", l>>
release(l) == <<"release", l>>
Do(what) == <<what, "none">>
Under(l, ops) == <<acquire(l)>> \o ops \o <<release(l)>>

(* A call that touches the device's queue, and one that waits on it.       *)
DeviceCall == Under("device_lock", <<>>)
SleepCall ==
    Under("device_lock", <<acquire("proc_table_lock"), release("device_lock"), Do("sleep"),
                           release("proc_table_lock"), acquire("device_lock")>>)
(* ide_intr, kbd_intr and the clock wake up processes under their lock.    *)
DeviceIntr == Under("device_lock", Under("proc_table_lock", <<Do("wakeup")>>))
yield == Under("proc_table_lock", <<Do("yield")>>)
scheduler == <<Do("sti")>> \o Under("proc_table_lock", <<Do("swtch")>>)

Frame(ops, intr) == [ops |-> ops, intr |-> intr, switched |-> FALSE]

Init ==
    /\ lock = [l \in Lock |-> [locked |-> FALSE, cpu |-> NoCpu]]
    /\ ie = [c \in CPU |-> FALSE]
    /\ ncli = [c \in CPU |-> 0] /\ intena = [c \in CPU |-> FALSE]
    /\ cur = [c \in CPU |-> c]
    (* forkret gives up the lock the scheduler took.                       *)
    /\ stack = [t \in Thread |-> IF t \in CPU THEN <<Frame(scheduler, FALSE)>>
                                 ELSE <<Frame(<<release("proc_table_lock")>>, FALSE)>>]
    /\ step = [t \in Thread |-> 0]
    /\ state = [p \in Proc |-> "RUNNABLE"]
    /\ panicked = FALSE

-----------------------------------------------------------------------------

Top(t) == Head(stack[t])
Next1(t, op) == Top(t).ops # <<>> /\ Head(Top(t).ops) = op

(* Thread t is through with the operation it was at.                       *)
Advance(t) ==
    /\ stack' = [stack EXCEPT ![t][1].ops = Tail(@)]
    /\ step' = [step EXCEPT ![t] = 0]

Holding(c, l) == lock[l].locked /\ lock[l].cpu = c

(* pushcli, and the check that the CPU does not have the lock already.     *)
Pushed(c) == [ie EXCEPT ![c] = FALSE]
MutantSaved(c) == TRUE
Saved(c) == ie[c]
AcquirePushcli(c, l) ==
    /\ Next1(cur[c], acquire(l)) /\ step[cur[c]] = 0
    /\ ie' = Pushed(c)
    /\ ncli' = [ncli EXCEPT ![c] = @ + 1]
    /\ intena' = IF ncli[c] = 0 THEN [intena EXCEPT ![c] = Saved(c)] ELSE intena
    /\ panicked' = (panicked \/ Holding(c, l))
    /\ step' = [step EXCEPT ![cur[c]] = 1]
    /\ UNCHANGED <<lock, cur, stack, state>>

(* The xchg that finds 0.                                                  *)
AcquireXchg(c, l) ==
    /\ Next1(cur[c], acquire(l)) /\ step[cur[c]] = 1
    /\ ~lock[l].locked
    /\ lock' = [lock EXCEPT ![l].locked = TRUE]
    /\ step' = [step EXCEPT ![cur[c]] = 2]
    /\ UNCHANGED <<flags, cur, stack, state, panicked>>

AcquireCpu(c, l) ==
    /\ Next1(cur[c], acquire(l)) /\ step[cur[c]] = 2
    /\ lock' = [lock EXCEPT ![l].cpu = c]
    /\ Advance(cur[c])
    /\ UNCHANGED <<flags, cur, state, panicked>>

ReleaseCpu(c, l) ==
    /\ Next1(cur[c], release(l)) /\ step[cur[c]] = 0
    /\ lock' = [lock EXCEPT ![l].cpu = NoCpu]
    /\ panicked' = (panicked \/ ~Holding(c, l))
    /\ step' = [step EXCEPT ![cur[c]] = 1]
    /\ UNCHANGED <<flags, cur, stack, state>>

(* The xchg of release, and popcli.                                        *)
Popped(c) == [ie EXCEPT ![c] = @ \/ (ncli[c] = 1 /\ intena[c])]
ReleaseXchg(c, l) ==
    /\ Next1(cur[c], release(l)) /\ step[cur[c]] = 1
    /\ lock' = [lock EXCEPT ![l].locked = FALSE]
    /\ panicked' = (panicked \/ ie[c] \/ ncli[c] = 0)
    /\ ncli' = [ncli EXCEPT ![c] = IF @ = 0 THEN 0 ELSE @ - 1]
    /\ ie' = Popped(c)
    /\ Advance(cur[c])
    /\ UNCHANGED <<intena, cur, state>>

-----------------------------------------------------------------------------
(* Switching.                                                              *)

(* The checks of sched, then swtch to the CPU's scheduler.                 *)
Sched(c) ==
    LET p == cur[c]
    IN  /\ p \in Proc
        /\ \/ Next1(p, Do("sleep")) /\ state' = [state EXCEPT ![p] = "SLEEPING"]
           \/ Next1(p, Do("yield")) /\ state' = [state EXCEPT ![p] = "RUNNABLE"]
        /\ panicked' = (panicked \/ ie[c] \/ ~Holding(c, "proc_table_lock") \/ ncli[c] # 1)
        /\ stack' = [stack EXCEPT ![p][1].ops = Tail(@), ![p][1].switched = TRUE]
        /\ cur' = [cur EXCEPT ![c] = c]
        /\ UNCHANGED <<lock, flags, step>>

Sti(c) ==
    /\ Next1(cur[c], Do("sti"))
    /\ ie' = [ie EXCEPT ![c] = TRUE]
    /\ Advance(cur[c])
    /\ UNCHANGED <<lock, ncli, intena, cur, state, panicked>>

(* The scheduler runs the process it drew, or none.                        *)
Swtch(c) ==
    /\ Next1(cur[c], Do("swtch"))
    /\ Advance(c)
    /\ \/ \E p \in Proc : /\ state[p] = "RUNNABLE"
                          /\ state' = [state EXCEPT ![p] = "RUNNING"]
                          /\ cur' = [cur EXCEPT ![c] = p]
       \/ UNCHANGED <<state, cur>>
    /\ UNCHANGED <<lock, flags, panicked>>

Wakeup(c) ==
    /\ Next1(cur[c], Do("wakeup"))
    /\ state' = [p \in Proc |-> IF state[p] = "SLEEPING" THEN "RUNNABLE" ELSE state[p]]
    /\ Advance(cur[c])
    /\ UNCHANGED <<lock, flags, cur, panicked>>

-----------------------------------------------------------------------------
(* Interrupts and system calls.                                            *)

(* Interrupt gates clear the flag.  The clock's handler ends with a yield  *)
(* when there is a process to give up the CPU.                             *)
Interrupt(c, ops) ==
    LET t == cur[c]
    IN  /\ ie[c] /\ Len(stack[t]) < MaxDepth
        /\ ops = yield => t \in Proc
        /\ stack' = [stack EXCEPT ![t] = <<Frame(ops, TRUE)>> \o @]
        /\ ie' = [ie EXCEPT ![c] = FALSE]
        /\ UNCHANGED <<lock, ncli, intena, cur, step, state, panicked>>

(* iret restores the flags of the interrupted code.                        *)
Iret(c) ==
    LET t == cur[c]
    IN  /\ Top(t).intr /\ Top(t).ops = <<>>
        /\ stack' = [stack EXCEPT ![t] = Tail(@)]
        /\ ie' = [ie EXCEPT ![c] = TRUE]
        /\ UNCHANGED <<lock, ncli, intena, cur, step, state, panicked>>

(* The gate of system calls leaves interrupts on; the scheduler loops.     *)
Again(c, ops) ==
    LET t == cur[c]
    IN  /\ ~Top(t).intr /\ Top(t).ops = <<>>
        /\ t \in CPU <=> ops = scheduler
        /\ stack' = [stack EXCEPT ![t] = <<Frame(ops, FALSE)>>]
        /\ UNCHANGED <<lock, flags, cur, step, state, panicked>>

Next ==
    \E c \in CPU :
        \/ \E l \in Lock : \/ AcquirePushcli(c, l) \/ AcquireXchg(c, l) \/ AcquireCpu(c, l)
                           \/ ReleaseCpu(c, l) \/ ReleaseXchg(c, l)
        \/ Sched(c) \/ Sti(c) \/ Swtch(c) \/ Wakeup(c)
        \/ \E ops \in {DeviceIntr, yield} : Interrupt(c, ops)
        \/ \E ops \in {DeviceCall, SleepCall, scheduler} : Again(c, ops)
        \/ Iret(c)

Spec == Init /\ [][Next]_vars

-----------------------------------------------------------------------------
(* Properties.                                                             *)

TypeOK ==
    /\ lock \in [Lock -> [locked : BOOLEAN, cpu : CPU \cup {NoCpu}]]
    /\ ie \in [CPU -> BOOLEAN] /\ intena \in [CPU -> BOOLEAN]
    /\ ncli \in [CPU -> Nat] /\ cur \in [CPU -> Thread]
    /\ step \in [Thread -> 0 .. 2] /\ panicked \in BOOLEAN
    /\ state \in [Proc -> {"RUNNABLE", "RUNNING", "SLEEPING"}]

(* Frame f is between the xchg of an acquire of l and the xchg of its      *)
(* release: of the operations on l it has left, the first is a release.    *)
Inside(f, l) ==
    \E i \in DOMAIN f.ops : /\ f.ops[i] = release(l)
                            /\ \A j \in 1 .. i - 1 : f.ops[j] # acquire(l)
Has(c, l) ==
    \/ \E i \in DOMAIN stack[cur[c]] : Inside(stack[cur[c]][i], l)
    \/ Next1(cur[c], acquire(l)) /\ step[cur[c]] = 2

(* Two CPUs never run code of one lock at the same time, also when the     *)
(* process that took it is not the one that releases it, as with           *)
(* proc_table_lock across swtch.                                           *)
MutualExclusion ==
    \A c, d \in CPU, l \in Lock : Has(c, l) /\ Has(d, l) => c = d

(* No acquire, release, popcli or sched panics: holding, ncli and the      *)
(* interrupt flag say what they are meant to, whatever other CPUs and      *)
(* interrupt handlers do, and no handler waits for a lock of its own CPU.  *)
NoPanic == ~panicked

(* A handler runs with interrupts off, its critical sections included,     *)
(* until it gives up the CPU (after which popcli turns them on, from the   *)
(* flag of the scheduler's pushcli).                                       *)
HandlerMasked ==
    \A c \in CPU : LET f == Top(cur[c]) IN f.intr /\ ~f.switched => ~ie[c]

=============================================================================
