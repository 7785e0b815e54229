------------------------------ MODULE Lottery ------------------------------
(***************************************************************************)
(* The lottery of proc.c: how lottery_scheduler draws the next process of  *)
(* a CPU, and the updates of the total ttltcts it draws from by allocproc, *)
(* exit and sys_proc_tickets.                                              *)
(*                                                                         *)
(* The three update ttltcts under proc_table_lock, under no lock and under *)
(* ticketslock.  An update is one instruction that loads and stores, so    *)
(* only another CPU can come in between: a data race.  fastrand may give   *)
(* any number.  Of fork, exit, wait and sleep this module keeps what       *)
(* concerns the lottery; module Proc has the rest.                         *)
(***************************************************************************)
EXTENDS Integers, FiniteSets, FiniteSetsExt

CONSTANTS
    NPROC, CPU,
    Tickets,     \* tickets of a new process, 100 in the code
    Counts,      \* arguments of sys_proc_tickets
    MayFail,     \* whether kalloc may fail in fork
    MaxTotal     \* bound: no fork while ttltcts is larger

Proc == 1 .. NPROC
Init1 == 1
None == 0

LotteryAssumption ==
    /\ NPROC \in Nat \ {0} /\ CPU # {} /\ MayFail \in BOOLEAN /\ MaxTotal \in Nat
    /\ Tickets \in Nat \ {0} /\ Counts \subseteq Nat \ {0}

VARIABLES
    state, tctcnt,  \* struct proc
    ttltcts,
    cpu,            \* cpus[c].curproc
    pc,             \* where each process is
    reg,            \* the value of ttltcts it has loaded
    arg             \* np of fork, newTickcount of sys_proc_tickets

locals == <<reg, arg>>
vars == <<state, tctcnt, ttltcts, cpu, pc, locals>>

Init ==
    /\ state = [p \in Proc |-> IF p = Init1 THEN "RUNNABLE" ELSE "UNUSED"]
    /\ tctcnt = [p \in Proc |-> IF p = Init1 THEN Tickets ELSE 0]
    /\ ttltcts = Tickets
    /\ cpu = [c \in CPU |-> None]
    /\ pc = [p \in Proc |-> "user"]
    /\ reg = [p \in Proc |-> 0] /\ arg = [p \in Proc |-> 0]

-----------------------------------------------------------------------------
(* lottery_scheduler.                                                      *)

(* The processes the loop counts, and where the range of p begins.         *)
MutantCounted == {p \in Proc : state[p] \notin {"UNUSED"}}
Counted == {p \in Proc : state[p] \notin {"UNUSED", "ZOMBIE"}}
Curtct(p) == MapThenSumSet(LAMBDA q : tctcnt[q], {q \in Counted : q < p})

(* The process in whose range r is: at most one.                           *)
Drawn(r) == {p \in Counted : Curtct(p) <= r /\ r < Curtct(p) + tctcnt[p]}

(* fastrand(ticks) % ttltcts, unsigned: a negative total is a huge one.    *)
(* Dividing by zero stops the machine.                                     *)
Random ==
    IF ttltcts < 0 THEN 0 .. MapThenSumSet(LAMBDA q : tctcnt[q], Counted)
                   ELSE 0 .. ttltcts - 1

(* allocproc updates under proc_table_lock.                                *)
TableUnlocked == \A p \in Proc : pc[p] # "alloc_add"

Draw(c, r) ==
    /\ cpu[c] = None /\ TableUnlocked /\ r \in Random
    /\ \E p \in Drawn(r) :
         /\ state[p] = "RUNNABLE"
         /\ state' = [state EXCEPT ![p] = "RUNNING"]
         /\ cpu' = [cpu EXCEPT ![c] = p]
    /\ UNCHANGED <<tctcnt, ttltcts, pc, locals>>

-----------------------------------------------------------------------------
(* What processes do.                                                      *)

At(p, l) == state[p] = "RUNNING" /\ pc[p] = l
Goto(p, l) == pc' = [pc EXCEPT ![p] = l]
Load(p) == reg' = [reg EXCEPT ![p] = ttltcts]
Stored(p) == reg' = [reg EXCEPT ![p] = 0]
Returns(p) == arg' = [arg EXCEPT ![p] = 0]
Leave(p, s) ==
    /\ TableUnlocked
    /\ state' = [state EXCEPT ![p] = s]
    /\ cpu' = [c \in CPU |-> IF cpu[c] = p THEN None ELSE cpu[c]]

(* A timer interrupt, with interrupts on and between two instructions.     *)
Yield(p) ==
    /\ \E l \in {"user", "fork", "exit"} : At(p, l)
    /\ Leave(p, "RUNNABLE")
    /\ UNCHANGED <<tctcnt, ttltcts, pc, locals>>

Sleep(p) ==
    /\ At(p, "user")
    /\ Leave(p, "SLEEPING")
    /\ UNCHANGED <<tctcnt, ttltcts, pc, locals>>

Wakeup(p) ==
    /\ TableUnlocked /\ state[p] = "SLEEPING"
    /\ state' = [state EXCEPT ![p] = "RUNNABLE"]
    /\ UNCHANGED <<tctcnt, ttltcts, cpu, pc, locals>>

(* allocproc: p->tctcnt = 100; ttltcts += 100.                             *)
AllocLoad(p) ==
    /\ At(p, "user") /\ TableUnlocked /\ ttltcts <= MaxTotal
    /\ \E q \in Proc :
         /\ state[q] = "UNUSED" /\ \A r \in 1 .. q - 1 : state[r] # "UNUSED"
         /\ state' = [state EXCEPT ![q] = "EMBRYO"]
         /\ tctcnt' = [tctcnt EXCEPT ![q] = Tickets]
         /\ arg' = [arg EXCEPT ![p] = q]
    /\ Load(p) /\ Goto(p, "alloc_add")
    /\ UNCHANGED <<ttltcts, cpu>>

AllocAdd(p) ==
    /\ At(p, "alloc_add")
    /\ ttltcts' = reg[p] + Tickets
    /\ Stored(p) /\ Goto(p, "fork")
    /\ UNCHANGED <<state, tctcnt, cpu, arg>>

(* copyproc without memory: the slot is free again, its tickets stay in    *)
(* the total.                                                              *)
ForkFails(p) ==
    /\ At(p, "fork") /\ MayFail
    /\ state' = [state EXCEPT ![arg[p]] = "UNUSED"]
    /\ Returns(p) /\ Goto(p, "user")
    /\ UNCHANGED <<tctcnt, ttltcts, cpu, reg>>

ForkRun(p) ==
    /\ At(p, "fork")
    /\ state' = [state EXCEPT ![arg[p]] = "RUNNABLE"]
    /\ Returns(p)
    /\ pc' = [pc EXCEPT ![p] = "user", ![arg[p]] = "user"]
    /\ UNCHANGED <<tctcnt, ttltcts, cpu, reg>>

(* sys_proc_tickets, under ticketslock.                                    *)
TicketsLoad(p, k) ==
    /\ At(p, "user") /\ \A q \in Proc : pc[q] \notin {"tk_sub", "tk_set", "tk_add"}
    /\ arg' = [arg EXCEPT ![p] = k]
    /\ Load(p) /\ Goto(p, "tk_sub")
    /\ UNCHANGED <<state, tctcnt, ttltcts, cpu>>

TicketsSub(p) ==
    /\ At(p, "tk_sub")
    /\ ttltcts' = reg[p] - tctcnt[p]
    /\ Stored(p) /\ Goto(p, "tk_set")
    /\ UNCHANGED <<state, tctcnt, cpu, arg>>

TicketsSet(p) ==
    /\ At(p, "tk_set")
    /\ tctcnt' = [tctcnt EXCEPT ![p] = arg[p]]
    /\ Load(p) /\ Goto(p, "tk_add")
    /\ UNCHANGED <<state, ttltcts, cpu, arg>>

TicketsAdd(p) ==
    /\ At(p, "tk_add")
    /\ ttltcts' = reg[p] + tctcnt[p]
    /\ Stored(p) /\ Returns(p) /\ Goto(p, "user")
    /\ UNCHANGED <<state, tctcnt, cpu>>

(* exit: ttltcts -= cp->tctcnt, then close the files, then ZOMBIE.         *)
ExitLoad(p) ==
    /\ At(p, "user") /\ p # Init1
    /\ Load(p) /\ Goto(p, "exit_sub")
    /\ UNCHANGED <<state, tctcnt, ttltcts, cpu, arg>>

ExitSub(p) ==
    /\ At(p, "exit_sub")
    /\ ttltcts' = reg[p] - tctcnt[p]
    /\ Stored(p) /\ Goto(p, "exit")
    /\ UNCHANGED <<state, tctcnt, cpu, arg>>

Zombie(p) ==
    /\ At(p, "exit")
    /\ Leave(p, "ZOMBIE")
    /\ Goto(p, "user")
    /\ UNCHANGED <<tctcnt, ttltcts, locals>>

Reap(p, z) ==
    /\ At(p, "user") /\ TableUnlocked /\ state[z] = "ZOMBIE"
    /\ state' = [state EXCEPT ![z] = "UNUSED"]
    /\ UNCHANGED <<tctcnt, ttltcts, cpu, pc, locals>>

Kernel(p) ==
    \/ AllocAdd(p) \/ ForkFails(p) \/ ForkRun(p)
    \/ TicketsSub(p) \/ TicketsSet(p) \/ TicketsAdd(p)
    \/ ExitSub(p) \/ Zombie(p)

Next ==
    \/ \E c \in CPU : \E r \in Random : Draw(c, r)
    \/ \E p \in Proc :
         \/ Yield(p) \/ Sleep(p) \/ Wakeup(p)
         \/ AllocLoad(p) \/ (\E k \in Counts : TicketsLoad(p, k)) \/ ExitLoad(p)
         \/ (\E z \in Proc : Reap(p, z))
         \/ Kernel(p)

Spec == Init /\ [][Next]_vars

-----------------------------------------------------------------------------
(* Properties.                                                             *)

(* Types.  The total of the tickets, a signed int in proc.c, is never      *)
(* negative.                                                               *)
TypeOK ==
    /\ state \in [Proc -> {"UNUSED", "EMBRYO", "SLEEPING", "RUNNABLE", "RUNNING", "ZOMBIE"}]
    /\ tctcnt \in [Proc -> {0, Tickets} \cup Counts]
    /\ ttltcts \in Nat
    /\ cpu \in [CPU -> Proc \cup {None}]
    /\ \A p \in Proc : pc[p] \in {"user", "alloc_add", "fork", "tk_sub", "tk_set", "tk_add",
                                  "exit_sub", "exit"}

(* No process is in the middle of an update, or between the update of exit *)
(* and its end.                                                            *)
Settled == \A p \in Proc : pc[p] \in {"user", "fork"}

Chances(p) == Cardinality({r \in Random : p \in Drawn(r)})

(* The share of a process is proportional to its tickets, as mytests.c     *)
(* expects: tctcnt of the ttltcts numbers draw it, also when a failed fork *)
(* has left tickets in the total that nobody has.                          *)
ProportionalShare == Settled => \A p \in Counted : Chances(p) = tctcnt[p]

(* A CPU that draws has a total to divide by.                              *)
DivisorNonZero == TableUnlocked /\ (\E c \in CPU : cpu[c] = None) => ttltcts # 0

=============================================================================
