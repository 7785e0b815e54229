------------------------------ MODULE MCKernel ------------------------------
(***************************************************************************)
(* Instances of the modules about processors and memory, each explored by  *)
(* itself: which one is chosen at the start.  The variables of the others  *)
(* are 0 throughout.                                                       *)
(***************************************************************************)
EXTENDS Naturals

CONSTANTS c1, c2, p1, p2, p3

VARIABLES
    part,
    t_state, t_tctcnt, t_ttltcts, t_cpu, t_pc, t_reg, t_arg,
    k_freelist, k_kstack, k_mem, k_new, k_pc, k_child, k_panicked,
    u_ptr, u_size, u_freep, u_brk, u_given,
    s_lock, s_ie, s_ncli, s_intena, s_cur, s_stack, s_step, s_state, s_panicked

lotteryVars == <<t_state, t_tctcnt, t_ttltcts, t_cpu, t_pc, t_reg, t_arg>>
kallocVars == <<k_freelist, k_kstack, k_mem, k_new, k_pc, k_child, k_panicked>>
umallocVars == <<u_ptr, u_size, u_freep, u_brk, u_given>>
lockVars == <<s_lock, s_ie, s_ncli, s_intena, s_cur, s_stack, s_step, s_state, s_panicked>>
vars == <<part, lotteryVars, kallocVars, umallocVars, lockVars>>

Draw == INSTANCE Lottery WITH
    NPROC <- 3, CPU <- {c1}, Tickets <- 2, Counts <- {1, 3}, MayFail <- TRUE, MaxTotal <- 8,
    state <- t_state, tctcnt <- t_tctcnt, ttltcts <- t_ttltcts, cpu <- t_cpu, pc <- t_pc,
    reg <- t_reg, arg <- t_arg

Pages == INSTANCE Kalloc WITH
    Proc <- {p1, p2, p3}, Init1 <- p1, NPAGE <- 7, Sizes <- {1, 2},
    freelist <- k_freelist, kstack <- k_kstack, mem <- k_mem, new <- k_new, pc <- k_pc,
    child <- k_child, panicked <- k_panicked

Heap == INSTANCE Umalloc WITH
    MaxHeap <- 11, PAGE <- 4, Units <- {2, 3, 5},
    ptr <- u_ptr, size <- u_size, freep <- u_freep, brk <- u_brk, given <- u_given

Locks == INSTANCE Spinlock WITH
    CPU <- {c1, c2}, Proc <- {p1, p2}, MaxDepth <- 2,
    lock <- s_lock, ie <- s_ie, ncli <- s_ncli, intena <- s_intena, cur <- s_cur,
    stack <- s_stack, step <- s_step, state <- s_state, panicked <- s_panicked

ASSUME Draw!LotteryAssumption /\ Pages!KallocAssumption /\ Heap!UmallocAssumption

-----------------------------------------------------------------------------

LotteryOff == /\ t_state = 0 /\ t_tctcnt = 0 /\ t_ttltcts = 0 /\ t_cpu = 0 /\ t_pc = 0
              /\ t_reg = 0 /\ t_arg = 0
KallocOff == /\ k_freelist = 0 /\ k_kstack = 0 /\ k_mem = 0 /\ k_new = 0 /\ k_pc = 0
             /\ k_child = 0 /\ k_panicked = 0
UmallocOff == u_ptr = 0 /\ u_size = 0 /\ u_freep = 0 /\ u_brk = 0 /\ u_given = 0
LockOff == /\ s_lock = 0 /\ s_ie = 0 /\ s_ncli = 0 /\ s_intena = 0 /\ s_cur = 0
           /\ s_stack = 0 /\ s_step = 0 /\ s_state = 0 /\ s_panicked = 0

Init ==
    \/ part = "lottery" /\ Draw!Init /\ KallocOff /\ UmallocOff /\ LockOff
    \/ part = "kalloc" /\ Pages!Init /\ LotteryOff /\ UmallocOff /\ LockOff
    \/ part = "umalloc" /\ Heap!Init /\ LotteryOff /\ KallocOff /\ LockOff
    \/ part = "spinlock" /\ Locks!Init /\ LotteryOff /\ KallocOff /\ UmallocOff

Next ==
    \/ /\ part = "lottery" /\ Draw!Next
       /\ UNCHANGED <<part, kallocVars, umallocVars, lockVars>>
    \/ /\ part = "kalloc" /\ Pages!Next
       /\ UNCHANGED <<part, lotteryVars, umallocVars, lockVars>>
    \/ /\ part = "umalloc" /\ Heap!Next
       /\ UNCHANGED <<part, lotteryVars, kallocVars, lockVars>>
    \/ /\ part = "spinlock" /\ Locks!Next
       /\ UNCHANGED <<part, lotteryVars, kallocVars, umallocVars>>

Spec == Init /\ [][Next]_vars

-----------------------------------------------------------------------------
(* Properties: those of the modules, of the instance that was chosen, each *)
(* with the type invariant of its module.                                  *)

(* lottery_scheduler never divides by zero, and picks each process with    *)
(* the share of its tickets.                                               *)
ProportionalShare ==
    part = "lottery" => Draw!TypeOK /\ Draw!DivisorNonZero /\ Draw!ProportionalShare

(* kalloc and kfree neither lose a page nor have it twice, and kalloc      *)
(* fails only when there is no run of pages that is long enough.           *)
PagesConserved == part = "kalloc" => Pages!TypeOK /\ Pages!PagesConserved /\ Pages!AllocIfRoom

(* The heap is the blocks of malloc's free list and those handed out, and  *)
(* no two free blocks lie side by side.                                    *)
HeapPartition == part = "umalloc" => Heap!TypeOK /\ Heap!HeapPartition /\ Heap!Coalesced

(* A spinlock has one holder at a time, a handler runs with interrupts off *)
(* until it gives up the CPU, and none of the checks of acquire, release,  *)
(* popcli and sched panics.                                                *)
LocksExclude ==
    part = "spinlock" =>
        Locks!TypeOK /\ Locks!MutualExclusion /\ Locks!HandlerMasked /\ Locks!NoPanic

=============================================================================
