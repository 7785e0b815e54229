----------------------------- MODULE ProcProofs -----------------------------
(***************************************************************************)
(* Proofs about the process table of module Proc, for any number of slots, *)
(* CPUs and pages and any set of system calls: a process runs on one CPU   *)
(* at most, exit and wait do not miss each other, and every process has a  *)
(* parent that can wait for it.                                            *)
(***************************************************************************)
EXTENDS Proc, TLAPS

ForkPC == {"fork_stack", "thread_stack", "fork_mem", "fork_run"}

(* A process in the middle of a call is on a CPU or ready to be, except in *)
(* the loops of wait and sys_sleep.                                        *)
CallsLive ==
    \A p \in Proc : /\ pc[p] \notin {"user", "wait", "sleep"} => state[p] \in {"RUNNING", "RUNNABLE"}
                    /\ pc[p] \in {"wait", "sleep"} => state[p] \in Live

(* The slot a fork is filling is an EMBRYO of its own.                     *)
ForkOwns ==
    /\ \A p \in Proc : pc[p] \in ForkPC => np[p] \in Proc /\ state[np[p]] = "EMBRYO"
    /\ \A p, q \in Proc : pc[p] \in ForkPC /\ pc[q] \in ForkPC /\ np[p] = np[q] => p = q
    /\ \A p \in Proc : pc[p] \in {"fork_mem", "fork_run"} => parent[np[p]] = p

InitStays == state[Init1] \in Live /\ pc[Init1] # "exit" /\ parent[Init1] = None

AwakeNoChan == \A p \in Proc : Running(p) => chan[p] = None

NotOwnParent == \A p \in Proc : state[p] \in Live \cup {"ZOMBIE"} => parent[p] # p

(* The inductive invariant.                                                *)
IInv ==
    /\ TypeOK /\ OneCpuEach
    /\ CallsLive /\ ForkOwns /\ InitStays /\ AwakeNoChan /\ NotOwnParent
    /\ ParentsLive /\ NoMissedZombie

(* The first slot is a process; the null pointer and &ticks are not.       *)
LEMMA Slots == Init1 \in Proc /\ None \notin Proc /\ Ticks \notin Proc /\ None # Ticks
BY ProcAssumption DEF Proc, Init1, None, Ticks

(* The table userinit leaves satisfies the invariant.                      *)
LEMMA InitIInv == Init => IInv
<1> SUFFICES ASSUME Init PROVE IInv
  OBVIOUS
<1> USE Slots DEF Init
<1>1. TypeOK
  <2>1. /\ state \in [Proc -> ProcState] /\ pid \in [Proc -> 0 .. MaxPid]
        /\ parent \in [Proc -> Proc \cup {None}]
        /\ chan \in [Proc -> Proc \cup {None, Ticks}]
        /\ cond_addr \in [Proc -> CondAddr]
        /\ nextpid \in 1 .. MaxPid + 1
        /\ cpu \in [CPU -> Proc \cup {None}]
        /\ pc \in [Proc -> PC] /\ np \in [Proc -> Proc \cup {None}]
        /\ tickslock \in Proc \cup {None}
    BY ProcAssumption DEF ProcState, PC, CondAddr
  <2>2. killed \in [Proc -> BOOLEAN] /\ badfree \in BOOLEAN
    BY Zenon
  <2>3. 1 \in Page /\ 2 \in Page
    BY ProcAssumption DEF Page
  <2>4. used \subseteq Page
    BY <2>3
  <2>5. mem \in [Proc -> Page \cup {None}] /\ kstack \in [Proc -> Page \cup {None}]
    BY <2>3
  <2> QED
    BY <2>1, <2>2, <2>4, <2>5 DEF TypeOK
<1>2. OneCpuEach /\ CallsLive /\ ForkOwns /\ InitStays /\ AwakeNoChan /\ NotOwnParent
  BY DEF OneCpuEach, CallsLive, ForkOwns, InitStays, AwakeNoChan, NotOwnParent, Running,
         ForkPC, Live
<1>3. ParentsLive /\ NoMissedZombie
  BY DEF ParentsLive, NoMissedZombie, ZombieChild, Live
<1> QED
  BY <1>1, <1>2, <1>3 DEF IInv


(* Every step keeps the types.                                             *)
LEMMA TypeStep == TypeOK /\ [Next]_vars => TypeOK'
<1> SUFFICES ASSUME TypeOK, [Next]_vars PROVE TypeOK'
  OBVIOUS
<1> USE Slots, ProcAssumption DEF TypeOK, ProcState, PC, locals, memory, table
<1>1. ASSUME NEW c \in CPU, NEW p \in Proc, Schedule(c, p) PROVE TypeOK'
  BY <1>1 DEF Schedule
<1>2. ASSUME NEW p \in Proc, Yield(p) PROVE TypeOK'
  BY <1>2 DEF Yield, Leave, Running
<1>3. ASSUME NEW p \in Proc, ForkStack(p) PROVE TypeOK'
  <2>1. PICK g \in Page : kstack' = [kstack EXCEPT ![np[p]] = g] /\ used' = used \cup {g}
    BY <1>3 DEF ForkStack, FirstFree
  <2>2. kstack' \in [Proc -> Page \cup {None}] /\ used' \subseteq Page
    BY <2>1
  <2>3. mem' \in [Proc -> Page \cup {None}]
    BY <1>3 DEF ForkStack
  <2> QED
    BY <1>3, <2>2, <2>3 DEF ForkStack
<1>4. ASSUME NEW p \in Proc, ForkStackFails(p) PROVE TypeOK'
  BY <1>4 DEF ForkStackFails
<1>5. ASSUME NEW p \in Proc, ForkMem(p) PROVE TypeOK'
  <2>1. PICK g \in Page : mem' = [mem EXCEPT ![np[p]] = g] /\ used' = used \cup {g}
    BY <1>5 DEF ForkMem, FirstFree
  <2>2. mem' \in [Proc -> Page \cup {None}] /\ used' \subseteq Page
    BY <2>1
  <2> QED
    BY <1>5, <2>2 DEF ForkMem
<1>6. ASSUME NEW p \in Proc, ForkMemFails(p) PROVE TypeOK'
  BY <1>6 DEF ForkMemFails, Kfree
<1>7. ASSUME NEW p \in Proc, ForkRun(p) PROVE TypeOK'
  BY <1>7 DEF ForkRun
<1>8. ASSUME NEW p \in Proc, Exit(p) PROVE TypeOK'
  BY <1>8 DEF Exit, Adopt, WakeInit, Wakeup1, Leave
<1>9. ASSUME NEW p \in Proc, Reap(p) PROVE TypeOK'
  BY <1>9 DEF Reap, Kfree
<1>10. ASSUME NEW p \in Proc, WaitFails(p) PROVE TypeOK'
  BY <1>10 DEF WaitFails
<1>11. ASSUME NEW p \in Proc, WaitSleeps(p) PROVE TypeOK'
  BY <1>11 DEF WaitSleeps, Leave
<1>12. ASSUME NEW p \in Proc, SleepReturns(p) PROVE TypeOK'
  BY <1>12 DEF SleepReturns
<1>13. ASSUME NEW p \in Proc, SleepSleeps(p) PROVE TypeOK'
  BY <1>13 DEF SleepSleeps, Leave
<1>14. ASSUME NEW p \in Proc, NEW a \in CondAddr \ {0}, SleepOnCond(p, a) PROVE TypeOK'
  BY <1>14 DEF SleepOnCond, Leave, CondAddr
<1>15. ASSUME NEW p \in Proc, NEW a \in CondAddr \ {0}, WakeOnCond(p, a) PROVE TypeOK'
  BY <1>15 DEF WakeOnCond
<1>16. ASSUME NEW p \in Proc, ExitBegin(p) PROVE TypeOK'
  BY <1>16 DEF ExitBegin
<1>17. ASSUME NEW p \in Proc, NEW call \in {"fork", "thread_fork"}, Allocproc(p, call) PROVE TypeOK'
  BY <1>17 DEF Allocproc, NewPid
<1>18. ASSUME NEW p \in Proc, Growproc(p) PROVE TypeOK'
  BY <1>18 DEF Growproc, FirstFree
<1>19. ASSUME NEW p \in Proc, NEW q \in Proc, Kill(p, q) PROVE TypeOK'
  <2>1. killed' \in [Proc -> BOOLEAN]
    BY <1>19 DEF Kill
  <2>2. state' \in [Proc -> ProcState]
    BY <1>19 DEF Kill, KillState
  <2>3. UNCHANGED <<pid, parent, chan, mem, kstack, cond_addr, nextpid, cpu, pc, np,
                    tickslock, used, badfree>>
    BY <1>19 DEF Kill
  <2> QED
    BY <2>1, <2>2, <2>3
<1>20. ASSUME NEW p \in Proc, SleepTest(p) PROVE TypeOK'
  BY <1>20 DEF SleepTest
<1>21. ASSUME NEW p \in Proc, CondEnter(p) PROVE TypeOK'
  BY <1>21 DEF CondEnter
<1>22. ASSUME Tick PROVE TypeOK'
  BY <1>22 DEF Tick, Wakeup1
<1>23. CASE UNCHANGED vars
  BY <1>23 DEF vars
<1> HIDE DEF TypeOK, ProcState, PC, locals, memory, table
<1> QED
  BY <1>1, <1>2, <1>3, <1>4, <1>5, <1>6, <1>7, <1>8, <1>9, <1>10, <1>11, <1>12, <1>13, <1>14, <1>15, <1>16, <1>17, <1>18, <1>19, <1>20, <1>21, <1>22, <1>23 DEF Next, Kernel, User

(* One step per action; under it the conjuncts grouped by the part of the  *)
(* table they are about: who runs, who is in which call, who forks which   *)
(* slot, who is whose parent.                                              *)
LEMMA IInvStep == IInv /\ [Next]_vars => IInv'
<1> SUFFICES ASSUME IInv, [Next]_vars PROVE IInv'
  OBVIOUS
<1> DEFINE Runs == OneCpuEach /\ AwakeNoChan
           Inside == CallsLive /\ InitStays
           Family == NotOwnParent /\ ParentsLive
           Rest == Runs /\ Inside /\ ForkOwns /\ Family /\ NoMissedZombie
           Types == /\ state \in [Proc -> ProcState]
                    /\ parent \in [Proc -> Proc \cup {None}]
                    /\ chan \in [Proc -> Proc \cup {None, Ticks}]
                    /\ cpu \in [CPU -> Proc \cup {None}]
                    /\ pc \in [Proc -> PC] /\ np \in [Proc -> Proc \cup {None}]
<1>t. TypeOK'
  BY TypeStep DEF IInv
<1>y. Types /\ Types'
  BY <1>t DEF IInv, TypeOK
<1>i. /\ OneCpuEach /\ CallsLive /\ ForkOwns /\ InitStays /\ AwakeNoChan /\ NotOwnParent
      /\ ParentsLive /\ NoMissedZombie
  BY DEF IInv
<1> USE Slots, <1>y, <1>i DEF Running, Live
<1>1. ASSUME NEW p \in Proc,
             \/ WaitFails(p) \/ SleepReturns(p) \/ SleepTest(p) \/ CondEnter(p) \/ ExitBegin(p)
      PROVE  Rest'
  <2>1. Runs'
    BY <1>1 DEF WaitFails, SleepReturns, SleepTest, CondEnter, ExitBegin, Enter, table, OneCpuEach, AwakeNoChan
  <2>2. Inside'
    BY <1>1 DEF WaitFails, SleepReturns, SleepTest, CondEnter, ExitBegin, Enter, table, CallsLive, InitStays
  <2>3. ForkOwns'
    BY <1>1 DEF WaitFails, SleepReturns, SleepTest, CondEnter, ExitBegin, Enter, table, CallsLive, ForkOwns, ForkPC
  <2>4. Family'
    BY <1>1 DEF WaitFails, SleepReturns, SleepTest, CondEnter, ExitBegin, Enter, table, NotOwnParent, ParentsLive, InitStays, CallsLive
  <2>5. NoMissedZombie'
    BY <1>1 DEF WaitFails, SleepReturns, SleepTest, CondEnter, ExitBegin, Enter, table, NoMissedZombie, ZombieChild, AwakeNoChan
  <2> QED
    BY <2>1, <2>2, <2>3, <2>4, <2>5
<1>2. ASSUME NEW p \in Proc, Growproc(p)
      PROVE  Rest'
  <2>1. Runs'
    BY <1>2 DEF Growproc, locals, OneCpuEach, AwakeNoChan
  <2>2. Inside'
    BY <1>2 DEF Growproc, locals, CallsLive, InitStays
  <2>3. ForkOwns'
    BY <1>2 DEF Growproc, locals, CallsLive, ForkOwns, ForkPC
  <2>4. Family'
    BY <1>2 DEF Growproc, locals, NotOwnParent, ParentsLive, InitStays, CallsLive
  <2>5. NoMissedZombie'
    BY <1>2 DEF Growproc, locals, NoMissedZombie, ZombieChild, AwakeNoChan
  <2> QED
    BY <2>1, <2>2, <2>3, <2>4, <2>5
<1>3. ASSUME NEW c \in CPU, NEW p \in Proc, Schedule(c, p)
      PROVE  Rest'
  <2>1. Runs'
    BY <1>3 DEF Schedule, locals, OneCpuEach, AwakeNoChan
  <2>2. Inside'
    BY <1>3 DEF Schedule, locals, CallsLive, InitStays
  <2>3. ForkOwns'
    BY <1>3 DEF Schedule, locals, CallsLive, ForkOwns, ForkPC
  <2>4. Family'
    BY <1>3 DEF Schedule, locals, NotOwnParent, ParentsLive, InitStays, CallsLive
  <2>5. NoMissedZombie'
    BY <1>3 DEF Schedule, locals, NoMissedZombie, ZombieChild, AwakeNoChan
  <2> QED
    BY <2>1, <2>2, <2>3, <2>4, <2>5
<1>4. ASSUME NEW p \in Proc, Yield(p)
      PROVE  Rest'
  <2>1. Runs'
    BY <1>4 DEF Yield, Leave, locals, OneCpuEach, AwakeNoChan
  <2>2. Inside'
    BY <1>4 DEF Yield, Leave, locals, CallsLive, InitStays
  <2>3. ForkOwns'
    BY <1>4 DEF Yield, Leave, locals, CallsLive, ForkOwns, ForkPC
  <2>4. Family'
    BY <1>4 DEF Yield, Leave, locals, NotOwnParent, ParentsLive, InitStays, CallsLive
  <2>5. NoMissedZombie'
    BY <1>4 DEF Yield, Leave, locals, NoMissedZombie, ZombieChild, AwakeNoChan
  <2> QED
    BY <2>1, <2>2, <2>3, <2>4, <2>5
<1>5. ASSUME Tick
      PROVE  Rest'
  <2>1. Runs'
    BY <1>5 DEF Tick, Wakeup1, locals, OneCpuEach, AwakeNoChan
  <2>2. Inside'
    BY <1>5 DEF Tick, Wakeup1, locals, CallsLive, InitStays
  <2>3. ForkOwns'
    BY <1>5 DEF Tick, Wakeup1, locals, CallsLive, ForkOwns, ForkPC
  <2>4. Family'
    BY <1>5 DEF Tick, Wakeup1, locals, NotOwnParent, ParentsLive, InitStays, CallsLive
  <2>5. NoMissedZombie'
    BY <1>5 DEF Tick, Wakeup1, locals, NoMissedZombie, ZombieChild, AwakeNoChan
  <2> QED
    BY <2>1, <2>2, <2>3, <2>4, <2>5
<1>6. ASSUME NEW p \in Proc, NEW q \in Proc, Kill(p, q)
      PROVE  Rest'
  <2>1. Runs'
    BY <1>6 DEF Kill, KillState, locals, OneCpuEach, AwakeNoChan
  <2>2. Inside'
    BY <1>6 DEF Kill, KillState, locals, CallsLive, InitStays
  <2>3. ForkOwns'
    BY <1>6 DEF Kill, KillState, locals, CallsLive, ForkOwns, ForkPC
  <2>4. Family'
    BY <1>6 DEF Kill, KillState, locals, NotOwnParent, ParentsLive, InitStays, CallsLive
  <2>5. NoMissedZombie'
    BY <1>6 DEF Kill, KillState, locals, NoMissedZombie, ZombieChild, AwakeNoChan
  <2> QED
    BY <2>1, <2>2, <2>3, <2>4, <2>5
<1>7. ASSUME NEW p \in Proc, NEW a \in CondAddr \ {0}, WakeOnCond(p, a)
      PROVE  Rest'
  <2>1. Runs'
    BY <1>7 DEF WakeOnCond, OneCpuEach, AwakeNoChan
  <2>2. Inside'
    BY <1>7 DEF WakeOnCond, CallsLive, InitStays
  <2>3. ForkOwns'
    BY <1>7 DEF WakeOnCond, CallsLive, ForkOwns, ForkPC
  <2>4. Family'
    BY <1>7 DEF WakeOnCond, NotOwnParent, ParentsLive, InitStays, CallsLive
  <2>5. NoMissedZombie'
    BY <1>7 DEF WakeOnCond, NoMissedZombie, ZombieChild, AwakeNoChan
  <2> QED
    BY <2>1, <2>2, <2>3, <2>4, <2>5
<1>8. ASSUME NEW p \in Proc, NEW a \in CondAddr \ {0}, SleepOnCond(p, a)
      PROVE  Rest'
  <2>1. Runs'
    BY <1>8 DEF SleepOnCond, Leave, OneCpuEach, AwakeNoChan
  <2>2. Inside'
    BY <1>8 DEF SleepOnCond, Leave, CallsLive, InitStays
  <2>3. ForkOwns'
    BY <1>8 DEF SleepOnCond, Leave, CallsLive, ForkOwns, ForkPC
  <2>4. Family'
    BY <1>8 DEF SleepOnCond, Leave, NotOwnParent, ParentsLive, InitStays, CallsLive
  <2>5. NoMissedZombie'
    BY <1>8 DEF SleepOnCond, Leave, NoMissedZombie, ZombieChild, AwakeNoChan
  <2> QED
    BY <2>1, <2>2, <2>3, <2>4, <2>5
<1>9. ASSUME NEW p \in Proc, SleepSleeps(p)
      PROVE  Rest'
  <2>1. Runs'
    BY <1>9 DEF SleepSleeps, Leave, OneCpuEach, AwakeNoChan
  <2>2. Inside'
    BY <1>9 DEF SleepSleeps, Leave, CallsLive, InitStays
  <2>3. ForkOwns'
    BY <1>9 DEF SleepSleeps, Leave, CallsLive, ForkOwns, ForkPC
  <2>4. Family'
    BY <1>9 DEF SleepSleeps, Leave, NotOwnParent, ParentsLive, InitStays, CallsLive
  <2>5. NoMissedZombie'
    BY <1>9 DEF SleepSleeps, Leave, NoMissedZombie, ZombieChild, AwakeNoChan
  <2> QED
    BY <2>1, <2>2, <2>3, <2>4, <2>5
<1>10. ASSUME NEW p \in Proc, WaitSleeps(p)
      PROVE  Rest'
  <2>1. Runs'
    BY <1>10 DEF WaitSleeps, InWait, Enter, Leave, OneCpuEach, AwakeNoChan
  <2>2. Inside'
    BY <1>10 DEF WaitSleeps, InWait, Enter, Leave, CallsLive, InitStays
  <2>3. ForkOwns'
    BY <1>10 DEF WaitSleeps, InWait, Enter, Leave, CallsLive, ForkOwns, ForkPC
  <2>4. Family'
    BY <1>10 DEF WaitSleeps, InWait, Enter, Leave, NotOwnParent, ParentsLive, InitStays, CallsLive
  <2>5. NoMissedZombie'
    BY <1>10 DEF WaitSleeps, InWait, Enter, Leave, NoMissedZombie, ZombieChild, AwakeNoChan
  <2> QED
    BY <2>1, <2>2, <2>3, <2>4, <2>5
<1>11. ASSUME NEW p \in Proc, NEW call \in {"fork", "thread_fork"}, Allocproc(p, call)
      PROVE  Rest'
  <2>1. Runs'
    BY <1>11 DEF Allocproc, Enter, FirstUnused, OneCpuEach, AwakeNoChan, ForkOwns, ForkPC
  <2>2. Inside'
    BY <1>11 DEF Allocproc, Enter, FirstUnused, CallsLive, InitStays, ForkOwns, ForkPC
  <2>3. ForkOwns'
    BY <1>11 DEF Allocproc, Enter, FirstUnused, CallsLive, ForkOwns, ForkPC
  <2>4. Family'
    BY <1>11 DEF Allocproc, Enter, FirstUnused, NotOwnParent, ParentsLive, InitStays, CallsLive, ForkOwns, ForkPC
  <2>5. NoMissedZombie'
    BY <1>11 DEF Allocproc, Enter, FirstUnused, NoMissedZombie, ZombieChild, AwakeNoChan, ForkOwns, ForkPC
  <2> QED
    BY <2>1, <2>2, <2>3, <2>4, <2>5
<1>12. ASSUME NEW p \in Proc, ForkStack(p)
      PROVE  Rest'
  <2>1. Runs'
    BY <1>12 DEF ForkStack, OneCpuEach, AwakeNoChan, ForkOwns, ForkPC
  <2>2. Inside'
    BY <1>12 DEF ForkStack, CallsLive, InitStays, ForkOwns, ForkPC
  <2>3. ForkOwns'
    BY <1>12 DEF ForkStack, CallsLive, ForkOwns, ForkPC
  <2>4. Family'
    BY <1>12 DEF ForkStack, NotOwnParent, ParentsLive, InitStays, CallsLive, ForkOwns, ForkPC
  <2>5. NoMissedZombie'
    BY <1>12 DEF ForkStack, NoMissedZombie, ZombieChild, AwakeNoChan, ForkOwns, ForkPC
  <2> QED
    BY <2>1, <2>2, <2>3, <2>4, <2>5
<1>13. ASSUME NEW p \in Proc, ForkMem(p)
      PROVE  Rest'
  <2>1. Runs'
    BY <1>13 DEF ForkMem, OneCpuEach, AwakeNoChan, ForkOwns, ForkPC
  <2>2. Inside'
    BY <1>13 DEF ForkMem, CallsLive, InitStays, ForkOwns, ForkPC
  <2>3. ForkOwns'
    BY <1>13 DEF ForkMem, CallsLive, ForkOwns, ForkPC
  <2>4. Family'
    BY <1>13 DEF ForkMem, NotOwnParent, ParentsLive, InitStays, CallsLive, ForkOwns, ForkPC
  <2>5. NoMissedZombie'
    BY <1>13 DEF ForkMem, NoMissedZombie, ZombieChild, AwakeNoChan, ForkOwns, ForkPC
  <2> QED
    BY <2>1, <2>2, <2>3, <2>4, <2>5
<1>14. ASSUME NEW p \in Proc, ForkStackFails(p) \/ ForkMemFails(p)
      PROVE  Rest'
  <2>1. Runs'
    BY <1>14 DEF ForkStackFails, ForkMemFails, OneCpuEach, AwakeNoChan, ForkOwns, ForkPC
  <2>2. Inside'
    BY <1>14 DEF ForkStackFails, ForkMemFails, CallsLive, InitStays, ForkOwns, ForkPC
  <2>3. ForkOwns'
    BY <1>14 DEF ForkStackFails, ForkMemFails, CallsLive, ForkOwns, ForkPC
  <2>4. Family'
    BY <1>14 DEF ForkStackFails, ForkMemFails, NotOwnParent, ParentsLive, InitStays, CallsLive, ForkOwns, ForkPC
  <2>5. NoMissedZombie'
    BY <1>14 DEF ForkStackFails, ForkMemFails, NoMissedZombie, ZombieChild, AwakeNoChan, ForkOwns, ForkPC
  <2> QED
    BY <2>1, <2>2, <2>3, <2>4, <2>5
<1>15. ASSUME NEW p \in Proc, ForkRun(p)
      PROVE  Rest'
  <2>1. Runs'
    BY <1>15 DEF ForkRun, OneCpuEach, AwakeNoChan, ForkOwns, ForkPC
  <2>2. Inside'
    BY <1>15 DEF ForkRun, CallsLive, InitStays, ForkOwns, ForkPC
  <2>3. ForkOwns'
    BY <1>15 DEF ForkRun, CallsLive, ForkOwns, ForkPC
  <2>4. Family'
    BY <1>15 DEF ForkRun, NotOwnParent, ParentsLive, InitStays, CallsLive, ForkOwns, ForkPC
  <2>5. NoMissedZombie'
    BY <1>15 DEF ForkRun, NoMissedZombie, ZombieChild, AwakeNoChan, ForkOwns, ForkPC
  <2> QED
    BY <2>1, <2>2, <2>3, <2>4, <2>5
<1>16. ASSUME NEW p \in Proc, Reap(p) PROVE Rest'
  <2>z. PICK z \in Proc : /\ ZombieChild(p, z)
                          /\ state' = [state EXCEPT ![z] = "UNUSED"]
                          /\ parent' = [parent EXCEPT ![z] = None]
    BY <1>16 DEF Reap
  <2>p. p # z /\ state[p] = "RUNNING" /\ pc' = [pc EXCEPT ![p] = "user"]
        /\ UNCHANGED <<chan, cpu, np>>
    BY <1>16, <2>z DEF Reap, InWait, Enter, ZombieChild
  <2>1. Runs'
    BY <2>z, <2>p DEF ZombieChild, OneCpuEach, AwakeNoChan
  <2>2. Inside'
    BY <2>z, <2>p DEF ZombieChild, CallsLive, InitStays
  <2>3. ForkOwns'
    BY <2>z, <2>p DEF ZombieChild, CallsLive, ForkOwns, ForkPC
  <2>4. Family'
    BY <2>z, <2>p DEF ZombieChild, NotOwnParent, ParentsLive
  <2>5. NoMissedZombie'
    BY <2>z, <2>p DEF ZombieChild, NoMissedZombie
  <2> QED
    BY <2>1, <2>2, <2>3, <2>4, <2>5
<1>17. ASSUME NEW p \in Proc, Exit(p) PROVE Rest'
  <2>p. /\ state[p] = "RUNNING" /\ pc[p] = "exit" /\ p # Init1
        /\ pc' = [pc EXCEPT ![p] = "user"] /\ UNCHANGED <<chan, np>>
        /\ cpu' = [c \in CPU |-> IF cpu[c] = p THEN None ELSE cpu[c]]
        /\ parent' = [q \in Proc |-> IF parent[q] = p THEN Init1 ELSE parent[q]]
    BY <1>17 DEF Exit, Adopt, Leave, InitStays
  <2>s. /\ state'[p] = "ZOMBIE"
        /\ \A q \in Proc \ {p} : \/ state'[q] = state[q]
                                 \/ state[q] = "SLEEPING" /\ state'[q] = "RUNNABLE"
    BY <1>17 DEF Exit, WakeInit, Wakeup1
  <2>w. \A q \in Proc \ {p} : state[q] = "SLEEPING" /\ chan[q] = parent[p] => state'[q] = "RUNNABLE"
    BY <1>17 DEF Exit, WakeInit, Wakeup1
  <2>i. ASSUME NEW z \in Proc, state[z] = "ZOMBIE", parent[z] = p,
               state[Init1] = "SLEEPING", chan[Init1] = Init1
        PROVE  state'[Init1] = "RUNNABLE"
    BY <1>17, <2>i, <2>p DEF Exit, WakeInit, Wakeup1
  <2>1. Runs'
    <3>1. \A q \in Proc : state'[q] = "RUNNING" <=> q # p /\ state[q] = "RUNNING"
      BY <2>p, <2>s
    <3>2. \A c \in CPU : cpu'[c] = IF cpu[c] = p THEN None ELSE cpu[c]
      BY <2>p
    <3>3. OneCpuEach'
      BY <3>1, <3>2 DEF OneCpuEach
    <3>4. AwakeNoChan'
      BY <2>p, <3>1 DEF AwakeNoChan
    <3> QED
      BY <3>3, <3>4
  <2>2. Inside'
    BY <2>p, <2>s DEF CallsLive, InitStays
  <2>3. ForkOwns'
    BY <2>p, <2>s DEF CallsLive, ForkOwns, ForkPC
  <2>4. Family'
    BY <2>p, <2>s DEF NotOwnParent, ParentsLive, InitStays
  <2>5. NoMissedZombie'
    BY <2>p, <2>s, <2>w, <2>i DEF NoMissedZombie, ZombieChild, NotOwnParent, ParentsLive
  <2> QED
    BY <2>1, <2>2, <2>3, <2>4, <2>5
<1>18. ASSUME UNCHANGED vars PROVE Rest'
  <2>u. UNCHANGED <<state, parent, chan, cpu, pc, np>>
    BY <1>18 DEF vars, table, locals
  <2>1. Runs'
    BY <2>u DEF OneCpuEach, AwakeNoChan
  <2>2. Inside'
    BY <2>u DEF CallsLive, InitStays
  <2>3. ForkOwns'
    BY <2>u DEF ForkOwns
  <2>4. Family'
    BY <2>u DEF NotOwnParent, ParentsLive
  <2>5. NoMissedZombie'
    BY <2>u DEF NoMissedZombie, ZombieChild
  <2> QED
    BY <2>1, <2>2, <2>3, <2>4, <2>5
<1> HIDE DEF Rest, Types
<1>q. Rest'
  BY <1>1, <1>2, <1>3, <1>4, <1>5, <1>6, <1>7, <1>8, <1>9,
     <1>10, <1>11, <1>12, <1>13, <1>14, <1>15, <1>16, <1>17, <1>18
  DEF Next, Kernel, User
<1> QED
  BY <1>t, <1>q DEF Rest, IInv

(* The invariant holds in every reachable state of the process table.      *)
LEMMA Invariance == Spec => []IInv
BY InitIInv, IInvStep, PTL DEF Spec

(* The variables of the process table keep their types.                    *)
THEOREM TypeCorrect == Spec => []TypeOK
<1>1. IInv => TypeOK
  BY DEF IInv
<1> QED
  BY <1>1, Invariance, PTL

(* Switching in lottery_scheduler, yield, sleep and exit never lets two    *)
(* CPUs run one process, and a process is RUNNING only on a CPU.           *)
THEOREM Exclusive == Spec => []OneCpuEach
<1>1. IInv => OneCpuEach
  BY DEF IInv
<1> QED
  BY <1>1, Invariance, PTL

(* The wakeups of exit reach every parent that sleeps in wait, also the    *)
(* init process when an exiting process leaves it a zombie.                *)
THEOREM ExitWakesWait == Spec => []NoMissedZombie
<1>1. IInv => NoMissedZombie
  BY DEF IInv
<1> QED
  BY <1>1, Invariance, PTL

(* exit leaves no orphans: each process has a live parent to wait for it.  *)
THEOREM NoOrphans == Spec => []ParentsLive
<1>1. IInv => ParentsLive
  BY DEF IInv
<1> QED
  BY <1>1, Invariance, PTL

=============================================================================
