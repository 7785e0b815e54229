----------------------------- MODULE UserThreads ------------------------------
(***************************************************************************)
(* Threads of one user process: mutexes and condition variables            *)
(* (userthreads.c) on the kernel's sleep_on_cond and wake_on_cond          *)
(* (proc.c), used as cond_test of mytests.c uses them: a producer that     *)
(* fills a buffer and consumers that empty it.                             *)
(*                                                                         *)
(* proc_table_lock makes sleep_on_cond, up to where it gives up the CPU,   *)
(* and wake_on_cond one step each.  Output is left out; what a consumer    *)
(* prints is kept in a history variable.                                   *)
(***************************************************************************)
EXTENDS Naturals, Sequences, FiniteSets

CONSTANTS Consumer,     \* the consumer threads
          BUFF_SIZE, COND_ITERS

producer == 0
Thread == {producer} \cup Consumer
Rounds(t) == IF t = producer THEN COND_ITERS * Cardinality(Consumer) ELSE COND_ITERS
UserThreadsAssumption ==
    Consumer \subseteq Nat \ {0} /\ BUFF_SIZE \in Nat \ {0} /\ COND_ITERS \in Nat \ {0}

VARIABLES
    main,       \* threads main has yet to create or, all created, to wait for; failed?
    pc, i, j,   \* of each thread: where it is, and its loop counters
    locked,     \* cond_mutex
    cond_addr,  \* of each thread: the condition it last slept on
    asleep,     \* the threads that are SLEEPING
    cond_arr, numfilled,
    printed     \* history: what the consumers have read
vars == <<main, pc, i, j, locked, cond_addr, asleep, cond_arr, numfilled, printed>>
data == <<cond_arr, numfilled, printed>>

Init ==
    /\ main = "create"
    /\ pc = [t \in Thread |-> "none"]
    /\ i = [t \in Thread |-> 0] /\ j = [t \in Thread |-> 0]
    /\ locked = FALSE
    /\ cond_addr = [t \in Thread |-> "none"] /\ asleep = {}
    /\ cond_arr = [k \in 1 .. BUFF_SIZE |-> 0] /\ numfilled = 0
    /\ printed = <<>>

Goto(t, l) == pc' = [pc EXCEPT ![t] = l]
At(t, l) == pc[t] = l /\ t \notin asleep

-----------------------------------------------------------------------------
(* cond_test: the producer is created first.  thread_create fails when it  *)
(* gets no stack or no process.                                            *)
Create(t) ==
    /\ main = "create" /\ pc[t] = "none"
    /\ t # producer => pc[producer] # "none"
    /\ Goto(t, "lock")
    /\ UNCHANGED <<main, i, j, locked, cond_addr, asleep, data>>
CreateFails ==
    /\ main = "create" /\ \E t \in Thread : pc[t] = "none"
    /\ main' = "failed"
    /\ UNCHANGED <<pc, i, j, locked, cond_addr, asleep, data>>
(* thread_wait until there is no thread left.                              *)
Waited ==
    /\ main = "create" /\ \A t \in Thread : pc[t] = "done"
    /\ main' = "done"
    /\ UNCHANGED <<pc, i, j, locked, cond_addr, asleep, data>>

(* mutex_lock: one xchg that finds the mutex free; cond_wait ends with it. *)
Lock(t) ==
    /\ At(t, "lock") /\ ~locked
    /\ locked' = TRUE /\ Goto(t, "test")
    /\ UNCHANGED <<main, i, j, cond_addr, asleep, data>>

MustWait(t) == IF t = producer THEN numfilled = BUFF_SIZE ELSE numfilled = 0
Waits(t) == IF t = producer THEN "empty" ELSE "fill"
Signals(t) == IF t = producer THEN "fill" ELSE "empty"

Test(t) ==
    /\ At(t, "test") /\ Goto(t, IF MustWait(t) THEN "wait" ELSE "body")
    /\ UNCHANGED <<main, i, j, locked, cond_addr, asleep, data>>

(* cond_wait: sleep_on_cond, which frees the mutex; woken, mutex_lock and  *)
(* the test again.                                                         *)
MutantUnlocked == locked
Unlocked == FALSE
CondWait(t) ==
    /\ At(t, "wait")
    /\ cond_addr' = [cond_addr EXCEPT ![t] = Waits(t)]
    /\ asleep' = asleep \cup {t}
    /\ locked' = Unlocked
    /\ Goto(t, "lock")
    /\ UNCHANGED <<main, i, j, data>>

(* One round of the for loop over the buffer.                              *)
MutantLast(t) == j[t] + 1 = BUFF_SIZE - 1
Last(t) == j[t] + 1 = BUFF_SIZE
Body(t) ==
    /\ At(t, "body")
    /\ IF t = producer
       THEN /\ cond_arr' = [cond_arr EXCEPT ![j[t] + 1] = i[t]]
            /\ numfilled' = numfilled + 1
            /\ UNCHANGED printed
       ELSE /\ printed' = Append(printed, cond_arr[j[t] + 1])
            /\ numfilled' = numfilled - 1
            /\ UNCHANGED cond_arr
    /\ j' = [j EXCEPT ![t] = IF Last(t) THEN 0 ELSE @ + 1]
    /\ Goto(t, IF Last(t) THEN "signal" ELSE "body")
    /\ UNCHANGED <<main, i, locked, cond_addr, asleep>>

(* cond_signal: wake_on_cond wakes every thread whose cond_addr it is.     *)
Wakes(a) == {t \in asleep : cond_addr[t] = a}
Signal(t) ==
    /\ At(t, "signal")
    /\ asleep' = asleep \ Wakes(Signals(t))
    /\ Goto(t, "unlock")
    /\ UNCHANGED <<main, i, j, locked, cond_addr, data>>

(* mutex_unlock and the end of the round; the thread exits after the last. *)
Unlock(t) ==
    /\ At(t, "unlock")
    /\ locked' = FALSE
    /\ i' = [i EXCEPT ![t] = @ + 1]
    /\ Goto(t, IF i[t] + 1 = Rounds(t) THEN "done" ELSE "lock")
    /\ UNCHANGED <<main, j, cond_addr, asleep, data>>

Step(t) == Create(t) \/ Lock(t) \/ Test(t) \/ CondWait(t) \/ Body(t) \/ Signal(t) \/ Unlock(t)
Next == CreateFails \/ Waited \/ \E t \in Thread : Step(t)

Spec == Init /\ [][Next]_vars
(* Threads are scheduled fairly.  Lock is enabled only while the mutex is  *)
(* free, so a spinning thread may be passed over for as long as others     *)
(* take it.                                                                *)
Fairness == WF_vars(Waited) /\ \A t \in Thread : WF_vars(Step(t))

-----------------------------------------------------------------------------
(* Properties.                                                             *)

TypeOK ==
    /\ main \in {"create", "failed", "done"} /\ locked \in BOOLEAN
    /\ pc \in [Thread -> {"none", "lock", "test", "wait", "body", "signal", "unlock", "done"}]
    /\ asleep \subseteq Thread /\ numfilled \in 0 .. BUFF_SIZE
    /\ \A t \in Thread : i[t] \in 0 .. Rounds(t) /\ j[t] \in 0 .. BUFF_SIZE - 1

(* What the consumers print is what the producer stored, each buffer once  *)
(* and in order, whichever consumer wakes first.                           *)
PrintedInOrder ==
    \A k \in 1 .. Len(printed) : printed[k] = (k - 1) \div BUFF_SIZE

(* No signal is lost: once all threads are created cond_test comes to its  *)
(* end.                                                                    *)
TestEnds == (\A t \in Thread : pc[t] # "none") ~> (main = "done")

=============================================================================
