-------------------------------- MODULE Kalloc --------------------------------
(***************************************************************************)
(* kalloc.c: the allocator of physical memory, and the code that lives on  *)
(* it: fork, growproc, exec and wait, each of which can run out of memory  *)
(* half way and can be overtaken by others between two of its calls.       *)
(*                                                                         *)
(* Memory is counted in pages; the free list is the sequence of its runs.  *)
(* kalloc and kfree are one step, under kalloc_lock.                       *)
(***************************************************************************)
EXTENDS Naturals, Sequences, SequencesExt, FiniteSets

CONSTANTS Proc, Init1,
          NPAGE,        \* pages 1 .. NPAGE are given to kinit
          Sizes         \* the sizes a process image may have

VARIABLES
    freelist,   \* runs [at, len] in list order
    kstack, mem,    \* the memory of each process, NoRun if it has none
    new,        \* memory a call under way has been given
    pc,
    child,      \* the process a fork under way is making
    panicked

vars == <<freelist, kstack, mem, new, pc, child, panicked>>

KSTACKSIZE == 1
NoRun == [at |-> 0, len |-> 0]
Run(a, n) == [at |-> a, len |-> n]
End(r) == r.at + r.len
Pages(r) == r.at .. End(r) - 1
Lowest(S) == CHOOSE i \in S : \A j \in S : i <= j

KallocAssumption ==
    NPAGE \in Nat \ {0} /\ Init1 \in Proc /\ Sizes \subseteq 1 .. NPAGE /\ Sizes # {}

-----------------------------------------------------------------------------
(* The two operations on the free list.                                    *)

(* The first run that is long enough, whole or its end.                    *)
Fitting(fl, n) == {i \in DOMAIN fl : fl[i].len >= n}
kalloc(fl, n) ==
    LET i == Lowest(Fitting(fl, n))
        r == fl[i]
    IN  IF r.len = n THEN [run |-> r, fl |-> RemoveAt(fl, i)]
        ELSE [run |-> Run(r.at + r.len - n, n), fl |-> ReplaceAt(fl, i, Run(r.at, r.len - n))]

(* The runs the loop of kfree looks at, and those that end it.             *)
Visited(fl, p) == {i \in DOMAIN fl : \A j \in 1 .. i : fl[j].at <= End(p)}
FreesFree(r, p) == r.at <= p.at /\ p.at < End(r)
Stops(fl, p) ==
    {i \in Visited(fl, p) : FreesFree(fl[i], p) \/ End(p) = fl[i].at \/ End(fl[i]) = p.at}

(* Run p after r has grown: r may have become the neighbour of the next.   *)
MutantGrown(fl, i, p) == ReplaceAt(fl, i, Run(fl[i].at, fl[i].len + p.len))
Grown(fl, i, p) ==
    IF i < Len(fl) /\ fl[i + 1].at = End(p)
    THEN RemoveAt(ReplaceAt(fl, i, Run(fl[i].at, fl[i].len + p.len + fl[i + 1].len)), i + 1)
    ELSE ReplaceAt(fl, i, Run(fl[i].at, fl[i].len + p.len))

Joined(fl, i, p) == ReplaceAt(fl, i, Run(p.at, p.len + fl[i].len))

kfree(fl, p) ==
    IF Stops(fl, p) = {} THEN InsertAt(fl, Cardinality(Visited(fl, p)) + 1, p)
    ELSE LET i == Lowest(Stops(fl, p))
         IN  IF FreesFree(fl[i], p) THEN fl
             ELSE IF End(p) = fl[i].at THEN Joined(fl, i, p)
             ELSE Grown(fl, i, p)

Panics(fl, p) ==
    \/ p.len <= 0
    \/ Stops(fl, p) # {} /\ FreesFree(fl[Lowest(Stops(fl, p))], p)

-----------------------------------------------------------------------------
(* kinit, and userinit for the first process.                              *)

Init ==
    \E sz \in Sizes :
        LET a == kalloc(kfree(<<>>, Run(1, NPAGE)), KSTACKSIZE)
            b == kalloc(a.fl, sz)
        IN  /\ Fitting(a.fl, sz) # {}
            /\ freelist = b.fl
            /\ kstack = [p \in Proc |-> IF p = Init1 THEN a.run ELSE NoRun]
            /\ mem = [p \in Proc |-> IF p = Init1 THEN b.run ELSE NoRun]
            /\ new = [p \in Proc |-> NoRun]
            /\ pc = [p \in Proc |-> IF p = Init1 THEN "user" ELSE "unused"]
            /\ child = [p \in Proc |-> p]
            /\ panicked = FALSE

Alloc(n) == Fitting(freelist, n) # {} /\ freelist' = kalloc(freelist, n).fl
Given(n) == kalloc(freelist, n).run
Free(r) == freelist' = kfree(freelist, r) /\ panicked' = (panicked \/ Panics(freelist, r))
At(p, from) == pc[p] = from
Goto(p, to) == pc' = [pc EXCEPT ![p] = to]

(* copyproc: the stack, then the memory; without it the stack goes back.   *)
ForkStack(p, q) ==
    /\ At(p, "user") /\ At(q, "unused")
    /\ Alloc(KSTACKSIZE)
    /\ kstack' = [kstack EXCEPT ![q] = Given(KSTACKSIZE)]
    /\ pc' = [pc EXCEPT ![p] = "fork", ![q] = "embryo"]
    /\ child' = [child EXCEPT ![p] = q]
    /\ UNCHANGED <<mem, new, panicked>>

ForkMem(p) ==
    /\ At(p, "fork") /\ Alloc(mem[p].len)
    /\ mem' = [mem EXCEPT ![child[p]] = Given(mem[p].len)]
    /\ pc' = [pc EXCEPT ![p] = "user", ![child[p]] = "user"]
    /\ child' = [child EXCEPT ![p] = p]
    /\ UNCHANGED <<kstack, new, panicked>>

ForkFails(p) ==
    /\ At(p, "fork") /\ Fitting(freelist, mem[p].len) = {}
    /\ Free(kstack[child[p]])
    /\ kstack' = [kstack EXCEPT ![child[p]] = NoRun]
    /\ pc' = [pc EXCEPT ![p] = "user", ![child[p]] = "unused"]
    /\ child' = [child EXCEPT ![p] = p]
    /\ UNCHANGED <<mem, new>>

(* growproc and exec: all of the new memory before the old is freed.  exec *)
(* looks at the file first, and at the segments again while it loads them. *)
(* No program shrinks its memory, which growproc cannot do.                *)
NewImage(p, sz, call) ==
    /\ At(p, "user") /\ Alloc(sz)
    /\ new' = [new EXCEPT ![p] = Given(sz)]
    /\ Goto(p, call)
    /\ UNCHANGED <<kstack, mem, child, panicked>>
GrowprocAlloc(p, sz) == sz >= mem[p].len /\ NewImage(p, sz, "grow")
ExecAlloc(p, sz) == NewImage(p, sz, "exec")

Commit(p) ==
    /\ Free(mem[p])
    /\ mem' = [mem EXCEPT ![p] = new[p]]
    /\ new' = [new EXCEPT ![p] = NoRun]
    /\ Goto(p, "user")
    /\ UNCHANGED <<kstack, child>>
GrowprocCommit(p) == At(p, "grow") /\ Commit(p)
ExecCommit(p) == At(p, "exec") /\ Commit(p)

(* bad: a segment that does not fit, or a short read.                      *)
ExecBad(p) ==
    /\ At(p, "exec") /\ Free(new[p])
    /\ new' = [new EXCEPT ![p] = NoRun]
    /\ Goto(p, "user")
    /\ UNCHANGED <<kstack, mem, child>>

(* exit, and wait of a parent: the memory, then the stack.                 *)
Exit(p) ==
    /\ At(p, "user") /\ p # Init1
    /\ Goto(p, "zombie")
    /\ UNCHANGED <<freelist, kstack, mem, new, child, panicked>>

WaitMem(p) ==
    /\ At(p, "zombie")
    /\ Free(mem[p])
    /\ mem' = [mem EXCEPT ![p] = NoRun]
    /\ Goto(p, "reaped")
    /\ UNCHANGED <<kstack, new, child>>

WaitStack(p) ==
    /\ At(p, "reaped")
    /\ Free(kstack[p])
    /\ kstack' = [kstack EXCEPT ![p] = NoRun]
    /\ Goto(p, "unused")
    /\ UNCHANGED <<mem, new, child>>

Next ==
    \E p \in Proc :
        \/ \E q \in Proc : ForkStack(p, q)
        \/ ForkMem(p) \/ ForkFails(p)
        \/ \E sz \in Sizes : GrowprocAlloc(p, sz) \/ ExecAlloc(p, sz)
        \/ GrowprocCommit(p) \/ ExecCommit(p) \/ ExecBad(p)
        \/ Exit(p) \/ WaitMem(p) \/ WaitStack(p)

Spec == Init /\ [][Next]_vars

-----------------------------------------------------------------------------
(* Properties.                                                             *)

PC == {"unused", "embryo", "user", "fork", "grow", "exec", "zombie", "reaped"}
Runs == [at : 0 .. NPAGE, len : 0 .. NPAGE]
TypeOK ==
    /\ freelist \in Seq(Runs) /\ pc \in [Proc -> PC] /\ child \in [Proc -> Proc]
    /\ {kstack, mem, new} \subseteq [Proc -> Runs] /\ panicked \in BOOLEAN

FreePages == UNION {Pages(freelist[i]) : i \in DOMAIN freelist}
Held == Proc \X {"kstack", "mem", "new"}
Part(h) == CASE h[2] = "kstack" -> kstack[h[1]] [] h[2] = "mem" -> mem[h[1]]
             [] h[2] = "new" -> new[h[1]]

(* Every page is free or belongs to one stack or image, never to two and   *)
(* never to none, also after exec, growproc or fork gave up half way; and  *)
(* nothing is freed that is free.                                          *)
PagesConserved ==
    /\ FreePages \cup UNION {Pages(Part(h)) : h \in Held} = 1 .. NPAGE
    /\ \A h, g \in Held : h # g => Pages(Part(h)) \cap Pages(Part(g)) = {}
    /\ \A h \in Held : Pages(Part(h)) \cap FreePages = {}
    /\ ~panicked

(* kalloc fails only when there are not as many free pages in a row: the   *)
(* list is in order and kfree has joined all runs that touch.              *)
AllocIfRoom ==
    \A n \in 1 .. NPAGE :
        Fitting(freelist, n) # {} <=> \E a \in FreePages : a .. a + n - 1 \subseteq FreePages

=============================================================================
