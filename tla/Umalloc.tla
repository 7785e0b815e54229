-------------------------------- MODULE Umalloc --------------------------------
(***************************************************************************)
(* umalloc.c: malloc and free of user programs, a circular list of free    *)
(* blocks in address order that grows by sbrk.                             *)
(*                                                                         *)
(* Addresses count headers: 0 is the static base, the heap is 1 .. brk.    *)
(* Each function of addresses is a field of the header there, and 0 where  *)
(* the list does not reach: there the program may write what it likes.     *)
(***************************************************************************)
EXTENDS Naturals, FiniteSets

CONSTANTS MaxHeap,      \* the kernel gives no memory beyond this
          PAGE,         \* the least morecore asks for
          Units         \* the sizes asked for, in headers, their own included

VARIABLES
    ptr, size,  \* s.ptr and s.size
    freep,      \* NULL before the first malloc
    brk,        \* end of the heap
    given       \* history: the blocks the program has, with the units asked for

vars == <<ptr, size, freep, brk, given>>

NULL == MaxHeap + 1
Addr == 0 .. MaxHeap

UmallocAssumption == MaxHeap \in Nat /\ PAGE \in Nat \ {0} /\ Units \subseteq Nat \ {0}

Init ==
    /\ ptr = [a \in Addr |-> 0] /\ size = [a \in Addr |-> 0]
    /\ freep = NULL /\ brk = 0 /\ given = {}

-----------------------------------------------------------------------------
(* The heap h as a record, so that malloc can call morecore and free.      *)

Heap == [ptr |-> ptr, size |-> size, freep |-> freep, brk |-> brk]

(* The k-th block after freep.                                             *)
Nth(h, k) == LET nth[i \in 0 .. k] == IF i = 0 THEN h.freep ELSE h.ptr[nth[i - 1]] IN nth[k]
First(S) == CHOOSE k \in S : \A m \in S : k <= m

(* Where the loop of free stops: b lies behind p, or at either end.        *)
Before(h, b, p) ==
    \/ b > p /\ b < h.ptr[p]
    \/ p >= h.ptr[p] /\ (b > p \/ b < h.ptr[p])

Upper(h, p, b) ==
    IF b + h.size[b] = h.ptr[p]
    THEN [h EXCEPT !.size[b] = @ + h.size[h.ptr[p]], !.ptr[b] = h.ptr[h.ptr[p]]]
    ELSE [h EXCEPT !.ptr[b] = h.ptr[p]]
MutantLower(h, p, b) == [h EXCEPT !.ptr[p] = b, !.freep = p]
Lower(h, p, b) ==
    IF p + h.size[p] = b
    THEN [h EXCEPT !.size[p] = @ + h.size[b], !.ptr[p] = h.ptr[b], !.freep = p]
    ELSE [h EXCEPT !.ptr[p] = b, !.freep = p]

free(h, b) ==
    LET p == Nth(h, First({k \in Addr : Before(h, b, Nth(h, k))}))
    IN  Lower(Upper(h, p, b), p, b)

(* morecore: sbrk, a header, free.                                         *)
More(n) == IF n < PAGE THEN PAGE ELSE n
morecore(h, n) ==
    free([h EXCEPT !.size[h.brk + 1] = More(n), !.brk = @ + More(n)], h.brk + 1)

(* The blocks the loop of malloc looks at, from the one after freep to     *)
(* freep, that are large enough.                                           *)
Round(h) == First({k \in 1 .. MaxHeap + 1 : Nth(h, k) = h.freep})
Enough(h, n) == {k \in 1 .. Round(h) : h.size[Nth(h, k)] >= n}

(* The tail end of a larger block p.                                       *)
Take(h, n) ==
    LET k == First(Enough(h, n))
        p == Nth(h, k)
        prevp == Nth(h, k - 1)
        q == p + h.size[p] - n
    IN  IF h.size[p] = n
        THEN [block |-> p, heap |-> [h EXCEPT !.ptr[prevp] = h.ptr[p], !.freep = prevp]]
        ELSE [block |-> q, heap |-> [h EXCEPT !.size[p] = @ - n, !.size[q] = n, !.freep = prevp]]

-----------------------------------------------------------------------------

Started == IF freep = NULL THEN [Heap EXCEPT !.ptr[0] = 0, !.size[0] = 0, !.freep = 0] ELSE Heap

(* The memory after an operation that leaves the program the blocks own.   *)
Becomes(h, own) ==
    LET list == {Nth(h, k) : k \in Addr}
    IN  /\ ptr' = [a \in Addr |-> IF a \in list THEN h.ptr[a] ELSE 0]
        /\ size' = [a \in Addr |-> IF a \in list \cup {g[1] : g \in own} THEN h.size[a] ELSE 0]
        /\ freep' = h.freep /\ brk' = h.brk /\ given' = own

Malloc(n) ==
    LET h == Started
        g == IF Enough(h, n) # {} THEN h ELSE morecore(h, n)
    IN  /\ Enough(h, n) # {} \/ h.brk + More(n) <= MaxHeap
        /\ Becomes(Take(g, n).heap, given \cup {<<Take(g, n).block, n>>})

(* sbrk fails: 0, and the list is as it was.                               *)
MallocFails(n) ==
    /\ Enough(Started, n) = {} /\ Started.brk + More(n) > MaxHeap
    /\ Becomes(Started, given)

Free(g) ==
    /\ g \in given
    /\ Becomes(free(Heap, g[1]), given \ {g})

Next ==
    \/ \E n \in Units : Malloc(n) \/ MallocFails(n)
    \/ \E g \in given : Free(g)

Spec == Init /\ [][Next]_vars

-----------------------------------------------------------------------------
(* Properties.                                                             *)

TypeOK ==
    /\ ptr \in [Addr -> Addr] /\ size \in [Addr -> Addr]
    /\ freep \in Addr \cup {NULL} /\ brk \in Addr /\ given \subseteq Addr \X Units

FreeBlocks == IF freep = NULL THEN {} ELSE {Nth(Heap, k) : k \in Addr} \ {0}
Extent(b) == b .. b + size[b] - 1

(* The heap is the free blocks on the list and the blocks of the program,  *)
(* side by side: none overlaps another, none is lost, and a block of the   *)
(* program still has the size that was asked for.                          *)
HeapPartition ==
    LET blocks == FreeBlocks \cup {g[1] : g \in given}
    IN  /\ UNION {Extent(b) : b \in blocks} = 1 .. brk
        /\ \A b, c \in blocks : b # c => Extent(b) \cap Extent(c) = {}
        /\ \A g \in given : size[g[1]] = g[2] /\ g[1] \notin FreeBlocks

(* free has joined all free blocks that touch, so that the space of blocks *)
(* that were given back can be used for larger ones.                       *)
Coalesced == \A b, c \in FreeBlocks : b + size[b] # c

=============================================================================
