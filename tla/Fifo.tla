-------------------------------- MODULE Fifo --------------------------------
(***************************************************************************)
(* What a pipe promises: bytes come out in the order in which they went    *)
(* in, none lost, invented or repeated, and at most Capacity are in it.    *)
(***************************************************************************)
EXTENDS Naturals, Sequences

CONSTANTS Byte, Capacity

VARIABLES sent, received

Init == sent = <<>> /\ received = <<>>

Put(b) ==
    /\ Len(sent) - Len(received) < Capacity
    /\ sent' = Append(sent, b)
    /\ UNCHANGED received

Get ==
    /\ Len(received) < Len(sent)
    /\ received' = Append(received, sent[Len(received) + 1])
    /\ UNCHANGED sent

Next == (\E b \in Byte : Put(b)) \/ Get

Spec == Init /\ [][Next]_<<sent, received>>

=============================================================================
