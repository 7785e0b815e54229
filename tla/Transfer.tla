------------------------------- MODULE Transfer -------------------------------
(***************************************************************************)
(* What ide_rw promises its callers, the buffer cache and the journal: a   *)
(* call moves one sector between the buffer and the disk, at one moment    *)
(* between the call and its return.  A read that fails on the disk returns *)
(* like any other and leaves the buffer as it was.                         *)
(***************************************************************************)
CONSTANTS Proc, Sector, Value, MayFail

VARIABLES disk, call

vars == <<disk, call>>

Idle == [op |-> "idle"]
Call(o, s, v) == [op |-> o, sector |-> s, data |-> v]

Init ==
    /\ disk \in [Sector -> Value]
    /\ call = [p \in Proc |-> Idle]

(* The buffer cache never has two buffers of one sector in use.            *)
Start(p, o, s, v) ==
    /\ call[p] = Idle
    /\ \A q \in Proc : call[q] = Idle \/ call[q].sector # s
    /\ call' = [call EXCEPT ![p] = Call(o, s, v)]
    /\ UNCHANGED disk

Write(p) ==
    /\ call[p].op = "write"
    /\ disk' = [disk EXCEPT ![call[p].sector] = call[p].data]
    /\ call' = [call EXCEPT ![p].op = "done"]

Read(p) ==
    /\ call[p].op = "read"
    /\ call' = [call EXCEPT ![p].op = "done", ![p].data = disk[call[p].sector]]
    /\ UNCHANGED disk

ReadFails(p) ==
    /\ MayFail /\ call[p].op = "read"
    /\ call' = [call EXCEPT ![p].op = "done"]
    /\ UNCHANGED disk

Return(p) ==
    /\ call[p].op = "done"
    /\ call' = [call EXCEPT ![p] = Idle]
    /\ UNCHANGED disk

Next ==
    \E p \in Proc :
        \/ \E o \in {"read", "write"}, s \in Sector, v \in Value : Start(p, o, s, v)
        \/ Write(p) \/ Read(p) \/ ReadFails(p) \/ Return(p)

Spec == Init /\ [][Next]_vars

=============================================================================
