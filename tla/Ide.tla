---------------------------------- MODULE Ide ----------------------------------
(***************************************************************************)
(* ide.c: the interrupt-driven disk driver.  ide_rw appends the caller's   *)
(* buffer to a queue, starts the controller if the queue was empty, and    *)
(* sleeps until ide_intr has marked the buffer done; ide_intr takes the    *)
(* head off the queue and starts the controller on the next one.  Both run *)
(* under ide_lock, which sleep gives up, so each is one step here.         *)
(*                                                                         *)
(* The controller is external: one command at a time, an interrupt when it *)
(* is over and no other, perhaps an error on a read.  A buffer is named by *)
(* the process that has it B_BUSY.                                         *)
(***************************************************************************)
EXTENDS Naturals, Sequences

CONSTANTS Proc, Sector, Value,
          MayFail       \* may the controller fail a read?

VARIABLES
    queue,      \* ide_queue and its qnext chain, buffers in order
    buf,        \* flags, sector and data of the buffer of each process
    pc,         \* where its owner is in ide_rw
    disk,       \* the sectors
    ctl,        \* the controller: idle, busy, ok or error, and its data register
    irq         \* is IRQ_IDE pending?

vars == <<queue, buf, pc, disk, ctl, irq>>

IdeAssumption == MayFail \in BOOLEAN

Buf == [valid : BOOLEAN, dirty : BOOLEAN, sector : Sector, data : Value]
Ctl == [st : {"idle", "busy", "ok", "error"}, data : Value]

Init ==
    /\ queue = <<>>
    /\ \E v \in Value, s \in Sector :
         /\ disk = [t \in Sector |-> v]
         /\ buf = [p \in Proc |-> [valid |-> TRUE, dirty |-> FALSE, sector |-> s, data |-> v]]
         /\ ctl = [st |-> "idle", data |-> v]
    /\ pc = [p \in Proc |-> "idle"]
    /\ irq = FALSE

-----------------------------------------------------------------------------

(* The loop at the end of ide_rw waits for this.                           *)
Done(p) == buf[p].valid /\ ~buf[p].dirty

(* ide_start_request: the controller has the command, for a write with the *)
(* data of the buffer.                                                     *)
MutantStarted(b) == [st |-> "idle", data |-> b.data]
Started(b) == [st |-> "busy", data |-> IF b.dirty THEN b.data ELSE ctl.data]

(* ide_rw up to the sleep, for a read or a write of a sector no other      *)
(* buffer in use stands for.                                               *)
IdeRw(p, write, s, v) ==
    /\ pc[p] = "idle"
    /\ \A q \in Proc : pc[q] = "idle" \/ buf[q].sector # s
    /\ LET b == [valid |-> write, dirty |-> write, sector |-> s, data |-> v]
       IN  /\ buf' = [buf EXCEPT ![p] = b]
           /\ ctl' = IF queue = <<>> THEN Started(b) ELSE ctl
    /\ queue' = Append(queue, p)
    /\ pc' = [pc EXCEPT ![p] = "sleep"]
    /\ UNCHANGED <<disk, irq>>

(* Awake again, by wakeup or by kill, with ide_lock: back to sleep unless  *)
(* the request is finished.                                                *)
Resumed(p) == IF Done(p) THEN "idle" ELSE "sleep"
Resume(p) ==
    /\ pc[p] = "awake"
    /\ pc' = [pc EXCEPT ![p] = Resumed(p)]
    /\ UNCHANGED <<queue, buf, disk, ctl, irq>>

(* kill makes a sleeping process runnable; ide_rw ignores cp->killed.      *)
Kill(p) ==
    /\ pc[p] = "sleep"
    /\ pc' = [pc EXCEPT ![p] = "awake"]
    /\ UNCHANGED <<queue, buf, disk, ctl, irq>>

(* The controller finishes its command.                                    *)
Complete ==
    /\ ctl.st = "busy"
    /\ LET b == buf[Head(queue)]
       IN  \/ /\ b.dirty
              /\ disk' = [disk EXCEPT ![b.sector] = ctl.data]
              /\ ctl' = [ctl EXCEPT !.st = "ok"]
           \/ /\ ~b.dirty
              /\ ctl' = [st |-> "ok", data |-> disk[b.sector]]
              /\ UNCHANGED disk
           \/ /\ ~b.dirty /\ MayFail
              /\ ctl' = [ctl EXCEPT !.st = "error"]
              /\ UNCHANGED disk
    /\ irq' = TRUE
    /\ UNCHANGED <<queue, buf, pc>>

(* The buffer after ide_intr: an error on a read only skips insl.          *)
MutantFinished(b) == [b EXCEPT !.data = IF ~b.dirty THEN ctl.data ELSE @, !.valid = TRUE, !.dirty = FALSE]
Finished(b) ==
    [b EXCEPT !.data = IF ~b.dirty /\ ctl.st = "ok" THEN ctl.data ELSE @,
              !.valid = TRUE, !.dirty = FALSE]

(* wakeup(b): only the owner of the buffer sleeps on it.                   *)
MutantWoken(p) == pc
Woken(p) == IF pc[p] = "sleep" THEN [pc EXCEPT ![p] = "awake"] ELSE pc

IdeIntr ==
    /\ irq
    /\ IF queue = <<>>
       THEN UNCHANGED <<queue, buf, pc, ctl>>
       ELSE LET p == Head(queue)
            IN  /\ buf' = [buf EXCEPT ![p] = Finished(@)]
                /\ pc' = Woken(p)
                /\ queue' = Tail(queue)
                /\ ctl' = IF Tail(queue) = <<>> THEN [ctl EXCEPT !.st = "idle"]
                          ELSE Started(buf[Head(Tail(queue))])
    /\ irq' = FALSE
    /\ UNCHANGED disk

-----------------------------------------------------------------------------

Next ==
    \/ \E p \in Proc :
         \/ \E write \in BOOLEAN, s \in Sector, v \in Value : IdeRw(p, write, s, v)
         \/ Resume(p) \/ Kill(p)
    \/ Complete \/ IdeIntr

Spec == Init /\ [][Next]_vars

(* The controller finishes what it was told to do, interrupts are taken,   *)
(* and a process made runnable runs again.                                 *)
Fairness == WF_vars(Complete) /\ WF_vars(IdeIntr) /\ \A p \in Proc : WF_vars(Resume(p))

-----------------------------------------------------------------------------
(* Properties.                                                             *)

TypeOK ==
    /\ queue \in Seq(Proc) /\ buf \in [Proc -> Buf] /\ ctl \in Ctl
    /\ pc \in [Proc -> {"idle", "sleep", "awake"}] /\ disk \in [Sector -> Value]
    /\ irq \in BOOLEAN

Queued == {queue[i] : i \in DOMAIN queue}

(* The queue holds each unfinished request once and nothing else, and the  *)
(* controller works on its head, or has finished it and the interrupt for  *)
(* that is on its way.                                                     *)
QueueOnDisk ==
    /\ Queued = {p \in Proc : pc[p] # "idle" /\ ~Done(p)}
    /\ \A i, j \in DOMAIN queue : queue[i] = queue[j] => i = j
    /\ queue # <<>> => \/ ctl.st = "busy" /\ ~irq
                       \/ ctl.st \in {"ok", "error"} /\ irq

(* Every call of ide_rw returns.                                           *)
Completes == \A p \in Proc : pc[p] # "idle" ~> pc[p] = "idle"

(* The moment of a transfer is the one at which the controller finishes;   *)
(* from then on a read has its data, in the controller or in the buffer.   *)
Served(p) == queue # <<>> /\ p = Head(queue) /\ ctl.st \in {"ok", "error"}
Moved == INSTANCE Transfer WITH call <-
    [p \in Proc |->
       IF pc[p] = "idle" THEN [op |-> "idle"]
       ELSE [op     |-> IF Done(p) \/ Served(p) THEN "done"
                        ELSE IF buf[p].dirty THEN "write" ELSE "read",
             sector |-> buf[p].sector,
             data   |-> IF Served(p) THEN Finished(buf[p]).data ELSE buf[p].data]]

(* ide_rw is one transfer of one sector, at one moment between its call    *)
(* and its return, as the journal and the buffer cache take it to be.      *)
OneTransfer == Moved!Spec

=============================================================================
