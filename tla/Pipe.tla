-------------------------------- MODULE Pipe --------------------------------
(***************************************************************************)
(* A pipe of pipe.c, after pipealloc and the forks that shared its ends:   *)
(* pipewrite, piperead and pipeclose (through fileclose) by any number of  *)
(* processes, with the sleep, wakeup and kill of proc.c they depend on.    *)
(*                                                                         *)
(* The steps of a call that holds p->lock are interleaved with kill, which *)
(* does not take it, and with the end of pipeclose, which has released it. *)
(* The indices are uints: they wrap at UintMod, 2^32 in the code.          *)
(***************************************************************************)
EXTENDS Integers, Sequences, FiniteSets

CONSTANTS
    Readers, Writers,  \* the processes that have the read and the write end open
    Byte,              \* values of a char
    PIPESIZE, UintMod,
    MaxCount,          \* bound: bytes in one call
    MaxBytes,          \* bound: bytes after which no write begins
    Killable           \* the processes that kill may be called for

Proc == Readers \cup Writers
None == "none"

ASSUME PipeAssumption ==
    /\ PIPESIZE \in Nat \ {0} /\ UintMod \in Nat
    /\ UintMod % PIPESIZE = 0 /\ UintMod > PIPESIZE
    /\ Killable \subseteq Proc /\ MaxCount \in Nat /\ MaxBytes \in Nat
    /\ Readers # {} /\ Writers # {} /\ None \notin Proc

VARIABLES
    readopen, writeopen, writep, readp, data,  \* struct pipe
    lock,              \* holder of p->lock
    freed,             \* how often kfree was called on the pipe
    rfd, wfd,          \* the processes that still have each end open
    killed,            \* the processes whose p->killed is set
    pc, i, n,          \* per process: place and locals
    sent, received     \* history: bytes written and read

pipe == <<readopen, writeopen, writep, readp, data>>
files == <<rfd, wfd>>
history == <<sent, received>>
vars == <<pipe, lock, freed, files, killed, pc, i, n, history>>

(* w_, r_ and c_ are places in pipewrite, piperead and pipeclose.          *)
PC == {"user", "w_loop", "w_sleep", "w_asleep", "w_awake",
       "r_test", "r_sleep", "r_asleep", "r_awake", "r_loop",
       "c_locked", "c_test", "c_free", "fault"}

Init ==
    /\ readopen = 1 /\ writeopen = 1
    /\ writep = 0 /\ readp = 0
    /\ data \in [0 .. PIPESIZE - 1 -> Byte]
    /\ lock = None /\ freed = 0
    /\ rfd = Readers /\ wfd = Writers
    /\ killed = {}
    /\ pc = [p \in Proc |-> "user"]
    /\ i = [p \in Proc |-> 0] /\ n = [p \in Proc |-> 0]
    /\ sent = <<>> /\ received = <<>>

(* p->writep++ and p->readp++ on a uint.                                   *)
MutantInc(x) == x + 1
Inc(x) == (x + 1) % UintMod

MutantFull == writep = (readp + PIPESIZE + 1) % UintMod
Full == writep = (readp + PIPESIZE) % UintMod
Empty == readp = writep

Goto(p, l) == pc' = [pc EXCEPT ![p] = l]

(* Process p leaves for l after wakeup(&p->readp) or wakeup(&p->writep).   *)
MutantWakeReaders(p, l) == pc' = [pc EXCEPT ![p] = l]
WakeReaders(p, l) ==
    pc' = [q \in Proc |-> IF q = p THEN l ELSE IF pc[q] = "r_asleep" THEN "r_awake" ELSE pc[q]]
WakeWriters(p, l) ==
    pc' = [q \in Proc |-> IF q = p THEN l ELSE IF pc[q] = "w_asleep" THEN "w_awake" ELSE pc[q]]

Acquire(p) == lock = None /\ lock' = p
Release == lock' = None

(* A killed process is not let into a system call.                         *)
Call(p, k) ==
    /\ pc[p] = "user" /\ p \notin killed
    /\ Acquire(p)
    /\ i' = [i EXCEPT ![p] = 0] /\ n' = [n EXCEPT ![p] = k]

(* A call returns; its locals are gone.                                    *)
Return(p) ==
    /\ Release
    /\ i' = [i EXCEPT ![p] = 0] /\ n' = [n EXCEPT ![p] = 0]

-----------------------------------------------------------------------------
(* pipewrite.                                                              *)

WriteBegin(p, k) ==
    /\ p \in wfd /\ Len(sent) + k <= MaxBytes
    /\ Call(p, k)
    /\ Goto(p, "w_loop")
    /\ UNCHANGED <<pipe, freed, files, killed, history>>

WriteByte(p, b) ==
    /\ pc[p] = "w_loop" /\ i[p] < n[p] /\ ~Full
    /\ data' = [data EXCEPT ![writep % PIPESIZE] = b]
    /\ writep' = Inc(writep)
    /\ i' = [i EXCEPT ![p] = @ + 1]
    /\ sent' = Append(sent, b)
    /\ UNCHANGED <<readopen, writeopen, readp, lock, freed, files, killed, pc, n, received>>

WriteFails(p) ==
    /\ pc[p] = "w_loop" /\ i[p] < n[p] /\ Full
    /\ readopen = 0 \/ p \in killed
    /\ Return(p) /\ Goto(p, "user")
    /\ UNCHANGED <<pipe, freed, files, killed, history>>

WriteFull(p) ==
    /\ pc[p] = "w_loop" /\ i[p] < n[p] /\ Full
    /\ readopen = 1 /\ p \notin killed
    /\ WakeReaders(p, "w_sleep")
    /\ UNCHANGED <<pipe, lock, freed, files, killed, i, n, history>>

WriteSleep(p) ==
    /\ pc[p] = "w_sleep"
    /\ Release /\ Goto(p, "w_asleep")
    /\ UNCHANGED <<pipe, freed, files, killed, i, n, history>>

WriteResume(p) ==
    /\ pc[p] = "w_awake"
    /\ Acquire(p) /\ Goto(p, "w_loop")
    /\ UNCHANGED <<pipe, freed, files, killed, i, n, history>>

WriteDone(p) ==
    /\ pc[p] = "w_loop" /\ i[p] = n[p]
    /\ WakeReaders(p, "user") /\ Return(p)
    /\ UNCHANGED <<pipe, freed, files, killed, history>>

-----------------------------------------------------------------------------
(* piperead.                                                               *)

ReadBegin(p, k) ==
    /\ p \in rfd
    /\ Call(p, k)
    /\ Goto(p, "r_test")
    /\ UNCHANGED <<pipe, freed, files, killed, history>>

ReadFails(p) ==
    /\ pc[p] = "r_test" /\ Empty /\ writeopen = 1 /\ p \in killed
    /\ Return(p) /\ Goto(p, "user")
    /\ UNCHANGED <<pipe, freed, files, killed, history>>

ReadEmpty(p) ==
    /\ pc[p] = "r_test" /\ Empty /\ writeopen = 1 /\ p \notin killed
    /\ Goto(p, "r_sleep")
    /\ UNCHANGED <<pipe, lock, freed, files, killed, i, n, history>>

ReadSleep(p) ==
    /\ pc[p] = "r_sleep"
    /\ Release /\ Goto(p, "r_asleep")
    /\ UNCHANGED <<pipe, freed, files, killed, i, n, history>>

(* The wait is a while loop: a woken reader tests again.                   *)
MutantAfterSleep == "r_loop"
AfterSleep == "r_test"

ReadResume(p) ==
    /\ pc[p] = "r_awake"
    /\ Acquire(p) /\ Goto(p, AfterSleep)
    /\ UNCHANGED <<pipe, freed, files, killed, i, n, history>>

ReadReady(p) ==
    /\ pc[p] = "r_test" /\ ~(Empty /\ writeopen = 1)
    /\ Goto(p, "r_loop")
    /\ UNCHANGED <<pipe, lock, freed, files, killed, i, n, history>>

ReadByte(p) ==
    /\ pc[p] = "r_loop" /\ i[p] < n[p] /\ ~Empty
    /\ received' = Append(received, data[readp % PIPESIZE])
    /\ readp' = Inc(readp)
    /\ i' = [i EXCEPT ![p] = @ + 1]
    /\ UNCHANGED <<readopen, writeopen, writep, data, lock, freed, files, killed, pc, n, sent>>

MutantReadDone(p) ==
    /\ pc[p] = "r_loop" /\ (i[p] = n[p] \/ Empty)
    /\ WakeWriters(p, "user")
    /\ UNCHANGED <<pipe, lock, freed, files, killed, i, n, history>>

ReadDone(p) ==
    /\ pc[p] = "r_loop" /\ (i[p] = n[p] \/ Empty)
    /\ WakeWriters(p, "user") /\ Return(p)
    /\ UNCHANGED <<pipe, freed, files, killed, history>>

-----------------------------------------------------------------------------
(* fileclose and pipeclose; a process that exits closes what it has open.  *)

CloseShared(p) ==
    /\ pc[p] = "user"
    /\ \/ p \in rfd /\ rfd # {p} /\ rfd' = rfd \ {p} /\ UNCHANGED wfd
       \/ p \in wfd /\ wfd # {p} /\ wfd' = wfd \ {p} /\ UNCHANGED rfd
    /\ UNCHANGED <<pipe, lock, freed, killed, pc, i, n, history>>

PipecloseWrite(p) ==
    /\ pc[p] = "user" /\ wfd = {p}
    /\ wfd' = {}
    /\ Acquire(p)
    /\ writeopen' = 0
    /\ WakeReaders(p, "c_locked")
    /\ UNCHANGED <<readopen, writep, readp, data, freed, rfd, killed, i, n, history>>

PipecloseRead(p) ==
    /\ pc[p] = "user" /\ rfd = {p}
    /\ rfd' = {}
    /\ Acquire(p)
    /\ readopen' = 0
    /\ WakeWriters(p, "c_locked")
    /\ UNCHANGED <<writeopen, writep, readp, data, freed, wfd, killed, i, n, history>>

(* The rest of pipeclose may find the page freed by the one that closes    *)
(* the other end: release then panics, since kfree has overwritten the     *)
(* lock, and the test reads whatever the page has become.                  *)
MutantCloseRelease(p) ==
    /\ pc[p] = "c_locked"
    /\ IF freed = 0 THEN Release /\ Goto(p, "user")
                    ELSE Goto(p, "fault") /\ UNCHANGED lock
    /\ UNCHANGED <<pipe, freed, files, killed, i, n, history>>

CloseRelease(p) ==
    /\ pc[p] = "c_locked"
    /\ IF freed = 0 THEN Release /\ Goto(p, "c_test")
                    ELSE Goto(p, "fault") /\ UNCHANGED lock
    /\ UNCHANGED <<pipe, freed, files, killed, i, n, history>>

MutantClosed == readopen = 0 \/ writeopen = 0
Closed == readopen = 0 /\ writeopen = 0

CloseTest(p) ==
    /\ pc[p] = "c_test"
    /\ \/ (Closed \/ freed > 0) /\ Goto(p, "c_free")
       \/ (~Closed \/ freed > 0) /\ Goto(p, "user")
    /\ UNCHANGED <<pipe, lock, freed, files, killed, i, n, history>>

CloseFree(p) ==
    /\ pc[p] = "c_free"
    /\ freed' = freed + 1
    /\ Goto(p, "user")
    /\ UNCHANGED <<pipe, lock, files, killed, i, n, history>>

(* kill(p) by another process: wakes it if it sleeps.                      *)
Kill(p) ==
    /\ p \in Killable \ killed
    /\ killed' = killed \cup {p}
    /\ pc' = [pc EXCEPT ![p] = IF @ = "r_asleep" THEN "r_awake"
                               ELSE IF @ = "w_asleep" THEN "w_awake" ELSE @]
    /\ UNCHANGED <<pipe, lock, freed, files, i, n, history>>

-----------------------------------------------------------------------------
(* What a process does by itself once it is in a call.                     *)
Kernel(p) ==
    \/ \E b \in Byte : WriteByte(p, b)
    \/ WriteFails(p) \/ WriteFull(p) \/ WriteSleep(p) \/ WriteResume(p) \/ WriteDone(p)
    \/ ReadFails(p) \/ ReadEmpty(p) \/ ReadSleep(p) \/ ReadResume(p) \/ ReadReady(p)
    \/ ReadByte(p) \/ ReadDone(p)
    \/ CloseRelease(p) \/ CloseTest(p) \/ CloseFree(p)

User(p) ==
    \/ \E k \in 0 .. MaxCount : WriteBegin(p, k) \/ ReadBegin(p, k)
    \/ CloseShared(p) \/ PipecloseWrite(p) \/ PipecloseRead(p)

Next == \E p \in Proc : Kernel(p) \/ User(p) \/ Kill(p)

Spec == Init /\ [][Next]_vars

(* A process in the kernel runs, and gets the lock if it keeps trying.     *)
FairSpec == Spec /\ \A p \in Proc : SF_vars(Kernel(p))

-----------------------------------------------------------------------------
(* Properties.                                                             *)

(* Types.  The indices stay within a uint although pipewrite and piperead  *)
(* only ever increment them.                                               *)
TypeOK ==
    /\ readopen \in {0, 1} /\ writeopen \in {0, 1}
    /\ writep \in 0 .. UintMod - 1 /\ readp \in 0 .. UintMod - 1
    /\ data \in [0 .. PIPESIZE - 1 -> Byte]
    /\ lock \in Proc \cup {None} /\ freed \in Nat
    /\ rfd \subseteq Readers /\ wfd \subseteq Writers
    /\ killed \subseteq Killable /\ pc \in [Proc -> PC]
    /\ i \in [Proc -> 0 .. MaxCount] /\ n \in [Proc -> 0 .. MaxCount]
    /\ sent \in Seq(Byte) /\ received \in Seq(Byte)

(* The ring buffer implements a bounded FIFO channel, also when the        *)
(* indices wrap, with any number of readers and writers.                   *)
F == INSTANCE Fifo WITH Capacity <- PIPESIZE
Refinement == F!Spec

(* End of file is final: a read of at least one byte returns 0 only when   *)
(* the write end is closed and everything that was written has been read.  *)
EofOnlyWhenClosed ==
    [][\A p \in Proc :
         ReadDone(p) /\ n[p] > 0 /\ i[p] = 0 => wfd = {} /\ received = sent]_vars

(* No wakeup is missed as long as nobody has been killed: a reader sleeps  *)
(* only while the pipe is empty and open, a writer only while it is full   *)
(* and open, unless a process that is about to wake it holds the lock.     *)
NoLostWakeup ==
    killed = {} => \A p \in Proc :
        /\ pc[p] = "r_asleep" => (Empty /\ writeopen = 1) \/ \E q \in Proc : pc[q] = "w_loop"
        /\ pc[p] = "w_asleep" => (Full /\ readopen = 1) \/ \E q \in Proc : pc[q] = "r_loop"

(* The pipe is in memory as long as a process has an end of it open.       *)
OpenNotFreed == rfd \cup wfd # {} => freed = 0

(* Closing one end of the pipe gets everyone out of calls on the other.    *)
CloseUnblocks ==
    \A p \in Proc :
        /\ (pc[p] \in {"r_asleep", "r_awake", "r_test"} /\ writeopen = 0) ~> pc[p] = "user"
        /\ (pc[p] \in {"w_asleep", "w_awake", "w_loop"} /\ readopen = 0) ~> pc[p] = "user"

(* A pipe with both ends closed is freed, whoever closes last.             *)
EventuallyFreed == (rfd \cup wfd = {}) ~> freed > 0

(* pipeclose frees the pipe once, and nobody is in it then.                *)
FreedOnce == freed <= 1 /\ (freed = 1 => lock = None)

=============================================================================
