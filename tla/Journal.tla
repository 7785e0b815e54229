------------------------------ MODULE Journal ------------------------------
(***************************************************************************)
(* The buffer cache and the physical-block journal of bio.c.               *)
(*                                                                         *)
(* Sector 2 is the journal's uber block, 3 .. JSize + 2 are the journal's  *)
(* blocks and the sectors after them are home locations (inodes, bitmap,   *)
(* data).  A process in a system call reads buffers, changes some of them  *)
(* (each stays B_BUSY, on the list of its transaction), ends the           *)
(* transaction by writing header, blocks and uber block to the journal,    *)
(* and a flush later copies every listed buffer home.  The machine may     *)
(* crash between any two disk writes; the boot process then replays the    *)
(* journal.  ide_rw is a synchronous single-sector transfer.               *)
(*                                                                         *)
(* Data: a block holds the number of the call that wrote it last.          *)
(* Not modelled: the panic switch of set_write_panic (a panic in the flush *)
(* is a crash there), time stamps, and device numbers (there is one disk). *)
(***************************************************************************)
EXTENDS Integers, Sequences, FiniteSets, SequencesExt, FiniteSetsExt

CONSTANTS
    Proc,        \* processes making file system calls
    BootProc,    \* the one that runs fsck after a boot
    Calls,       \* subset of {"write", "alloc", "fsync"}
    JSize,       \* jsb->size
    NHome,       \* number of home sectors
    NBUF,        \* number of buffers
    MaxCalls,    \* bound: system calls in a behaviour
    MaxWrites,   \* bound: blocks per transaction
    MaxCrashes   \* bound: crashes in a behaviour

ASSUME JournalAssumption ==
    /\ BootProc \in Proc
    /\ Calls \subseteq {"write", "alloc", "fsync"}
    /\ {JSize, NHome, NBUF, MaxCalls, MaxWrites, MaxCrashes} \subseteq Nat
    /\ NBUF > JSize

VARIABLES
    disk,               \* sector -> contents
    buf, lru,           \* the buffers, and their list with the most recent first
    jtail_bnum,         \* next free journal sector
    jsblock_buf,        \* buffer of the uber block (0 before fsck)
    jtrans_header_buf,  \* buffer of the transaction header (0 before fsck)
    mtn,                \* the allocated mem_trans_nodes; a pointer is an index
    mtn_head, mtn_tail, \* the list of transactions to be flushed
    trans_write_lock,   \* its holder, or NoProc
    cp,                 \* per process: where it is in the kernel, its locals
    ncalls, ncrashes,   \* counters for the bounds
    committed,          \* history: home contents after the committed transactions
    current             \* history: home contents after the last bwrite of each block

list == <<mtn, mtn_head, mtn_tail>>
bufs == <<buf, lru, jsblock_buf, jtrans_header_buf>>
history == <<committed, current>>
counters == <<ncalls, ncrashes>>
vars == <<disk, bufs, jtail_bnum, list, trans_write_lock, cp, counters, history>>

Buf == 1 .. NBUF
JHead == 3
Home == JSize + 3 .. JSize + 2 + NHome
Sector == 2 .. JSize + 2 + NHome
Null == 0
Garbage == -1              \* what uninitialised kmalloc memory may hold
NoProc == "none"

Data(n) == [kind |-> "data", call |-> n]
Header(blocks) == [kind |-> "header", blocklist |-> blocks]
Uber(head, tail) == [kind |-> "uber", head_block |-> head, tail_block |-> tail]

(***************************************************************************)
(* pc values: "user"; "call", running between two bio.c calls; "bget",     *)
(* woken to look the buffer up again; "sleep" on the buffer table; "read", *)
(* in ide_rw of bread; then the steps of end_trans, jfull_flush and        *)
(* pbjFSck; "fault" after a panic or a wild dereference.                   *)
(***************************************************************************)
PC == {"user", "call", "bget", "sleep", "read",
       "jbwrite", "jbwait", "uber", "link",
       "fl_tail", "fl_test", "fl_lock", "fl_loop", "fl_done", "fsck_done",
       "fault"}

Idle == [pc |-> "user", call |-> "write", n |-> 0, hold |-> 0, want |-> 0,
         ct |-> <<>>, k |-> 0, orig |-> 0, curr_mtn |-> 0, curr_tail |-> 0]

Booting == [p \in Proc |->
              IF p = BootProc THEN [Idle EXCEPT !.pc = "call", !.call = "boot"] ELSE Idle]

FreeBuf == [sector |-> 0, flags |-> {}, data |-> Data(0)]

Init ==
    /\ disk = [s \in Sector |-> IF s = 2 THEN Uber(JHead, JHead) ELSE Data(0)]
    /\ buf = [b \in Buf |-> FreeBuf] /\ lru = [i \in Buf |-> NBUF + 1 - i]
    /\ jtail_bnum = JHead
    /\ jsblock_buf = 0 /\ jtrans_header_buf = 0
    /\ mtn = <<>> /\ mtn_head = Null /\ mtn_tail = Null
    /\ trans_write_lock = NoProc
    /\ cp = Booting
    /\ ncalls = 0 /\ ncrashes = 0
    /\ committed = [s \in Home |-> Data(0)]
    /\ current = [s \in Home |-> Data(0)]

Goto(p, l) == cp' = [cp EXCEPT ![p].pc = l]

-----------------------------------------------------------------------------
(* The buffer cache: bget, bread, bwrite, jbrelse, brelse.                 *)

(* The positions, in the list starting at the most recently used buffer,   *)
(* of the buffers of table bf that bget takes for sector s.                *)
Cached(bf, s) ==
    {i \in DOMAIN lru : /\ bf[lru[i]].flags \cap {"BUSY", "VALID"} # {}
                        /\ bf[lru[i]].sector = s}

(* Of several copies of a block the most recently used one is found.       *)
Hit(bf, s) == lru[Min(Cached(bf, s))]

Free(bf) == {i \in DOMAIN lru : "BUSY" \notin bf[lru[i]].flags}

(* The table after bget(s) on table bf, when bget neither sleeps nor       *)
(* panics, and the buffer it returns.                                      *)
MutantBget(bf, s) ==
    LET b == IF Cached(bf, s) # {} THEN Hit(bf, s) ELSE lru[Max(Free(bf))]
    IN  [b |-> b, buf |-> [bf EXCEPT ![b].flags = @ \cup {"BUSY"}, ![b].sector = s]]
Bget(bf, s) ==
    IF Cached(bf, s) # {}
    THEN LET b == Hit(bf, s)
         IN  [b |-> b, buf |-> [bf EXCEPT ![b].flags = @ \cup {"BUSY"}]]
    ELSE LET b == lru[Max(Free(bf))]
         IN  [b |-> b, buf |-> [bf EXCEPT ![b].flags = {"BUSY"}, ![b].sector = s]]

(* ide_rw on buffer b of table bf reads the block when it is not dirty.    *)
IdeRead(bf, b) ==
    [bf EXCEPT ![b].data = disk[bf[b].sector], ![b].flags = @ \cup {"VALID"}]

(* bread(s) on table bf, with no one else running.                         *)
BreadAlone(bf, s) ==
    LET g == Bget(bf, s)
    IN  IF "VALID" \in g.buf[g.b].flags THEN g.buf ELSE IdeRead(g.buf, g.b)

Bread(p, s) ==
    /\ \/ cp[p].pc = "call" /\ cp[p].hold = 0 /\ s \in Home
       \/ cp[p].pc = "bget" /\ s = cp[p].want
    /\ \/ /\ Cached(buf, s) # {}
          /\ "BUSY" \in buf[Hit(buf, s)].flags
          /\ cp' = [cp EXCEPT ![p].pc = "sleep", ![p].want = s]
          /\ UNCHANGED buf
       \/ /\ Cached(buf, s) = {} /\ Free(buf) = {}      \* panic("bget: no buffers")
          /\ Goto(p, "fault")
          /\ UNCHANGED buf
       \/ /\ IF Cached(buf, s) # {}
             THEN "BUSY" \notin buf[Hit(buf, s)].flags
             ELSE Free(buf) # {}
          /\ LET g == Bget(buf, s)
             IN  /\ buf' = g.buf
                 /\ cp' = [cp EXCEPT ![p].hold = g.b, ![p].want = 0,
                             ![p].pc = IF "VALID" \in g.buf[g.b].flags THEN "call" ELSE "read"]
    /\ UNCHANGED <<disk, lru, jsblock_buf, jtrans_header_buf, jtail_bnum, list,
                   trans_write_lock, counters, history>>

BreadDone(p) ==
    /\ cp[p].pc = "read"
    /\ buf' = IdeRead(buf, cp[p].hold)
    /\ Goto(p, "call")
    /\ UNCHANGED <<disk, lru, jsblock_buf, jtrans_header_buf, jtail_bnum, list,
                   trans_write_lock, counters, history>>

(* jbrelse(b): to the front of the list, and wake whoever sleeps on the    *)
(* table.  c is the process table of the caller.                           *)
MoveToFront(l, b) == <<b>> \o Remove(l, b)
Unbusy(bf, b) == [bf EXCEPT ![b].flags = @ \ {"BUSY"}]
WakeBuf(c) == [p \in Proc |-> IF c[p].pc = "sleep" THEN [c[p] EXCEPT !.pc = "bget"] ELSE c[p]]

(* bwrite puts the buffer on top of the current transaction's list.        *)
MutantAddToTrans(ct, b) == <<b>>
AddToTrans(ct, b) == <<b>> \o ct

(* bwrite then brelse: the buffer is dirty and the transaction is not      *)
(* empty, so brelse keeps it.                                              *)
Bwrite(p) ==
    /\ cp[p].pc = "call" /\ cp[p].hold # 0 /\ cp[p].call # "boot"
    /\ Len(cp[p].ct) < MaxWrites
    /\ LET b == cp[p].hold
       IN  /\ buf' = [buf EXCEPT ![b].flags = @ \cup {"DIRTY"}, ![b].data = Data(cp[p].n)]
           /\ current' = [current EXCEPT ![buf[b].sector] = Data(cp[p].n)]
           /\ cp' = [cp EXCEPT ![p].hold = 0, ![p].ct = AddToTrans(@, b)]
    /\ UNCHANGED <<disk, lru, jsblock_buf, jtrans_header_buf, jtail_bnum, list,
                   trans_write_lock, counters, committed>>

(* brelse of a buffer that was only read.                                  *)
Brelse(p) ==
    /\ cp[p].pc = "call" /\ cp[p].hold # 0
    /\ cp[p].ct = <<>> \/ "DIRTY" \notin buf[cp[p].hold].flags
    /\ buf' = Unbusy(buf, cp[p].hold)
    /\ lru' = MoveToFront(lru, cp[p].hold)
    /\ cp' = WakeBuf([cp EXCEPT ![p].hold = 0])
    /\ UNCHANGED <<disk, jsblock_buf, jtrans_header_buf, jtail_bnum, list,
                   trans_write_lock, counters, history>>

-----------------------------------------------------------------------------
(* System calls.  "write" stands for the calls that only end their         *)
(* transaction (sys_write, sys_link, sys_unlink), "alloc" for the ones     *)
(* that flush at once (balloc, bfree, icreate, create, iput), "fsync" for  *)
(* sys_fsync, which pbjd also makes.                                       *)

Up == jtrans_header_buf # 0

Begin(p, c) ==
    /\ cp[p].pc = "user" /\ Up /\ ncalls < MaxCalls
    /\ ncalls' = ncalls + 1
    /\ cp' = [cp EXCEPT ![p] = [Idle EXCEPT !.call = c, !.n = ncalls + 1,
                                  !.pc = IF c = "fsync" THEN "fl_tail" ELSE "call"]]
    /\ UNCHANGED <<disk, bufs, jtail_bnum, list, trans_write_lock, ncrashes, history>>

(* What the process does after end_trans, and after jfull_flush.           *)
MutantAfterEndTrans(c) == Idle
AfterEndTrans(c) == IF c = "alloc" THEN [Idle EXCEPT !.pc = "fl_tail"] ELSE Idle
AfterFlush(c) == IF c = "boot" THEN [Idle EXCEPT !.pc = "fsck_done"] ELSE Idle

-----------------------------------------------------------------------------
(* end_trans.                                                              *)

EndTransEmpty(p) ==
    /\ cp[p].pc = "call" /\ cp[p].hold = 0 /\ cp[p].call # "boot"
    /\ cp[p].ct = <<>>
    /\ cp' = [cp EXCEPT ![p] = AfterEndTrans(cp[p].call)]
    /\ UNCHANGED <<disk, bufs, jtail_bnum, list, trans_write_lock, counters, history>>

(* Take the lock and fill in the header.                                   *)
EndTrans(p) ==
    /\ cp[p].pc = "call" /\ cp[p].hold = 0 /\ cp[p].call # "boot"
    /\ cp[p].ct # <<>>
    /\ trans_write_lock = NoProc
    /\ trans_write_lock' = p
    /\ buf' = [buf EXCEPT ![jtrans_header_buf].data =
                              Header([i \in DOMAIN cp[p].ct |-> buf[cp[p].ct[i]].sector])]
    /\ cp' = [cp EXCEPT ![p].pc = "jbwrite", ![p].k = 0]
    /\ UNCHANGED <<disk, lru, jsblock_buf, jtrans_header_buf, jtail_bnum, list, counters, history>>

(* The buffer the k-th jbwrite of end_trans writes: header, then blocks.   *)
JbwriteBuf(p) == IF cp[p].k = 0 THEN jtrans_header_buf ELSE cp[p].ct[cp[p].k]

(* jbwrite up to the sleep in ide_rw: the buffer pretends to be the next   *)
(* journal block.                                                          *)
Jbwrite(p) ==
    /\ cp[p].pc = "jbwrite"
    /\ buf' = [buf EXCEPT ![JbwriteBuf(p)].sector = jtail_bnum,
                          ![JbwriteBuf(p)].flags = @ \cup {"DIRTY"}]
    /\ cp' = [cp EXCEPT ![p].pc = "jbwait", ![p].orig = buf[JbwriteBuf(p)].sector]
    /\ UNCHANGED <<disk, lru, jsblock_buf, jtrans_header_buf, jtail_bnum, list,
                   trans_write_lock, counters, history>>

(* The rest of jbwrite; end_trans then marks a data block dirty again.     *)
(* A full journal calls jfull_flush, whose first test is of mtn_head and   *)
(* whose lock the process holds already.                                   *)
JbwriteDone(p) ==
    /\ cp[p].pc = "jbwait"
    /\ LET b == JbwriteBuf(p)
           last == cp[p].k = Len(cp[p].ct)
       IN  /\ disk' = [disk EXCEPT ![buf[b].sector] = buf[b].data]
           /\ buf' = [buf EXCEPT ![b].sector = cp[p].orig,
                                 ![b].flags = IF cp[p].k = 0 THEN {"BUSY", "VALID"}
                                                             ELSE {"BUSY", "VALID", "DIRTY"}]
           /\ jtail_bnum' = jtail_bnum + 1
           /\ cp' = [cp EXCEPT ![p].k = @ + 1,
                       ![p].pc = IF jtail_bnum' > JSize + 2 /\ mtn_head # Null THEN "fl_lock"
                                 ELSE IF last THEN "uber" ELSE "jbwrite"]
    /\ UNCHANGED <<lru, jsblock_buf, jtrans_header_buf, list, trans_write_lock, counters, history>>

(* The last journal block of the transaction just written.                 *)
MutantUberTail == jtail_bnum - 2
UberTail == jtail_bnum - 1

(* The uber block on disk now covers the transaction: it is committed.     *)
WriteUber(p) ==
    /\ cp[p].pc = "uber"
    /\ LET u == [buf[jsblock_buf].data EXCEPT !.tail_block = UberTail]
           wrote(s) == {i \in DOMAIN cp[p].ct : buf[cp[p].ct[i]].sector = s}
       IN  /\ buf' = [buf EXCEPT ![jsblock_buf].data = u]
           /\ disk' = [disk EXCEPT ![2] = u]
           /\ committed' = [s \in Home |-> IF wrote(s) = {} THEN committed[s]
                                           ELSE buf[cp[p].ct[Max(wrote(s))]].data]
    /\ Goto(p, "link")
    /\ UNCHANGED <<lru, jsblock_buf, jtrans_header_buf, jtail_bnum, list,
                   trans_write_lock, counters, current>>

(* Put the transaction on the list of those to be flushed, release the     *)
(* lock, start an empty transaction.                                       *)
Link(p) ==
    /\ cp[p].pc = "link"
    /\ LET new == Len(mtn) + 1
           node == [bufs |-> cp[p].ct, next |-> Null, wild |-> FALSE]
       IN  IF mtn_head = Null
           THEN /\ mtn' = Append(mtn, node)
                /\ mtn_head' = new /\ mtn_tail' = new
           ELSE /\ mtn' = Append([mtn EXCEPT ![mtn_tail].next = new], node)
                /\ UNCHANGED <<mtn_head, mtn_tail>>
    /\ trans_write_lock' = NoProc
    /\ cp' = [cp EXCEPT ![p] = AfterEndTrans(cp[p].call)]
    /\ UNCHANGED <<disk, bufs, jtail_bnum, counters, history>>

-----------------------------------------------------------------------------
(* jfull_flush.                                                            *)

(* curr_tail = mtn_tail, before the lock is taken.                         *)
FlushTail(p) ==
    /\ cp[p].pc = "fl_tail"
    /\ cp' = [cp EXCEPT ![p].pc = "fl_test", ![p].curr_tail = mtn_tail]
    /\ UNCHANGED <<disk, bufs, jtail_bnum, list, trans_write_lock, counters, history>>

FlushTest(p) ==
    /\ cp[p].pc = "fl_test"
    /\ IF mtn_head # Null THEN Goto(p, "fl_lock")
                           ELSE cp' = [cp EXCEPT ![p] = AfterFlush(cp[p].call)]
    /\ UNCHANGED <<disk, bufs, jtail_bnum, list, trans_write_lock, counters, history>>

FlushLock(p) ==
    /\ cp[p].pc = "fl_lock"
    /\ trans_write_lock = NoProc
    /\ IF mtn_head # Null
       THEN /\ cp' = [cp EXCEPT ![p].pc = "fl_loop", ![p].curr_mtn = mtn_head, ![p].k = 1]
            /\ trans_write_lock' = p
       ELSE /\ cp' = [cp EXCEPT ![p] = AfterFlush(cp[p].call)]
            /\ UNCHANGED trans_write_lock
    /\ UNCHANGED <<disk, bufs, jtail_bnum, list, counters, history>>

(* ide_rw panics on a buffer that is not busy or has nothing to do.        *)
IdePanics(b) == "BUSY" \notin buf[b].flags \/ "DIRTY" \notin buf[b].flags

(* One evaluation of the loops' conditions with the body they lead to.     *)
(* IsNode tells the pointers that can be followed.                         *)
IsNode(m) == m \in DOMAIN mtn
MutantLoopEnds(p) ==
    IsNode(cp[p].curr_tail) /\ cp[p].k = Len(mtn[cp[p].curr_tail].bufs)
LoopEnds(p) == IsNode(cp[p].curr_tail) /\ cp[p].curr_mtn = mtn[cp[p].curr_tail].next
LoopFaults(p) ==
    \/ ~IsNode(cp[p].curr_tail)
    \/ ~LoopEnds(p) /\ ~IsNode(cp[p].curr_mtn)
    \/ /\ ~LoopEnds(p) /\ IsNode(cp[p].curr_mtn)
       /\ LET m == mtn[cp[p].curr_mtn]
          IN  IF cp[p].k > Len(m.bufs) THEN m.wild ELSE IdePanics(m.bufs[cp[p].k])

FlushWrite(p) ==
    /\ cp[p].pc = "fl_loop" /\ ~LoopFaults(p) /\ ~LoopEnds(p)
    /\ cp[p].k <= Len(mtn[cp[p].curr_mtn].bufs)
    /\ LET b == mtn[cp[p].curr_mtn].bufs[cp[p].k]
       IN  /\ disk' = [disk EXCEPT ![buf[b].sector] = buf[b].data]
           /\ buf' = Unbusy([buf EXCEPT ![b].flags = @ \ {"DIRTY"}], b)
           /\ lru' = MoveToFront(lru, b)
           /\ cp' = WakeBuf([cp EXCEPT ![p].k = @ + 1])
    /\ UNCHANGED <<jsblock_buf, jtrans_header_buf, jtail_bnum, list,
                   trans_write_lock, counters, history>>

FlushNext(p) ==
    /\ cp[p].pc = "fl_loop" /\ ~LoopFaults(p) /\ ~LoopEnds(p)
    /\ cp[p].k > Len(mtn[cp[p].curr_mtn].bufs)
    /\ cp' = [cp EXCEPT ![p].curr_mtn = mtn[cp[p].curr_mtn].next, ![p].k = 1]
    /\ UNCHANGED <<disk, bufs, jtail_bnum, list, trans_write_lock, counters, history>>

FlushFault(p) ==
    /\ cp[p].pc = "fl_loop" /\ LoopFaults(p)
    /\ Goto(p, "fault")
    /\ UNCHANGED <<disk, bufs, jtail_bnum, list, trans_write_lock, counters, history>>

FlushUber(p) ==
    /\ cp[p].pc = "fl_loop" /\ ~LoopFaults(p) /\ LoopEnds(p)
    /\ buf' = [buf EXCEPT ![jsblock_buf].data = Uber(JHead, JHead)]
    /\ disk' = [disk EXCEPT ![2] = Uber(JHead, JHead)]
    /\ Goto(p, "fl_done")
    /\ UNCHANGED <<lru, jsblock_buf, jtrans_header_buf, jtail_bnum, list,
                   trans_write_lock, counters, history>>

FlushDone(p) ==
    /\ cp[p].pc = "fl_done"
    /\ mtn_head' = mtn[cp[p].curr_tail].next
    /\ jtail_bnum' = JHead
    /\ trans_write_lock' = NoProc
    /\ cp' = [cp EXCEPT ![p] = AfterFlush(cp[p].call)]
    /\ UNCHANGED <<disk, bufs, mtn, mtn_tail, counters, history>>

-----------------------------------------------------------------------------
(* pbjFSck, run once by the boot process before any call writes.           *)

(* The sectors of the transaction headers of journal d, in order.          *)
Headers(d) ==
    LET from[b \in Nat] ==
          IF b >= d[2].tail_block THEN <<>>
          ELSE IF d[b].kind # "header" THEN <<b>>
          ELSE <<b>> \o from[b + Len(d[b].blocklist) + 1]
    IN  from[d[2].head_block]

ChecksumsOk(d) == \A i \in DOMAIN Headers(d) : d[Headers(d)[i]].kind = "header"

(* Read the uber block and the whole journal, give the buffers of data     *)
(* blocks their home sectors, and chain the transactions.  `next' of the   *)
(* last node, when it is not the first, and of the only t_data_node of a   *)
(* one-block transaction are left as kmalloc returned them.                *)
FsckRead ==
    /\ cp[BootProc].pc = "call" /\ cp[BootProc].call = "boot" /\ cp[BootProc].hold = 0
    /\ ChecksumsOk(disk)
    /\ LET bf == FoldLeft(BreadAlone, buf, [i \in 1 .. JSize + 1 |-> i + 1])
           at(s) == CHOOSE b \in Buf : bf[b].sector = s /\ "BUSY" \in bf[b].flags
           hs == Headers(disk)
           blocks(i) == disk[hs[i]].blocklist
           target(s) == {<<i, j>> \in (DOMAIN hs) \X (1 .. JSize) :
                            j \in DOMAIN blocks(i) /\ hs[i] + j = s}
       IN  /\ buf' = [b \in Buf |->
                        IF "BUSY" \in bf[b].flags /\ target(bf[b].sector) # {}
                        THEN LET t == CHOOSE t \in target(bf[b].sector) : TRUE
                             IN  [bf[b] EXCEPT !.sector = blocks(t[1])[t[2]],
                                               !.flags = @ \cup {"DIRTY"}]
                        ELSE bf[b]]
           /\ jsblock_buf' = at(2)
           /\ \E end \in {Null, Garbage}, w \in BOOLEAN :
                mtn' = [i \in DOMAIN hs |->
                          [bufs |-> [j \in DOMAIN blocks(i) |-> at(hs[i] + j)],
                           next |-> IF i < Len(hs) THEN i + 1 ELSE IF i = 1 THEN Null ELSE end,
                           wild |-> w /\ Len(blocks(i)) = 1]]
           /\ mtn_head' = IF hs = <<>> THEN Null ELSE 1
           /\ mtn_tail' = Len(hs)
    /\ Goto(BootProc, "fl_tail")
    /\ UNCHANGED <<disk, lru, jtrans_header_buf, jtail_bnum, trans_write_lock, counters, history>>

(* After the flush: release the journal buffers that are still busy and    *)
(* keep one of them for the transaction header.                            *)
FsckDone ==
    /\ cp[BootProc].pc = "fsck_done"
    /\ LET busy(s) == {b \in Buf : "BUSY" \in buf[b].flags /\ buf[b].sector = s}
           left == SelectSeq([i \in 1 .. JSize |-> i + 2], LAMBDA s : busy(s) # {})
           rest == [i \in DOMAIN left |-> CHOOSE b \in busy(left[i]) : TRUE]
           bf == FoldLeft(Unbusy, buf, rest)
           header == CHOOSE b \in Buf : bf[b].sector = JHead
       IN  /\ buf' = [bf EXCEPT ![header].flags = @ \cup {"BUSY"}]
           /\ jtrans_header_buf' = header
           /\ lru' = FoldLeft(MoveToFront, lru, rest)
    /\ cp' = WakeBuf([cp EXCEPT ![BootProc] = Idle])
    /\ UNCHANGED <<disk, jsblock_buf, jtail_bnum, list, trans_write_lock, counters, history>>

(* Power failure or panic: memory is lost, the disk stays.                 *)
Crash ==
    /\ ncrashes < MaxCrashes
    /\ ncrashes' = ncrashes + 1
    /\ buf' = [b \in Buf |-> FreeBuf] /\ lru' = [i \in Buf |-> NBUF + 1 - i]
    /\ jtail_bnum' = JHead
    /\ jsblock_buf' = 0 /\ jtrans_header_buf' = 0
    /\ mtn' = <<>> /\ mtn_head' = Null /\ mtn_tail' = Null
    /\ trans_write_lock' = NoProc
    /\ cp' = Booting
    /\ current' = committed
    /\ UNCHANGED <<disk, ncalls, committed>>

Step(p) ==
    \/ \E c \in Calls : Begin(p, c)
    \/ \E s \in Home : Bread(p, s)
    \/ BreadDone(p) \/ Bwrite(p) \/ Brelse(p)
    \/ EndTransEmpty(p) \/ EndTrans(p)
    \/ Jbwrite(p) \/ JbwriteDone(p) \/ WriteUber(p) \/ Link(p)
    \/ FlushTail(p) \/ FlushTest(p) \/ FlushLock(p)
    \/ FlushWrite(p) \/ FlushNext(p) \/ FlushFault(p) \/ FlushUber(p) \/ FlushDone(p)

Next == (\E p \in Proc : Step(p)) \/ FsckRead \/ FsckDone \/ Crash

Spec == Init /\ [][Next]_vars

-----------------------------------------------------------------------------
(* Properties.                                                             *)

(* Types.  The journal's next free sector never goes past its last block:  *)
(* a flush that empties the journal also takes jtail_bnum back.            *)
TypeOK ==
    /\ DOMAIN disk = Sector /\ disk[2].kind = "uber"
    /\ \A b \in Buf : /\ buf[b].sector \in Sector \cup {0}
                      /\ buf[b].flags \subseteq {"BUSY", "VALID", "DIRTY"}
    /\ ToSet(lru) = Buf /\ Len(lru) = NBUF
    /\ jtail_bnum \in JHead .. JSize + 3
    /\ {jsblock_buf, jtrans_header_buf} \subseteq Buf \cup {0}
    /\ \A m \in DOMAIN mtn : ToSet(mtn[m].bufs) \subseteq Buf
    /\ {mtn_head, mtn_tail} \subseteq {Null, Garbage} \cup DOMAIN mtn
    /\ trans_write_lock \in Proc \cup {NoProc}
    /\ \A p \in Proc : /\ cp[p].pc \in PC
                       /\ cp[p].call \in Calls \cup {"write", "boot"}
                       /\ cp[p].hold \in Buf \cup {0}
                       /\ ToSet(cp[p].ct) \subseteq Buf /\ Len(cp[p].ct) <= MaxWrites

(* The home contents a replay of the journal of disk d would leave.        *)
Replay(d) ==
    LET hs == Headers(d)
        writes(s) == {<<i, j>> \in (DOMAIN hs) \X (1 .. JSize) :
                         j \in DOMAIN d[hs[i]].blocklist /\ d[hs[i]].blocklist[j] = s}
        last(s) == Max({hs[w[1]] + w[2] : w \in writes(s)})
    IN  [s \in Home |-> IF ChecksumsOk(d) /\ writes(s) # {} THEN d[last(s)] ELSE d[s]]

(* Atomicity and durability: were the machine to crash now, the recovery   *)
(* of pbjFSck would find only complete headers and leave on disk exactly   *)
(* the effect of the committed transactions, each whole.                   *)
Recoverable == ChecksumsOk(disk) /\ Replay(disk) = committed

(* The cache is coherent: once fsck has run, a buffer bread returns holds  *)
(* what was last written to its block, although fsck retargets journal     *)
(* buffers to sectors the cache may hold an old copy of.                   *)
ReadsCurrent ==
    \A p \in Proc :
        Up /\ cp[p].pc = "call" /\ cp[p].hold # 0
          => buf[cp[p].hold].data = current[buf[cp[p].hold].sector]

(* The nodes a flush can reach from mtn_head.                              *)
Listed ==
    LET reach[n \in Nat] ==
          IF n = 0 THEN {mtn_head} \cap DOMAIN mtn
          ELSE reach[n - 1] \cup ({mtn[m].next : m \in reach[n - 1]} \cap DOMAIN mtn)
    IN  reach[Len(mtn)]

(* No buffer is leaked: a buffer that stays B_BUSY is one of the journal's *)
(* own two, is in use by a process, or is on the list of a transaction     *)
(* that a flush will still reach and release.                              *)
BusyBuffersReachable ==
    Up => \A b \in Buf : "BUSY" \in buf[b].flags =>
            \/ b \in {jsblock_buf, jtrans_header_buf}
            \/ \E p \in Proc : b = cp[p].hold \/ b \in ToSet(cp[p].ct)
            \/ \E m \in Listed : b \in ToSet(mtn[m].bufs)

(* The journal never overflows (TypeOK bounds jtail_bnum), and jbwrite,    *)
(* which runs with the journal lock held, never waits for that lock in     *)
(* jfull_flush: the journal is not full while transactions are pending.    *)
JournalFits == TypeOK /\ \A p \in Proc : ~(cp[p].pc = "fl_lock" /\ trans_write_lock = p)

=============================================================================
