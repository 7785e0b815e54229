----------------------------- MODULE PipeProofs -----------------------------
(***************************************************************************)
(* Proofs about the pipe of module Pipe, for any buffer size that divides  *)
(* the range of a uint and any number of readers and writers: it is a FIFO *)
(* channel, end of file is final, it is not freed while it is open and, if *)
(* no process is killed, no wakeup is missed.                              *)
(***************************************************************************)
EXTENDS Pipe, TLAPS

-----------------------------------------------------------------------------
(* Arithmetic of the indices.                                              *)

(* Division with remainder.                                                *)
LEMMA DivMod == ASSUME NEW a \in Nat, NEW b \in Nat \ {0}
  PROVE  /\ a \div b \in Nat /\ a % b \in 0 .. b - 1
         /\ a = b * (a \div b) + (a % b)
OBVIOUS

(* The remainder is unique.                                                *)
LEMMA ModUnique == ASSUME NEW b \in Nat \ {0}, NEW q \in Nat, NEW r \in 0 .. b - 1
  PROVE (b * q + r) % b = r
OBVIOUS

(* Multiples of the modulus vanish.                                        *)
LEMMA ModMultiple == ASSUME NEW b \in Nat \ {0}, NEW q \in Nat, NEW c \in Nat
  PROVE (b * q + c) % b = c % b
<1>1. PICK u \in Nat, r \in 0 .. b - 1 : c = b * u + r /\ c % b = r
  BY DivMod
<1>2. b * q + c = b * (q + u) + r /\ q + u \in Nat
  BY <1>1
<1> QED
  BY <1>1, <1>2, ModUnique

(* A uint that wraps at each step is the count modulo 2^32.                *)
LEMMA ModAdd == ASSUME NEW a \in Nat, NEW c \in Nat, NEW w \in Nat \ {0}
  PROVE ((a % w) + c) % w = (a + c) % w
<1>1. PICK u \in Nat, r \in 0 .. w - 1 : a = w * u + r /\ a % w = r
  BY DivMod
<1>2. a + c = w * u + (r + c) /\ r + c \in Nat
  BY <1>1
<1>3. (w * u + (r + c)) % w = (r + c) % w
  BY <1>1, <1>2, ModMultiple
<1>4. (a + c) % w = (w * u + (r + c)) % w
  BY <1>2, Zenon
<1>5. ((a % w) + c) % w = (r + c) % w
  BY <1>1, Zenon
<1> QED
  BY <1>3, <1>4, <1>5, Zenon

(* writep % PIPESIZE is the place of the byte although writep has wrapped, *)
(* because PIPESIZE divides 2^32.                                          *)
LEMMA ModMod == ASSUME NEW a \in Nat, NEW p \in Nat \ {0}, NEW w \in Nat \ {0}, w % p = 0
  PROVE (a % w) % p = a % p
<1>1. PICK u \in Nat, r \in 0 .. w - 1 : a = w * u + r /\ a % w = r
  BY DivMod
<1>2. w \div p \in Nat /\ w = p * (w \div p) + (w % p)
  BY DivMod
<1>3. PICK k \in Nat : w = p * k
  BY <1>2
<1>4. a = p * (k * u) + r /\ k * u \in Nat /\ r \in Nat
  BY <1>1, <1>3
<1>5. (p * (k * u) + r) % p = r % p
  BY <1>4, ModMultiple
<1>6. a % p = (p * (k * u) + r) % p
  BY <1>4, Zenon
<1> QED
  BY <1>1, <1>5, <1>6, Zenon

(* Counts less than the modulus apart have different remainders.           *)
LEMMA ModDiff == ASSUME NEW a \in Nat, NEW c \in Nat, NEW p \in Nat \ {0}, a < c, c - a < p
  PROVE a % p # c % p
<1>1. PICK u \in Nat, r \in 0 .. p - 1 : a = p * u + r /\ a % p = r
  BY DivMod
<1>2. PICK v \in Nat, s \in 0 .. p - 1 : c = p * v + s /\ c % p = s
  BY DivMod
<1>3. ASSUME r = s PROVE FALSE
  <2>1. c - a = p * (v - u)
    BY <1>1, <1>2, <1>3
  <2>2. CASE v - u >= 1
    BY <2>1, <2>2
  <2>3. CASE v - u <= 0
    BY <2>1, <2>3
  <2> QED
    BY <2>2, <2>3
<1> QED
  BY <1>1, <1>2, <1>3
-----------------------------------------------------------------------------
(* The inductive invariant.                                                *)

(* The indices are the counts of bytes written and read, modulo UintMod,   *)
(* and the bytes in between are in the ring.                               *)
Ring ==
    /\ Len(received) <= Len(sent) /\ Len(sent) - Len(received) <= PIPESIZE
    /\ writep = Len(sent) % UintMod /\ readp = Len(received) % UintMod
    /\ \A k \in 1 .. Len(received) : received[k] = sent[k]
    /\ \A k \in Len(received) .. Len(sent) - 1 : data[k % PIPESIZE] = sent[k + 1]

(* p->lock is held in these places.                                        *)
Holding == {"w_loop", "w_sleep", "r_test", "r_sleep", "r_loop", "c_locked"}
LockHeld == \A p \in Proc : pc[p] \in Holding => lock = p

(* An end is open as long as a process has it, and whoever is in a call    *)
(* has its end.                                                            *)
EndsOpen ==
    /\ readopen = 0 <=> rfd = {}
    /\ writeopen = 0 <=> wfd = {}
    /\ \A p \in Proc : pc[p] \in {"r_test", "r_sleep", "r_asleep", "r_awake", "r_loop"} => p \in rfd
    /\ \A p \in Proc : pc[p] \in {"w_loop", "w_sleep", "w_asleep", "w_awake"} => p \in wfd

FreedClosed ==
    /\ freed > 0 => rfd = {} /\ wfd = {}
    /\ \A p \in Proc : pc[p] = "c_free" => rfd = {} /\ wfd = {}

(* What the tests of the two loops found is true as long as p->lock is     *)
(* held.                                                                   *)
Tested ==
    \A p \in Proc :
        /\ pc[p] = "r_sleep" => Empty /\ writeopen = 1
        /\ pc[p] = "w_sleep" => Full /\ readopen = 1
        /\ pc[p] = "r_loop" /\ i[p] = 0 => ~Empty \/ writeopen = 0

IInv == TypeOK /\ Ring /\ LockHeld /\ EndsOpen /\ FreedClosed /\ Tested

(* Every step keeps the types.                                             *)
LEMMA TypeStep == TypeOK /\ [Next]_vars => TypeOK'
<1> SUFFICES ASSUME TypeOK, [Next]_vars PROVE TypeOK'
  OBVIOUS
<1> USE DEF TypeOK, PC, Goto, WakeReaders, WakeWriters, Acquire, Release, Return, Call,
           vars, pipe, files, history
<1>1. ASSUME NEW p \in Proc, NEW b \in Byte, WriteByte(p, b) PROVE TypeOK'
  <2>1. i' \in [Proc -> 0 .. MaxCount]
    <3>1. i[p] + 1 \in 0 .. MaxCount
      BY <1>1, PipeAssumption DEF WriteByte
    <3> QED
      BY <1>1, <3>1 DEF WriteByte
  <2>2. writep' \in 0 .. UintMod - 1
    BY <1>1, PipeAssumption, DivMod DEF WriteByte, Inc
  <2>3. data' \in [0 .. PIPESIZE - 1 -> Byte]
    BY <1>1 DEF WriteByte
  <2> QED
    BY <1>1, <2>1, <2>2, <2>3, SMTT(30) DEF WriteByte
<1>2. ASSUME NEW p \in Proc, WriteFails(p) PROVE TypeOK'
  BY <1>2, PipeAssumption DEF WriteFails
<1>3. ASSUME NEW p \in Proc, WriteFull(p) PROVE TypeOK'
  BY <1>3 DEF WriteFull
<1>4. ASSUME NEW p \in Proc, WriteSleep(p) PROVE TypeOK'
  BY <1>4 DEF WriteSleep
<1>5. ASSUME NEW p \in Proc, WriteResume(p) PROVE TypeOK'
  BY <1>5 DEF WriteResume
<1>6. ASSUME NEW p \in Proc, WriteDone(p) PROVE TypeOK'
  BY <1>6, PipeAssumption DEF WriteDone
<1>7. ASSUME NEW p \in Proc, ReadFails(p) PROVE TypeOK'
  BY <1>7, PipeAssumption DEF ReadFails
<1>8. ASSUME NEW p \in Proc, ReadEmpty(p) PROVE TypeOK'
  BY <1>8 DEF ReadEmpty
<1>9. ASSUME NEW p \in Proc, ReadSleep(p) PROVE TypeOK'
  BY <1>9 DEF ReadSleep
<1>10. ASSUME NEW p \in Proc, ReadResume(p) PROVE TypeOK'
  BY <1>10 DEF ReadResume, AfterSleep
<1>11. ASSUME NEW p \in Proc, ReadReady(p) PROVE TypeOK'
  BY <1>11 DEF ReadReady
<1>12. ASSUME NEW p \in Proc, ReadByte(p) PROVE TypeOK'
  <2>1. i' \in [Proc -> 0 .. MaxCount]
    <3>1. i[p] + 1 \in 0 .. MaxCount
      BY <1>12, PipeAssumption DEF ReadByte
    <3> QED
      BY <1>12, <3>1 DEF ReadByte
  <2>2. readp' \in 0 .. UintMod - 1
    BY <1>12, PipeAssumption, DivMod DEF ReadByte, Inc
  <2>3. readp % PIPESIZE \in 0 .. PIPESIZE - 1
    BY PipeAssumption, DivMod
  <2>4. received' \in Seq(Byte)
    BY <1>12, <2>3 DEF ReadByte
  <2> QED
    BY <1>12, <2>1, <2>2, <2>4 DEF ReadByte
<1>13. ASSUME NEW p \in Proc, ReadDone(p) PROVE TypeOK'
  BY <1>13, PipeAssumption DEF ReadDone
<1>14. ASSUME NEW p \in Proc, CloseRelease(p) PROVE TypeOK'
  BY <1>14 DEF CloseRelease
<1>15. ASSUME NEW p \in Proc, CloseTest(p) PROVE TypeOK'
  BY <1>15 DEF CloseTest
<1>16. ASSUME NEW p \in Proc, CloseFree(p) PROVE TypeOK'
  BY <1>16 DEF CloseFree
<1>17. ASSUME NEW p \in Proc, NEW k \in 0 .. MaxCount, WriteBegin(p, k) PROVE TypeOK'
  BY <1>17, PipeAssumption DEF WriteBegin
<1>18. ASSUME NEW p \in Proc, NEW k \in 0 .. MaxCount, ReadBegin(p, k) PROVE TypeOK'
  BY <1>18, PipeAssumption DEF ReadBegin
<1>19. ASSUME NEW p \in Proc, CloseShared(p) PROVE TypeOK'
  BY <1>19 DEF CloseShared
<1>20. ASSUME NEW p \in Proc, PipecloseWrite(p) PROVE TypeOK'
  BY <1>20 DEF PipecloseWrite
<1>21. ASSUME NEW p \in Proc, PipecloseRead(p) PROVE TypeOK'
  BY <1>21 DEF PipecloseRead
<1>22. ASSUME NEW p \in Proc, Kill(p) PROVE TypeOK'
  BY <1>22 DEF Kill
<1>23. CASE UNCHANGED vars
  BY <1>23 DEF vars
<1> QED
  BY <1>1, <1>2, <1>3, <1>4, <1>5, <1>6, <1>7, <1>8, <1>9, <1>10, <1>11, <1>12, <1>13, <1>14, <1>15, <1>16, <1>17, <1>18, <1>19, <1>20, <1>21, <1>22, <1>23 DEF Next, Kernel, User

(* The ring stays consistent: a byte is written where no unread byte is,   *)
(* and the byte read is the oldest one.                                    *)
LEMMA RingStep == TypeOK /\ Ring /\ [Next]_vars => Ring'
<1> SUFFICES ASSUME TypeOK, Ring, [Next]_vars PROVE Ring'
  OBVIOUS
<1>1. ASSUME NEW p \in Proc, NEW b \in Byte, WriteByte(p, b) PROVE Ring'
  <2> DEFINE s == Len(sent)
             r == Len(received)
             P == PIPESIZE
             W == UintMod
  <2>1. P \in Nat \ {0} /\ W \in Nat \ {0} /\ W % P = 0
    BY PipeAssumption
  <2>2. s \in Nat /\ r \in Nat /\ r <= s /\ s - r <= P
    BY DEF TypeOK, Ring
  <2>3. Len(sent') = s + 1 /\ sent' = Append(sent, b) /\ received' = received /\ readp' = readp
    BY <1>1 DEF WriteByte, TypeOK
  <2>4. s - r < P
    <3>1. ASSUME s = r + P PROVE FALSE
      <4>1. ((r % W) + P) % W = (r + P) % W
        BY <2>1, <2>2, ModAdd
      <4>2. writep = (r + P) % W /\ readp = r % W
        BY <3>1 DEF Ring
      <4>3. writep # (readp + P) % W
        BY <1>1 DEF WriteByte, Full
      <4> QED
        BY <4>1, <4>2, <4>3, Zenon
    <3> HIDE DEF s, r, P, W
    <3> QED
      BY <2>1, <2>2, <3>1
  <2>5. writep' = (s + 1) % W
    <3>1. ((s % W) + 1) % W = (s + 1) % W
      <4> HIDE DEF s, W
      <4>1. 1 \in Nat
        OBVIOUS
      <4> QED
        BY <2>1, <2>2, <4>1, ModAdd, ZenonT(60)
    <3> QED
      BY <3>1, <1>1, ZenonT(60) DEF WriteByte, Inc, Ring
  <2>6. writep % P = s % P
    <3>1. (s % W) % P = s % P
      BY <2>1, <2>2, ModMod
    <3> QED
      BY <3>1, Zenon DEF Ring
  <2>7. data' = [data EXCEPT ![s % P] = b]
    BY <2>6, <1>1, Zenon DEF WriteByte
  <2>8. ASSUME NEW j \in r .. s PROVE data'[j % P] = sent'[j + 1]
    <3>1. j \in Nat /\ j % P \in 0 .. P - 1 /\ s % P \in 0 .. P - 1
      <4>1. j \in Nat
        BY <2>2
      <4> HIDE DEF s, P
      <4> QED
        BY <4>1, <2>1, <2>2, DivMod
    <3>2. CASE j = s
      <4>1. data'[s % P] = b
        BY <2>7, <3>1 DEF TypeOK
      <4>2. sent'[s + 1] = b
        BY <2>3 DEF TypeOK
      <4> QED
        BY <3>2, <4>1, <4>2, Zenon
    <3>3. CASE j # s
      <4>1. j < s /\ s - j < P
        <5> HIDE DEF s, r, P
        <5> QED
          BY <3>3, <3>1, <2>1, <2>2, <2>4
      <4>2. j % P # s % P
        <5> HIDE DEF s, r, P
        <5> QED
          BY <4>1, <3>1, <2>1, <2>2, ModDiff
      <4>3. j \in r .. s - 1
        BY <4>1, <2>2
      <4>4. data[j % P] = sent[j + 1]
        BY <4>3 DEF Ring
      <4>5. data'[j % P] = data[j % P]
        <5> HIDE DEF s, P
        <5> QED
          BY <4>2, <3>1, <2>7 DEF TypeOK
      <4>6. sent'[j + 1] = sent[j + 1]
        BY <4>3, <2>2, <2>3 DEF TypeOK
      <4> QED
        BY <4>4, <4>5, <4>6, Zenon
    <3> QED
      BY <3>2, <3>3, Zenon
  <2>9. \A k \in 1 .. r : received'[k] = sent'[k]
    BY <2>2, <2>3 DEF TypeOK, Ring
  <2>10. Len(received') <= Len(sent') /\ Len(sent') - Len(received') <= P
    <3> HIDE DEF P
    <3> QED
      BY <2>1, <2>2, <2>3, <2>4
  <2>11. \A j \in Len(received') .. Len(sent') - 1 : data'[j % P] = sent'[j + 1]
    BY <2>2, <2>3, <2>8
  <2>12. writep' = Len(sent') % W /\ readp' = Len(received') % W
    BY <2>3, <2>5, Zenon DEF Ring
  <2>13. \A k \in 1 .. Len(received') : received'[k] = sent'[k]
    BY <2>3, <2>9, Zenon
  <2> QED
    BY <2>10, <2>11, <2>12, <2>13, Zenon DEF Ring
<1>2. ASSUME NEW p \in Proc, WriteFails(p) PROVE Ring'
  BY <1>2 DEF WriteFails, Ring, vars, pipe, history
<1>3. ASSUME NEW p \in Proc, WriteFull(p) PROVE Ring'
  BY <1>3 DEF WriteFull, Ring, vars, pipe, history
<1>4. ASSUME NEW p \in Proc, WriteSleep(p) PROVE Ring'
  BY <1>4 DEF WriteSleep, Ring, vars, pipe, history
<1>5. ASSUME NEW p \in Proc, WriteResume(p) PROVE Ring'
  BY <1>5 DEF WriteResume, Ring, vars, pipe, history
<1>6. ASSUME NEW p \in Proc, WriteDone(p) PROVE Ring'
  BY <1>6 DEF WriteDone, Ring, vars, pipe, history
<1>7. ASSUME NEW p \in Proc, ReadFails(p) PROVE Ring'
  BY <1>7 DEF ReadFails, Ring, vars, pipe, history
<1>8. ASSUME NEW p \in Proc, ReadEmpty(p) PROVE Ring'
  BY <1>8 DEF ReadEmpty, Ring, vars, pipe, history
<1>9. ASSUME NEW p \in Proc, ReadSleep(p) PROVE Ring'
  BY <1>9 DEF ReadSleep, Ring, vars, pipe, history
<1>10. ASSUME NEW p \in Proc, ReadResume(p) PROVE Ring'
  BY <1>10 DEF ReadResume, Ring, vars, pipe, history
<1>11. ASSUME NEW p \in Proc, ReadReady(p) PROVE Ring'
  BY <1>11 DEF ReadReady, Ring, vars, pipe, history
<1>12. ASSUME NEW p \in Proc, ReadByte(p) PROVE Ring'
  <2> DEFINE s == Len(sent)
             r == Len(received)
             P == PIPESIZE
             W == UintMod
  <2>1. P \in Nat \ {0} /\ W \in Nat \ {0} /\ W % P = 0
    BY PipeAssumption
  <2>2. s \in Nat /\ r \in Nat /\ r <= s /\ s - r <= P
    BY DEF TypeOK, Ring
  <2>3. Len(received') = r + 1 /\ received' = Append(received, data[readp % P])
        /\ sent' = sent /\ writep' = writep /\ data' = data
    BY <1>12 DEF ReadByte, TypeOK
  <2>4. r < s
    <3>1. r # s
      BY <1>12, Zenon DEF ReadByte, Empty, Ring
    <3> QED
      BY <2>2, <3>1
  <2>5. readp' = (r + 1) % W
    <3>1. ((r % W) + 1) % W = (r + 1) % W
      <4> HIDE DEF r, W
      <4>1. 1 \in Nat
        OBVIOUS
      <4> QED
        BY <2>1, <2>2, <4>1, ModAdd, ZenonT(60)
    <3> QED
      BY <3>1, <1>12, ZenonT(60) DEF ReadByte, Inc, Ring
  <2>6. readp % P = r % P
    <3>1. (r % W) % P = r % P
      BY <2>1, <2>2, ModMod
    <3> QED
      BY <3>1, Zenon DEF Ring
  <2>7. data[readp % P] = sent[r + 1]
    <3>1. r \in r .. s - 1
      BY <2>2, <2>4
    <3>2. data[r % P] = sent[r + 1]
      BY <3>1, Zenon DEF Ring
    <3> QED
      BY <3>2, <2>6, Zenon
  <2>8. received' = Append(received, sent[r + 1])
    BY <2>3, <2>7, Zenon
  <2>9. \A k \in 1 .. Len(received') : received'[k] = sent'[k]
    BY <2>2, <2>3, <2>8 DEF TypeOK, Ring
  <2>10. Len(received') <= Len(sent') /\ Len(sent') - Len(received') <= P
    <3> HIDE DEF P
    <3> QED
      BY <2>1, <2>2, <2>3, <2>4
  <2>11. \A j \in Len(received') .. Len(sent') - 1 : data'[j % P] = sent'[j + 1]
    BY <2>2, <2>3 DEF Ring
  <2>12. writep' = Len(sent') % W /\ readp' = Len(received') % W
    BY <2>3, <2>5, Zenon DEF Ring
  <2> QED
    BY <2>9, <2>10, <2>11, <2>12, Zenon DEF Ring
<1>13. ASSUME NEW p \in Proc, ReadDone(p) PROVE Ring'
  BY <1>13 DEF ReadDone, Ring, vars, pipe, history
<1>14. ASSUME NEW p \in Proc, CloseRelease(p) PROVE Ring'
  BY <1>14 DEF CloseRelease, Ring, vars, pipe, history
<1>15. ASSUME NEW p \in Proc, CloseTest(p) PROVE Ring'
  BY <1>15 DEF CloseTest, Ring, vars, pipe, history
<1>16. ASSUME NEW p \in Proc, CloseFree(p) PROVE Ring'
  BY <1>16 DEF CloseFree, Ring, vars, pipe, history
<1>17. ASSUME NEW p \in Proc, NEW k \in 0 .. MaxCount, WriteBegin(p, k) PROVE Ring'
  BY <1>17 DEF WriteBegin, Ring, vars, pipe, history
<1>18. ASSUME NEW p \in Proc, NEW k \in 0 .. MaxCount, ReadBegin(p, k) PROVE Ring'
  BY <1>18 DEF ReadBegin, Ring, vars, pipe, history
<1>19. ASSUME NEW p \in Proc, CloseShared(p) PROVE Ring'
  BY <1>19 DEF CloseShared, Ring, vars, pipe, history
<1>20. ASSUME NEW p \in Proc, PipecloseWrite(p) PROVE Ring'
  BY <1>20 DEF PipecloseWrite, Ring, vars, pipe, history
<1>21. ASSUME NEW p \in Proc, PipecloseRead(p) PROVE Ring'
  BY <1>21 DEF PipecloseRead, Ring, vars, pipe, history
<1>22. ASSUME NEW p \in Proc, Kill(p) PROVE Ring'
  BY <1>22 DEF Kill, Ring, vars, pipe, history
<1>23. CASE UNCHANGED vars
  BY <1>23 DEF vars, Ring, vars, pipe, history
<1> QED
  BY <1>1, <1>2, <1>3, <1>4, <1>5, <1>6, <1>7, <1>8, <1>9, <1>10, <1>11, <1>12, <1>13, <1>14, <1>15, <1>16, <1>17, <1>18, <1>19, <1>20, <1>21, <1>22, <1>23 DEF Next, Kernel, User

(* p->lock has one holder, the process in the critical section.            *)
LEMMA LockStep == TypeOK /\ LockHeld /\ [Next]_vars => LockHeld'
<1> SUFFICES ASSUME TypeOK, LockHeld, [Next]_vars PROVE LockHeld'
  OBVIOUS
<1> USE DEF Goto, WakeReaders, WakeWriters, Acquire, Release, Return, Call, AfterSleep,
           vars, pipe, files, history
<1> USE PipeAssumption DEF TypeOK, LockHeld, Holding
<1>1. ASSUME NEW p \in Proc, NEW b \in Byte, WriteByte(p, b) PROVE LockHeld'
  BY <1>1 DEF WriteByte
<1>2. ASSUME NEW p \in Proc, WriteFails(p) PROVE LockHeld'
  BY <1>2 DEF WriteFails
<1>3. ASSUME NEW p \in Proc, WriteFull(p) PROVE LockHeld'
  BY <1>3 DEF WriteFull
<1>4. ASSUME NEW p \in Proc, WriteSleep(p) PROVE LockHeld'
  BY <1>4 DEF WriteSleep
<1>5. ASSUME NEW p \in Proc, WriteResume(p) PROVE LockHeld'
  BY <1>5 DEF WriteResume
<1>6. ASSUME NEW p \in Proc, WriteDone(p) PROVE LockHeld'
  BY <1>6 DEF WriteDone
<1>7. ASSUME NEW p \in Proc, ReadFails(p) PROVE LockHeld'
  BY <1>7 DEF ReadFails
<1>8. ASSUME NEW p \in Proc, ReadEmpty(p) PROVE LockHeld'
  BY <1>8 DEF ReadEmpty
<1>9. ASSUME NEW p \in Proc, ReadSleep(p) PROVE LockHeld'
  BY <1>9 DEF ReadSleep
<1>10. ASSUME NEW p \in Proc, ReadResume(p) PROVE LockHeld'
  BY <1>10 DEF ReadResume
<1>11. ASSUME NEW p \in Proc, ReadReady(p) PROVE LockHeld'
  BY <1>11 DEF ReadReady
<1>12. ASSUME NEW p \in Proc, ReadByte(p) PROVE LockHeld'
  BY <1>12 DEF ReadByte
<1>13. ASSUME NEW p \in Proc, ReadDone(p) PROVE LockHeld'
  BY <1>13 DEF ReadDone
<1>14. ASSUME NEW p \in Proc, CloseRelease(p) PROVE LockHeld'
  BY <1>14 DEF CloseRelease
<1>15. ASSUME NEW p \in Proc, CloseTest(p) PROVE LockHeld'
  BY <1>15 DEF CloseTest
<1>16. ASSUME NEW p \in Proc, CloseFree(p) PROVE LockHeld'
  BY <1>16 DEF CloseFree
<1>17. ASSUME NEW p \in Proc, NEW k \in 0 .. MaxCount, WriteBegin(p, k) PROVE LockHeld'
  BY <1>17 DEF WriteBegin
<1>18. ASSUME NEW p \in Proc, NEW k \in 0 .. MaxCount, ReadBegin(p, k) PROVE LockHeld'
  BY <1>18 DEF ReadBegin
<1>19. ASSUME NEW p \in Proc, CloseShared(p) PROVE LockHeld'
  BY <1>19 DEF CloseShared
<1>20. ASSUME NEW p \in Proc, PipecloseWrite(p) PROVE LockHeld'
  BY <1>20 DEF PipecloseWrite
<1>21. ASSUME NEW p \in Proc, PipecloseRead(p) PROVE LockHeld'
  BY <1>21 DEF PipecloseRead
<1>22. ASSUME NEW p \in Proc, Kill(p) PROVE LockHeld'
  BY <1>22 DEF Kill
<1>23. CASE UNCHANGED vars
  BY <1>23 DEF vars
<1> QED
  BY <1>1, <1>2, <1>3, <1>4, <1>5, <1>6, <1>7, <1>8, <1>9, <1>10, <1>11, <1>12, <1>13, <1>14, <1>15, <1>16, <1>17, <1>18, <1>19, <1>20, <1>21, <1>22, <1>23 DEF Next, Kernel, User

(* The flags follow the file descriptors.                                  *)
LEMMA EndsStep == TypeOK /\ EndsOpen /\ [Next]_vars => EndsOpen'
<1> SUFFICES ASSUME TypeOK, EndsOpen, [Next]_vars PROVE EndsOpen'
  OBVIOUS
<1> USE DEF Goto, WakeReaders, WakeWriters, Acquire, Release, Return, Call, AfterSleep,
           vars, pipe, files, history
<1> USE DEF TypeOK, EndsOpen
<1>1. ASSUME NEW p \in Proc, NEW b \in Byte, WriteByte(p, b) PROVE EndsOpen'
  BY <1>1 DEF WriteByte
<1>2. ASSUME NEW p \in Proc, WriteFails(p) PROVE EndsOpen'
  BY <1>2 DEF WriteFails
<1>3. ASSUME NEW p \in Proc, WriteFull(p) PROVE EndsOpen'
  BY <1>3 DEF WriteFull
<1>4. ASSUME NEW p \in Proc, WriteSleep(p) PROVE EndsOpen'
  BY <1>4 DEF WriteSleep
<1>5. ASSUME NEW p \in Proc, WriteResume(p) PROVE EndsOpen'
  BY <1>5 DEF WriteResume
<1>6. ASSUME NEW p \in Proc, WriteDone(p) PROVE EndsOpen'
  BY <1>6 DEF WriteDone
<1>7. ASSUME NEW p \in Proc, ReadFails(p) PROVE EndsOpen'
  BY <1>7 DEF ReadFails
<1>8. ASSUME NEW p \in Proc, ReadEmpty(p) PROVE EndsOpen'
  BY <1>8 DEF ReadEmpty
<1>9. ASSUME NEW p \in Proc, ReadSleep(p) PROVE EndsOpen'
  BY <1>9 DEF ReadSleep
<1>10. ASSUME NEW p \in Proc, ReadResume(p) PROVE EndsOpen'
  BY <1>10 DEF ReadResume
<1>11. ASSUME NEW p \in Proc, ReadReady(p) PROVE EndsOpen'
  BY <1>11 DEF ReadReady
<1>12. ASSUME NEW p \in Proc, ReadByte(p) PROVE EndsOpen'
  BY <1>12 DEF ReadByte
<1>13. ASSUME NEW p \in Proc, ReadDone(p) PROVE EndsOpen'
  BY <1>13 DEF ReadDone
<1>14. ASSUME NEW p \in Proc, CloseRelease(p) PROVE EndsOpen'
  BY <1>14 DEF CloseRelease
<1>15. ASSUME NEW p \in Proc, CloseTest(p) PROVE EndsOpen'
  BY <1>15 DEF CloseTest
<1>16. ASSUME NEW p \in Proc, CloseFree(p) PROVE EndsOpen'
  BY <1>16 DEF CloseFree
<1>17. ASSUME NEW p \in Proc, NEW k \in 0 .. MaxCount, WriteBegin(p, k) PROVE EndsOpen'
  BY <1>17 DEF WriteBegin
<1>18. ASSUME NEW p \in Proc, NEW k \in 0 .. MaxCount, ReadBegin(p, k) PROVE EndsOpen'
  BY <1>18 DEF ReadBegin
<1>19. ASSUME NEW p \in Proc, CloseShared(p) PROVE EndsOpen'
  BY <1>19 DEF CloseShared
<1>20. ASSUME NEW p \in Proc, PipecloseWrite(p) PROVE EndsOpen'
  BY <1>20 DEF PipecloseWrite
<1>21. ASSUME NEW p \in Proc, PipecloseRead(p) PROVE EndsOpen'
  BY <1>21 DEF PipecloseRead
<1>22. ASSUME NEW p \in Proc, Kill(p) PROVE EndsOpen'
  BY <1>22 DEF Kill
<1>23. CASE UNCHANGED vars
  BY <1>23 DEF vars
<1> QED
  BY <1>1, <1>2, <1>3, <1>4, <1>5, <1>6, <1>7, <1>8, <1>9, <1>10, <1>11, <1>12, <1>13, <1>14, <1>15, <1>16, <1>17, <1>18, <1>19, <1>20, <1>21, <1>22, <1>23 DEF Next, Kernel, User

(* Only a pipe with both ends closed is freed.                             *)
LEMMA FreedStep == TypeOK /\ EndsOpen /\ FreedClosed /\ [Next]_vars => FreedClosed'
<1> SUFFICES ASSUME TypeOK, EndsOpen, FreedClosed, [Next]_vars PROVE FreedClosed'
  OBVIOUS
<1> USE DEF Goto, WakeReaders, WakeWriters, Acquire, Release, Return, Call, AfterSleep,
           vars, pipe, files, history
<1> USE DEF TypeOK, EndsOpen, FreedClosed
<1>1. ASSUME NEW p \in Proc, NEW b \in Byte, WriteByte(p, b) PROVE FreedClosed'
  BY <1>1 DEF WriteByte, Closed
<1>2. ASSUME NEW p \in Proc, WriteFails(p) PROVE FreedClosed'
  BY <1>2 DEF WriteFails, Closed
<1>3. ASSUME NEW p \in Proc, WriteFull(p) PROVE FreedClosed'
  BY <1>3 DEF WriteFull, Closed
<1>4. ASSUME NEW p \in Proc, WriteSleep(p) PROVE FreedClosed'
  BY <1>4 DEF WriteSleep, Closed
<1>5. ASSUME NEW p \in Proc, WriteResume(p) PROVE FreedClosed'
  BY <1>5 DEF WriteResume, Closed
<1>6. ASSUME NEW p \in Proc, WriteDone(p) PROVE FreedClosed'
  BY <1>6 DEF WriteDone, Closed
<1>7. ASSUME NEW p \in Proc, ReadFails(p) PROVE FreedClosed'
  BY <1>7 DEF ReadFails, Closed
<1>8. ASSUME NEW p \in Proc, ReadEmpty(p) PROVE FreedClosed'
  BY <1>8 DEF ReadEmpty, Closed
<1>9. ASSUME NEW p \in Proc, ReadSleep(p) PROVE FreedClosed'
  BY <1>9 DEF ReadSleep, Closed
<1>10. ASSUME NEW p \in Proc, ReadResume(p) PROVE FreedClosed'
  BY <1>10 DEF ReadResume, Closed
<1>11. ASSUME NEW p \in Proc, ReadReady(p) PROVE FreedClosed'
  BY <1>11 DEF ReadReady, Closed
<1>12. ASSUME NEW p \in Proc, ReadByte(p) PROVE FreedClosed'
  BY <1>12 DEF ReadByte, Closed
<1>13. ASSUME NEW p \in Proc, ReadDone(p) PROVE FreedClosed'
  BY <1>13 DEF ReadDone, Closed
<1>14. ASSUME NEW p \in Proc, CloseRelease(p) PROVE FreedClosed'
  BY <1>14 DEF CloseRelease, Closed
<1>15. ASSUME NEW p \in Proc, CloseTest(p) PROVE FreedClosed'
  BY <1>15 DEF CloseTest, Closed
<1>16. ASSUME NEW p \in Proc, CloseFree(p) PROVE FreedClosed'
  BY <1>16 DEF CloseFree, Closed
<1>17. ASSUME NEW p \in Proc, NEW k \in 0 .. MaxCount, WriteBegin(p, k) PROVE FreedClosed'
  BY <1>17 DEF WriteBegin, Closed
<1>18. ASSUME NEW p \in Proc, NEW k \in 0 .. MaxCount, ReadBegin(p, k) PROVE FreedClosed'
  BY <1>18 DEF ReadBegin, Closed
<1>19. ASSUME NEW p \in Proc, CloseShared(p) PROVE FreedClosed'
  BY <1>19 DEF CloseShared, Closed
<1>20. ASSUME NEW p \in Proc, PipecloseWrite(p) PROVE FreedClosed'
  BY <1>20 DEF PipecloseWrite, Closed
<1>21. ASSUME NEW p \in Proc, PipecloseRead(p) PROVE FreedClosed'
  BY <1>21 DEF PipecloseRead, Closed
<1>22. ASSUME NEW p \in Proc, Kill(p) PROVE FreedClosed'
  BY <1>22 DEF Kill, Closed
<1>23. CASE UNCHANGED vars
  BY <1>23 DEF vars, Closed
<1> QED
  BY <1>1, <1>2, <1>3, <1>4, <1>5, <1>6, <1>7, <1>8, <1>9, <1>10, <1>11, <1>12, <1>13, <1>14, <1>15, <1>16, <1>17, <1>18, <1>19, <1>20, <1>21, <1>22, <1>23 DEF Next, Kernel, User

(* No other process undoes what a test under p->lock found.                *)
LEMMA TestedStep == TypeOK /\ LockHeld /\ EndsOpen /\ Tested /\ [Next]_vars => Tested'
<1> SUFFICES ASSUME TypeOK, LockHeld, EndsOpen, Tested, [Next]_vars PROVE Tested'
  OBVIOUS
<1> USE DEF Goto, WakeReaders, WakeWriters, Acquire, Release, Return, Call, AfterSleep,
           vars, pipe, files, history
<1> USE DEF TypeOK, LockHeld, Holding, EndsOpen, Tested, Empty, Full
<1>1. ASSUME NEW p \in Proc, NEW b \in Byte, WriteByte(p, b) PROVE Tested'
  BY <1>1 DEF WriteByte
<1>2. ASSUME NEW p \in Proc, WriteFails(p) PROVE Tested'
  BY <1>2 DEF WriteFails
<1>3. ASSUME NEW p \in Proc, WriteFull(p) PROVE Tested'
  BY <1>3 DEF WriteFull
<1>4. ASSUME NEW p \in Proc, WriteSleep(p) PROVE Tested'
  BY <1>4 DEF WriteSleep
<1>5. ASSUME NEW p \in Proc, WriteResume(p) PROVE Tested'
  BY <1>5 DEF WriteResume
<1>6. ASSUME NEW p \in Proc, WriteDone(p) PROVE Tested'
  BY <1>6 DEF WriteDone
<1>7. ASSUME NEW p \in Proc, ReadFails(p) PROVE Tested'
  BY <1>7 DEF ReadFails
<1>8. ASSUME NEW p \in Proc, ReadEmpty(p) PROVE Tested'
  BY <1>8 DEF ReadEmpty
<1>9. ASSUME NEW p \in Proc, ReadSleep(p) PROVE Tested'
  BY <1>9 DEF ReadSleep
<1>10. ASSUME NEW p \in Proc, ReadResume(p) PROVE Tested'
  BY <1>10 DEF ReadResume
<1>11. ASSUME NEW p \in Proc, ReadReady(p) PROVE Tested'
  BY <1>11 DEF ReadReady
<1>12. ASSUME NEW p \in Proc, ReadByte(p) PROVE Tested'
  BY <1>12 DEF ReadByte
<1>13. ASSUME NEW p \in Proc, ReadDone(p) PROVE Tested'
  BY <1>13 DEF ReadDone
<1>14. ASSUME NEW p \in Proc, CloseRelease(p) PROVE Tested'
  BY <1>14 DEF CloseRelease
<1>15. ASSUME NEW p \in Proc, CloseTest(p) PROVE Tested'
  BY <1>15 DEF CloseTest
<1>16. ASSUME NEW p \in Proc, CloseFree(p) PROVE Tested'
  BY <1>16 DEF CloseFree
<1>17. ASSUME NEW p \in Proc, NEW k \in 0 .. MaxCount, WriteBegin(p, k) PROVE Tested'
  BY <1>17 DEF WriteBegin
<1>18. ASSUME NEW p \in Proc, NEW k \in 0 .. MaxCount, ReadBegin(p, k) PROVE Tested'
  BY <1>18 DEF ReadBegin
<1>19. ASSUME NEW p \in Proc, CloseShared(p) PROVE Tested'
  BY <1>19 DEF CloseShared
<1>20. ASSUME NEW p \in Proc, PipecloseWrite(p) PROVE Tested'
  <2>1. None \notin Proc
    BY PipeAssumption
  <2> QED
    BY <1>20, <2>1 DEF PipecloseWrite
<1>21. ASSUME NEW p \in Proc, PipecloseRead(p) PROVE Tested'
  <2>1. None \notin Proc
    BY PipeAssumption
  <2> QED
    BY <1>21, <2>1 DEF PipecloseRead
<1>22. ASSUME NEW p \in Proc, Kill(p) PROVE Tested'
  BY <1>22 DEF Kill
<1>23. CASE UNCHANGED vars
  BY <1>23 DEF vars
<1> QED
  BY <1>1, <1>2, <1>3, <1>4, <1>5, <1>6, <1>7, <1>8, <1>9, <1>10, <1>11, <1>12, <1>13, <1>14, <1>15, <1>16, <1>17, <1>18, <1>19, <1>20, <1>21, <1>22, <1>23 DEF Next, Kernel, User

(* Until one is killed, whoever could go on has been woken, or is about to *)
(* be by the holder of p->lock.                                            *)
LEMMA WakeStep == IInv /\ NoLostWakeup /\ [Next]_vars => NoLostWakeup'
<1> SUFFICES ASSUME IInv, NoLostWakeup, [Next]_vars PROVE NoLostWakeup'
  OBVIOUS
<1> USE DEF Goto, WakeReaders, WakeWriters, Acquire, Release, Return, Call, AfterSleep,
           vars, pipe, files, history
<1> USE DEF IInv, TypeOK, LockHeld, Holding, EndsOpen, Tested, Empty, Full, NoLostWakeup
<1>1. ASSUME NEW p \in Proc, NEW b \in Byte, WriteByte(p, b) PROVE NoLostWakeup'
  BY <1>1 DEF WriteByte
<1>2. ASSUME NEW p \in Proc, WriteFails(p) PROVE NoLostWakeup'
  BY <1>2 DEF WriteFails
<1>3. ASSUME NEW p \in Proc, WriteFull(p) PROVE NoLostWakeup'
  BY <1>3 DEF WriteFull
<1>4. ASSUME NEW p \in Proc, WriteSleep(p) PROVE NoLostWakeup'
  BY <1>4 DEF WriteSleep
<1>5. ASSUME NEW p \in Proc, WriteResume(p) PROVE NoLostWakeup'
  <2>1. None \notin Proc
    BY PipeAssumption
  <2> QED
    BY <1>5, <2>1 DEF WriteResume
<1>6. ASSUME NEW p \in Proc, WriteDone(p) PROVE NoLostWakeup'
  BY <1>6 DEF WriteDone
<1>7. ASSUME NEW p \in Proc, ReadFails(p) PROVE NoLostWakeup'
  BY <1>7 DEF ReadFails
<1>8. ASSUME NEW p \in Proc, ReadEmpty(p) PROVE NoLostWakeup'
  BY <1>8 DEF ReadEmpty
<1>9. ASSUME NEW p \in Proc, ReadSleep(p) PROVE NoLostWakeup'
  BY <1>9 DEF ReadSleep
<1>10. ASSUME NEW p \in Proc, ReadResume(p) PROVE NoLostWakeup'
  <2>1. None \notin Proc
    BY PipeAssumption
  <2> QED
    BY <1>10, <2>1 DEF ReadResume
<1>11. ASSUME NEW p \in Proc, ReadReady(p) PROVE NoLostWakeup'
  BY <1>11 DEF ReadReady
<1>12. ASSUME NEW p \in Proc, ReadByte(p) PROVE NoLostWakeup'
  BY <1>12 DEF ReadByte
<1>13. ASSUME NEW p \in Proc, ReadDone(p) PROVE NoLostWakeup'
  BY <1>13 DEF ReadDone
<1>14. ASSUME NEW p \in Proc, CloseRelease(p) PROVE NoLostWakeup'
  BY <1>14 DEF CloseRelease
<1>15. ASSUME NEW p \in Proc, CloseTest(p) PROVE NoLostWakeup'
  BY <1>15 DEF CloseTest
<1>16. ASSUME NEW p \in Proc, CloseFree(p) PROVE NoLostWakeup'
  BY <1>16 DEF CloseFree
<1>17. ASSUME NEW p \in Proc, NEW k \in 0 .. MaxCount, WriteBegin(p, k) PROVE NoLostWakeup'
  <2>1. None \notin Proc
    BY PipeAssumption
  <2> QED
    BY <1>17, <2>1 DEF WriteBegin
<1>18. ASSUME NEW p \in Proc, NEW k \in 0 .. MaxCount, ReadBegin(p, k) PROVE NoLostWakeup'
  <2>1. None \notin Proc
    BY PipeAssumption
  <2> QED
    BY <1>18, <2>1 DEF ReadBegin
<1>19. ASSUME NEW p \in Proc, CloseShared(p) PROVE NoLostWakeup'
  BY <1>19 DEF CloseShared
<1>20. ASSUME NEW p \in Proc, PipecloseWrite(p) PROVE NoLostWakeup'
  <2>1. None \notin Proc
    BY PipeAssumption
  <2> QED
    BY <1>20, <2>1 DEF PipecloseWrite
<1>21. ASSUME NEW p \in Proc, PipecloseRead(p) PROVE NoLostWakeup'
  <2>1. None \notin Proc
    BY PipeAssumption
  <2> QED
    BY <1>21, <2>1 DEF PipecloseRead
<1>22. ASSUME NEW p \in Proc, Kill(p) PROVE NoLostWakeup'
  BY <1>22 DEF Kill
<1>23. CASE UNCHANGED vars
  BY <1>23 DEF vars
<1> QED
  BY <1>1, <1>2, <1>3, <1>4, <1>5, <1>6, <1>7, <1>8, <1>9, <1>10, <1>11, <1>12, <1>13, <1>14, <1>15, <1>16, <1>17, <1>18, <1>19, <1>20, <1>21, <1>22, <1>23 DEF Next, Kernel, User

(* pipealloc leaves a pipe that satisfies the invariant.                   *)
LEMMA InitIInv == Init => IInv /\ NoLostWakeup
<1> SUFFICES ASSUME Init PROVE IInv /\ NoLostWakeup
  OBVIOUS
<1>1. TypeOK
  BY PipeAssumption DEF Init, TypeOK, PC
<1>2. Ring
  <2>1. 0 % UintMod = 0
    BY PipeAssumption
  <2>2. Len(sent) = 0 /\ Len(received) = 0
    BY DEF Init
  <2>3. writep = Len(sent) % UintMod /\ readp = Len(received) % UintMod
    BY <2>1, <2>2 DEF Init
  <2>4. 1 .. Len(received) = {} /\ Len(received) .. Len(sent) - 1 = {}
    BY <2>2
  <2>5. Len(received) <= Len(sent) /\ Len(sent) - Len(received) <= PIPESIZE
    BY <2>2, PipeAssumption
  <2> QED
    BY <2>3, <2>4, <2>5, Zenon DEF Ring
<1>3. LockHeld /\ EndsOpen /\ FreedClosed /\ Tested /\ NoLostWakeup
  BY PipeAssumption
     DEF Init, LockHeld, Holding, EndsOpen, FreedClosed, Tested, NoLostWakeup
<1> QED
  BY <1>1, <1>2, <1>3 DEF IInv

(* The invariant holds in every reachable state of the pipe.               *)
LEMMA Invariance == Spec => []IInv
<1>1. IInv /\ [Next]_vars => IInv'
  BY TypeStep, RingStep, LockStep, EndsStep, FreedStep, TestedStep DEF IInv
<1> QED
  BY InitIInv, <1>1, PTL DEF Spec

-----------------------------------------------------------------------------

(* The variables of the pipe keep their types; the indices stay uints.     *)
THEOREM TypeCorrect == Spec => []TypeOK
<1>1. IInv => TypeOK
  BY DEF IInv
<1> QED
  BY <1>1, Invariance, PTL

(* The pipe is a FIFO channel of PIPESIZE bytes: each step of pipewrite,   *)
(* piperead, pipeclose and kill is a Put, a Get or no step of it.          *)
THEOREM PipeIsFifo == Spec => Refinement
<1>1. Init => F!Init
  BY DEF Init, F!Init
<1>2. IInv /\ IInv' /\ [Next]_vars => [F!Next]_<<sent, received>>
  <2> SUFFICES ASSUME IInv, IInv', [Next]_vars PROVE [F!Next]_<<sent, received>>
    OBVIOUS
  <2>1. ASSUME NEW p \in Proc, NEW b \in Byte, WriteByte(p, b) PROVE F!Put(b)
    <3>1. sent' = Append(sent, b) /\ received' = received
      BY <2>1 DEF WriteByte
    <3>2. Len(sent') = Len(sent) + 1 /\ Len(sent) \in Nat /\ Len(received) \in Nat
      <4>1. sent \in Seq(Byte) /\ received \in Seq(Byte)
        BY DEF IInv, TypeOK
      <4> QED
        BY <3>1, <4>1
    <3>3. Len(sent') - Len(received') <= PIPESIZE
      BY DEF IInv, Ring
    <3>4. Len(sent) - Len(received) < PIPESIZE
      BY <3>1, <3>2, <3>3, PipeAssumption
    <3> QED
      BY <3>1, <3>4 DEF F!Put
  <2>2. ASSUME NEW p \in Proc, ReadByte(p) PROVE F!Get
    <3>1. sent' = sent /\ received' = Append(received, data[readp % PIPESIZE])
      BY <2>2 DEF ReadByte
    <3>2. Len(received') = Len(received) + 1 /\ Len(received) \in Nat /\ Len(sent) \in Nat
      <4>1. sent \in Seq(Byte) /\ received \in Seq(Byte)
        BY DEF IInv, TypeOK
      <4> QED
        BY <3>1, <4>1
    <3>3. Len(received') <= Len(sent') /\ \A k \in 1 .. Len(received') : received'[k] = sent'[k]
      BY Zenon DEF IInv, Ring
    <3>4. received'[Len(received) + 1] = data[readp % PIPESIZE]
      BY <3>1, <3>2 DEF IInv, TypeOK
    <3>5. received'[Len(received) + 1] = sent[Len(received) + 1]
      BY <3>1, <3>2, <3>3
    <3>6. Len(received) < Len(sent)
      BY <3>1, <3>2, <3>3
    <3> QED
      BY <3>1, <3>4, <3>5, <3>6 DEF F!Get
  <2>3. ASSUME UNCHANGED <<sent, received>> PROVE [F!Next]_<<sent, received>>
    BY <2>3
  <2> QED
    BY <2>1, <2>2, <2>3
       DEF Next, Kernel, User, vars, history, F!Next,
           WriteFails, WriteFull, WriteSleep, WriteResume, WriteDone,
           ReadFails, ReadEmpty, ReadSleep, ReadResume, ReadReady, ReadDone,
           CloseRelease, CloseTest, CloseFree, WriteBegin, ReadBegin,
           CloseShared, PipecloseWrite, PipecloseRead, Kill
<1> QED
  BY <1>1, <1>2, Invariance, PTL DEF Spec, Refinement, F!Spec

(* A read returns 0 only after the last byte and the last writer.          *)
THEOREM EofIsFinal == Spec => EofOnlyWhenClosed
<1>1. ASSUME IInv, NEW p \in Proc, ReadDone(p), n[p] > 0, i[p] = 0
      PROVE wfd = {} /\ received = sent
  <2>1. Empty /\ pc[p] = "r_loop"
    BY <1>1 DEF ReadDone
  <2>2. wfd = {}
    BY <1>1, <2>1 DEF IInv, Tested, EndsOpen
  <2> DEFINE s == Len(sent)
             r == Len(received)
             W == UintMod
  <2>3. s \in Nat /\ r \in Nat /\ r <= s /\ s - r <= PIPESIZE
    BY <1>1 DEF IInv, TypeOK, Ring
  <2>4. W \in Nat \ {0} /\ W > PIPESIZE /\ PIPESIZE \in Nat
    BY PipeAssumption
  <2>5. r % W = s % W
    BY <1>1, <2>1, Zenon DEF IInv, Ring, Empty
  <2>6. r = s
    <3> HIDE DEF s, r, W
    <3>1. ASSUME r < s PROVE FALSE
      <4>1. s - r < W
        BY <2>3, <2>4
      <4> QED
        BY <3>1, <4>1, <2>3, <2>4, <2>5, ModDiff
    <3> QED
      BY <3>1, <2>3
  <2>7. received = sent
    BY <1>1, <2>6 DEF IInv, TypeOK, Ring
  <2> QED
    BY <2>2, <2>7
<1>2. IInv /\ [Next]_vars =>
        [\A p \in Proc : ReadDone(p) /\ n[p] > 0 /\ i[p] = 0 => wfd = {} /\ received = sent]_vars
  BY <1>1
<1> QED
  BY <1>2, Invariance, PTL DEF Spec, EofOnlyWhenClosed

(* pipeclose does not free a pipe that a process has open.                 *)
THEOREM NotFreedWhileOpen == Spec => []OpenNotFreed
<1>1. IInv => OpenNotFreed
  BY DEF IInv, TypeOK, FreedClosed, OpenNotFreed
<1> QED
  BY <1>1, Invariance, PTL

(* As long as kill is not called, piperead and pipewrite lose no wakeup.   *)
THEOREM WakeupsSuffice == Spec => []NoLostWakeup
BY InitIInv, WakeStep, Invariance, PTL DEF Spec

=============================================================================
