-------------------------------- MODULE Console --------------------------------
(***************************************************************************)
(* Console input: the ring buffer of console.c, with the keys that edit    *)
(* and recall lines (console_intr) and the processes that read them        *)
(* (console_read).  Both hold input.lock up to a sleep, so a handled key   *)
(* and a read up to its return or sleep are one step each.                 *)
(*                                                                         *)
(* Characters are an ordinary one, newline and ^D; ^P only prints, and the *)
(* echo on the screen is left out.                                         *)
(***************************************************************************)
EXTENDS Naturals, Sequences

CONSTANTS Reader,
          INPUT_BUF, HISTMAX,
          WORD,         \* uint arithmetic is modulo WORD, a multiple of INPUT_BUF
          Start,        \* where the indices are when the keys come in
          ReadSizes,    \* how many characters a read may ask for
          MaxKeys       \* bound on the number of keys

VARIABLES
    buf, r, w, e,                   \* input
    rhist, ehist, hist, histIndex,  \* the line history
    reader,     \* where each reader is: n and target of its read
    killed,
    keys,       \* number of keys so far
    eofs, empty,    \* history: ^Ds handed over, reads that returned 0
    overrun     \* history: a recalled line was stored beyond the ring

input == <<buf, r, w, e>>
history == <<rhist, ehist, hist, histIndex>>
vars == <<input, history, reader, killed, keys, eofs, empty, overrun>>

Char == {"x", "nl", "eof"}
Plus(i, k) == (i + k) % WORD
Minus(i, k) == (i + WORD - k) % WORD
At(b, i) == b[i % INPUT_BUF]
Store(b, i, c) == [b EXCEPT ![i % INPUT_BUF] = c]
Less(S) == CHOOSE k \in S : \A m \in S : k <= m
Idle == [pc |-> "idle", n |-> 0, target |-> 0]

ConsoleAssumption ==
    /\ INPUT_BUF \in Nat \ {0} /\ HISTMAX \in Nat \ {0}
    /\ WORD % INPUT_BUF = 0 /\ WORD > 2 * INPUT_BUF /\ Start \in 0 .. WORD - 1

Init ==
    /\ buf = [i \in 0 .. INPUT_BUF - 1 |-> "x"]
    /\ r = Start /\ w = Start /\ e = Start
    /\ rhist = [i \in 0 .. HISTMAX - 1 |-> WORD - 1]
    /\ ehist = [i \in 0 .. HISTMAX - 1 |-> 0]
    /\ hist = 0 /\ histIndex = 0
    /\ reader = [p \in Reader |-> Idle] /\ killed = [p \in Reader |-> FALSE]
    /\ keys = 0 /\ eofs = 0 /\ empty = 0 /\ overrun = FALSE

-----------------------------------------------------------------------------
(* console_intr, one key.                                                  *)

(* The characters of b from index i up to index j.                         *)
Text(b, i, j) == [k \in 1 .. Minus(j, i) |-> At(b, Plus(i, k - 1))]

(* ^U: the edit index after the loop, back to w or to just after a newline.*)
KillLine ==
    Minus(e, Less({k \in 0 .. Minus(e, w) : k = Minus(e, w) \/ At(buf, Minus(e, k + 1)) = "nl"}))

Wake(q) == [p \in Reader |-> IF q[p].pc = "asleep" THEN [q[p] EXCEPT !.pc = "awake"] ELSE q[p]]

Key == keys < MaxKeys /\ keys' = keys + 1

Erase ==
    /\ Key
    /\ \/ e' = KillLine
       \/ e # w /\ e' = Minus(e, 1)
    /\ UNCHANGED <<buf, r, w, history, reader, killed, eofs, empty, overrun>>

MutantRoom == Minus(e, r) <= INPUT_BUF
Room == Minus(e, r) < INPUT_BUF
MutantHandOver(c) == c \in {"nl", "eof"}
HandOver(c) == c \in {"nl", "eof"} \/ Plus(e, 1) = Plus(r, INPUT_BUF)

Type(c) ==
    /\ Key /\ Room
    /\ buf' = Store(buf, e, c)
    /\ e' = Plus(e, 1)
    /\ IF HandOver(c)
       THEN /\ w' = e'
            /\ rhist' = [rhist EXCEPT ![hist % HISTMAX] = r]
            /\ ehist' = [ehist EXCEPT ![hist % HISTMAX] = e']
            /\ hist' = hist + 1
            /\ histIndex' = hist' % HISTMAX
            /\ reader' = Wake(reader)
            /\ eofs' = eofs + Len(SelectSeq(Text(buf', w, e'), LAMBDA d : d = "eof"))
       ELSE UNCHANGED <<w, history, reader, eofs>>
    /\ UNCHANGED <<r, killed, empty, overrun>>

(* The loop that copies line h of the history to index i, one character    *)
(* after the other.                                                        *)
Recalled(h) == IF rhist[h] < Minus(ehist[h], 1) THEN Minus(ehist[h], 1) - rhist[h] ELSE 0
Copy(i, h) ==
    LET after[y \in 0 .. Recalled(h)] ==
          IF y = 0 THEN buf
          ELSE Store(after[y - 1], i + y - 1, At(after[y - 1], rhist[h] + y - 1))
    IN  after[Recalled(h)]

Recall(i, h) ==
    /\ buf' = Copy(i, h)
    /\ e' = Plus(i, Recalled(h))
    /\ overrun' = (overrun \/ Minus(i, r) + Recalled(h) > INPUT_BUF)
    /\ UNCHANGED <<r, w>>

(* The test of rhist against 0 is always true of a uint.                   *)
Up ==
    /\ Key /\ hist # 0
    /\ histIndex' = IF histIndex = 0 THEN HISTMAX - 1 ELSE histIndex - 1
    /\ Recall(KillLine, histIndex')
    /\ UNCHANGED <<rhist, ehist, hist, reader, killed, eofs, empty>>

Down ==
    LET h == IF histIndex + 1 >= HISTMAX THEN 0 ELSE histIndex + 1
    IN  /\ Key
        /\ \/ /\ hist % HISTMAX # h
              /\ Recall(KillLine, h)
              /\ histIndex' = h
           \/ /\ hist % HISTMAX = h
              /\ e' = KillLine
              /\ UNCHANGED <<buf, r, w, histIndex, overrun>>
        /\ UNCHANGED <<rhist, ehist, hist, reader, killed, eofs, empty>>

-----------------------------------------------------------------------------
(* console_read.                                                           *)

(* What a read that wants n of target characters takes now: how many, and  *)
(* whether it returns.  ^D is left for the next read if this one has       *)
(* something to return.                                                    *)
MutantTaken(n, target) ==
    LET avail == Minus(w, r)
        stops == {i \in 1 .. n : i <= avail /\ At(buf, r + i - 1) # "x"}
    IN  IF stops # {} THEN [take |-> Less(stops), got |-> Less(stops), ret |-> TRUE]
        ELSE IF avail >= n THEN [take |-> n, got |-> n, ret |-> TRUE]
        ELSE [take |-> avail, got |-> avail, ret |-> FALSE]
Taken(n, target) ==
    LET avail == Minus(w, r)
        stops == {i \in 1 .. n : i <= avail /\ At(buf, r + i - 1) # "x"}
        stop == Less(stops)
    IN  IF stops # {} /\ At(buf, r + stop - 1) = "nl"
        THEN [take |-> stop, got |-> stop, ret |-> TRUE]
        ELSE IF stops # {}
        THEN [take |-> IF n - (stop - 1) < target THEN stop - 1 ELSE stop,
              got |-> stop - 1, ret |-> TRUE]
        ELSE [take |-> IF avail < n THEN avail ELSE n,
              got |-> IF avail < n THEN avail ELSE n, ret |-> avail >= n]

(* A read goes on from the top of its inner loop.                          *)
Go(p, n, target) ==
    /\ LET t == Taken(n, target)
       IN  /\ r' = Plus(r, t.take)
           /\ IF t.ret
              THEN /\ reader' = [reader EXCEPT ![p] = Idle]
                   /\ empty' = IF t.got = 0 /\ n = target THEN empty + 1 ELSE empty
              ELSE /\ reader' = [reader EXCEPT ![p] = [pc |-> "asleep", n |-> n - t.got,
                                                       target |-> target]]
                   /\ UNCHANGED empty
    /\ UNCHANGED <<buf, w, e, history, killed, keys, eofs, overrun>>

Read(p) ==
    /\ reader[p] = Idle /\ ~killed[p]
    /\ \E n \in ReadSizes : Go(p, n, n)

Resume(p) ==
    /\ reader[p].pc = "awake"
    /\ ~(r = w /\ killed[p])
    /\ Go(p, reader[p].n, reader[p].target)

(* Killed with nothing to read: -1.                                        *)
Fail(p) ==
    /\ reader[p].pc = "awake" /\ r = w /\ killed[p]
    /\ reader' = [reader EXCEPT ![p] = Idle]
    /\ UNCHANGED <<input, history, killed, keys, eofs, empty, overrun>>

Kill(p) ==
    /\ ~killed[p] /\ reader[p] # Idle
    /\ killed' = [killed EXCEPT ![p] = TRUE]
    /\ reader' = [reader EXCEPT ![p].pc = "awake"]
    /\ UNCHANGED <<input, history, keys, eofs, empty, overrun>>

(* A killed process exits on its way back; another one comes to read.      *)
Exit(p) ==
    /\ reader[p] = Idle /\ killed[p]
    /\ killed' = [killed EXCEPT ![p] = FALSE]
    /\ UNCHANGED <<input, history, reader, keys, eofs, empty, overrun>>

Next ==
    \/ Erase \/ Up \/ Down
    \/ \E c \in Char : Type(c)
    \/ \E p \in Reader : Read(p) \/ Resume(p) \/ Fail(p) \/ Kill(p) \/ Exit(p)

Spec == Init /\ [][Next]_vars

-----------------------------------------------------------------------------
(* Properties.                                                             *)

TypeOK ==
    /\ buf \in [0 .. INPUT_BUF - 1 -> Char]
    /\ {r, w, e} \subseteq 0 .. WORD - 1
    /\ rhist \in [0 .. HISTMAX - 1 -> 0 .. WORD - 1] /\ ehist \in [0 .. HISTMAX - 1 -> 0 .. WORD - 1]
    /\ histIndex \in 0 .. HISTMAX - 1

(* Readers find only lines that were handed over, and the edited line is   *)
(* kept apart from them: in the circular order the indices are r, w, e,    *)
(* and what is handed over fits the ring, also when the indices wrap.      *)
IndicesOrdered == Minus(w, r) <= Minus(e, r) /\ Minus(w, r) <= INPUT_BUF

(* A reader never sleeps while there is something to read, nor while the   *)
(* ring is full: a line longer than the ring is handed over in pieces, or  *)
(* nothing more could be typed and nothing read.                           *)
NoMissedInput ==
    \A p \in Reader : reader[p].pc = "asleep" => r = w /\ (Room \/ overrun)

(* Every ^D that was handed over ends exactly one read with 0 characters,  *)
(* or is still there to do so.                                             *)
EachEofOnce == ~overrun => empty + Len(SelectSeq(Text(buf, r, w), LAMBDA d : d = "eof")) = eofs

Discipline == INSTANCE Tty WITH Size <- INPUT_BUF,
    ready <- Text(buf, r, w), line <- Text(buf, w, e)

(* Editing touches the edited line only, reads take from the front, and    *)
(* nothing typed is lost or reordered, as long as no recalled line was     *)
(* longer than the ring had room for (which the arrow keys do not test).   *)
LineDiscipline == Discipline!Init /\ [][Discipline!Next \/ overrun']_vars

=============================================================================
