---------------------------------- MODULE Tty ----------------------------------
(***************************************************************************)
(* The line discipline console.c implements: keys edit a line, a newline,  *)
(* ^D or a full buffer hands the line over, readers take characters from   *)
(* the front of what has been handed over.                                 *)
(***************************************************************************)
EXTENDS Naturals, Sequences, SequencesExt

CONSTANTS Char, Size

VARIABLES ready, line

vars == <<ready, line>>

Init == ready = <<>> /\ line = <<>>

Type(c) ==
    /\ Len(ready) + Len(line) < Size
    /\ IF c # "x" \/ Len(ready) + Len(line) = Size - 1
       THEN ready' = ready \o Append(line, c) /\ line' = <<>>
       ELSE line' = Append(line, c) /\ UNCHANGED ready

(* Erase some of the line's end, and perhaps put a recalled text there.    *)
Edit ==
    /\ \E k \in 0 .. Len(line) : IsPrefix(SubSeq(line, 1, k), line')
    /\ line' \in Seq(Char) /\ Len(ready) + Len(line') <= Size
    /\ UNCHANGED ready

Read ==
    /\ IsSuffix(ready', ready)
    /\ UNCHANGED line

Next == (\E c \in Char : Type(c)) \/ Edit \/ Read

=============================================================================
