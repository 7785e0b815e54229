-------------------------------- MODULE Blocks --------------------------------
(***************************************************************************)
(* The blocks of files: balloc, bfree, bmap, itrunc, readi and writei of   *)
(* fs.c, on the image that mkfs.c writes.                                  *)
(*                                                                         *)
(* A block holds NPTR words: units of data, or block numbers.  Files are   *)
(* locked (ilock) for as long as an operation on them takes, but share the *)
(* bitmap; every balloc and bfree is a transaction of its own, at which    *)
(* operations on other files come in between.  Each is one step here.      *)
(***************************************************************************)
EXTENDS Naturals, Sequences, FiniteSets

CONSTANTS File, Root,
          NDIRECT, NPTR,
          NBLOCK,       \* blocks the bitmap has bits for
          Meta,         \* the first Meta blocks: boot, super, journal, inodes, bitmap
          Counts,       \* how much is written at a time
          Beyond,       \* what may lie behind addrs[] in the inode cache
          MaxImage,     \* bound on the size of a file mkfs writes
          MaxCalls      \* bound on the number of writes and removals

VARIABLES
    disk,       \* the words of each block
    bitmap,     \* the blocks marked in use
    inode,      \* live, size and addrs of each file
    op,         \* the operation under way on each file
    freeblock,  \* mkfs's next block; 0 once it is done
    calls, stopped,     \* calls so far; has the kernel panicked?
    content,    \* history: what each file should read as
    leaked,     \* history: blocks whose file is gone
    spoiled     \* history: itrunc has followed a word that is no address

vars == <<disk, bitmap, inode, op, freeblock, calls, stopped, content, leaked, spoiled>>

INDIRECT == NDIRECT
MAXFILE == NDIRECT + NPTR * NPTR
Block == 0 .. NBLOCK - 1
Word == 0 .. NPTR - 1
Zero == [i \in Word |-> 0]
NewInode == [live |-> TRUE, size |-> 0, addrs |-> [i \in 0 .. INDIRECT |-> 0]]
Idle == [k |-> "idle"]
Minimum(a, b) == IF a < b THEN a ELSE b

BlocksAssumption ==
    /\ Root \in File /\ NDIRECT \in Nat /\ NPTR \in Nat \ {0} /\ Meta \in 2 .. NBLOCK - 1
    /\ Beyond \subseteq {0, 1}

Init ==
    /\ disk = [b \in Block |-> Zero]
    /\ bitmap = {}
    /\ inode = [f \in File |-> NewInode]
    /\ op = [f \in File |-> Idle]
    /\ freeblock = Meta
    /\ calls = 0 /\ stopped = FALSE
    /\ content = [f \in File |-> <<>>]
    /\ leaked = {} /\ spoiled = FALSE

-----------------------------------------------------------------------------
(* bmap.  The pointer that leads to block bn of a file is in the inode, in *)
(* the indirect block, or in a block that one lists.                       *)

(* The last pointer on the way that is there, and 0 in it if it is not set *)
(* yet.  The place "inode" stands for the array of the inode.              *)
Way(d, addrs, bn) ==
    LET k == bn - NDIRECT
        one == addrs[INDIRECT]
        two == d[one][k \div NPTR]
    IN  IF bn < NDIRECT THEN [in |-> "inode", at |-> bn, to |-> addrs[bn]]
        ELSE IF one = 0 THEN [in |-> "inode", at |-> INDIRECT, to |-> 0]
        ELSE IF two = 0 THEN [in |-> "block", b |-> one, at |-> k \div NPTR, to |-> 0]
        ELSE [in |-> "block", b |-> two, at |-> k % NPTR, to |-> d[two][k % NPTR]]

SetPointer(d, addrs, bn, b) ==
    LET p == Way(d, addrs, bn)
    IN  IF p.in = "inode" THEN [disk |-> d, addrs |-> [addrs EXCEPT ![p.at] = b]]
        ELSE [disk |-> [d EXCEPT ![p.b][p.at] = b], addrs |-> addrs]

(* readi of one word: 0 where no block is mapped.                          *)
readi(f, off) ==
    LET b == Way(disk, inode[f].addrs, off \div NPTR).to
    IN  IF b = 0 THEN 0 ELSE disk[b][off % NPTR]

(* balloc: the first clear bit.                                            *)
FreeBlock == Block \ bitmap
balloc == CHOOSE b \in FreeBlock : \A c \in FreeBlock : b <= c

-----------------------------------------------------------------------------
(* mkfs: iappend one word after the other, then the bitmap.                *)

MkfsWord == 1

MkfsAppend(f) ==
    LET off == inode[f].size
        bn == off \div NPTR
        (* At most three blocks are taken to have the word mapped.         *)
        now[i \in 0 .. 3] ==
          IF i = 0 THEN [disk |-> disk, addrs |-> inode[f].addrs, free |-> freeblock]
          ELSE LET s == now[i - 1]
                   t == SetPointer(s.disk, s.addrs, bn, s.free)
               IN  IF Way(s.disk, s.addrs, bn).to # 0 THEN s
                   ELSE [disk |-> t.disk, addrs |-> t.addrs, free |-> s.free + 1]
        s == now[3]
        b == Way(s.disk, s.addrs, bn).to
    IN  /\ freeblock # 0 /\ off < MaxImage /\ s.free <= NBLOCK
        /\ disk' = [s.disk EXCEPT ![b][off % NPTR] = MkfsWord]
        /\ inode' = [inode EXCEPT ![f].addrs = s.addrs, ![f].size = off + 1]
        /\ freeblock' = s.free
        /\ content' = [content EXCEPT ![f] = Append(@, MkfsWord)]
        /\ UNCHANGED <<bitmap, op, calls, stopped, leaked, spoiled>>

(* The size of the root directory is rounded up.  An image whose root      *)
(* exactly fills its blocks is left out: its size would go one block past  *)
(* the last that is mapped.                                                *)
Used == 0 .. freeblock - 1
MkfsDone ==
    /\ freeblock # 0 /\ inode[Root].size % NPTR # 0
    /\ LET size == (inode[Root].size \div NPTR + 1) * NPTR
       IN  /\ inode' = [inode EXCEPT ![Root].size = size]
           /\ content' = [content EXCEPT ![Root] =
                            [i \in 1 .. size |-> IF i \in DOMAIN @ THEN @[i] ELSE 0]]
    /\ bitmap' = Used
    /\ freeblock' = 0
    /\ UNCHANGED <<disk, op, calls, stopped, leaked, spoiled>>

-----------------------------------------------------------------------------
(* The kernel.                                                             *)

Up == freeblock = 0 /\ ~stopped
Call(f) == Up /\ op[f] = Idle /\ inode[f].live /\ calls < MaxCalls /\ calls' = calls + 1

(* writei, from an offset within the file.  Each call writes a word no     *)
(* other has written.                                                      *)
Written == calls + 2
Clamp(off, n) == Minimum(n, MAXFILE * NPTR - off)
Write(f, off, n) ==
    /\ Call(f) /\ off <= inode[f].size /\ Clamp(off, n) > 0
    /\ op' = [op EXCEPT ![f] = [k |-> "write", off |-> off, left |-> Clamp(off, n), v |-> Written]]
    /\ content' = [content EXCEPT ![f] =
         [i \in 1 .. Len(@) + (IF off + Clamp(off, n) > Len(@) THEN off + Clamp(off, n) - Len(@) ELSE 0) |->
            IF off < i /\ i <= off + Clamp(off, n) THEN Written ELSE @[i]]]
    /\ UNCHANGED <<disk, bitmap, inode, freeblock, stopped, leaked, spoiled>>

Target(f) == Way(disk, inode[f].addrs, op[f].off \div NPTR)
Writing(f) == Up /\ op[f].k = "write"

(* bmap lacks a block, on the way or at its end.                           *)
WriteBalloc(f) ==
    /\ Writing(f) /\ Target(f).to = 0 /\ FreeBlock # {}
    /\ LET s == SetPointer(disk, inode[f].addrs, op[f].off \div NPTR, balloc)
       IN  disk' = s.disk /\ inode' = [inode EXCEPT ![f].addrs = s.addrs]
    /\ bitmap' = bitmap \cup {balloc}
    /\ UNCHANGED <<op, freeblock, calls, stopped, content, leaked, spoiled>>

BallocPanics(f) ==
    /\ Writing(f) /\ Target(f).to = 0 /\ FreeBlock = {}
    /\ stopped' = TRUE
    /\ UNCHANGED <<disk, bitmap, inode, op, freeblock, calls, content, leaked, spoiled>>

(* One round of the loop, and after the last the size.                     *)
MutantChunk(o) == o.left
Chunk(o) == Minimum(o.left, NPTR - (o.off % NPTR))
WriteBlock(f) ==
    LET o == op[f]
        m == Chunk(o)
    IN  /\ Writing(f) /\ Target(f).to # 0
        /\ disk' = [disk EXCEPT ![Target(f).to] =
                      [i \in Word |-> IF (o.off % NPTR) <= i /\ i < (o.off % NPTR) + m THEN o.v ELSE @[i]]]
        /\ IF o.left = m
           THEN /\ op' = [op EXCEPT ![f] = Idle]
                /\ inode' = IF o.off + m > inode[f].size
                            THEN [inode EXCEPT ![f].size = o.off + m] ELSE inode
           ELSE /\ op' = [op EXCEPT ![f].off = @ + m, ![f].left = @ - m]
                /\ UNCHANGED inode
        /\ UNCHANGED <<bitmap, freeblock, calls, stopped, content, leaked, spoiled>>

(* The last iput of a removed file: itrunc.                                *)
Remove(f) ==
    /\ Call(f) /\ f # Root
    /\ op' = [op EXCEPT ![f] = [k |-> "trunc", i |-> 0]]
    /\ UNCHANGED <<disk, bitmap, inode, freeblock, stopped, content, leaked, spoiled>>
Truncating(f) == Up /\ op[f].k = "trunc"

(* bfree of the blocks S, zeroed first.                                    *)
MutantZeroed(S) == disk
Zeroed(S) == [b \in Block |-> IF b \in S THEN Zero ELSE disk[b]]
Bfree(S) == disk' = Zeroed(S) /\ bitmap' = bitmap \ S

TruncFrees(a) == IF a = 0 THEN {} ELSE {a}
TruncDirect(f) ==
    /\ Truncating(f) /\ op[f].i < NDIRECT
    /\ Bfree(TruncFrees(inode[f].addrs[op[f].i]))
    /\ inode' = [inode EXCEPT ![f].addrs[op[f].i] = 0]
    /\ op' = [op EXCEPT ![f].i = @ + 1]
    /\ UNCHANGED <<freeblock, calls, stopped, content, leaked, spoiled>>

(* The blocks reached through the indirect block of f.                     *)
Listed(b) == IF b = 0 THEN {} ELSE {disk[b][i] : i \in Word}
ViaIndirect(f) ==
    LET one == inode[f].addrs[INDIRECT]
    IN  ({one} \cup Listed(one) \cup UNION {Listed(b) : b \in Listed(one)}) \ {0}

(* itrunc tests addrs[NDIRECT + 1], the word behind the array.  When it is *)
(* 0 the indirect blocks stay marked in use for good.                      *)
TruncLeaks(f) ==
    /\ Truncating(f) /\ op[f].i = NDIRECT /\ 0 \in Beyond
    /\ inode' = [inode EXCEPT ![f].live = FALSE, ![f].size = 0]
    /\ leaked' = leaked \cup ViaIndirect(f)
    /\ op' = [op EXCEPT ![f] = Idle]
    /\ UNCHANGED <<disk, bitmap, freeblock, calls, stopped, content, spoiled>>

(* When it is not (the device number of the next cached inode) that word   *)
(* is freed as a block, after every word listed in the blocks the indirect *)
(* block lists, set or not.                                                *)
TruncBeyond(f) ==
    LET one == inode[f].addrs[INDIRECT]
        twos == {disk[one][i] : i \in Word} \ {0}
    IN  /\ Truncating(f) /\ op[f].i = NDIRECT
        /\ \E over \in Beyond \ {0} :
             Bfree({over} \cup twos \cup UNION {{disk[b][i] : i \in Word} : b \in twos})
        /\ inode' = [inode EXCEPT ![f].live = FALSE, ![f].size = 0, ![f].addrs[INDIRECT] = 0]
        /\ spoiled' = TRUE /\ stopped' = TRUE
        /\ op' = [op EXCEPT ![f] = Idle]
        /\ UNCHANGED <<freeblock, calls, content, leaked>>

(* icreate clears the inode it takes.                                      *)
Create(f) ==
    /\ Up /\ op[f] = Idle /\ ~inode[f].live
    /\ inode' = [inode EXCEPT ![f] = NewInode]
    /\ content' = [content EXCEPT ![f] = <<>>]
    /\ UNCHANGED <<disk, bitmap, op, freeblock, calls, stopped, leaked, spoiled>>

Next ==
    \/ \E f \in File :
         \/ MkfsAppend(f)
         \/ \E off \in 0 .. MAXFILE * NPTR, n \in Counts : Write(f, off, n)
         \/ WriteBalloc(f) \/ BallocPanics(f) \/ WriteBlock(f)
         \/ Remove(f) \/ TruncDirect(f) \/ TruncLeaks(f) \/ TruncBeyond(f) \/ Create(f)
    \/ MkfsDone

Spec == Init /\ [][Next]_vars

-----------------------------------------------------------------------------
(* Properties.                                                             *)

TypeOK ==
    /\ DOMAIN disk = Block /\ bitmap \subseteq Block /\ leaked \subseteq Block
    /\ \A f \in File : inode[f].size \in 0 .. MAXFILE * NPTR
    /\ \A f \in File, i \in 0 .. INDIRECT : inode[f].addrs[i] \in Block
    /\ freeblock \in 0 .. NBLOCK /\ calls \in 0 .. MaxCalls

Sound == freeblock = 0 /\ ~spoiled
Live == {f \in File : inode[f].live}
Direct(f) == {inode[f].addrs[i] : i \in 0 .. NDIRECT - 1} \ {0}
Owned(f) == Direct(f) \cup ViaIndirect(f)

(* A file at rest reads as what was last written to it, through direct and *)
(* indirect blocks, whatever operations on other files came in between.    *)
ReadsBack ==
    Sound => \A f \in Live : op[f] = Idle =>
        /\ inode[f].size = Len(content[f])
        /\ \A i \in 1 .. inode[f].size : readi(f, i - 1) = content[f][i]

(* Every block in use belongs to the file system or to one file, or was    *)
(* leaked by itrunc from a file with indirect blocks, and every block of a *)
(* file is marked in use.                                                  *)
BlocksAccounted ==
    Sound => /\ bitmap = 0 .. Meta - 1 \cup UNION {Owned(f) : f \in Live} \cup leaked
             /\ \A f \in Live : Owned(f) \cap (0 .. Meta - 1 \cup leaked) = {}
             /\ \A f, g \in Live : f # g => Owned(f) \cap Owned(g) = {}

(* A free block is all zero.  balloc does not clear it, so a new indirect  *)
(* block is empty only because bfree, and mkfs before it, left it so.      *)
FreeBlocksZero == Sound => \A b \in FreeBlock : disk[b] = Zero

=============================================================================
