------------------------------- MODULE MCFiles -------------------------------
(***************************************************************************)
(* Instances of the modules about files and lines: inodes and directories, *)
(* the blocks of files, the console's input and the shell's parser.  Each  *)
(* is explored by itself: which one is chosen at the start, and the        *)
(* variables of the others are 0.                                          *)
(***************************************************************************)
EXTENDS InodeDisk, TLC

CONSTANTS p1, p2

VARIABLES
    part,
    i_icache, i_dinode, i_dir, i_file, i_cwd, i_cp, i_ncalls, i_ncreates,
    b_disk, b_bitmap, b_inode, b_op, b_freeblock, b_calls, b_stopped, b_content, b_leaked,
    b_spoiled,
    c_buf, c_r, c_w, c_e, c_rhist, c_ehist, c_hist, c_histIndex, c_reader, c_killed, c_keys,
    c_eofs, c_empty, c_overrun,
    l_line

inodeVars == <<i_icache, i_dinode, i_dir, i_file, i_cwd, i_cp, i_ncalls, i_ncreates>>
blockVars == <<b_disk, b_bitmap, b_inode, b_op, b_freeblock, b_calls, b_stopped, b_content,
               b_leaked, b_spoiled>>
consoleVars == <<c_buf, c_r, c_w, c_e, c_rhist, c_ehist, c_hist, c_histIndex, c_reader,
                 c_killed, c_keys, c_eofs, c_empty, c_overrun>>

(* Two processes that make three calls, the busiest of which create a      *)
(* directory while the other walks through its parent.                     *)
Ino == INSTANCE Inode WITH
    Process <- {p1, p2}, NINODE <- 4, NFILE <- 1, Name <- MCName, Disk <- MCDisk,
    Calls <- MCCalls, MaxCalls <- 3, MaxCreates <- 1,
    icache <- i_icache, dinode <- i_dinode, dir <- i_dir, file <- i_file, cwd <- i_cwd,
    cp <- i_cp, ncalls <- i_ncalls, ncreates <- i_ncreates

(* Seven blocks for the files, which fill up: bmap can find none.          *)
Blk == INSTANCE Blocks WITH
    File <- {"root", "file"}, Root <- "root", NDIRECT <- 1, NPTR <- 2, NBLOCK <- 9, Meta <- 2,
    Counts <- {3}, Beyond <- {0, 1}, MaxImage <- 3, MaxCalls <- 3,
    disk <- b_disk, bitmap <- b_bitmap, inode <- b_inode, op <- b_op,
    freeblock <- b_freeblock, calls <- b_calls, stopped <- b_stopped,
    content <- b_content, leaked <- b_leaked, spoiled <- b_spoiled

(* The indices wrap within the first keys.                                 *)
Con == INSTANCE Console WITH
    Reader <- {"reader"}, INPUT_BUF <- 3, HISTMAX <- 2, WORD <- 12, Start <- 10,
    ReadSizes <- {1, 3}, MaxKeys <- 6,
    buf <- c_buf, r <- c_r, w <- c_w, e <- c_e, rhist <- c_rhist, ehist <- c_ehist,
    hist <- c_hist, histIndex <- c_histIndex, reader <- c_reader, killed <- c_killed,
    keys <- c_keys, eofs <- c_eofs, empty <- c_empty, overrun <- c_overrun

Parser == INSTANCE ShellParse WITH
    Chars <- {"a", " ", "<", ">", "|", "&", ";", "(", ")"}, MAXARGS <- 3, MaxLen <- 5,
    line <- l_line

ASSUME Ino!InodeAssumption /\ Blk!BlocksAssumption /\ Con!ConsoleAssumption

-----------------------------------------------------------------------------

InodeOff == /\ i_icache = 0 /\ i_dinode = 0 /\ i_dir = 0 /\ i_file = 0 /\ i_cwd = 0
            /\ i_cp = 0 /\ i_ncalls = 0 /\ i_ncreates = 0
BlocksOff == /\ b_disk = 0 /\ b_bitmap = 0 /\ b_inode = 0 /\ b_op = 0 /\ b_freeblock = 0
             /\ b_calls = 0 /\ b_stopped = 0 /\ b_content = 0 /\ b_leaked = 0 /\ b_spoiled = 0
ConsoleOff == /\ c_buf = 0 /\ c_r = 0 /\ c_w = 0 /\ c_e = 0 /\ c_rhist = 0 /\ c_ehist = 0
              /\ c_hist = 0 /\ c_histIndex = 0 /\ c_reader = 0 /\ c_killed = 0 /\ c_keys = 0
              /\ c_eofs = 0 /\ c_empty = 0 /\ c_overrun = 0
ParserOff == l_line = 0

Init ==
    \/ part = "inode" /\ Ino!Init /\ BlocksOff /\ ConsoleOff /\ ParserOff
    \/ part = "blocks" /\ Blk!Init /\ InodeOff /\ ConsoleOff /\ ParserOff
    \/ part = "console" /\ Con!Init /\ InodeOff /\ BlocksOff /\ ParserOff
    \/ part = "parser" /\ Parser!Init /\ InodeOff /\ BlocksOff /\ ConsoleOff

Next ==
    /\ UNCHANGED part
    /\ \/ part = "inode" /\ Ino!Next /\ UNCHANGED <<blockVars, consoleVars, l_line>>
       \/ part = "blocks" /\ Blk!Next /\ UNCHANGED <<inodeVars, consoleVars, l_line>>
       \/ part = "console" /\ Con!Next /\ UNCHANGED <<inodeVars, blockVars, l_line>>
       \/ part = "parser" /\ Parser!Next /\ UNCHANGED <<inodeVars, blockVars, consoleVars>>

Spec == Init /\ [][Next]_<<part, inodeVars, blockVars, consoleVars, l_line>>

Symmetry == Permutations({p1, p2})

-----------------------------------------------------------------------------
(* Properties: those of the modules, of the instance that was chosen, each *)
(* with the type invariant of its module.                                  *)

(* The reference count of a cached inode is the number of pointers to it,  *)
(* and an inode is in the cache once, so that its lock is one lock.        *)
RefCount == part = "inode" => Ino!TypeOK /\ Ino!RefCount /\ Ino!CachedOnce

(* What an open file, a current directory or an entry names is allocated,  *)
(* and the link count on disk covers every entry that names the inode.     *)
LinksCounted == part = "inode" => Ino!NamedAllocated /\ Ino!LinksCounted

(* The cached copy of an inode nobody has locked is what the disk holds.   *)
CacheCopies == part = "inode" => Ino!CacheCopies

(* Some process that is in a call can go on, only such hold locks, and     *)
(* none of the panics of fs.c and sysfile.c about inodes is reached.       *)
NoDeadlock == part = "inode" => Ino!NoDeadlock /\ Ino!NoPanic

(* A file at rest reads as what was last written to it.                    *)
ReadsBack == part = "blocks" => Blk!ReadsBack

(* Every block in use belongs to the file system, to one file or to a file *)
(* that itrunc has not freed whole, and a free block is all zero.          *)
BlocksAccounted == part = "blocks" => Blk!TypeOK /\ Blk!BlocksAccounted /\ Blk!FreeBlocksZero

(* The console's indices stay in order, and no reader sleeps while there   *)
(* is a line for it or while nothing more could be typed.                  *)
NoMissedInput == part = "console" => Con!TypeOK /\ Con!IndicesOrdered /\ Con!NoMissedInput

(* Every ^D ends one read.                                                 *)
EachEofOnce == part = "console" => Con!EachEofOnce

(* The console implements the line discipline of module Tty.               *)
LineDiscipline ==
    /\ part = "console" => Con!Discipline!Init
    /\ [][part = "console" =>
            Con!Discipline!Next \/ UNCHANGED Con!Discipline!vars \/ c_overrun']_consoleVars

(* sh.c parses a line as the grammar says, or panics if it does not parse, *)
(* and nulterminate ends every word of the command and cuts none short.    *)
ParsesByGrammar == part = "parser" => Parser!ParsesByGrammar /\ Parser!WordsTerminated

=============================================================================
