------------------------------- MODULE Inode -------------------------------
(***************************************************************************)
(* Inodes and names: the inode cache and the directories of fs.c, and the  *)
(* system calls of sysfile.c that open, make, link and remove files.       *)
(*                                                                         *)
(* The disk is what the buffer cache shows of it (module Journal): an      *)
(* inode is its type and its number of links, a directory a function from  *)
(* names to inode numbers.  Both change only under the lock of the inode,  *)
(* except in icreate, which finds and takes a free inode in one step.      *)
(* There is a step for each time a process takes icache.lock or I_BUSY;    *)
(* what it does in between with an inode it has locked belongs to it.      *)
(* dirlink gets and puts the inode of a name that exists: no step, since   *)
(* the entry keeps a link (LinksCounted) and iput then only counts down.   *)
(* A panic stops the process here, the machine in the code.                *)
(***************************************************************************)
EXTENDS Integers, FiniteSets, FiniteSetsExt, Sequences

CONSTANTS
    Process,
    NINODE,      \* inodes on disk, and slots of the cache: iget finds one
    NFILE,       \* struct file
    Name,        \* names in directories, "." and ".." included
    Disk,        \* the disk at the start: inode number -> type, links, entries
    Calls,       \* system calls programs make: [op, path, new]
    MaxCalls,    \* bound: number of calls
    MaxCreates   \* bound: number of inodes made

None == 0
Slot == 1 .. NINODE
Inum == 1 .. NINODE
File == 1 .. NFILE
Root == 1
Nothing == [n \in Name |-> 0]       \* the contents of an empty inode

Makes == {"create", "mkdir", "mknod"}
TypeOf(op) == CASE op = "mkdir" -> "DIR" [] op = "mknod" -> "DEV" [] OTHER -> "FILE"
Parent(c) == c.op \in Makes \cup {"unlink"}    \* starts with nameiparent

InodeAssumption ==
    /\ NINODE \in Nat \ {0} /\ NFILE \in Nat /\ MaxCalls \in Nat /\ MaxCreates \in Nat
    /\ {".", ".."} \subseteq Name
    /\ Disk \in [Inum -> [type : {"FREE", "FILE", "DIR", "DEV"}, nlink : Nat,
                          dir : [Name -> Inum \cup {0}]]]
    /\ Disk[Root].type = "DIR"

VARIABLES
    icache,    \* struct inode; busy is the process that has set I_BUSY
    dinode,    \* type and nlink of struct dinode
    dir,       \* contents of the directories
    file,      \* the inode of each struct file
    cwd,
    cp,        \* place and locals of each process in a call
    ncalls, ncreates

vars == <<icache, dinode, dir, file, cwd, cp, ncalls, ncreates>>
disk == <<dinode, dir>>
counts == <<ncalls, ncreates>>

(* Locals: at is ip of _namei, put the argument of iput, ret where to go   *)
(* after it, ino the inode icreate has taken.                              *)
Idle == [pc |-> "user", op |-> "", path |-> <<>>, new |-> <<>>, par |-> FALSE,
         at |-> None, ip |-> None, dp |-> None, put |-> None, ret |-> "", ino |-> 0]

Init ==
    /\ dinode = [i \in Inum |-> [type |-> Disk[i].type, nlink |-> Disk[i].nlink]]
    /\ dir = [i \in Inum |-> Disk[i].dir]
    /\ icache = [s \in Slot |->
                   [inum |-> IF s = 1 THEN Root ELSE 0,
                    ref |-> IF s = 1 THEN Cardinality(Process) ELSE 0,
                    busy |-> None, valid |-> FALSE, type |-> "FREE", nlink |-> 0]]
    /\ file = [f \in File |-> None]
    /\ cwd = [p \in Process |-> 1]
    /\ cp = [p \in Process |-> Idle]
    /\ ncalls = 0 /\ ncreates = 0

-----------------------------------------------------------------------------
(* The inode cache: iget, ilock, iunlock, iput.                            *)

Cached(ic, i) == {s \in Slot : ic[s].ref > 0 /\ ic[s].inum = i}
IgetSlot(ic, i) ==
    IF Cached(ic, i) # {} THEN Min(Cached(ic, i)) ELSE Min({s \in Slot : ic[s].ref = 0})

(* The cache after iget(i).                                                *)
MutantIget(ic, i) ==
    [ic EXCEPT ![IgetSlot(ic, i)] =
       IF Cached(ic, i) # {} THEN @
       ELSE [@ EXCEPT !.inum = i, !.ref = 1, !.busy = None, !.valid = FALSE]]
Iget(ic, i) ==
    [ic EXCEPT ![IgetSlot(ic, i)] =
       IF Cached(ic, i) # {} THEN [@ EXCEPT !.ref = @ + 1]
       ELSE [@ EXCEPT !.inum = i, !.ref = 1, !.busy = None, !.valid = FALSE]]

Unlocked(ic, s) == [ic EXCEPT ![s].busy = None]

(* ilock(s) waits for the lock and reads the inode if the cache has not,   *)
(* then p goes on at l.                                                    *)
Ilock(p, s, l) ==
    LET d == dinode[icache[s].inum]
        c == IF icache[s].valid THEN icache[s]
             ELSE [icache[s] EXCEPT !.valid = TRUE, !.type = d.type, !.nlink = d.nlink]
    IN  /\ icache[s].busy = None
        /\ icache' = [icache EXCEPT ![s] = [c EXCEPT !.busy = p]]
        /\ cp' = [cp EXCEPT ![p].pc = IF ~icache[s].valid /\ c.type = "FREE" THEN "panic" ELSE l]
        /\ UNCHANGED <<disk, file, cwd, counts>>

(* p, in state r, calls iput(s) and goes on at l.                          *)
Putting(r, s, l) == [r EXCEPT !.pc = "iput", !.put = s, !.ret = l]

(* The last pointer to an inode without links frees it.                    *)
MutantLast(c) == c.ref = 1 /\ c.valid
Last(c) == c.ref = 1 /\ c.valid /\ c.nlink = 0

Resume(p) ==
    cp' = [cp EXCEPT ![p] = IF cp[p].ret = "user" THEN Idle
                            ELSE [cp[p] EXCEPT !.pc = cp[p].ret, !.put = None, !.ret = ""]]

Iput(p) ==
    LET s == cp[p].put
    IN  /\ cp[p].pc = "iput"
        /\ IF Last(icache[s])
           THEN IF icache[s].busy # None
                THEN cp' = [cp EXCEPT ![p].pc = "panic"] /\ UNCHANGED icache
                ELSE /\ icache' = [icache EXCEPT ![s].busy = p]
                     /\ cp' = [cp EXCEPT ![p].pc = "iput_free"]
           ELSE icache' = [icache EXCEPT ![s].ref = @ - 1] /\ Resume(p)
        /\ UNCHANGED <<disk, file, cwd, counts>>

(* itrunc, type = 0, iupdate.                                              *)
IputFree(p) ==
    LET s == cp[p].put
    IN  /\ cp[p].pc = "iput_free"
        /\ icache' = [icache EXCEPT ![s].type = "FREE"]
        /\ dinode' = [dinode EXCEPT ![icache[s].inum] = [type |-> "FREE", nlink |-> icache[s].nlink]]
        /\ dir' = [dir EXCEPT ![icache[s].inum] = Nothing]
        /\ cp' = [cp EXCEPT ![p].pc = "iput_done"]
        /\ UNCHANGED <<file, cwd, counts>>

IputDone(p) ==
    /\ cp[p].pc = "iput_done"
    /\ icache' = [icache EXCEPT ![cp[p].put].busy = None, ![cp[p].put].ref = @ - 1]
    /\ Resume(p)
    /\ UNCHANGED <<disk, file, cwd, counts>>

(* iunlockput(s), then l, for a process in state r.                        *)
Iunlockput(p, r, s, l) ==
    /\ icache' = Unlocked(icache, s)
    /\ cp' = [cp EXCEPT ![p] = Putting(r, s, l)]
    /\ UNCHANGED <<disk, file, cwd, counts>>

(* The cache and the disk after iupdate of an inode whose nlink is now k.  *)
MutantIupdate(s, k) == dinode
Iupdate(s, k) == [dinode EXCEPT ![icache[s].inum] = [type |-> icache[s].type, nlink |-> k]]
SetNlink(s, k) == [icache EXCEPT ![s].nlink = k]

-----------------------------------------------------------------------------
(* _namei.                                                                 *)

Absolute(path) == path[1] = "/"
Names(path) == IF Absolute(path) THEN Tail(path) ELSE path

(* iget of the root or idup(cp->cwd).                                      *)
Namei(p, r, path, par) ==
    LET s == IF Absolute(path) THEN IgetSlot(icache, Root) ELSE cwd[p]
    IN  /\ icache' = IF Absolute(path) THEN Iget(icache, Root)
                     ELSE [icache EXCEPT ![s].ref = @ + 1]
        /\ cp' = [cp EXCEPT ![p] = [r EXCEPT !.pc = "walk", !.path = Names(path), !.par = par,
                                             !.at = s]]

Begin(p, c) ==
    /\ cp[p].pc = "user" /\ ncalls < MaxCalls
    /\ c.op \in Makes => ncreates < MaxCreates
    /\ Namei(p, [Idle EXCEPT !.op = c.op, !.new = c.new], c.path, Parent(c))
    /\ ncalls' = ncalls + 1
    /\ ncreates' = IF c.op \in Makes THEN ncreates + 1 ELSE ncreates
    /\ UNCHANGED <<disk, file, cwd>>

(* Where _namei goes when it finds nothing: only link has more to undo.    *)
NotFound(p) == IF cp[p].op = "link" /\ cp[p].ip # None THEN "l_bad" ELSE "user"

(* The end of the path: nameiparent("/") finds nothing.                    *)
WalkEnd(p) ==
    /\ cp[p].pc = "walk" /\ cp[p].path = <<>>
    /\ cp' = [cp EXCEPT ![p] =
                IF @.par THEN Putting([@ EXCEPT !.at = None], cp[p].at, NotFound(p))
                ELSE [@ EXCEPT !.pc = "lock_ip", !.ip = cp[p].at, !.at = None]]
    /\ UNCHANGED <<icache, disk, file, cwd, counts>>

WalkLock(p) ==
    /\ cp[p].pc = "walk" /\ cp[p].path # <<>>
    /\ Ilock(p, cp[p].at, "walk_locked")

Entry(s, n) == dir[icache[s].inum][n]

WalkFails(p) ==
    LET s == cp[p].at
    IN  /\ cp[p].pc = "walk_locked"
        /\ \/ icache[s].type # "DIR"
           \/ ~(cp[p].par /\ Len(cp[p].path) = 1) /\ Entry(s, Head(cp[p].path)) = 0
        /\ Iunlockput(p, [cp[p] EXCEPT !.at = None], s, NotFound(p))

MutantWalkParent(p) ==
    LET s == cp[p].at
    IN  /\ cp[p].pc = "walk_locked" /\ icache[s].type = "DIR"
        /\ cp[p].par /\ Len(cp[p].path) = 1
        /\ cp' = [cp EXCEPT ![p].pc = "lock_dp", ![p].dp = s, ![p].at = None]
        /\ UNCHANGED <<icache, disk, file, cwd, counts>>
WalkParent(p) ==
    LET s == cp[p].at
    IN  /\ cp[p].pc = "walk_locked" /\ icache[s].type = "DIR"
        /\ cp[p].par /\ Len(cp[p].path) = 1
        /\ icache' = Unlocked(icache, s)
        /\ cp' = [cp EXCEPT ![p].pc = "lock_dp", ![p].dp = s, ![p].at = None]
        /\ UNCHANGED <<disk, file, cwd, counts>>

(* iget of the entry, iunlockput of the directory.                         *)
WalkNext(p) ==
    LET s == cp[p].at
        i == Entry(s, Head(cp[p].path))
    IN  /\ cp[p].pc = "walk_locked" /\ icache[s].type = "DIR" /\ i # 0
        /\ ~(cp[p].par /\ Len(cp[p].path) = 1)
        /\ icache' = Unlocked(Iget(icache, i), s)
        /\ cp' = [cp EXCEPT ![p] = Putting([@ EXCEPT !.at = IgetSlot(icache, i), !.path = Tail(@)],
                                           s, "walk")]
        /\ UNCHANGED <<disk, file, cwd, counts>>

(* Every call then locks the inode or the directory it has found.          *)
LockIp(p) ==
    /\ cp[p].pc = "lock_ip"
    /\ Ilock(p, cp[p].ip, CASE cp[p].op = "link" -> "l_inc" [] cp[p].op = "chdir" -> "d_test"
                            [] OTHER -> "o_test")

LockDp(p) ==
    /\ cp[p].pc = "lock_dp"
    /\ Ilock(p, cp[p].dp, CASE cp[p].op = "link" -> "l_link" [] cp[p].op = "unlink" -> "u_look"
                            [] OTHER -> "c_look")

-----------------------------------------------------------------------------
(* create, for sys_open, sys_mkdir and sys_mknod.                          *)

Target(p) == Entry(cp[p].dp, cp[p].path[1])      \* dirlookup(dp, name)

CreateFound(p) ==
    /\ cp[p].pc = "c_look" /\ cp[p].op = "create" /\ Target(p) # 0
    /\ icache' = Unlocked(Iget(icache, Target(p)), cp[p].dp)
    /\ cp' = [cp EXCEPT ![p] =
                Putting([@ EXCEPT !.ip = IgetSlot(icache, Target(p)), !.dp = None], cp[p].dp, "c_ilock")]
    /\ UNCHANGED <<disk, file, cwd, counts>>

(* icreate takes the first free inode on disk, iget caches it.             *)
Icreate(p) ==
    /\ cp[p].pc = "c_look" /\ ~(cp[p].op = "create" /\ Target(p) # 0)
    /\ LET Free == {i \in Inum : dinode[i].type = "FREE"}
       IN  IF Free = {} THEN cp' = [cp EXCEPT ![p].pc = "panic"] /\ UNCHANGED dinode
           ELSE /\ dinode' = [dinode EXCEPT ![Min(Free)] = [type |-> TypeOf(cp[p].op), nlink |-> 1]]
                /\ cp' = [cp EXCEPT ![p].pc = "c_iget", ![p].ino = Min(Free)]
    /\ UNCHANGED <<icache, dir, file, cwd, counts>>

CreateIget(p) ==
    /\ cp[p].pc = "c_iget"
    /\ icache' = Iget(icache, cp[p].ino)
    /\ cp' = [cp EXCEPT ![p].pc = "c_ilock", ![p].ip = IgetSlot(icache, cp[p].ino)]
    /\ UNCHANGED <<disk, file, cwd, counts>>

CreateIlock(p) ==
    /\ cp[p].pc = "c_ilock"
    /\ Ilock(p, cp[p].ip, IF cp[p].ino = 0 THEN "c_test" ELSE "c_link")

CreateTest(p) ==
    /\ cp[p].pc = "c_test"
    /\ IF icache[cp[p].ip].type = "FILE"
       THEN cp' = [cp EXCEPT ![p].pc = "o_file"] /\ UNCHANGED <<icache, disk, file, cwd, counts>>
       ELSE Iunlockput(p, [cp[p] EXCEPT !.ip = None], cp[p].ip, "user")

(* nlink = 1, iupdate, dirlink: the name exists, and the inode goes again. *)
CreateExists(p) ==
    LET s == cp[p].ip
    IN  /\ cp[p].pc = "c_link" /\ Target(p) # 0
        /\ dinode' = Iupdate(s, 1)
        /\ icache' = Unlocked(SetNlink(s, 0), s)
        /\ cp' = [cp EXCEPT ![p] = Putting([@ EXCEPT !.ip = None], s, "undo")]
        /\ UNCHANGED <<dir, file, cwd, counts>>

Undo(p) ==
    /\ cp[p].pc = "undo"
    /\ Iunlockput(p, [cp[p] EXCEPT !.dp = None], cp[p].dp, "user")

(* The name is new.  A directory gets "." and "..", which counts as a link *)
(* to the parent; dirlink of "." panics in what is not a directory.        *)
CreateLink(p) ==
    LET s == cp[p].ip
        d == cp[p].dp
        i == icache[s].inum
        mkdir == cp[p].op = "mkdir"
        up == icache[d].nlink + (IF mkdir THEN 1 ELSE 0)
    IN  /\ cp[p].pc = "c_link" /\ Target(p) = 0
        /\ icache' = [icache EXCEPT ![s].nlink = 1, ![d].nlink = up, ![d].busy = None]
        /\ dinode' = [Iupdate(s, 1) EXCEPT ![icache[d].inum] = [type |-> icache[d].type, nlink |-> up]]
        /\ dir' = [dir EXCEPT
                     ![icache[d].inum][cp[p].path[1]] = i,
                     ![i] = IF mkdir THEN [@ EXCEPT !["."] = i, ![".."] = icache[d].inum] ELSE @]
        /\ cp' = [cp EXCEPT ![p] =
                    IF mkdir /\ icache[s].type # "DIR" THEN [@ EXCEPT !.pc = "panic"]
                    ELSE Putting([@ EXCEPT !.dp = None, !.ino = 0], d,
                                 IF cp[p].op = "create" THEN "o_file" ELSE "c_done")]
        /\ UNCHANGED <<file, cwd, counts>>

(* sys_mkdir unlocks the inode that create returns locked, sys_mknod does  *)
(* not.                                                                    *)
CreateDone(p) ==
    LET s == cp[p].ip
    IN  /\ cp[p].pc = "c_done"
        /\ icache' = IF cp[p].op = "mkdir" THEN Unlocked(icache, s) ELSE icache
        /\ cp' = [cp EXCEPT ![p] = Putting([@ EXCEPT !.ip = None], s, "user")]
        /\ UNCHANGED <<disk, file, cwd, counts>>

-----------------------------------------------------------------------------
(* sys_open, sys_close, sys_chdir.                                         *)

OpenTest(p) ==
    /\ cp[p].pc = "o_test"
    /\ IF cp[p].op = "openw" /\ icache[cp[p].ip].type = "DIR"
       THEN Iunlockput(p, [cp[p] EXCEPT !.ip = None], cp[p].ip, "user")
       ELSE cp' = [cp EXCEPT ![p].pc = "o_file"] /\ UNCHANGED <<icache, disk, file, cwd, counts>>

(* filealloc finds a struct file, or not.                                  *)
OpenFile(p) ==
    /\ cp[p].pc = "o_file"
    /\ \E f \in File : /\ file[f] = None /\ \A g \in 1 .. f - 1 : file[g] # None
                       /\ file' = [file EXCEPT ![f] = cp[p].ip]
    /\ icache' = Unlocked(icache, cp[p].ip)
    /\ cp' = [cp EXCEPT ![p] = Idle]
    /\ UNCHANGED <<disk, cwd, counts>>

OpenFails(p) ==
    /\ cp[p].pc = "o_file" /\ \A f \in File : file[f] # None
    /\ Iunlockput(p, [cp[p] EXCEPT !.ip = None], cp[p].ip, "user")

(* The last fileclose of f, by whichever process.                          *)
Close(p, f) ==
    /\ cp[p].pc = "user" /\ file[f] # None
    /\ file' = [file EXCEPT ![f] = None]
    /\ cp' = [cp EXCEPT ![p] = Putting(@, file[f], "user")]
    /\ UNCHANGED <<icache, disk, cwd, counts>>

Chdir(p) ==
    LET s == cp[p].ip
    IN  /\ cp[p].pc = "d_test"
        /\ icache' = Unlocked(icache, s)
        /\ IF icache[s].type = "DIR"
           THEN /\ cwd' = [cwd EXCEPT ![p] = s]
                /\ cp' = [cp EXCEPT ![p] = Putting([@ EXCEPT !.ip = None], cwd[p], "user")]
           ELSE /\ cp' = [cp EXCEPT ![p] = Putting([@ EXCEPT !.ip = None], s, "user")]
                /\ UNCHANGED cwd
        /\ UNCHANGED <<disk, file, counts>>

-----------------------------------------------------------------------------
(* sys_link and sys_unlink.                                                *)

LinkInc(p) ==
    LET s == cp[p].ip
    IN  /\ cp[p].pc = "l_inc" /\ icache[s].type # "DIR"
        /\ dinode' = Iupdate(s, icache[s].nlink + 1)
        /\ icache' = Unlocked(SetNlink(s, icache[s].nlink + 1), s)
        /\ cp' = [cp EXCEPT ![p].pc = "l_namei"]
        /\ UNCHANGED <<dir, file, cwd, counts>>

LinkDir(p) ==
    /\ cp[p].pc = "l_inc" /\ icache[cp[p].ip].type = "DIR"
    /\ Iunlockput(p, [cp[p] EXCEPT !.ip = None], cp[p].ip, "user")

LinkNamei(p) ==
    /\ cp[p].pc = "l_namei"
    /\ Namei(p, cp[p], cp[p].new, TRUE)
    /\ UNCHANGED <<disk, file, cwd, counts>>

(* dirlink: the name is taken, or it is entered.                           *)
LinkExists(p) ==
    /\ cp[p].pc = "l_link" /\ Target(p) # 0
    /\ Iunlockput(p, [cp[p] EXCEPT !.dp = None], cp[p].dp, "l_bad")

LinkEnter(p) ==
    LET d == cp[p].dp
    IN  /\ cp[p].pc = "l_link" /\ Target(p) = 0
        /\ dir' = [dir EXCEPT ![icache[d].inum][cp[p].path[1]] = icache[cp[p].ip].inum]
        /\ icache' = Unlocked(icache, d)
        /\ cp' = [cp EXCEPT ![p] = Putting([@ EXCEPT !.dp = None], d, "l_put")]
        /\ UNCHANGED <<dinode, file, cwd, counts>>

LinkPut(p) ==
    /\ cp[p].pc = "l_put"
    /\ cp' = [cp EXCEPT ![p] = Putting([@ EXCEPT !.ip = None], cp[p].ip, "user")]
    /\ UNCHANGED <<icache, disk, file, cwd, counts>>

LinkBad(p) ==
    /\ cp[p].pc = "l_bad"
    /\ Ilock(p, cp[p].ip, "dec")

UnlinkFails(p) ==
    /\ cp[p].pc = "u_look" /\ (cp[p].path[1] \in {".", ".."} \/ Target(p) = 0)
    /\ Iunlockput(p, [cp[p] EXCEPT !.dp = None], cp[p].dp, "user")

UnlinkFound(p) ==
    /\ cp[p].pc = "u_look" /\ cp[p].path[1] \notin {".", ".."} /\ Target(p) # 0
    /\ icache' = Iget(icache, Target(p))
    /\ cp' = [cp EXCEPT ![p].pc = "u_ilock", ![p].ip = IgetSlot(icache, Target(p))]
    /\ UNCHANGED <<disk, file, cwd, counts>>

UnlinkIlock(p) ==
    /\ cp[p].pc = "u_ilock"
    /\ Ilock(p, cp[p].ip, "u_erase")

Isdirempty(s) == \A n \in Name \ {".", ".."} : Entry(s, n) = 0

UnlinkBusy(p) ==
    LET s == cp[p].ip
    IN  /\ cp[p].pc = "u_erase" /\ icache[s].nlink >= 1
        /\ icache[s].type = "DIR" /\ ~Isdirempty(s)
        /\ Iunlockput(p, [cp[p] EXCEPT !.ip = None], s, "undo")

(* The entry goes first, then the link; the parent's link for ".." stays.  *)
UnlinkErase(p) ==
    LET s == cp[p].ip
        d == cp[p].dp
    IN  /\ cp[p].pc = "u_erase"
        /\ icache[s].nlink < 1 \/ icache[s].type # "DIR" \/ Isdirempty(s)
        /\ IF icache[s].nlink < 1
           THEN cp' = [cp EXCEPT ![p].pc = "panic"] /\ UNCHANGED <<icache, dir>>
           ELSE /\ dir' = [dir EXCEPT ![icache[d].inum][cp[p].path[1]] = 0]
                /\ icache' = Unlocked(icache, d)
                /\ cp' = [cp EXCEPT ![p] = Putting([@ EXCEPT !.dp = None], d, "dec")]
        /\ UNCHANGED <<dinode, file, cwd, counts>>

Dec(p) ==
    LET s == cp[p].ip
    IN  /\ cp[p].pc = "dec"
        /\ dinode' = Iupdate(s, icache[s].nlink - 1)
        /\ icache' = Unlocked(SetNlink(s, icache[s].nlink - 1), s)
        /\ cp' = [cp EXCEPT ![p] = Putting([@ EXCEPT !.ip = None], s, "user")]
        /\ UNCHANGED <<dir, file, cwd, counts>>

-----------------------------------------------------------------------------
Kernel(p) ==
    \/ Iput(p) \/ IputFree(p) \/ IputDone(p)
    \/ WalkEnd(p) \/ WalkLock(p) \/ WalkFails(p) \/ WalkParent(p) \/ WalkNext(p)
    \/ LockIp(p) \/ LockDp(p)
    \/ CreateFound(p) \/ Icreate(p) \/ CreateIget(p) \/ CreateIlock(p) \/ CreateTest(p)
    \/ CreateExists(p) \/ Undo(p) \/ CreateLink(p) \/ CreateDone(p)
    \/ OpenTest(p) \/ OpenFile(p) \/ OpenFails(p) \/ Chdir(p)
    \/ LinkInc(p) \/ LinkDir(p) \/ LinkNamei(p) \/ LinkExists(p) \/ LinkEnter(p)
    \/ LinkPut(p) \/ LinkBad(p)
    \/ UnlinkFails(p) \/ UnlinkFound(p) \/ UnlinkIlock(p) \/ UnlinkBusy(p) \/ UnlinkErase(p)
    \/ Dec(p)

Next == \E p \in Process :
    Kernel(p) \/ (\E c \in Calls : Begin(p, c)) \/ (\E f \in File : Close(p, f))

Spec == Init /\ [][Next]_vars

-----------------------------------------------------------------------------
(* Properties.                                                             *)

Pointers(s) ==
    Cardinality({f \in File : file[f] = s}) + Cardinality({p \in Process : cwd[p] = s})
    + Cardinality({x \in Process \X {"at", "ip", "dp", "put"} : cp[x[1]][x[2]] = s})

InCall(p) == cp[p].pc # "user"
Fails(p) == cp[p].pc = "panic"

(* The lock a process is about to take.                                    *)
Wanted(p) == CASE cp[p].pc = "walk" /\ cp[p].path # <<>> -> cp[p].at
               [] cp[p].pc = "lock_dp" -> cp[p].dp
               [] cp[p].pc \in {"lock_ip", "c_ilock", "u_ilock", "l_bad"} -> cp[p].ip
               [] OTHER -> None
Blocked(p) == Wanted(p) # None /\ icache[Wanted(p)].busy # None

(* Types; a process in user mode has dropped every local pointer.          *)
TypeOK ==
    /\ \A s \in Slot : /\ icache[s].inum \in Inum \cup {0} /\ icache[s].ref \in Nat
                       /\ icache[s].nlink \in Nat /\ icache[s].busy \in Process \cup {None}
    /\ \A i \in Inum : dinode[i].nlink \in Nat /\ dir[i] \in [Name -> Inum \cup {0}]
    /\ file \in [File -> Slot \cup {None}] /\ cwd \in [Process -> Slot]
    /\ \A p \in Process : ~InCall(p) => cp[p] = Idle

(* "ip->ref counts the number of pointer references to this cached inode"  *)
(* (fs.c): on every path of every call, the error paths included.          *)
RefCount == \A s \in Slot : icache[s].ref = Pointers(s)

(* An inode is in the cache once, so that its lock is one lock.            *)
CachedOnce ==
    \A s, t \in Slot : icache[s].ref > 0 /\ icache[t].ref > 0 /\ icache[s].inum = icache[t].inum
                       => s = t

(* What an open file, a current directory or an entry of a directory names *)
(* is allocated: iput frees an inode only when nothing leads to it.        *)
NamedAllocated ==
    /\ \A f \in File : file[f] # None => dinode[icache[file[f]].inum].type # "FREE"
    /\ \A p \in Process : dinode[icache[cwd[p]].inum].type # "FREE"
    /\ \A i \in Inum, n \in Name \ {".."} : dir[i][n] # 0 => dinode[dir[i][n]].type # "FREE"

(* The link count on disk covers every entry that names the inode, between *)
(* any two steps of link, unlink and create too.                           *)
LinksCounted ==
    \A i \in Inum : dinode[i].nlink >=
        Cardinality({x \in Inum \X (Name \ {"."}) : dir[x[1]][x[2]] = i})

(* "copy of disk inode" (fsvar.h): what the cache holds of an inode nobody *)
(* has locked is what the disk holds, but for the link count create drops  *)
(* to zero in the cache alone to make iput free the inode.                 *)
CacheCopies ==
    \A s \in Slot :
      LET c == icache[s]
          d == dinode[c.inum]
      IN  c.ref > 0 /\ c.valid /\ c.busy = None
            => c.type = d.type /\ (c.nlink = d.nlink \/ c.nlink = 0)

(* No process waits for ever for inode locks: one that is in a call and    *)
(* not waiting remains, and only processes in calls hold locks.  unlink    *)
(* and create lock a directory and then an inode in it.                    *)
NoDeadlock ==
    /\ (\E p \in Process : InCall(p)) => \E p \in Process : InCall(p) /\ ~Blocked(p)
    /\ \A s \in Slot : icache[s].ref > 0 /\ icache[s].busy # None => InCall(icache[s].busy)

(* None of the panics of fs.c and sysfile.c: a typeless inode, iput of a   *)
(* locked one, unlink of one without links, a directory without dots.      *)
NoPanic == \A p \in Process : ~Fails(p)

=============================================================================
