----------------------------- MODULE InodeDisk -----------------------------
(***************************************************************************)
(* A disk with a root directory that holds a file and a directory, and the *)
(* calls programs make on it.                                              *)
(***************************************************************************)

MCName == {".", "..", "a", "d"}
MCDir(self, up, a, d) ==
    [n \in MCName |-> CASE n = "." -> self [] n = ".." -> up [] n = "a" -> a [] OTHER -> d]

MCDisk == <<[type |-> "DIR",  nlink |-> 2, dir |-> MCDir(1, 1, 4, 3)],
            [type |-> "FREE", nlink |-> 0, dir |-> MCDir(0, 0, 0, 0)],
            [type |-> "DIR",  nlink |-> 1, dir |-> MCDir(3, 1, 0, 0)],
            [type |-> "FILE", nlink |-> 1, dir |-> MCDir(0, 0, 0, 0)]>>

Call(op, path) == [op |-> op, path |-> path, new |-> <<>>]
LinkCall(old, new) == [op |-> "link", path |-> old, new |-> new]

MCCalls ==
    {Call("open", <<"a">>), Call("openw", <<"d">>), Call("chdir", <<"d">>),
     Call("chdir", <<"/", "a">>), Call("create", <<"a">>), Call("create", <<"d">>),
     Call("create", <<"d", "a">>), Call("mkdir", <<"d", "d">>), Call("mkdir", <<"d">>),
     LinkCall(<<"a">>, <<"/", "d", "a">>), LinkCall(<<"d">>, <<"a">>), LinkCall(<<"a">>, <<"a">>),
     Call("unlink", <<"a">>), Call("unlink", <<"/", "d">>), Call("unlink", <<"d", "..">>),
     Call("unlink", <<"/">>)}

=============================================================================
