--------------------------------- MODULE Vfs ---------------------------------
(***************************************************************************)
(* The VFS layer's calls on paths and vnodes (kern/vfs/vfspath.c,          *)
(* vfslookup.c, vfscwd.c, vnode.c, device.c), by threads that may be       *)
(* interrupted wherever the big lock is not held.  One file system, on     *)
(* lhd0, with a root directory and files, and the device null.  A path is a*)
(* sequence of names, colons and slashes.  The file system is external: its*)
(* operations succeed or fail as its vnode operations are documented to.   *)
(***************************************************************************)
EXTENDS Integers, Sequences, FiniteSets, TLC

CONSTANTS Threads, Files, None,
          Ops,        \* the calls that are made
          Kinds,      \* the kinds of paths they are made with
          Names,      \* file names
          MaxOpen,    \* bound on the open files of a thread
          LockWorks   \* FALSE: lock_acquire does nothing, as in synch.c

Root == "root"
Null == "null"
Vnodes == Files \cup {Root, Null}

VARIABLES
    ref,        \* vn_refcount; 0 for a vnode of the file system that is not in memory
    opencount,  \* vn_opencount
    opened,     \* a VOP_OPEN of the vnode has had no VOP_CLOSE after it
    dir,        \* the entries of the root directory
    mounted, bootfs,
    cwd, files, \* t_cwd and open files of each thread
    call        \* the call each thread is in

vars == <<ref, opencount, opened, dir, mounted, bootfs, cwd, files, call>>
fsvars == <<opencount, opened, dir, mounted, bootfs, cwd, files>>

NoCall == [op |-> "none", pc |-> "idle", path |-> <<>>, path2 |-> <<>>, flags |-> {}, name |-> None,
           vn |-> None, dir |-> None, dir2 |-> None, seen |-> 0, result |-> "ok"]
Done(c, r) == IF c.op = "setbootfs" THEN [NoCall EXCEPT !.op = c.op, !.path = c.path, !.result = r] ELSE NoCall

Init ==
    /\ ref = [v \in Vnodes |-> IF v = Null THEN 1 ELSE 0]
    /\ opencount = [v \in Vnodes |-> 0] /\ opened = [v \in Vnodes |-> FALSE]
    /\ dir = [n \in Names |-> None]
    /\ mounted = FALSE /\ bootfs = None
    /\ cwd = [t \in Threads |-> None] /\ files = [t \in Threads |-> <<>>]
    /\ call = [t \in Threads |-> NoCall]
---------------------------------------------------------------------------
\* vnode_incref and vnode_decref.  The last reference to a device's vnode is the table's; the file system
\* drops a vnode that is reclaimed.
Inc(r, v) == IF v = None THEN r ELSE [r EXCEPT ![v] = @ + 1]
Dec(r, v) == IF v = None THEN r
             ELSE [r EXCEPT ![v] = IF @ > 1 THEN @ - 1 ELSE IF v = Null THEN 1 ELSE 0]

\* getdevice's first part: what the path starts from, and the rest without leading slashes.
Marks(p) == {i \in DOMAIN p : p[i] \in {":", "/"}}
First(S) == CHOOSE i \in S : \A j \in S : i <= j
SkipSlashes(p, i) == SubSeq(p, First({j \in i..Len(p) + 1 : j > Len(p) \/ p[j] # "/"}), Len(p))
Parse(p) ==
    CASE Marks(p) = {} -> [start |-> "cwd", dev |-> None, sub |-> p]
      [] Marks(p) # {} /\ First(Marks(p)) > 1 /\ p[First(Marks(p))] = "/" -> [start |-> "cwd", dev |-> None, sub |-> p]
      [] Marks(p) # {} /\ First(Marks(p)) > 1 /\ p[First(Marks(p))] = ":" ->
             [start |-> "dev", dev |-> p[1], sub |-> SkipSlashes(p, First(Marks(p)) + 1)]
      [] OTHER -> [start |-> IF p[1] = "/" THEN "boot" ELSE "root", dev |-> None, sub |-> SkipSlashes(p, 2)]

\* getdevice: the vnode to start from, or the error.  vfs_getroot as VfsTable has it, for these devices.
vfs_getroot(dev) ==
    CASE dev = "lhd0" -> IF mounted THEN Root ELSE "ENXIO"
      [] dev \in {"null", "lhd0raw"} -> Null
      [] OTHER -> "ENODEV"
getdevice(t, p) ==
    LET q == Parse(p) IN
    CASE q.start = "cwd" -> IF cwd[t] = None THEN "ENOENT" ELSE cwd[t]
      [] q.start = "dev" -> vfs_getroot(q.dev)
      [] q.start = "boot" -> IF bootfs = None THEN "ENOENT" ELSE bootfs
      [] q.start = "root" -> IF cwd[t] = None THEN "ENOENT" ELSE Root

\* VOP_LOOKUP and dev_lookup.
VOP_LOOKUP(v, sub) ==
    IF v = Null THEN "ENOENT"
    ELSE IF v # Root THEN "ENOTDIR"
    ELSE IF Len(sub) = 1 /\ sub[1] \in Names /\ dir[sub[1]] # None THEN dir[sub[1]]
    ELSE "ENOENT"

\* vfs_lookup: a vnode, of which the caller then has a reference, or an error.  The start is released.
vfs_lookup(t, p) ==
    LET start == getdevice(t, p) IN
    IF start \notin Vnodes THEN start
    ELSE IF Parse(p).sub = <<>> THEN start
    ELSE VOP_LOOKUP(start, Parse(p).sub)

\* vfs_lookparent: likewise, for the directory that the path's last name is in.
vfs_lookparent(t, p) ==
    LET start == getdevice(t, p) IN
    IF start \notin Vnodes THEN start
    ELSE IF Parse(p).sub = <<>> THEN "EINVAL"
    ELSE IF start # Root THEN "ENOTDIR"
    ELSE IF Len(Parse(p).sub) = 1 THEN Root ELSE "ENOENT"
Last(p) == Parse(p).sub[Len(Parse(p).sub)]

Goto(t, c) == call' = [call EXCEPT ![t] = c]
---------------------------------------------------------------------------
Path(k, n) ==
    CASE k = "cwd" -> <<n>> [] k = "boot" -> <<"/", n>> [] k = "dev" -> <<"lhd0", ":", "/", "/", n>>
      [] k = "root" -> <<":", n>> [] k = "below" -> <<n, "/", n>> [] k = "nullfile" -> <<"null", ":", n>>
      [] k = "null" -> <<"null", ":">> [] k = "top" -> <<"lhd0", ":">> [] k = "slash" -> <<"/">>
      [] k = "empty" -> <<>>
Paths == {Path(k, n) : k \in Kinds, n \in Names}
Paths2 == {Path(k, n) : k \in Kinds \cap {"cwd", "dev", "null"}, n \in Names}
Flags == {{}, {"write"}, {"write", "creat"}, {"write", "creat", "excl"}, {"write", "trunc"}, {"trunc"}}

\* A thread makes a call.
Call(t) ==
    /\ call[t].pc = "idle"
    /\ \E op \in Ops \ {"close", "mount", "unmount", "setbootfs", "clearbootfs", "clearcurdir"}, p \in Paths :
         \E q \in IF op \in {"rename", "link"} THEN Paths2 ELSE {<<>>},
            f \in IF op = "open" THEN Flags ELSE {{}} :
             /\ op = "open" => Len(files[t]) < MaxOpen
             /\ op \in {"rename", "link"} => p \in Paths2
             /\ op = "getcwd" => p = <<>>
             /\ Goto(t, [NoCall EXCEPT !.op = op, !.pc = "look", !.path = p, !.path2 = q, !.flags = f])
    /\ UNCHANGED <<ref, fsvars>>

ByParent(c) == c.op \in {"remove", "rename", "mkdir", "rmdir", "symlink"} \/ (c.op = "open" /\ "creat" \in c.flags)

\* The first lookup of every call: the file itself, or the directory it is in.  getcwd takes the current
\* directory.  Without the lock, the count that is incremented was read before.
Target(t, c) ==
    IF c.op = "getcwd" THEN IF cwd[t] = None THEN "ENOENT" ELSE cwd[t]
    ELSE IF ByParent(c) THEN vfs_lookparent(t, c.path) ELSE vfs_lookup(t, c.path)
AfterLook(c) ==
    CASE c.op = "open" -> IF "creat" \in c.flags THEN "creat" ELSE "vopopen"
      [] c.op \in {"rename", "link"} -> "look2"
      [] c.op = "chdir" -> "setcur"
      [] OTHER -> "nameop"
Look(t) ==
    LET c == call[t]
        v == Target(t, c)
        got == IF ByParent(c) THEN [c EXCEPT !.dir = v] ELSE [c EXCEPT !.vn = v]
    IN
    /\ c.pc = "look"
    /\ IF v \notin Vnodes THEN Goto(t, Done(c, v)) /\ UNCHANGED ref
       ELSE IF LockWorks THEN ref' = Inc(ref, v) /\ Goto(t, [got EXCEPT !.pc = AfterLook(c)])
       ELSE Goto(t, [got EXCEPT !.pc = "store", !.seen = ref[v]]) /\ UNCHANGED ref
    /\ UNCHANGED fsvars
Store(t) ==
    LET c == call[t]
        v == IF ByParent(c) THEN c.dir ELSE c.vn
    IN
    /\ c.pc = "store"
    /\ ref' = [ref EXCEPT ![v] = c.seen + 1]
    /\ Goto(t, [c EXCEPT !.pc = AfterLook(c), !.seen = 0])
    /\ UNCHANGED fsvars

\* VOP_CREAT, which may find no space; then the directory is released.
VopCreat(t) ==
    LET c == call[t]
        n == Last(c.path)
    IN
    /\ c.pc = "creat" /\ c.vn = None
    /\ \/ /\ dir[n] # None /\ "excl" \notin c.flags
          /\ ref' = Inc(ref, dir[n]) /\ Goto(t, [c EXCEPT !.vn = dir[n], !.pc = "decdir"])
          /\ UNCHANGED dir
       \/ \E v \in Files :
             /\ dir[n] = None /\ ref[v] = 0 /\ \A m \in Names : dir[m] # v
             /\ dir' = [dir EXCEPT ![n] = v]
             /\ ref' = Inc(ref, v) /\ Goto(t, [c EXCEPT !.vn = v, !.pc = "decdir"])
       \/ /\ Goto(t, [c EXCEPT !.pc = "decdir", !.result = IF dir[n] # None THEN "EEXIST" ELSE "ENOSPC"])
          /\ dir[n] # None => "excl" \in c.flags
          /\ UNCHANGED <<ref, dir>>
    /\ UNCHANGED <<opencount, opened, mounted, bootfs, cwd, files>>
DecDir(t) ==
    LET c == call[t] IN
    /\ c.pc = "decdir"
    /\ ref' = Dec(ref, c.dir)
    /\ Goto(t, IF c.vn = None THEN Done(c, c.result) ELSE [c EXCEPT !.dir = None, !.pc = "vopopen"])
    /\ UNCHANGED fsvars

\* VOP_OPEN: dev_open refuses creating and truncating, a directory refuses writing.
VopOpen(t) ==
    LET c == call[t]
        refused == \/ c.vn = Null /\ c.flags \cap {"creat", "trunc", "excl"} # {}
                   \/ c.vn = Root /\ "write" \in c.flags
    IN
    /\ c.pc = "vopopen"
    /\ Goto(t, IF refused THEN [c EXCEPT !.pc = "decvn", !.result = "EINVAL"] ELSE [c EXCEPT !.pc = "incopen"])
    /\ opened' = IF refused THEN opened ELSE [opened EXCEPT ![c.vn] = TRUE]
    /\ UNCHANGED <<ref, opencount, dir, mounted, bootfs, cwd, files>>
IncOpen(t) ==
    LET c == call[t] IN
    /\ c.pc = "incopen"
    /\ opencount' = [opencount EXCEPT ![c.vn] = @ + 1]
    /\ IF "trunc" \in c.flags THEN Goto(t, [c EXCEPT !.pc = "trunc"]) /\ UNCHANGED files
       ELSE Goto(t, Done(c, "ok")) /\ files' = [files EXCEPT ![t] = Append(@, c.vn)]
    /\ UNCHANGED <<ref, opened, dir, mounted, bootfs, cwd>>

\* Variant: a file that cannot be truncated is released and stays open.
TruncKeepsOpen(t) ==
    LET c == call[t] IN
    /\ c.pc = "trunc"
    /\ \/ /\ "write" \in c.flags
          /\ Goto(t, Done(c, "ok")) /\ files' = [files EXCEPT ![t] = Append(@, c.vn)]
       \/ /\ Goto(t, [c EXCEPT !.pc = "decvn", !.result = IF "write" \in c.flags THEN "EIO" ELSE "EINVAL"])
          /\ UNCHANGED files
    /\ UNCHANGED <<ref, opencount, opened, dir, mounted, bootfs, cwd>>

\* VOP_TRUNCATE, which may fail; a file opened for reading is not truncated.
Trunc(t) ==
    LET c == call[t] IN
    /\ c.pc = "trunc"
    /\ \/ /\ "write" \in c.flags
          /\ Goto(t, Done(c, "ok")) /\ files' = [files EXCEPT ![t] = Append(@, c.vn)]
       \/ /\ Goto(t, [c EXCEPT !.pc = "decopen", !.result = IF "write" \in c.flags THEN "EIO" ELSE "EINVAL"])
          /\ UNCHANGED files
    /\ UNCHANGED <<ref, opencount, opened, dir, mounted, bootfs, cwd>>

\* vfs_close, and the end of a failed vfs_open: vnode_decopen, which calls VOP_CLOSE for the last one, and
\* vnode_decref.
vfs_close(t) ==
    /\ call[t].pc = "idle" /\ "close" \in Ops
    /\ \E i \in DOMAIN files[t] :
         /\ Goto(t, [NoCall EXCEPT !.op = "close", !.pc = "decopen", !.vn = files[t][i]])
         /\ files' = [files EXCEPT ![t] = SubSeq(@, 1, i - 1) \o SubSeq(@, i + 1, Len(@))]
    /\ UNCHANGED <<ref, opencount, opened, dir, mounted, bootfs, cwd>>

\* Variant: VOP_CLOSE comes with every close.
DecOpenCloses(t) ==
    LET c == call[t] IN
    /\ c.pc = "decopen"
    /\ opencount' = [opencount EXCEPT ![c.vn] = @ - 1]
    /\ opened' = [opened EXCEPT ![c.vn] = FALSE]
    /\ Goto(t, [c EXCEPT !.pc = "decvn"])
    /\ UNCHANGED <<ref, dir, mounted, bootfs, cwd, files>>

DecOpen(t) ==
    LET c == call[t] IN
    /\ c.pc = "decopen"
    /\ opencount' = [opencount EXCEPT ![c.vn] = @ - 1]
    /\ opened' = IF opencount[c.vn] = 1 THEN [opened EXCEPT ![c.vn] = FALSE] ELSE opened
    /\ Goto(t, [c EXCEPT !.pc = "decvn"])
    /\ UNCHANGED <<ref, dir, mounted, bootfs, cwd, files>>
DecVn(t) ==
    LET c == call[t] IN
    /\ c.pc = "decvn"
    /\ ref' = Dec(ref, c.vn)
    /\ Goto(t, Done(c, c.result))
    /\ UNCHANGED fsvars
---------------------------------------------------------------------------
\* vfs_remove, vfs_mkdir, vfs_rmdir, vfs_symlink, vfs_readlink, vfs_getcwd: one operation on what was found,
\* and the reference is given back.  The file system has no subdirectories and no symbolic links.
NameOp(t) ==
    LET c == call[t]
        n == Last(c.path)
        works == c.op = "remove" /\ dir[n] # None
    IN
    /\ c.pc = "nameop"
    /\ dir' = IF works THEN [dir EXCEPT ![n] = None] ELSE dir
    /\ Goto(t, [c EXCEPT !.pc = "decvn", !.vn = IF c.dir = None THEN c.vn ELSE c.dir, !.dir = None,
                         !.result = IF works \/ c.op = "getcwd" THEN "ok" ELSE "EINVAL"])
    /\ UNCHANGED <<ref, opencount, opened, mounted, bootfs, cwd, files>>

\* Variant: the first directory is kept when the second is not found.
Look2Keeps(t) ==
    LET c == call[t]
        v == vfs_lookparent(t, c.path2)
    IN
    /\ c.pc = "look2"
    /\ IF v \in Vnodes THEN ref' = Inc(ref, v) /\ Goto(t, [c EXCEPT !.dir2 = v, !.pc = "twoop"])
       ELSE Goto(t, Done(c, v)) /\ UNCHANGED ref
    /\ UNCHANGED fsvars

\* vfs_rename and vfs_link: the second path; the first reference is given back when it is not found.
Look2(t) ==
    LET c == call[t]
        v == vfs_lookparent(t, c.path2)
    IN
    /\ c.pc = "look2"
    /\ IF v \in Vnodes THEN ref' = Inc(ref, v) /\ Goto(t, [c EXCEPT !.dir2 = v, !.pc = "twoop"])
       ELSE /\ Goto(t, [c EXCEPT !.pc = "decvn", !.vn = IF c.dir = None THEN c.vn ELSE c.dir, !.dir = None, !.result = v])
            /\ UNCHANGED ref
    /\ UNCHANGED fsvars

\* EXDEV for a device or two file systems; else VOP_RENAME or VOP_LINK.  Renaming onto a name that exists and
\* linking a directory are refused by the file system.
TwoOp(t) ==
    LET c == call[t]
        from == IF c.op = "rename" THEN dir[Last(c.path)] ELSE c.vn
        n2 == Last(c.path2)
        works == from \in Files /\ dir[n2] = None /\ c.vn # Null
    IN
    /\ c.pc = "twoop"
    /\ dir' = IF ~works THEN dir
              ELSE [m \in Names |-> IF m = n2 THEN from
                                    ELSE IF c.op = "rename" /\ m = Last(c.path) THEN None ELSE dir[m]]
    /\ Goto(t, [c EXCEPT !.pc = "dec2", !.result = IF works THEN "ok" ELSE IF c.vn = Null THEN "EXDEV" ELSE "EINVAL"])
    /\ UNCHANGED <<ref, opencount, opened, mounted, bootfs, cwd, files>>
Dec2(t) ==
    LET c == call[t] IN
    /\ c.pc = "dec2"
    /\ ref' = Dec(ref, c.dir2)
    /\ Goto(t, [c EXCEPT !.pc = "decvn", !.dir2 = None, !.vn = IF c.dir = None THEN c.vn ELSE c.dir, !.dir = None])
    /\ UNCHANGED fsvars

\* vfs_setcurdir: only a directory; the old one is released.
SetCur(t) ==
    LET c == call[t] IN
    /\ c.pc = "setcur"
    /\ IF c.vn # Root THEN UNCHANGED <<ref, cwd>>
       ELSE ref' = Dec(Inc(ref, c.vn), cwd[t]) /\ cwd' = [cwd EXCEPT ![t] = c.vn]
    /\ Goto(t, [c EXCEPT !.pc = "decvn", !.result = IF c.vn = Root THEN "ok" ELSE "ENOTDIR"])
    /\ UNCHANGED <<opencount, opened, dir, mounted, bootfs, files>>

\* vfs_clearcurdir, and the end of a thread.
vfs_clearcurdir(t) ==
    /\ call[t].pc = "idle" /\ "clearcurdir" \in Ops /\ cwd[t] # None
    /\ ref' = Dec(ref, cwd[t]) /\ cwd' = [cwd EXCEPT ![t] = None]
    /\ Goto(t, Done([NoCall EXCEPT !.op = "clearcurdir"], "ok"))
    /\ UNCHANGED <<opencount, opened, dir, mounted, bootfs, files>>

\* vfs_setbootfs, all of it under the big lock: any colon in the name is refused; the current directory
\* becomes the root of the file system and then the boot file system.
vfs_setbootfs(t) ==
    /\ call[t].pc = "idle" /\ "setbootfs" \in Ops
    /\ \E p \in {<<"lhd0">>, <<"lhd0", ":">>, <<"null">>} :
         LET c == [NoCall EXCEPT !.op = "setbootfs", !.path = p]
             v == vfs_getroot(p[1])
             r == IF v = Null THEN "ENOTDIR" ELSE IF v = Root THEN "ok" ELSE v
         IN IF Marks(p) # {} THEN Goto(t, Done(c, "EINVAL")) /\ UNCHANGED <<ref, cwd, bootfs>>
            ELSE IF r # "ok" THEN Goto(t, Done(c, r)) /\ UNCHANGED <<ref, cwd, bootfs>>
            ELSE /\ ref' = Dec(Dec(Inc(Inc(ref, v), v), cwd[t]), bootfs)
                 /\ cwd' = [cwd EXCEPT ![t] = v] /\ bootfs' = v
                 /\ Goto(t, Done(c, "ok"))
    /\ UNCHANGED <<opencount, opened, dir, mounted, files>>

vfs_clearbootfs(t) ==
    /\ call[t].pc = "idle" /\ "clearbootfs" \in Ops /\ bootfs # None
    /\ ref' = Dec(ref, bootfs) /\ bootfs' = None
    /\ Goto(t, Done([NoCall EXCEPT !.op = "clearbootfs"], "ok"))
    /\ UNCHANGED <<opencount, opened, dir, mounted, cwd, files>>

\* vfs_mount and vfs_unmount, as VfsTable has them; the file system refuses while it has vnodes in memory.
Mount(t) ==
    /\ call[t].pc = "idle" /\ ~mounted /\ "mount" \in Ops
    /\ mounted' = TRUE
    /\ UNCHANGED <<ref, opencount, opened, dir, bootfs, cwd, files, call>>

\* Variant: the file system is dropped while it has vnodes in memory.
UnmountBusy(t) ==
    /\ call[t].pc = "idle" /\ mounted /\ "unmount" \in Ops
    /\ mounted' = FALSE
    /\ UNCHANGED <<ref, opencount, opened, dir, bootfs, cwd, files, call>>

Unmount(t) ==
    /\ call[t].pc = "idle" /\ mounted /\ "unmount" \in Ops
    /\ \A v \in Files \cup {Root} : ref[v] = 0
    /\ mounted' = FALSE
    /\ UNCHANGED <<ref, opencount, opened, dir, bootfs, cwd, files, call>>

Step(t) ==
    \/ Look(t) \/ Store(t) \/ VopCreat(t) \/ DecDir(t) \/ VopOpen(t) \/ IncOpen(t) \/ Trunc(t) \/ DecOpen(t) \/ DecVn(t)
    \/ NameOp(t) \/ Look2(t) \/ TwoOp(t) \/ Dec2(t) \/ SetCur(t)

Next == \E t \in Threads :
    \/ Call(t) \/ vfs_close(t) \/ vfs_clearcurdir(t) \/ vfs_setbootfs(t) \/ vfs_clearbootfs(t) \/ Mount(t) \/ Unmount(t)
    \/ Step(t)

Spec == Init /\ [][Next]_vars
---------------------------------------------------------------------------
\* Type invariant: what each variable may hold.
TypeOK ==
    /\ ref \in [Vnodes -> Nat] /\ opencount \in [Vnodes -> Nat] /\ dir \in [Names -> Files \cup {None}]
    /\ cwd \in [Threads -> {Root, None}] /\ bootfs \in {Root, None}

Count(f(_), v) == Cardinality({t \in Threads : f(t) = v})
OpenBy(v) == Cardinality({<<t, i>> \in Threads \X (1..MaxOpen) : i \in DOMAIN files[t] /\ files[t][i] = v})
Holders(v) ==
    OpenBy(v) + Count(LAMBDA t : cwd[t], v) + (IF bootfs = v THEN 1 ELSE 0) + (IF v = Null THEN 1 ELSE 0)
    + Cardinality({t \in Threads : call[t].vn = v /\ call[t].pc # "store"})
    + Cardinality({t \in Threads : call[t].dir = v /\ call[t].pc # "store"}) + Count(LAMBDA t : call[t].dir2, v)

\* The reference count of every vnode is the number of references there are: current directories, the boot
\* file system, open files, the device table's own, and those of calls in progress.
RefsExact == \A v \in Vnodes : ref[v] = Holders(v)

\* The open count is the number of open files, and of calls between opening and closing.
OpensExact ==
    \A v \in Vnodes : opencount[v] = OpenBy(v) + Cardinality({t \in Threads : call[t].vn = v /\ call[t].pc \in {"trunc", "decopen"}})

\* A file system with a vnode in use is mounted.
MountedInUse == \A v \in Files \cup {Root} : ref[v] > 0 => mounted

\* VOP_CLOSE comes with the last close: while a file is open, or being opened, there is an open that no
\* VOP_CLOSE has followed.
ClosedLast == \A v \in Vnodes : OpenBy(v) > 0 => opened[v]

=============================================================================
