------------------------------ MODULE VfsTable ------------------------------
(***************************************************************************)
(* The VFS layer's table of devices and file systems                       *)
(* (kern/vfs/vfslist.c, with devnull.c and dev_create_vnode of device.c):  *)
(* adding devices, mounting, unmounting, and what a device name stands for.*)
(* A call is one step; each of the four allocations of vfs_doadd may fail. *)
(***************************************************************************)
EXTENDS Integers, Sequences, FiniteSets, SequencesExt, TLC

CONSTANTS
    Names,      \* device names that are tried; RawName gives the raw device's name
    Labels,     \* further names a volume may have
    None,       \* no name
    MaxDevs,    \* bound on the entries of the table
    MaxBlocks   \* bound on the blocks held when a device is added

\* mkrawname
RawName == [n \in Names |-> n \o "raw"]

\* The names of the volumes that are met on a device: none, one of its own, or a label.
VolumesOn(n) == {None, n \o "vol"} \cup Labels

VARIABLES
    devs,       \* knowndevs: name, raw name, whether there is a device, volume mounted
    busy,       \* entries whose file system has vnodes in use
    blocks,     \* kernel heap blocks that calls of vfs_doadd still hold
    call        \* the last call and what it returned

vars == <<devs, busy, blocks, call>>

NoFs == [fs |-> FALSE, vol |-> None]
Fs(v) == [fs |-> TRUE, vol |-> v]
Dev(name, raw, hasdev, fs) == [name |-> name, raw |-> raw, dev |-> hasdev, fs |-> fs]
Called(op, name, result, failed) == [op |-> op, name |-> name, result |-> result, failed |-> failed]
Idle == Called("none", None, "ok", {})
Entries == DOMAIN devs

\* vfs_bootstrap: the table holds the null device.
Init ==
    /\ devs = <<Dev("null", None, TRUE, NoFs)>>
    /\ busy = {} /\ blocks = 3 /\ call = Idle

\* samestring: equal, and neither is absent.
samestring(a, b) == a # None /\ a = b
badnames(n1, n2, n3) ==
    \E i \in Entries, n \in {n1, n2, n3} :
        \/ devs[i].fs.fs /\ samestring(devs[i].fs.vol, n)
        \/ samestring(devs[i].raw, n)
        \/ samestring(devs[i].name, n)

\* vfs_doadd: name, raw name, vnode and table entry are allocated in turn; fail is the one that is refused,
\* 0 for none.  On the error exit what was allocated is freed; on EEXIST it is kept.
Held(mountable, fail) == IF fail <= 1 THEN 0 ELSE IF mountable THEN fail - 1 ELSE fail - 2

\* Variant: the raw name is not freed.
FreedButRaw(mountable, fail) == Held(mountable, fail) - IF mountable /\ fail > 2 THEN 1 ELSE 0

\* The error exit frees what was allocated.
Freed(mountable, fail) == Held(mountable, fail)

vfs_doadd(op, name, mountable, hasdev, fs) ==
    LET raw == IF mountable THEN RawName[name] ELSE None
        all == IF mountable THEN 4 ELSE 3
    IN
    /\ Len(devs) < MaxDevs /\ blocks <= MaxBlocks
    /\ \/ \E fail \in {1, 2, 3, 4} :
             /\ ~mountable => fail # 2
             /\ blocks' = blocks + Held(mountable, fail) - Freed(mountable, fail)
             /\ call' = Called(op, name, "ENOMEM", {})
             /\ UNCHANGED devs
       \/ /\ blocks' = blocks + all
          /\ IF badnames(name, raw, fs.vol)
             THEN UNCHANGED devs /\ call' = Called(op, name, "EEXIST", {})
             ELSE /\ devs' = Append(devs, Dev(name, raw, hasdev, fs))
                  /\ call' = Called(op, name, "ok", {})
    /\ UNCHANGED busy

vfs_adddev(name, mountable) == vfs_doadd("add", name, mountable, TRUE, NoFs)
vfs_addfs(name, v) == vfs_doadd("add", name, FALSE, FALSE, Fs(v))
---------------------------------------------------------------------------
Returns(op, name, result) == call' = Called(op, name, result, {})

MinOf(S) == IF S = {} THEN 0 ELSE CHOOSE x \in S : \A y \in S : x <= y

\* Variant: entries that are not mountable are found too.
findany(name) == MinOf({i \in Entries : devs[i].name = name})

\* findmount: the first mountable entry with the name, 0 if there is none.
findmount(name) == MinOf({i \in Entries : devs[i].raw # None /\ devs[i].name = name})

\* vfs_mount: the volume's name is whatever is on the disk; it is not compared with the names in the table.
vfs_mount(name, v) ==
    LET i == findmount(name) IN
    /\ IF i = 0 THEN Returns("mount", name, "ENODEV") /\ UNCHANGED devs
       ELSE IF devs[i].fs.fs THEN Returns("mount", name, "EBUSY") /\ UNCHANGED devs
       ELSE /\ devs' = [devs EXCEPT ![i].fs = Fs(v)]
            /\ Returns("mount", name, "ok")
    /\ UNCHANGED <<busy, blocks>>

\* Variant: the file system is dropped although FSOP_UNMOUNT refused.
vfs_unmount_busy(name, sync) ==
    LET i == findmount(name) IN
    /\ IF i = 0 \/ sync # "ok" THEN UNCHANGED devs ELSE devs' = [devs EXCEPT ![i].fs = NoFs]
    /\ Returns("unmount", name, "ok")
    /\ UNCHANGED <<busy, blocks>>

\* vfs_unmount; sync is FSOP_SYNC's result.  FSOP_UNMOUNT refuses while vnodes are in use.
vfs_unmount(name, sync) ==
    LET i == findmount(name) IN
    /\ IF i = 0 THEN Returns("unmount", name, "ENODEV") /\ UNCHANGED devs
       ELSE IF ~devs[i].fs.fs THEN Returns("unmount", name, "EINVAL") /\ UNCHANGED devs
       ELSE IF sync # "ok" THEN Returns("unmount", name, sync) /\ UNCHANGED devs
       ELSE IF i \in busy THEN Returns("unmount", name, "EBUSY") /\ UNCHANGED devs
       ELSE /\ devs' = [devs EXCEPT ![i].fs = NoFs]
            /\ Returns("unmount", name, "ok")
    /\ UNCHANGED <<busy, blocks>>

\* Variant: the walk ends at the first file system it cannot drop.
DroppableFirst(failing) ==
    {i \in Entries : /\ devs[i].raw # None /\ devs[i].fs.fs
                     /\ \A j \in 1..i : devs[j].raw # None /\ devs[j].fs.fs => j \notin failing \cup busy}

\* The entries vfs_unmountall gets to drop: mounted, synced at the first or the second try, and idle.
Droppable(failing) == {i \in Entries : devs[i].raw # None /\ devs[i].fs.fs /\ i \notin failing \cup busy}

vfs_unmountall(failing) ==
    /\ devs' = [i \in Entries |-> IF i \in Droppable(failing) THEN [devs[i] EXCEPT !.fs = NoFs] ELSE devs[i]]
    /\ call' = Called("unmountall", None, "ok", failing)
    /\ UNCHANGED <<busy, blocks>>

\* A vnode of a mounted file system is taken into use, or the last one released (external: the file systems).
Use(i) ==
    /\ devs[i].fs.fs
    /\ busy' = IF i \in busy THEN busy \ {i} ELSE busy \cup {i}
    /\ call' = Idle
    /\ UNCHANGED <<devs, blocks>>
---------------------------------------------------------------------------
\* Variant: a raw name of a device with a file system is not known.
AnswerNoRaw(i, name) ==
    LET d == devs[i] IN
    CASE d.fs.fs /\ (d.name = name \/ samestring(d.fs.vol, name)) -> <<"root", i>>
      [] d.fs.fs -> <<"next", 0>>
      [] d.raw # None /\ d.name = name -> <<"ENXIO", 0>>
      [] d.name = name -> <<"device", i>>
      [] d.raw # None /\ d.raw = name -> <<"device", i>>
      [] OTHER -> <<"next", 0>>

\* vfs_getroot: what one entry answers to a name, "next" for going on.
Answer(i, name) ==
    LET d == devs[i] IN
    CASE d.fs.fs /\ (d.name = name \/ samestring(d.fs.vol, name)) -> <<"root", i>>
      [] ~d.fs.fs /\ d.raw # None /\ d.name = name -> <<"ENXIO", 0>>
      [] d.name = name -> <<"device", i>>
      [] d.raw # None /\ d.raw = name -> <<"device", i>>
      [] OTHER -> <<"next", 0>>

vfs_getroot(name) ==
    LET first == MinOf({i \in Entries : Answer(i, name)[1] # "next"}) IN
    IF first = 0 THEN <<"ENODEV", 0>> ELSE Answer(first, name)

\* vfs_getdevname: the name of the first entry with the file system of entry i.
vfs_getdevname(i) == devs[MinOf({j \in Entries : devs[j].fs.fs /\ j = i})].name

Next ==
    \/ \E n \in Names, b \in BOOLEAN : vfs_adddev(n, b)
    \/ \E n \in Names : \E v \in VolumesOn(n) : vfs_addfs(n, v)
    \/ \E n \in Names \cup {"null"} : \E v \in VolumesOn(n) : vfs_mount(n, v)
    \/ \E n \in Names \cup {"null"}, s \in {"ok", "EIO"} : vfs_unmount(n, s)
    \/ \E f \in SUBSET {i \in Entries : devs[i].raw # None /\ devs[i].fs.fs} : vfs_unmountall(f)
    \/ \E i \in Entries : Use(i)

Spec == Init /\ [][Next]_vars
---------------------------------------------------------------------------
\* Type invariant: what each variable may hold.
TypeOK ==
    /\ Len(devs) \in 1..MaxDevs /\ busy \subseteq Entries /\ blocks \in Nat
    /\ \A i \in Entries : devs[i].fs.fs \in BOOLEAN /\ (devs[i].raw = None \/ devs[i].raw = devs[i].name \o "raw")

\* An entry that can be mounted has a device; one without a device has its file system for good: what the
\* assertions of vfs_mount, vfs_unmount and vfs_getroot rest on.
MountsHaveDevices ==
    \A i \in Entries : /\ devs[i].raw # None => devs[i].dev
                       /\ ~devs[i].dev => devs[i].fs.fs
                       /\ devs[i].dev /\ devs[i].raw = None => ~devs[i].fs.fs

\* A file system whose vnodes are in use stays in the table.
BusyStaysMounted == \A i \in busy : devs[i].fs.fs

\* A call that fails for lack of memory holds on to nothing.
NomemFreesAll == call'.result = "ENOMEM" => blocks' = blocks

\* After vfs_unmountall only file systems in use, not synced or without a device are left.
UnmountallGoesOn ==
    call'.op = "unmountall" =>
        \A i \in Entries : devs'[i].fs.fs => i \in busy \/ i \in call'.failed \/ devs[i].raw = None

\* What the comment on struct knowndev says a name refers to: the root of the file system for the device and
\* the volume name, an error for a mountable device without one, the device for a raw name and for a device
\* that cannot be mounted.
NamesRefer ==
    \A i \in Entries :
        LET d == devs[i] IN
        /\ d.fs.fs => /\ vfs_getroot(d.name) = <<"root", i>>
                      /\ d.fs.vol # None => vfs_getroot(d.fs.vol) = <<"root", i>>
                      /\ vfs_getdevname(i) = d.name
        /\ ~d.fs.fs => vfs_getroot(d.name) = IF d.raw # None THEN <<"ENXIO", 0>> ELSE <<"device", i>>
        /\ d.raw # None => vfs_getroot(d.raw) = <<"device", i>>
=============================================================================
