------------------------------ MODULE SfsVolume ------------------------------
(***************************************************************************)
(* A mounted SFS volume: names in the root directory, inodes, the vnode    *)
(* table, the free map, and what of them is on the disk (sfs_vnode.c,      *)
(* sfs_fs.c, sfs_io.c, vnode.c).  A step ends where a thread waits for the *)
(* disk: the lock functions of synch.c are empty, so the big lock keeps    *)
(* nobody out, and what a crash leaves is the disk between two steps.      *)
(* A directory slot and a file's data take one block each.                 *)
(***************************************************************************)
EXTENDS SequencesExt, FiniteSets, Integers

CONSTANTS
    Names, Threads,
    NBlocks,      \* sp_nblocks
    NSlots,       \* blocks an inode can map
    MaxErrors     \* bound: transfers that fail after all the retries of sfs_rwblock

VolumeAssumption ==
    /\ NBlocks \in Nat /\ NBlocks > 3
    /\ NSlots \in Nat \ {0} /\ MaxErrors \in Nat

Blocks == 0 .. NBlocks - 1
Slots  == 1 .. NSlots
Root   == 1          \* SFS_ROOT_LOCATION; 0 is the superblock and SFS_NOINO, 2 the free map
NoName == "no name"

Zero == [kind |-> "zero"]      \* a cleared block, and an empty directory slot
Inode(type) == [kind |-> "inode", type |-> type, links |-> 0, size |-> 0, direct |-> [i \in Slots |-> 0]]
Entry(name, ino) == [kind |-> "entry", name |-> name, ino |-> ino]
Data == [kind |-> "data"]

VARIABLES
    vol,      \* memory: freemap, mapdirty, vnodes (the table); disk and diskmap
    th,       \* what each thread is doing, and the file it has open
    fate,     \* "panic" once an assertion or a panic call is met
    errors,   \* transfers that have failed
    synced    \* the files as they were at the last complete sync, until they are touched

vars == <<vol, th, fate, errors, synced>>

Idle(fd) == [pc |-> "idle", op |-> "none", name |-> NoName, to |-> NoName,
             ino |-> 0, slot |-> 0, slot2 |-> 0, fd |-> fd]

\* What mksfs writes: the root directory, and the map with the superblock, the root and itself in use.
writerootdir == [Inode("dir") EXCEPT !.links = 1]
writebitmap == {0, Root, 2}
mksfs == [b \in Blocks |-> IF b = Root THEN writerootdir ELSE Zero]

\* A volume that mksfs has made is mounted.
Init ==
    /\ vol = [freemap |-> writebitmap, mapdirty |-> FALSE, vnodes |-> <<>>, diskmap |-> writebitmap,
              disk |-> mksfs]
    /\ th = [t \in Threads |-> Idle(0)]
    /\ fate = "ok" /\ errors = 0 /\ synced = {}
---------------------------------------------------------------------------
\* The vnode table.
Ix(v, ino) ==
    LET at == {k \in DOMAIN v.vnodes : v.vnodes[k].ino = ino}
    IN  IF at = {} THEN 0 ELSE CHOOSE k \in at : \A j \in at : k <= j
InodeOf(v, ino) == v.vnodes[Ix(v, ino)].inode

\* "Every inode in memory must be in an allocated block", and the one that is read as well.
LoadPanics(v, ino) ==
    LET passed == IF Ix(v, ino) > 0 THEN Ix(v, ino) ELSE Len(v.vnodes)
    IN \/ \E k \in 1 .. passed : v.vnodes[k].ino \notin v.freemap
       \/ Ix(v, ino) = 0 /\ (ino \notin v.freemap \/ v.disk[ino].kind # "inode")

\* sfs_loadvnode of an existing file.
Load(v, ino) ==
    IF Ix(v, ino) > 0 THEN [v EXCEPT !.vnodes[Ix(v, ino)].ref = @ + 1]
    ELSE [v EXCEPT !.vnodes = Append(@, [ino |-> ino, ref |-> 1, dirty |-> FALSE, inode |-> v.disk[ino]])]

Changed(v, ino, inode) ==
    [v EXCEPT !.vnodes[Ix(v, ino)].inode = inode, !.vnodes[Ix(v, ino)].dirty = TRUE]

LinksBy(v, ino, n) == Changed(v, ino, [InodeOf(v, ino) EXCEPT !.links = @ + n])

\* sfs_sync_inode
SyncInode(v, ino) ==
    IF ~v.vnodes[Ix(v, ino)].dirty THEN v
    ELSE [v EXCEPT !.disk[ino] = InodeOf(v, ino), !.vnodes[Ix(v, ino)].dirty = FALSE]

\* sfs_truncate to length 0 (SfsFile has it in full).
Emptied(v, ino) ==
    LET f    == InodeOf(v, ino)
        gone == {f.direct[i] : i \in Slots} \ {0}
    IN [Changed(v, ino, [f EXCEPT !.size = 0, !.direct = [i \in Slots |-> 0]])
           EXCEPT !.freemap = @ \ gone, !.mapdirty = @ \/ gone # {}]

\* sfs_reclaim up to the write of the inode.
Doomed(v, ino) == IF InodeOf(v, ino).links = 0 THEN Emptied(v, ino) ELSE v

\* Variant: the inode of an erased file stays allocated.
InodeKept(v, ino) ==
    LET s == SyncInode(Doomed(v, ino), ino) IN [s EXCEPT !.vnodes = RemoveAt(@, Ix(s, ino))]

\* sfs_reclaim of a vnode nobody else holds.
Reclaimed(v, ino) ==
    LET s == SyncInode(Doomed(v, ino), ino)
    IN [s EXCEPT !.vnodes   = RemoveAt(@, Ix(s, ino)),
                 !.freemap  = IF InodeOf(s, ino).links = 0 THEN @ \ {ino} ELSE @,
                 !.mapdirty = @ \/ InodeOf(s, ino).links = 0]

\* Variants: the last reference does not free the vnode; any reference does.
NeverReclaimed(v, ino) == [v EXCEPT !.vnodes[Ix(v, ino)].ref = @ - 1]
AlwaysReclaimed(v, ino) == Reclaimed(v, ino)

\* vnode_decref; Reclaimed when the last reference goes.
Decref(v, ino) ==
    IF v.vnodes[Ix(v, ino)].ref > 1 THEN [v EXCEPT !.vnodes[Ix(v, ino)].ref = @ - 1]
    ELSE Reclaimed(v, ino)

\* bitmap_alloc marks the first clear bit; sfs_balloc then clears the block on the disk.
Full(v)      == Blocks \subseteq v.freemap
FirstFree(v) == CHOOSE b \in Blocks \ v.freemap : \A c \in Blocks \ v.freemap : b <= c
Marked(v)    == [v EXCEPT !.freemap = @ \cup {FirstFree(v)}, !.mapdirty = TRUE]
Balloc(v)    == [Marked(v) EXCEPT !.disk[FirstFree(v)] = Zero]
---------------------------------------------------------------------------
\* The root directory: slot i is the block direct[i].
Dir(v) == InodeOf(v, Root)
SlotOf(v, name) ==
    {i \in 1 .. Dir(v).size : v.disk[Dir(v).direct[i]].kind = "entry" /\ v.disk[Dir(v).direct[i]].name = name}
EmptySlots(v) == {i \in 1 .. Dir(v).size : v.disk[Dir(v).direct[i]] = Zero}

\* sfs_dir_findname reports the last empty slot; sfs_dir_link falls back on a new one.
LinkSlot(v) ==
    IF EmptySlots(v) = {} THEN Dir(v).size + 1
    ELSE CHOOSE i \in EmptySlots(v) : \A j \in EmptySlots(v) : j <= i

\* "sfs: Data block marked free": sfs_bmap panics on the way through the directory.
DirPanics(v) == \E i \in 1 .. Dir(v).size : Dir(v).direct[i] \notin v.freemap
Lookup(v, name) == v.disk[Dir(v).direct[CHOOSE i \in SlotOf(v, name) : TRUE]].ino
---------------------------------------------------------------------------
Goto(t, pc) == th' = [th EXCEPT ![t].pc = pc]
Panic == fate' = "panic" /\ UNCHANGED <<vol, th, errors, synced>>
Quiet == UNCHANGED <<fate, errors>>

\* sfs_rwblock gives up: EIO, and the disk is as it was.
IoError == errors < MaxErrors /\ errors' = errors + 1 /\ UNCHANGED <<fate, synced>>

At(t, pc) == fate = "ok" /\ th[t].pc = pc

\* The files whose names or contents the operation is about are no longer as they were synced.
Untouched(names, inos) == {f \in synced : f.name \notin names /\ f.ino \notin inos}
FilesNamed(names) == {f.ino : f \in {g \in synced : g.name \in names}}

\* A system call on names: the VFS layer gets the root vnode first, and drops it at the end.
Begin(t, op, name, to) ==
    /\ At(t, "idle")
    /\ op = "creat" => th[t].fd = 0
    /\ synced' = IF op = "creat" THEN synced ELSE Untouched({name, to}, FilesNamed({name}))
    /\ \/ /\ LoadPanics(vol, Root) \/ (Ix(vol, Root) = 0 /\ errors < MaxErrors)
          /\ fate' = "panic" /\ UNCHANGED <<vol, th, errors>>      \* also when the read fails
       \/ /\ ~LoadPanics(vol, Root)
          /\ vol' = Load(vol, Root)
          /\ th' = [th EXCEPT ![t] = [Idle(@.fd) EXCEPT !.pc = "find", !.op = op, !.name = name, !.to = to]]
          /\ Quiet

sfs_creat(t)  == \E n \in Names : Begin(t, "creat", n, n)
sfs_remove(t) == \E n \in Names : Begin(t, "remove", n, NoName)
sfs_link(t)   == \E n, m \in Names : Begin(t, "link", n, m)
sfs_rename(t) == \E n, m \in Names : Begin(t, "rename", n, m)

\* sfs_dir_findname for the name the call is about, and the vnode that it names.
FindPanics(v, name) ==
    \/ DirPanics(v)
    \/ \E i, j \in SlotOf(v, name) : i # j          \* KASSERT(found==0)
    \/ SlotOf(v, name) # {} /\ LoadPanics(v, Lookup(v, name))
    \/ SlotOf(v, name) # {} /\ InodeOf(Load(v, Lookup(v, name)), Lookup(v, name)).links = 0

Find(t) ==
    LET name == th[t].name
    IN /\ At(t, "find")
       /\ \/ FindPanics(vol, name) /\ Panic
          \/ /\ ~FindPanics(vol, name)
             /\ SlotOf(vol, name) = {}
             /\ Goto(t, IF th[t].op = "creat" THEN "makeobj" ELSE "root")
             /\ UNCHANGED <<vol, synced>> /\ Quiet
          \/ /\ ~FindPanics(vol, name)
             /\ SlotOf(vol, name) # {}
             /\ vol' = Load(vol, Lookup(vol, name))
             /\ th' = [th EXCEPT ![t].ino  = Lookup(vol, name),
                                 ![t].slot = CHOOSE i \in SlotOf(vol, name) : TRUE,
                                 ![t].fd   = IF th[t].op = "creat" THEN Lookup(vol, name) ELSE @,
                                 ![t].pc   = CASE th[t].op = "creat"  -> "root"
                                               [] th[t].op = "remove" -> "unlink"
                                               [] OTHER               -> "slot"]
             /\ UNCHANGED synced /\ Quiet
          \/ /\ IoError
             /\ Goto(t, "root")
             /\ UNCHANGED vol

\* sfs_makeobj: a block for the inode, cleared on the disk, and a vnode for it.
MakeObj(t) ==
    LET b == FirstFree(vol)
    IN /\ At(t, "makeobj")
       /\ \/ /\ Full(vol)                                                      \* ENOSPC
             /\ Goto(t, "root")
             /\ UNCHANGED <<vol, synced>> /\ Quiet
          \/ /\ ~Full(vol)
             /\ \E k \in 1 .. Len(vol.vnodes) : vol.vnodes[k].ino \notin vol.freemap
             /\ Panic
          \/ /\ ~Full(vol)
             /\ \A k \in 1 .. Len(vol.vnodes) : vol.vnodes[k].ino \in vol.freemap
             /\ vol' = [Balloc(vol) EXCEPT !.vnodes =
                           Append(@, [ino |-> b, ref |-> 1, dirty |-> TRUE, inode |-> Inode("file")])]
             /\ th' = [th EXCEPT ![t].ino = b, ![t].pc = "slot"]
             /\ UNCHANGED synced /\ Quiet
          \/ /\ ~Full(vol)
             /\ IoError
             /\ vol' \in {Marked(vol), Balloc(vol)}     \* clearing it, or reading it back
             /\ Goto(t, "root")

\* sfs_dir_link: the name must be new; a slot for it, with a block when the directory grows.
LinkFails(v, name) ==
    \/ SlotOf(v, name) # {}                                                          \* EEXIST
    \/ LinkSlot(v) > NSlots                                                          \* EFBIG
    \/ LinkSlot(v) <= NSlots /\ Dir(v).direct[LinkSlot(v)] = 0 /\ Full(v)            \* ENOSPC

Slot(t) ==
    LET s == LinkSlot(vol)
    IN /\ At(t, "slot")
       /\ \/ DirPanics(vol) /\ Panic
          \/ /\ ~DirPanics(vol)
             /\ LinkFails(vol, th[t].to)
             /\ Goto(t, "drop")
             /\ UNCHANGED <<vol, synced>> /\ Quiet
          \/ /\ ~DirPanics(vol)
             /\ ~LinkFails(vol, th[t].to)
             /\ vol' = IF Dir(vol).direct[s] # 0 THEN vol
                       ELSE Changed(Balloc(vol), Root, [Dir(vol) EXCEPT !.direct[s] = FirstFree(vol)])
             /\ th' = [th EXCEPT ![t].slot2 = s, ![t].pc = "entry"]
             /\ UNCHANGED synced /\ Quiet
          \/ /\ ~DirPanics(vol)
             /\ ~LinkFails(vol, th[t].to)
             /\ IoError
             /\ vol' = IF Dir(vol).direct[s] # 0 THEN vol ELSE Marked(vol)
             /\ Goto(t, "drop")

\* Variant: link counts are not updated.
LinkUncounted(v, name, ino, s) ==
    LET w == [v EXCEPT !.disk[Dir(v).direct[s]] = Entry(name, ino)]
    IN IF s > Dir(v).size THEN Changed(w, Root, [Dir(v) EXCEPT !.size = s]) ELSE w

\* sfs_writedir of the new entry, and the link count of the file.
Linked(v, name, ino, s) ==
    LET w == [v EXCEPT !.disk[Dir(v).direct[s]] = Entry(name, ino)]
    IN LinksBy(IF s > Dir(v).size THEN Changed(w, Root, [Dir(v) EXCEPT !.size = s]) ELSE w, ino, 1)

WriteEntry(t) ==
    /\ At(t, "entry")
    /\ \/ /\ vol' = Linked(vol, th[t].to, th[t].ino, th[t].slot2)
          /\ th' = [th EXCEPT ![t].fd = IF th[t].op = "creat" THEN th[t].ino ELSE @,
                              ![t].pc = CASE th[t].op = "creat" -> "root"
                                          [] th[t].op = "link"  -> "drop"
                                          [] OTHER              -> "unlink"]
          /\ UNCHANGED synced /\ Quiet
       \/ /\ IoError
          /\ Goto(t, "drop")
          /\ UNCHANGED vol

\* Variant: the slot is left as it is.
StillListed(v, ino, s) == LinksBy(v, ino, -1)

\* sfs_dir_unlink of the old slot, and the link count.
Unlinked(v, ino, s) == LinksBy([v EXCEPT !.disk[Dir(v).direct[s]] = Zero], ino, -1)

Unlink(t) ==
    /\ At(t, "unlink")
    /\ \/ InodeOf(vol, th[t].ino).links = 0 /\ Panic
       \/ /\ InodeOf(vol, th[t].ino).links > 0
          /\ vol' = Unlinked(vol, th[t].ino, th[t].slot)
          /\ Goto(t, "drop")
          /\ UNCHANGED synced /\ Quiet
       \/ /\ IoError
          /\ Goto(t, IF th[t].op = "rename" THEN "undo" ELSE "drop")
          /\ UNCHANGED vol

\* "Error recovery: try to undo what we already did": the inode is not marked dirty again.
Undo(t) ==
    /\ At(t, "undo")
    /\ \/ /\ vol' = [vol EXCEPT !.disk[Dir(vol).direct[th[t].slot2]] = Zero,
                                !.vnodes[Ix(vol, th[t].ino)].inode.links = @ - 1]
          /\ Goto(t, "drop")
          /\ UNCHANGED synced /\ Quiet
       \/ /\ errors < MaxErrors
          /\ Panic

\* The last references go: first the file's, then the root's.
ReclaimFailed(v, ino) == IF v.vnodes[Ix(v, ino)].ref = 1 THEN Doomed(v, ino) ELSE v

NextPc(t, pc) == IF pc = "idle" THEN th' = [th EXCEPT ![t] = Idle(@.fd)] ELSE Goto(t, pc)

Drop(t, at, ino, after) ==
    /\ At(t, at)
    /\ \/ /\ vol' = Decref(vol, ino)
          /\ NextPc(t, after)
          /\ UNCHANGED synced /\ Quiet
       \/ /\ vol.vnodes[Ix(vol, ino)].ref = 1 /\ Doomed(vol, ino).vnodes[Ix(vol, ino)].dirty
          /\ IoError
          /\ vol' = ReclaimFailed(vol, ino)
          /\ NextPc(t, after)

DropFile(t) == Drop(t, "drop", th[t].ino, IF th[t].op = "close" THEN "idle" ELSE "root")
DropRoot(t) == Drop(t, "root", Root, "idle")
---------------------------------------------------------------------------
\* sfs_write at the start of the open file: a block on the first write, then the data.
sfs_write(t) ==
    LET f == InodeOf(vol, th[t].fd)
    IN /\ At(t, "idle") /\ th[t].fd # 0
       /\ f.direct[1] = 0 => ~Full(vol)                                       \* ENOSPC
       /\ \/ /\ vol' = IF f.direct[1] # 0 THEN vol
                       ELSE Changed(Balloc(vol), th[t].fd, [f EXCEPT !.direct[1] = FirstFree(vol)])
             /\ Goto(t, "data")
             /\ synced' = Untouched({}, {th[t].fd}) /\ Quiet
          \/ /\ f.direct[1] = 0
             /\ IoError
             /\ vol' = Marked(vol)
             /\ UNCHANGED th

WriteData(t) ==
    LET f == InodeOf(vol, th[t].fd)
        w == [vol EXCEPT !.disk[f.direct[1]] = Data]
    IN /\ At(t, "data")
       /\ \/ /\ vol' = IF f.size = 0 THEN Changed(w, th[t].fd, [f EXCEPT !.size = 1]) ELSE w
             /\ th' = [th EXCEPT ![t] = Idle(@.fd)]
             /\ UNCHANGED synced /\ Quiet
          \/ /\ IoError
             /\ th' = [th EXCEPT ![t] = Idle(@.fd)]
             /\ UNCHANGED vol

\* vfs_close: vnode_decopen calls sfs_close, which syncs the inode; then the reference goes.
sfs_close(t) ==
    /\ At(t, "idle") /\ th[t].fd # 0
    /\ th' = [th EXCEPT ![t] = [Idle(0) EXCEPT !.op = "close", !.ino = th[t].fd, !.pc = "drop"]]
    /\ \/ /\ vol' = SyncInode(vol, th[t].fd)
          /\ UNCHANGED synced /\ Quiet
       \/ /\ vol.vnodes[Ix(vol, th[t].fd)].dirty
          /\ IoError
          /\ UNCHANGED vol

\* sfs_sync, also the start of vfs_unmount: slot counts through the table, slot2 is its length before.
sfs_sync(t) ==
    /\ At(t, "idle")
    /\ \E op \in {"sync", "unmount"} :
          th' = [th EXCEPT ![t] = [Idle(@.fd) EXCEPT !.op = op, !.pc = "sync", !.slot = 1,
                                                     !.slot2 = Len(vol.vnodes)]]
    /\ UNCHANGED <<vol, synced>> /\ Quiet

\* An error of VOP_FSYNC is not looked at.
SyncVnode(t) ==
    LET k == th[t].slot
    IN /\ At(t, "sync") /\ k <= th[t].slot2
       /\ \/ k > Len(vol.vnodes) /\ Panic          \* vnodearray_get past the end
          \/ /\ k <= Len(vol.vnodes)
             /\ vol' = SyncInode(vol, vol.vnodes[k].ino)
             /\ th' = [th EXCEPT ![t].slot = k + 1]
             /\ UNCHANGED synced /\ Quiet
          \/ /\ k <= Len(vol.vnodes) /\ vol.vnodes[k].dirty
             /\ IoError
             /\ th' = [th EXCEPT ![t].slot = k + 1]
             /\ UNCHANGED vol

\* Variant: the free map is not written.
MapForgotten(v) == [v EXCEPT !.mapdirty = FALSE]
MapWritten(v)   == [v EXCEPT !.diskmap = IF v.mapdirty THEN v.freemap ELSE @, !.mapdirty = FALSE]

\* The directory entries that are on the disk, and what the disk holds of the files they name.
DiskEntries(v) == {v.disk[Root].direct[i] : i \in 1 .. v.disk[Root].size} \cap {b \in Blocks : v.disk[b].kind = "entry"}
OnDisk(v) == {[name |-> v.disk[b].name, ino |-> v.disk[b].ino, slot |-> b,
               inode |-> v.disk[v.disk[b].ino],
               data  |-> v.disk[v.disk[v.disk[b].ino].direct[1]]] :
                  b \in {c \in DiskEntries(v) : v.disk[v.disk[c].ino].kind = "inode"}}
Clean(v) == \A k \in 1 .. Len(v.vnodes) : ~v.vnodes[k].dirty

SyncMap(t) ==
    /\ At(t, "sync") /\ th[t].slot > th[t].slot2
    /\ \/ /\ vol' = MapWritten(vol)
          /\ synced' = IF Clean(vol) THEN OnDisk(vol) ELSE {}
          /\ NextPc(t, IF th[t].op = "unmount" THEN "unmount" ELSE "idle")
          /\ Quiet
       \/ /\ vol.mapdirty
          /\ IoError
          /\ th' = [th EXCEPT ![t] = Idle(@.fd)]
          /\ UNCHANGED vol

\* sfs_unmount, and the next sfs_domount reads the map back.
Unmount(t) ==
    /\ At(t, "unmount")
    /\ \/ /\ vol.vnodes # <<>>                                          \* EBUSY
          /\ th' = [th EXCEPT ![t] = Idle(@.fd)]
          /\ UNCHANGED <<vol, synced>> /\ Quiet
       \/ vol.vnodes = <<>> /\ vol.mapdirty /\ Panic
       \/ /\ vol.vnodes = <<>> /\ ~vol.mapdirty
          /\ vol' = [vol EXCEPT !.freemap = vol.diskmap]
          /\ th' = [th EXCEPT ![t] = Idle(@.fd)]
          /\ UNCHANGED synced /\ Quiet

Step(t) ==
    \/ sfs_creat(t) \/ sfs_remove(t) \/ sfs_link(t) \/ sfs_rename(t)
    \/ Find(t) \/ MakeObj(t) \/ Slot(t) \/ WriteEntry(t) \/ Unlink(t) \/ Undo(t)
    \/ DropFile(t) \/ DropRoot(t)
    \/ sfs_write(t) \/ WriteData(t) \/ sfs_close(t)
    \/ sfs_sync(t) \/ SyncVnode(t) \/ SyncMap(t) \/ Unmount(t)

Next == \E t \in Threads : Step(t)

Spec == Init /\ [][Next]_vars
---------------------------------------------------------------------------
\* The inodes as the kernel sees them: in the table, or else on the disk.
Current(ino) == IF Ix(vol, ino) > 0 THEN InodeOf(vol, ino) ELSE vol.disk[ino]
DirBlocks    == {Current(Root).direct[i] : i \in Slots} \ {0}
Entries      == {Current(Root).direct[i] : i \in 1 .. Current(Root).size} \cap {b \in Blocks : vol.disk[b].kind = "entry"}
Live         == {vol.disk[b].ino : b \in Entries} \cup ({th[t].fd : t \in Threads} \ {0})
BlocksOf(ino) == {Current(ino).direct[i] : i \in Slots} \ {0}
Quiescent    == fate = "ok" /\ \A t \in Threads : th[t].pc = "idle"

\* Type invariant: what each variable may hold.
TypeOK ==
    /\ vol.freemap \subseteq Blocks /\ vol.diskmap \subseteq Blocks
    /\ \A k \in 1 .. Len(vol.vnodes) :
          /\ vol.vnodes[k].ino \in Blocks \ {0}
          /\ vol.vnodes[k].ref \in 1 .. 2 * Cardinality(Threads) + 1
          /\ vol.vnodes[k].inode.links \in 0 .. NSlots
    /\ \A t \in Threads : th[t].fd \in Blocks /\ th[t].ino \in Blocks
    /\ fate \in {"ok", "panic"} /\ errors \in 0 .. MaxErrors

\* With one thread and a disk that works, no assertion and no consistency check of sfs_vnode.c
\* fires: no free block is mapped, no name leads to an unallocated, untyped or unlinked inode, no
\* name is there twice, and an unmount finds nothing left to write.
NoPanic == fate = "ok"

\* Between calls the link count of a file is the number of its names, whatever failed: it decides
\* when sfs_reclaim erases the file.
LinkCounts ==
    Quiescent => \A ino \in Live :
        /\ Current(ino).kind = "inode"
        /\ Current(ino).links = Cardinality({b \in Entries : vol.disk[b].ino = ino})

\* Every block of the directory, of a named file or of an open one is marked, and has one use.
BlocksSafe ==
    Quiescent =>
        /\ (0 .. 2) \cup DirBlocks \cup Live \cup UNION {BlocksOf(i) : i \in Live} \subseteq vol.freemap
        /\ DirBlocks \cap Live = {}
        /\ \A i \in Live : BlocksOf(i) \cap (DirBlocks \cup Live) = {}
        /\ \A i, j \in Live : i # j => BlocksOf(i) \cap BlocksOf(j) = {}

\* With a disk that works no other block is marked: calls that fail for want of space or because
\* of a name give back what they allocated, and a removed file goes with its last name and reference.
NothingLost ==
    Quiescent => vol.freemap = (0 .. 2) \cup DirBlocks \cup Live \cup UNION {BlocksOf(i) : i \in Live}

\* Between calls the table has the open files and nothing else, with a reference for each opening:
\* no call forgets a vnode, so an unmount is refused only while files are open.
VnodesReleased ==
    Quiescent =>
        /\ {vol.vnodes[k].ino : k \in 1 .. Len(vol.vnodes)} = {th[t].fd : t \in Threads} \ {0}
        /\ \A k \in 1 .. Len(vol.vnodes) :
              vol.vnodes[k].ref = Cardinality({t \in Threads : th[t].fd = vol.vnodes[k].ino})

\* A file that a complete sync has written, and that no call has touched since, is on the disk as
\* it was, name, inode and data, and marked in the map there, at every moment at which the machine
\* can stop and whatever calls on other files are half done.
SyncedSurvives ==
    \A f \in synced :
        /\ f \in OnDisk(vol)
        /\ {f.slot, f.ino, f.inode.direct[1]} \subseteq vol.diskmap

=============================================================================
