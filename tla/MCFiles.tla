------------------------------ MODULE MCFiles ------------------------------
(***************************************************************************)
(* The file systems and the VFS layer for TLC: each behaviour follows one  *)
(* of the parts that the configuration names, as in MCKernel.              *)
(***************************************************************************)
EXTENDS Integers, Sequences, FiniteSets, TLC

CONSTANTS
    Following,    \* the parts that the run follows
    Nil, t1, na, nb, f1, root, u1, u2    \* model values

VARIABLES
    part,     \* the part a behaviour follows
    v1, v2, v3, v4, v5, v6, v7, v8, v9, v10, v11, v12, v13, v14, v15    \* its variables, in the order of its module

filesvars ==
    <<part, v1, v2, v3, v4, v5, v6, v7, v8, v9, v10, v11, v12, v13, v14, v15>>

\* The variables a part does not use.
Off15 == TRUE
Same15 == UNCHANGED part
Off9 == v10 = 0 /\ v11 = 0 /\ v12 = 0 /\ v13 = 0 /\ v14 = 0 /\ v15 = 0 /\ Off15
Same9 == UNCHANGED <<v10, v11, v12, v13, v14, v15>> /\ Same15
Off5 == v6 = 0 /\ v7 = 0 /\ v8 = 0 /\ v9 = 0 /\ Off9
Same5 == UNCHANGED <<v6, v7, v8, v9>> /\ Same9
Off4 == v5 = 0 /\ Off5
Same4 == UNCHANGED <<v5>> /\ Same5
Off2 == v3 = 0 /\ v4 = 0 /\ Off4
Same2 == UNCHANGED <<v3, v4>> /\ Same4

\* Names and threads that differ in nothing.
Symmetry == Permutations({na, nb}) \cup Permutations({u1, u2})
-----------------------------------------------------------------------------
\* An SFS file: one direct block, two through the indirect block, eight blocks on the disk.
File == INSTANCE SfsFile WITH
    SFS_BLOCKSIZE <- 2, SFS_NDIRECT <- 1, SFS_DBPERIDB <- 2, NBlocks <- 8, Bytes <- {1},
    Lengths <- {2, 3}, MaxLen <- 3, MaxPos <- 6, TruncLengths <- {0},
    file <- v1, result <- v2
ASSUME File!SizesAssumption
FileInit == part = "file" /\ File!Init /\ Off2
FileNext == part = "file" /\ File!Next /\ Same2

\* An SFS volume: a directory of two slots and two names.
Vol == INSTANCE SfsVolume WITH
    Names <- {na, nb}, Threads <- {t1}, NBlocks <- 7, NSlots <- 2, MaxErrors <- 0,
    vol <- v1, th <- v2, fate <- v3, errors <- v4, synced <- v5
ASSUME Vol!VolumeAssumption
VolInit == part = "volume" /\ Vol!Init /\ Off5
VolNext == part = "volume" /\ Vol!Next /\ Same5

\* The emulator's file system: a file and the root directory, handles that are retried.
Emu == INSTANCE Emufs WITH
    Threads <- {t1}, Files <- {f1}, Dirs <- {root}, None <- Nil, Root <- root, Handles <- {0, 1},
    Shares <- TRUE, MaxIO <- 1, MaxRetries <- 1, MaxLen <- 1, MaxSize <- 1, MaxRef <- 1,
    MaxDepth <- 1,
    host <- v1, open <- v2, reg <- v3, iobuf <- v4, irq <- v5, eresult <- v6, sem <- v7, vn <- v8,
    isdir <- v9, refs <- v10, th <- v11, depth <- v12, gaveup <- v13, wrongkind <- v14,
    panicked <- v15
ASSUME Emu!EmufsAssumption
EmuInit == part = "emulated" /\ Emu!Init /\ Off15
EmuNext == part = "emulated" /\ Emu!Next /\ Same15

\* The emulator's file system again: files of three bytes through a buffer of two.
Xfer == INSTANCE Emufs WITH
    Threads <- {t1}, Files <- {f1}, Dirs <- {root}, None <- Nil, Root <- root, Handles <- {0, 1},
    Shares <- FALSE, MaxIO <- 2, MaxRetries <- 0, MaxLen <- 3, MaxSize <- 3, MaxRef <- 1,
    MaxDepth <- 0,
    host <- v1, open <- v2, reg <- v3, iobuf <- v4, irq <- v5, eresult <- v6, sem <- v7, vn <- v8,
    isdir <- v9, refs <- v10, th <- v11, depth <- v12, gaveup <- v13, wrongkind <- v14,
    panicked <- v15
ASSUME Xfer!EmufsAssumption
XferInit == part = "transfer" /\ Xfer!Init /\ Off15
XferNext == part = "transfer" /\ Xfer!Next /\ Same15

\* The VFS calls: one thread makes all of them.
Vfs == INSTANCE Vfs WITH
    Threads <- {t1}, Files <- {f1}, None <- Nil,
    Ops <- {"open", "close", "remove", "rename", "link", "chdir", "getcwd", "setbootfs", "clearcurdir", "mount", "unmount"},
    Kinds <- {"boot", "dev", "root", "null", "top"}, Names <- {"f", "g"}, MaxOpen <- 2,
    LockWorks <- FALSE,
    ref <- v1, opencount <- v2, opened <- v3, dir <- v4, mounted <- v5, bootfs <- v6, cwd <- v7,
    files <- v8, call <- v9
VfsInit == part = "calls" /\ Vfs!Init /\ Off9
VfsNext == part = "calls" /\ Vfs!Next /\ Same9

\* The VFS calls again: two threads, and a lock that works.
Pair == INSTANCE Vfs WITH
    Threads <- {u1, u2}, Files <- {f1}, None <- Nil,
    Ops <- {"open", "close", "chdir", "mount", "unmount"}, Kinds <- {"dev", "null", "top"},
    Names <- {"f"}, MaxOpen <- 1, LockWorks <- TRUE,
    ref <- v1, opencount <- v2, opened <- v3, dir <- v4, mounted <- v5, bootfs <- v6, cwd <- v7,
    files <- v8, call <- v9
PairInit == part = "callers" /\ Pair!Init /\ Off9
PairNext == part = "callers" /\ Pair!Next /\ Same9

\* The table of devices: a disk, a second one, and a name that looks like a raw device.
Table == INSTANCE VfsTable WITH
    Names <- {"lhd0", "lhd1", "lhd0raw"}, Labels <- {}, None <- Nil, MaxDevs <- 3, MaxBlocks <- 11,
    devs <- v1, busy <- v2, blocks <- v3, call <- v4
TableInit == part = "devices" /\ Table!Init /\ Off4
TableNext == part = "devices" /\ Table!Next /\ Same4

\* Vnodes of each kind, on two blocks of two bytes and offsets of four bits.
Vn == INSTANCE VnodeOps WITH
    Blocks <- 2, BlockSize <- 2, Word <- 16, MaxHandles <- 3, MaxSize <- 5,
    Objects <- {"null", "con", "random", "disk", "sfsfile", "sfsroot", "emufile", "emudir", "emuroot"},
    o <- v1, ref <- v2, opencount <- v3, live <- v4, size <- v5, dirty <- v6, handles <- v7,
    panicked <- v8, last <- v9
ASSUME Vn!VnodeOpsAssumption
VnInit == part = "vnodes" /\ Vn!Init /\ Off9
VnNext == part = "vnodes" /\ Vn!Next /\ Same9

-----------------------------------------------------------------------------
FilesInit ==
    /\ part \in Following
    /\ \/ FileInit \/ VolInit \/ EmuInit \/ XferInit \/ VfsInit \/ PairInit \/ TableInit
       \/ VnInit

FilesNext ==
    \/ FileNext \/ VolNext \/ EmuNext \/ XferNext \/ VfsNext \/ PairNext \/ TableNext
    \/ VnNext

FilesSpec == FilesInit /\ [][FilesNext]_filesvars

-----------------------------------------------------------------------------
\* What a file promises.
Visible == INSTANCE ByteFile WITH
    Bytes <- {1}, MaxLen <- 3, MaxPos <- 6,
    size <- File!VisibleSize, bytes <- File!VisibleBytes, result <- v2

\* What a program can see of an SFS file is a ByteFile (Visible!Spec, for the part that has one): reads
\* return what was written, holes and the space that an erased file used before read as zeros, a
\* write that fails part way grows the file by what it wrote.
IsByteFile ==
    /\ part = "file" => Visible!Init
    /\ [][part = "file" => Visible!Next \/ UNCHANGED Visible!vars]_filesvars

\* A disk block is marked exactly when something names it, and has one use: writes that fail half
\* way, truncation, calls that fail for want of space or because of a name, and the removal of open
\* files neither lose nor share one. No assertion or consistency check of sfs_vnode.c fires, and no
\* call forgets a vnode.
BlocksAccounted ==
    /\ part = "file" => File!TypeOK /\ File!BlocksAccounted
    /\ part = "volume" => Vol!TypeOK /\ Vol!NoPanic /\ Vol!NothingLost /\ Vol!VnodesReleased

\* A file that a complete sync has written, and that no call has touched since, is on the disk as it
\* was, name, inode and data, and marked in the map there, at every moment at which the machine can
\* stop and whatever calls on other files are half done.
SyncedSurvives ==
    part = "volume" => Vol!SyncedSurvives

\* The handles open at the emulator's device are those of the loaded vnodes, though calls fail half
\* way; the device is never asked about a handle it has closed; and reads and writes put their
\* pieces of at most EMU_MAXIO together rightly.
EmufsRight ==
    /\ part = "emulated" => Emu!TypeOK /\ Emu!HandlesKept
    /\ part = "transfer" => Xfer!DeviceUsedRightly /\ Xfer!TransfersWhole

\* The reference count of a vnode is the number of references there are, and its open count the
\* number of open files, those of calls in progress included; VOP_CLOSE comes with the last close
\* only; and a file system with a vnode in use is mounted.
CountsExact ==
    /\ part = "calls" => Vfs!TypeOK /\ Vfs!ClosedLast
    /\ part = "callers" => Pair!RefsExact /\ Pair!OpensExact /\ Pair!MountedInUse

\* A name of the device table refers to what the comment on struct knowndev says, through mounts,
\* unmounts and failures, and a file system in use stays; a vnode of any kind refuses what its type
\* has not, is read wherever tryseek allows, never fails the assertions on its counts, and is on the
\* disk after its last close, or the close has warned.
ObjectsRight ==
    /\ [](part = "devices" => Table!TypeOK /\ Table!MountsHaveDevices /\ Table!BusyStaysMounted
           /\ Table!NamesRefer)
    /\ [](part = "vnodes" => Vn!TypeOK /\ Vn!NeverPanics /\ Vn!TypeDecides /\ Vn!SeekThenRead
           /\ Vn!SizesAgree)
    /\ [][part = "devices" => Table!NomemFreesAll /\ Table!UnmountallGoesOn]_filesvars
    /\ [][part = "vnodes" => Vn!CloseSyncs]_filesvars
=============================================================================
