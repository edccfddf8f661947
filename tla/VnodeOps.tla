------------------------------ MODULE VnodeOps ------------------------------
(* The vnode operations of every kind of object of the system, as a caller     *)
(* of the VFS layer meets them: devices (kern/vfs/device.c over devnull.c,     *)
(* console.c, random.c, lhd.c), and the tables of functions of the simple      *)
(* file system (sfs_vnode.c) and of the emulated one (emu.c); with the checks  *)
(* of kern/vfs/vnode.c that come before every operation.                       *)
EXTENDS Integers, FiniteSets, Sequences

CONSTANTS Blocks,      \* d_blocks of the disk
          BlockSize,   \* d_blocksize of the disk
          Word,        \* 2^32: the width of d_blocks and d_blocksize
          MaxHandles,  \* bound: vnodes a caller holds open
          MaxSize,     \* bound: longest file
          Objects      \* the objects that are used

CharDevs == {"null", "con", "random"}
Devices == CharDevs \cup {"disk"}
SfsObjects == {"sfsfile", "sfsroot"}
EmuObjects == {"emufile", "emudir", "emuroot"}
Roots == {"sfsroot", "emuroot"}
VnodeOpsAssumption == BlockSize > 1 /\ Blocks > 0 /\ Objects \subseteq Devices \cup SfsObjects \cup EmuObjects

VARIABLES
    o,                \* the object: vnodes do not depend on each other
    ref, opencount,   \* vn_refcount, vn_opencount
    live,             \* vn_ops is set: VOP_INIT has been called, and VOP_CLEANUP not since
    size,             \* of the file
    dirty,            \* sv_dirty
    handles,          \* how often callers have it open
    panicked,
    last              \* the operation done last, with its argument and result

vars == <<o, ref, opencount, live, size, dirty, handles, panicked, last>>
NoOp == [op |-> "none", arg |-> 0, result |-> "ok"]

\* Devices and the roots of the file systems are there from the start, and
\* their creator keeps a reference.
Kept == Devices \cup Roots
Init ==
    /\ o \in Objects
    /\ ref = (IF o \in Kept THEN 1 ELSE 0) /\ live = (o \in Kept)
    /\ opencount = 0 /\ size = 0 /\ dirty = FALSE
    /\ handles = 0 /\ panicked = FALSE /\ last = NoOp
------------------------------------------------------------------------------
(* Devices *)

\* d_open of the drivers: only the random device looks at the flags.
randopen(flags) == IF flags # {"read"} THEN "EIO" ELSE "ok"
lhd_open == "ok"
con_open == "ok"
nullopen == "ok"
d_open(v, flags) ==
    CASE v = "random" -> randopen(flags) [] v = "disk" -> lhd_open [] v = "con" -> con_open [] v = "null" -> nullopen
dev_open(v, flags) == IF flags \cap {"creat", "trunc", "excl", "append"} # {} THEN "EINVAL" ELSE d_open(v, flags)

\* d_io: the null device reads nothing and takes everything, the disk wants
\* whole sectors that it has.
lhd_io(pos, len) ==
    IF pos % BlockSize # 0 \/ len % BlockSize # 0 THEN "EINVAL"
    ELSE IF (((pos \div BlockSize) % Word) + (len \div BlockSize)) % Word > Blocks THEN "EINVAL"
    ELSE "ok"
randio(rw) == IF rw = "read" THEN "ok" ELSE "EIO"
nullio == "ok"
d_io(v, rw, pos, len) ==
    CASE v = "disk" -> lhd_io(pos, len) [] v = "random" -> randio(rw) [] OTHER -> nullio
lhd_ioctl == "EIOCTL"
randioctl == "EIOCTL"
con_ioctl == "EINVAL"
nullioctl == "EINVAL"
d_ioctl(v) ==
    CASE v = "disk" -> lhd_ioctl [] v = "random" -> randioctl [] v = "con" -> con_ioctl [] v = "null" -> nullioctl

dev_blocks(v) == IF v = "disk" THEN Blocks ELSE 0
dev_gettype(v) == IF dev_blocks(v) > 0 THEN "S_IFBLK" ELSE "S_IFCHR"
\* Variant: the size is told in blocks
stat_blocks(v) == dev_blocks(v)
\* The product has the width of its factors.
dev_stat(v) == IF dev_blocks(v) > 0 THEN (Blocks * BlockSize) % Word ELSE 0
\* Variant: a position is compared with the number of blocks
tryseek_bytes(v, pos) ==
    IF dev_blocks(v) = 0 THEN "ESPIPE"
    ELSE IF pos % BlockSize # 0 \/ pos < 0 \/ pos \div BlockSize > Blocks THEN "EINVAL"
    ELSE "ok"
dev_tryseek(v, pos) ==
    IF dev_blocks(v) = 0 THEN "ESPIPE"
    ELSE IF pos % BlockSize # 0 \/ pos < 0 \/ pos \div BlockSize >= Blocks THEN "EINVAL"
    ELSE "ok"
dev_truncate(v, len) == IF dev_blocks(v) > 0 /\ (Blocks * BlockSize) % Word = len THEN "ok" ELSE "EINVAL"

NameOps == {"creat", "symlink", "mkdir", "link", "remove", "rmdir", "rename", "lookparent"}
\* null_creat, null_symlink, null_mkdir, null_link, null_nameop, null_rename
null_nameop == "ENOTDIR"
\* readlink, getdirentry
null_io == "EINVAL"
null_fsync == "ok"
dev_mmap == "EUNIMP"
dev_namefile == "ok"

dev_vnode_ops(op, v, arg) ==
    CASE op = "open" -> dev_open(v, arg)
      [] op = "read" -> d_io(v, "read", arg[1], arg[2])
      [] op = "write" -> d_io(v, "write", arg[1], arg[2])
      [] op \in {"readlink", "getdirentry"} -> null_io
      [] op = "ioctl" -> d_ioctl(v)
      [] op = "tryseek" -> dev_tryseek(v, arg)
      [] op = "truncate" -> dev_truncate(v, arg)
      [] op = "fsync" -> null_fsync
      [] op = "mmap" -> dev_mmap
      [] op = "namefile" -> dev_namefile
      [] op \in NameOps -> null_nameop
------------------------------------------------------------------------------
(* The simple file system *)

sfs_open(flags) == IF "append" \in flags THEN "EUNIMP" ELSE "ok"
sfs_opendir(flags) == IF "write" \in flags \/ "append" \in flags THEN "EISDIR" ELSE "ok"
sfs_tryseek(pos) == IF pos < 0 THEN "EINVAL" ELSE "ok"
sfs_ioctl == "EINVAL"
sfs_mmap == "EUNIMP"
sfs_notdir == "ENOTDIR"
sfs_isdir == "EISDIR"
sfs_unimp == "EUNIMP"
sfs_namefile(v) == IF v = "sfsroot" THEN "ok" ELSE "panic"      \* KASSERT

sfs_fileops(op, v, arg) ==
    CASE op = "open" -> sfs_open(arg)
      [] op = "tryseek" -> sfs_tryseek(arg)
      [] op = "ioctl" -> sfs_ioctl
      [] op = "mmap" -> sfs_mmap
      [] op \in {"readlink", "getdirentry", "namefile"} \cup NameOps -> sfs_notdir
      [] OTHER -> "ok"
sfs_dirops(op, v, arg) ==
    CASE op = "open" -> sfs_opendir(arg)
      [] op \in {"read", "readlink", "write", "mmap", "truncate"} -> sfs_isdir
      [] op \in {"getdirentry", "tryseek", "symlink", "mkdir", "rmdir"} -> sfs_unimp
      [] op = "ioctl" -> sfs_ioctl
      [] op = "namefile" -> sfs_namefile(v)
      [] OTHER -> "ok"
------------------------------------------------------------------------------
(* The emulated file system *)

emufs_open(flags) == IF "append" \in flags THEN "EUNIMP" ELSE "ok"
emufs_opendir(flags) == IF "write" \in flags \/ "append" \in flags THEN "EISDIR" ELSE "ok"
emufs_tryseek(pos) == IF pos < 0 THEN "EINVAL" ELSE "ok"
emufs_ioctl == "EINVAL"
emufs_mmap == "EUNIMP"
emufs_namefile(v) == IF v = "emuroot" THEN "ok" ELSE "EUNIMP"
\* symlink, mkdir, link, remove, rmdir, rename, and tryseek of a directory
emufs_unimp == "EUNIMP"
\* read, readlink, write, fsync, mmap of a directory
emufs_isdir == "EISDIR"
emufs_truncate_isdir == "ENOTDIR"
emufs_notdir == "ENOTDIR"
emufs_readlink_notlink == "EINVAL"

\* Variant: files are read like directories
fileops_list(op, v, arg) ==
    CASE op = "open" -> emufs_open(arg)
      [] op = "tryseek" -> emufs_tryseek(arg)
      [] op = "ioctl" -> emufs_ioctl
      [] op = "mmap" -> emufs_mmap
      [] op = "readlink" -> emufs_readlink_notlink
      [] op \in {"namefile"} \cup NameOps -> emufs_notdir
      [] OTHER -> "ok"
emufs_fileops(op, v, arg) ==
    CASE op = "open" -> emufs_open(arg)
      [] op = "tryseek" -> emufs_tryseek(arg)
      [] op = "ioctl" -> emufs_ioctl
      [] op = "mmap" -> emufs_mmap
      [] op = "readlink" -> emufs_readlink_notlink
      [] op \in {"getdirentry", "namefile"} \cup NameOps -> emufs_notdir
      [] OTHER -> "ok"
emufs_dirops(op, v, arg) ==
    CASE op = "open" -> emufs_opendir(arg)
      [] op \in {"read", "readlink", "write", "fsync", "mmap"} -> emufs_isdir
      [] op = "truncate" -> emufs_truncate_isdir
      [] op \in {"symlink", "mkdir", "link", "remove", "rmdir", "rename", "tryseek"} -> emufs_unimp
      [] op = "ioctl" -> emufs_ioctl
      [] op = "namefile" -> emufs_namefile(v)
      [] OTHER -> "ok"
------------------------------------------------------------------------------
(* The VFS layer *)

\* VOP_GETTYPE: dev_gettype, sfs_gettype, emufs_file_gettype, emufs_dir_gettype.
sfs_gettype(v) == IF v = "sfsroot" THEN "S_IFDIR" ELSE "S_IFREG"
emufs_gettype(v) == IF v = "emufile" THEN "S_IFREG" ELSE "S_IFDIR"
VOP_GETTYPE(v) ==
    CASE v \in Devices -> dev_gettype(v)
      [] v \in SfsObjects -> sfs_gettype(v)
      [] v \in EmuObjects -> emufs_gettype(v)
\* VOP_STAT: the size.
sfs_stat == size
VOP_STAT == IF o \in Devices THEN dev_stat(o) ELSE sfs_stat

\* What VOP_op returns, when the disk works.
VOP(op, arg) ==
    CASE o \in Devices -> dev_vnode_ops(op, o, arg)
      [] o = "sfsfile" -> sfs_fileops(op, o, arg)
      [] o = "sfsroot" -> sfs_dirops(op, o, arg)
      [] o = "emufile" -> emufs_fileops(op, o, arg)
      [] o \in {"emudir", "emuroot"} -> emufs_dirops(op, o, arg)

\* vnode_check, before every operation: whether the vnode is one.
vnode_check(op) == live /\ ref >= 0 /\ (ref > 0 \/ op = "reclaim") /\ opencount >= 0
\* vnode_cleanup asserts that it has the last reference and that the vnode is
\* closed; here, that its last close is the one in progress.
vnode_cleanup == ref = 1 /\ opencount = 1

Note(op, arg, r) == last' = [op |-> op, arg |-> arg, result |-> r]
Flags == {{"read"}, {"write"}, {"read", "write"}, {"write", "append"}, {"read", "append"}, {"write", "trunc"}}

\* vfs_open of the object: it is looked up (a vnode of the file systems that is
\* not in memory is loaded), opened, and truncated when that is asked for.
\* When it cannot be opened it is released again.
Got == IF live THEN ref + 1 ELSE 1
vfs_open ==
    /\ handles < MaxHandles
    /\ \E f \in Flags : LET r == VOP("open", f) IN
         /\ Note("open", 0, r)
         /\ IF r = "ok"
            THEN /\ ref' = Got /\ opencount' = opencount + 1 /\ live' = TRUE /\ handles' = handles + 1
                 /\ size' = IF "trunc" \in f THEN 0 ELSE size
                 /\ dirty' = (dirty \/ ("trunc" \in f /\ o = "sfsfile"))
            ELSE UNCHANGED <<ref, opencount, live, size, dirty, handles>>
    /\ UNCHANGED <<o, panicked>>

\* Variant: VOP_CLOSE is not called
decopen_only == {[dirty |-> dirty, warn |-> FALSE]}
\* vnode_decopen: VOP_CLOSE with the last one; sfs_close syncs, emufs_close and
\* the drivers' d_close do nothing.  The sync may fail, with a warning.
sfs_close == {[dirty |-> d, warn |-> d] : d \in {FALSE, dirty}}
emufs_close == {[dirty |-> dirty, warn |-> FALSE]}
dev_close == {[dirty |-> dirty, warn |-> FALSE]}
vnode_decopen ==
    IF opencount > 1 THEN {[dirty |-> dirty, warn |-> FALSE]}
    ELSE IF o \in SfsObjects THEN sfs_close ELSE IF o \in EmuObjects THEN emufs_close ELSE dev_close

\* Variant: a vnode that is still open elsewhere is reclaimed
Reclaimed_early(works) == o \notin Devices /\ works
\* vnode_decref: the last reference leads to VOP_RECLAIM.  dev_reclaim does
\* nothing; the file systems sync or close the file, which may fail and leaves
\* the vnode as it is, and clean the vnode up.
Reclaimed(works) == o \notin Devices /\ ref = 1 /\ works
vfs_close ==
    /\ handles > 0
    /\ \E works \in BOOLEAN, d \in vnode_decopen :
        /\ d.warn => ~ works
        /\ handles' = handles - 1
        /\ Note("close", 0, IF d.warn THEN "EIO" ELSE "ok")
        /\ panicked' = (panicked \/ ~ vnode_check("close") \/ (Reclaimed(works) /\ ~ vnode_cleanup))
        /\ opencount' = opencount - 1
        /\ ref' = IF Reclaimed(works) THEN 0 ELSE IF ref > 1 THEN ref - 1 ELSE ref
        /\ live' = ~ Reclaimed(works)
        /\ dirty' = (d.dirty /\ ~ Reclaimed(works))
        /\ UNCHANGED <<o, size>>

\* The operations on an open vnode.
Args(op) ==
    CASE op \in {"read", "write"} -> {a \in (0 .. MaxSize) \X (1 .. 2) : a[1] + a[2] <= MaxSize}
      [] op = "tryseek" -> -2 .. MaxSize
      [] op = "truncate" -> 0 .. MaxSize
      [] OTHER -> {0}
PlainOps == {"read", "write", "readlink", "getdirentry", "ioctl", "tryseek", "fsync", "mmap", "truncate", "namefile"} \cup NameOps
SizeAfter(op, arg) ==
    CASE op = "truncate" /\ o \notin Devices -> arg
      [] op = "write" /\ o \notin Devices /\ arg[1] + arg[2] > size -> arg[1] + arg[2]
      [] OTHER -> size
Operate(op) ==
    /\ handles > 0
    /\ \E arg \in Args(op) : LET r == VOP(op, arg) IN
        /\ Note(op, arg, r)
        /\ size' = IF r = "ok" THEN SizeAfter(op, arg) ELSE size
        /\ dirty' = IF r = "ok" /\ op = "fsync" THEN FALSE
                    ELSE dirty \/ (r = "ok" /\ o = "sfsfile" /\ op \in {"write", "truncate"})
        /\ panicked' = (panicked \/ ~ vnode_check(op) \/ r = "panic")
    /\ UNCHANGED <<o, ref, opencount, live, handles>>

Next == vfs_open \/ vfs_close \/ (\E op \in PlainOps : Operate(op))
Spec == Init /\ [][Next]_vars
------------------------------------------------------------------------------
(* Properties *)

\* Counts are counts, and a vnode that is not in memory is not open.
TypeOK ==
    /\ ref \in Nat /\ opencount \in Nat /\ size \in 0 .. MaxSize /\ dirty \in BOOLEAN
    /\ ~ live => ref = 0 /\ opencount = 0

\* vnode_check and the assertions of VOP_CLEANUP never fail, in any order of
\* opens and closes and whichever of the syncs on close fail.
NeverPanics == ~ panicked

\* A refusal agrees with the type of the object: reading and writing fail with
\* EISDIR on directories, and names are not looked for in anything else.
TypeDecides ==
    LET dir == VOP_GETTYPE(o) = "S_IFDIR" IN
    /\ last.op \in {"read", "write"} => (dir <=> last.result = "EISDIR")
    /\ last.op \in NameOps \cup {"getdirentry"} => (~ dir => last.result # "ok") /\ (dir => last.result # "ENOTDIR")
    /\ (last.op = "open" /\ dir) => last.result \in {"ok", "EISDIR"}
    /\ dir => size = 0

\* A position that tryseek accepts is one where the object can be read: on the
\* disk the next sector is there, so lseek never leads to a place where every
\* read fails.
SeekThenRead ==
    (last.op = "tryseek" /\ last.result = "ok") =>
        VOP("read", <<last.arg, IF o = "disk" THEN BlockSize ELSE 1>>) = "ok"

\* stat, truncate and tryseek agree on the size of a disk: it can be
\* "truncated" to the size stat tells, and positions below that size are the ones
\* that exist.
SizesAgree ==
    VOP_GETTYPE(o) = "S_IFBLK" =>
        /\ VOP("truncate", VOP_STAT) = "ok"
        /\ \A p \in 0 .. MaxSize : p % BlockSize = 0 => (VOP("tryseek", p) = "ok" <=> p < VOP_STAT)

\* What was written to a file is on the disk once it is closed by everyone, or
\* the last close has warned.
CloseSyncs == (opencount > 0 /\ opencount' = 0 /\ dirty') => last'.result = "EIO"

=============================================================================
