-------------------------------- MODULE Emufs --------------------------------
(***************************************************************************)
(* The emulated file system (kern/dev/lamebus/emu.c): vnodes over handles  *)
(* of a device that does one operation at a time on registers and a buffer *)
(* and interrupts when it is done.  The device is external.  Sleep locks   *)
(* do nothing in this kernel (synch.c), so nothing keeps two callers apart.*)
(***************************************************************************)
EXTENDS Integers, Sequences, FiniteSets, TLC

CONSTANTS Threads, Files, Dirs, None,
          Root,        \* the directory that EMU_ROOTHANDLE stands for
          Handles,     \* 0 is EMU_ROOTHANDLE
          Shares,      \* whether opening an open file gives its handle again
          MaxIO,       \* EMU_MAXIO, 16384
          MaxRetries,  \* 10 in emu_close
          MaxLen,      \* bound: longest request
          MaxSize,     \* bound: longest file
          MaxRef,      \* bound: references a thread keeps to one vnode
          MaxDepth     \* bound: times the big lock is left taken

EmufsAssumption == Root \in Dirs /\ 0 \in Handles /\ MaxIO > 0

VARIABLES
    host,      \* contents of the host's files that exist
    open,      \* device: what each handle is open on
    reg,       \* device registers
    iobuf,     \* e_iobuf
    irq,       \* device: interrupt line
    eresult,   \* e_result
    sem,       \* count of e_sem
    vn,        \* vn_refcount of the vnode of each handle; 0: not in ef_vnodes
    isdir,     \* handles whose vnode has emufs_dirops
    refs,      \* references the callers hold
    th,        \* the call each thread is in
    depth,     \* vfs_biglock_depth
    gaveup,    \* handles emu_close could not close
    wrongkind, \* the device was asked for something the file's kind has not
    panicked

device == <<host, open, reg, iobuf, irq, eresult, sem>>
table == <<vn, isdir, refs, depth>>
notes == <<gaveup, wrongkind, panicked>>
vars == <<device, table, th, notes>>

EntryTypes == Files \cup Dirs
Idle == [pc |-> "idle", op |-> "none", h |-> 0, name |-> None, off |-> 0, resid |-> 0, amt |-> 0,
         tries |-> 0, data |-> <<>>, from |-> 0, len |-> 0, err |-> "ok"]
\* A call that has ended; what it was is kept for the properties.
Ended(c) == [Idle EXCEPT !.op = IF c.op \in {"open", "read", "write"} THEN c.op ELSE "none",
                         !.h = c.h, !.name = c.name, !.err = c.err, !.data = c.data,
                         !.from = c.from, !.len = c.len]
MinOf(a, b) == IF a < b THEN a ELSE b
MaxOf(a, b) == IF a > b THEN a ELSE b

\* config_emu and emufs_addtovfs: the root vnode is loaded, with one reference of the file system's own.
Init ==
    /\ host = [f \in {} |-> <<>>]
    /\ open = [h \in Handles |-> IF h = 0 THEN Root ELSE None]
    /\ reg = [handle |-> 0, iolen |-> 0, offset |-> 0, oper |-> "none", result |-> "none"]
    /\ iobuf = <<>> /\ irq = FALSE /\ eresult = "none" /\ sem = 0
    /\ vn = [h \in Handles |-> IF h = 0 THEN 1 ELSE 0]
    /\ isdir = {0}
    /\ refs = [t \in Threads |-> [h \in Handles |-> 0]]
    /\ th = [t \in Threads |-> Idle]
    /\ depth = 0
    /\ gaveup = {} /\ wrongkind = FALSE /\ panicked = FALSE
---------------------------------------------------------------------------
\* emufs_fileops and emufs_dirops: what an operation returns, "ok" when it does something.
emufs_fileops(op) ==
    CASE op \in {"readlink", "ioctl"} -> "EINVAL"
      [] op \in {"open_append", "mmap"} -> "EUNIMP"
      [] op \in {"getdirentry", "namefile", "creat", "symlink", "mkdir", "link", "remove", "rmdir",
                 "rename", "lookup", "lookparent"} -> "ENOTDIR"
      [] OTHER -> "ok"

\* Variant: directories are read like files.
DirsRead(op) ==
    CASE op \in {"readlink", "fsync", "mmap", "open_append", "open_write", "truncate", "write"} -> "EISDIR"
      [] op \in {"symlink", "mkdir", "link", "remove", "rmdir", "rename", "tryseek"} -> "EUNIMP"
      [] op = "ioctl" -> "EINVAL"
      [] OTHER -> "ok"

emufs_dirops(op) ==
    CASE op \in {"read", "readlink", "write", "fsync", "mmap", "open_append", "open_write"} -> "EISDIR"
      [] op = "truncate" -> "ENOTDIR"
      [] op \in {"symlink", "mkdir", "link", "remove", "rmdir", "rename", "tryseek"} -> "EUNIMP"
      [] op = "ioctl" -> "EINVAL"
      [] OTHER -> "ok"

Allowed(h, op) == (IF h \in isdir THEN emufs_dirops(op) ELSE emufs_fileops(op)) = "ok"

\* translate_err; the codes that mean a mistake in emu.c panic.
translate_err(code) ==
    CASE code = "SUCCESS" -> "ok"
      [] code = "BADPATH" -> "ENOENT"
      [] code = "EXISTS" -> "EEXIST"
      [] code \in {"MEDIA", "UNKNOWN"} -> "EIO"
      [] code = "NOHANDLES" -> "ENFILE"
      [] code \in {"ISDIR", "NOTDIR"} -> "E" \o code
      [] code \in {"BADHANDLE", "BADOP", "BADSIZE"} -> "panic"
      [] OTHER -> "EAGAIN"
---------------------------------------------------------------------------
\* The device: what an operation does to the host's files, by the registers as they are now.
Existing == Dirs \cup DOMAIN host
FreeHandles == {h \in Handles : open[h] = None}

Stored(i) == IF i \in DOMAIN iobuf THEN iobuf[i] ELSE 0

TooLong == reg.oper \in {"read", "write"} /\ reg.iolen > MaxIO

Answer(code) == reg' = [reg EXCEPT !.oper = "none", !.result = code]

DeviceOpen ==
    LET f == IF iobuf = <<>> THEN None ELSE iobuf[1] IN
    /\ reg.oper \in {"open", "create", "excl"} /\ open[reg.handle] \in Dirs
    /\ \/ /\ reg.oper = "open" /\ f \notin Existing
          /\ Answer("BADPATH") /\ UNCHANGED <<host, open>>
       \/ /\ reg.oper = "excl" /\ f \in Existing
          /\ Answer("EXISTS") /\ UNCHANGED <<host, open>>
       \/ /\ FreeHandles = {} /\ Answer("NOHANDLES") /\ UNCHANGED <<host, open>>
       \/ \E h \in Handles :
            /\ f \in (CASE reg.oper = "open" -> Existing [] reg.oper = "create" -> EntryTypes
                         [] reg.oper = "excl" -> EntryTypes \ Existing)
            /\ \/ open[h] = None /\ ~(Shares /\ \E g \in Handles : open[g] = f)
               \/ Shares /\ open[h] = f
            /\ open' = [open EXCEPT ![h] = f]
            /\ host' = IF f \in Existing THEN host
                       ELSE [g \in DOMAIN host \cup {f} |-> IF g = f THEN <<>> ELSE host[g]]
            /\ reg' = [reg EXCEPT !.oper = "none", !.result = "SUCCESS", !.handle = h,
                                  !.iolen = IF f \in Dirs THEN 1 ELSE 0]
    /\ UNCHANGED <<iobuf, wrongkind>>

DeviceClose ==
    /\ reg.oper = "close" /\ open[reg.handle] # None
    /\ open' = [open EXCEPT ![reg.handle] = None]
    /\ Answer("SUCCESS")
    /\ UNCHANGED <<host, iobuf, wrongkind>>

\* Reading, writing, truncating and measuring a regular file.
DeviceFile ==
    LET f == open[reg.handle]
        old == host[f]
        pad(n) == old \o [i \in 1..MaxOf(0, n - Len(old)) |-> 0]
        data == SubSeq(old, reg.offset + 1, MinOf(reg.offset + reg.iolen, Len(old)))
    IN
    /\ f \in DOMAIN host /\ ~TooLong
    /\ \/ /\ reg.oper = "read"
          /\ iobuf' = data
          /\ reg' = [reg EXCEPT !.oper = "none", !.result = "SUCCESS", !.iolen = Len(data),
                                !.offset = reg.offset + Len(data)]
          /\ UNCHANGED host
       \/ /\ reg.oper = "write"
          /\ host' = [host EXCEPT ![f] =
                        [i \in 1..MaxOf(Len(old), reg.offset + reg.iolen) |->
                           IF i \in reg.offset + 1..reg.offset + reg.iolen THEN Stored(i - reg.offset)
                           ELSE pad(reg.offset)[i]]]
          /\ Answer("SUCCESS") /\ UNCHANGED iobuf
       \/ /\ reg.oper = "trunc"
          /\ host' = [host EXCEPT ![f] = SubSeq(pad(reg.iolen), 1, reg.iolen)]
          /\ Answer("SUCCESS") /\ UNCHANGED iobuf
       \/ /\ reg.oper = "getsize"
          /\ reg' = [reg EXCEPT !.oper = "none", !.result = "SUCCESS", !.iolen = Len(old)]
          /\ UNCHANGED <<host, iobuf>>
    /\ UNCHANGED <<open, wrongkind>>

\* A directory is listed by emu_readdir, one name a time, and measured.
DeviceDir ==
    /\ open[reg.handle] \in Dirs /\ reg.oper \in {"readdir", "getsize"}
    /\ reg' = [reg EXCEPT !.oper = "none", !.result = "SUCCESS", !.iolen = 0]
    /\ iobuf' = <<>>
    /\ UNCHANGED <<host, open, wrongkind>>

\* What the device refuses: any operation may meet a media error.
WrongKind == \/ open[reg.handle] \in Dirs /\ reg.oper \in {"read", "write", "trunc"}
             \/ open[reg.handle] \in Files /\ reg.oper \in {"readdir", "open", "create", "excl"}

Refusal ==
    CASE open[reg.handle] = None -> "BADHANDLE"
      [] TooLong -> "BADSIZE"
      [] WrongKind -> IF open[reg.handle] \in Dirs THEN "ISDIR" ELSE "NOTDIR"
      [] OTHER -> "MEDIA"

DeviceRefuse ==
    /\ reg.oper # "none"
    /\ Answer(Refusal)
    /\ wrongkind' = (wrongkind \/ WrongKind)
    /\ UNCHANGED <<host, open, iobuf>>

Device ==
    /\ DeviceOpen \/ DeviceClose \/ DeviceFile \/ DeviceDir \/ DeviceRefuse
    /\ irq' = TRUE
    /\ UNCHANGED <<eresult, sem, table, th, gaveup, panicked>>

emu_irq ==
    /\ irq /\ irq' = FALSE
    /\ eresult' = reg.result
    /\ reg' = [reg EXCEPT !.result = "none"]
    /\ sem' = sem + 1
    /\ UNCHANGED <<host, open, iobuf, table, th, notes>>
---------------------------------------------------------------------------
\* The calls.  A thread uses vnodes it has a reference to.
Begin(t, rec) ==
    /\ th[t].pc = "idle"
    /\ th' = [th EXCEPT ![t] = rec @@ Idle]
    /\ UNCHANGED <<device, table, notes>>

Has(t, h) == refs[t][h] > 0
Room(t, f) == \A h \in Handles : open[h] = f => refs[t][h] < MaxRef

emufs_lookup(t) ==
    \E h \in Handles, f \in EntryTypes :
        /\ Has(t, h) /\ Room(t, f) /\ Allowed(h, "lookup")
        /\ Begin(t, [pc |-> "setup", op |-> "open", h |-> h, name |-> f])

emufs_creat(t) ==
    \E h \in Handles, f \in Files, op \in {"create", "excl"} :
        /\ Has(t, h) /\ Room(t, f) /\ Allowed(h, "creat")
        /\ Begin(t, [pc |-> "setup", op |-> op, h |-> h, name |-> f])

\* emufs_getroot, and emufs_lookparent when the path is one name.
emufs_getroot(t) ==
    \E h \in Handles :
        /\ th[t].pc = "idle"
        /\ h = 0 \/ (Has(t, h) /\ Allowed(h, "lookparent"))
        /\ refs[t][h] < MaxRef
        /\ vn' = [vn EXCEPT ![h] = @ + 1]
        /\ refs' = [refs EXCEPT ![t][h] = @ + 1]
        /\ UNCHANGED <<device, isdir, depth, th, notes>>

emufs_read(t) ==
    \E h \in Handles, o \in 0..MaxSize - 1, n \in 1..MaxLen :
        /\ Has(t, h) /\ Allowed(h, "read")
        /\ Begin(t, [pc |-> "setup", op |-> "read", h |-> h, off |-> o, resid |-> n,
                     from |-> o, len |-> n])

emufs_write(t) ==
    \E h \in Handles, o \in 0..MaxSize - 1, n \in 1..MaxLen :
        /\ Has(t, h) /\ Allowed(h, "write") /\ o + n <= MaxSize
        /\ Begin(t, [pc |-> "setup", op |-> "write", h |-> h, off |-> o, resid |-> n,
                     from |-> o, len |-> n])

emufs_truncate(t) ==
    \E h \in Handles, n \in 0..1 :
        /\ Has(t, h) /\ Allowed(h, "truncate")
        /\ Begin(t, [pc |-> "setup", op |-> "trunc", h |-> h, amt |-> n])

emufs_stat(t) ==
    \E h \in Handles :
        /\ Has(t, h) /\ Allowed(h, "stat")
        /\ Begin(t, [pc |-> "setup", op |-> "getsize", h |-> h])

emufs_getdirentry(t) ==
    \E h \in Handles :
        /\ Has(t, h) /\ Allowed(h, "getdirentry")
        /\ Begin(t, [pc |-> "setup", op |-> "readdir", h |-> h, resid |-> 1])

\* vnode_decref and the start of emufs_reclaim, which keeps a vnode that has been looked up again.
vnode_decref(t) ==
    \E h \in Handles :
        /\ th[t].pc = "idle" /\ Has(t, h)
        /\ refs' = [refs EXCEPT ![t][h] = @ - 1]
        /\ IF vn[h] > 1
           THEN vn' = [vn EXCEPT ![h] = @ - 1] /\ UNCHANGED <<th, depth>>
           ELSE /\ th' = [th EXCEPT ![t] = [pc |-> "setup", op |-> "close", h |-> h, name |-> "reclaim"] @@ Idle]
                /\ depth' = depth + 2
                /\ UNCHANGED vn
        /\ UNCHANGED <<device, isdir, notes>>
---------------------------------------------------------------------------
Amount(resid) == MinOf(resid, MaxIO)

\* The registers and the buffer are set.  A write takes its data from the caller first, and a fault in
\* the caller's memory ends it.
Setup(t) ==
    LET c == th[t]
        n == IF c.op = "trunc" THEN c.amt ELSE Amount(c.resid)
        regs == [reg EXCEPT !.handle = c.h, !.iolen = n, !.offset = c.off]
    IN
    /\ c.pc = "setup"
    /\ reg' = IF c.op = "close" THEN [reg EXCEPT !.handle = c.h] ELSE regs
    /\ iobuf' = CASE c.op \in {"open", "create", "excl"} -> <<c.name>>
                  [] c.op = "write" -> [i \in 1..n |-> c.off - c.from + i]
                  [] OTHER -> iobuf
    /\ th' = [th EXCEPT ![t] =
                IF c.op = "write" THEN [c EXCEPT !.pc = "oper", !.resid = @ - n, !.off = @ + n]
                ELSE [c EXCEPT !.pc = "oper"]]
    /\ UNCHANGED <<host, open, irq, eresult, sem, table, notes>>

WriteFault(t) ==
    /\ th[t].pc = "setup" /\ th[t].op = "write"
    /\ th' = [th EXCEPT ![t] = Ended([@ EXCEPT !.err = "EFAULT"])]
    /\ UNCHANGED <<device, table, notes>>

Oper(t) ==
    /\ th[t].pc = "oper"
    /\ reg' = [reg EXCEPT !.oper = th[t].op]
    /\ th' = [th EXCEPT ![t].pc = "wait"]
    /\ UNCHANGED <<host, open, iobuf, irq, eresult, sem, table, notes>>

emu_waitdone(t) ==
    LET err == translate_err(eresult) IN
    /\ th[t].pc = "wait" /\ sem > 0
    /\ sem' = sem - 1
    /\ panicked' = (err = "panic")
    /\ th' = [th EXCEPT ![t].pc = "collect", ![t].err = err]
    /\ UNCHANGED <<host, open, reg, iobuf, irq, eresult, table, gaveup, wrongkind>>
---------------------------------------------------------------------------
\* Variant: the offset is not taken from the device.
ReadSameOffset(t) ==
    LET c == th[t]
        n == MinOf(reg.iolen, c.resid)
        next == [c EXCEPT !.resid = @ - n, !.data = @ \o [i \in 1..n |-> Stored(i)]]
    IN
    /\ c.pc = "collect" /\ c.op \in {"read", "readdir"}
    /\ th' = [th EXCEPT ![t] =
                IF c.err # "ok" THEN Ended(c)
                ELSE IF c.op = "readdir" \/ next.resid = 0 \/ n = 0 THEN Ended(next)
                ELSE [next EXCEPT !.pc = "setup"]]
    /\ UNCHANGED <<device, table, notes>>

\* After the wait.  emu_doread and the loop of emufs_read, which ends at the end of the file.
ReadDone(t) ==
    LET c == th[t]
        n == MinOf(reg.iolen, c.resid)
        next == [c EXCEPT !.resid = @ - n, !.off = reg.offset, !.data = @ \o [i \in 1..n |-> Stored(i)]]
    IN
    /\ c.pc = "collect" /\ c.op \in {"read", "readdir"}
    /\ th' = [th EXCEPT ![t] =
                IF c.err # "ok" THEN Ended(c)
                ELSE IF c.op = "readdir" \/ next.resid = 0 \/ n = 0 THEN Ended(next)
                ELSE [next EXCEPT !.pc = "setup"]]
    /\ UNCHANGED <<device, table, notes>>

\* The loop of emufs_write, and the operations that end with their answer.
WriteDone(t) ==
    LET c == th[t] IN
    /\ c.pc = "collect" /\ c.op \in {"write", "trunc", "getsize"}
    /\ th' = [th EXCEPT ![t] = IF c.op = "write" /\ c.err = "ok" /\ c.resid > 0
                               THEN [c EXCEPT !.pc = "setup"] ELSE Ended(c)]
    /\ UNCHANGED <<device, table, notes>>

OpenDone(t) ==
    LET c == th[t] IN
    /\ c.pc = "collect" /\ c.op \in {"open", "create", "excl"}
    /\ th' = [th EXCEPT ![t] = IF c.err # "ok" THEN Ended(c)
                               ELSE [c EXCEPT !.pc = "load", !.h = reg.handle, !.amt = reg.iolen]]
    /\ UNCHANGED <<device, table, notes>>

\* emufs_loadvnode: the vnode of the handle, or a new one.  Without memory for it the handle is closed
\* again; the first of the two ways out leaves the big lock taken.
Loaded(t) ==
    LET h == th[t].h IN
    /\ vn' = [vn EXCEPT ![h] = @ + 1]
    /\ isdir' = IF vn[h] = 0 /\ th[t].amt > 0 THEN isdir \cup {h} ELSE isdir
    /\ refs' = [refs EXCEPT ![t][h] = @ + 1]
    /\ th' = [th EXCEPT ![t] = Ended(@)]
    /\ UNCHANGED depth

emufs_loadvnode(t) ==
    /\ th[t].pc = "load"
    /\ \/ Loaded(t)
       \/ \E left \in {0, 1} :
             /\ vn[th[t].h] = 0 /\ depth + left <= MaxDepth
             /\ depth' = depth + left
             /\ th' = [th EXCEPT ![t] = [pc |-> "setup", op |-> "close", h |-> th[t].h, name |-> "undo"] @@ Idle]
             /\ UNCHANGED <<vn, isdir, refs>>
    /\ UNCHANGED <<device, notes>>

CloseRetry(t) ==
    /\ th[t].pc = "collect" /\ th[t].op = "close" /\ th[t].err = "EIO" /\ th[t].tries < MaxRetries
    /\ th' = [th EXCEPT ![t].pc = "setup", ![t].tries = @ + 1]
    /\ UNCHANGED <<device, table, notes>>

\* Variant: the vnode goes even when its handle could not be closed.
CloseDropsVnode(t) ==
    LET c == th[t] IN
    /\ c.pc = "collect" /\ c.op = "close" /\ (c.err = "EIO" => c.tries = MaxRetries)
    /\ vn' = IF c.name = "reclaim" THEN [vn EXCEPT ![c.h] = 0] ELSE vn
    /\ isdir' = IF c.name = "reclaim" THEN isdir \ {c.h} ELSE isdir
    /\ depth' = IF c.name = "reclaim" THEN depth - 2 ELSE depth
    /\ th' = [th EXCEPT ![t] = Ended(@)]
    /\ UNCHANGED <<device, refs, notes>>

\* The end of emu_close and of emufs_reclaim: when the device will not close the handle, the vnode stays.
CloseDone(t) ==
    LET c == th[t] IN
    /\ c.pc = "collect" /\ c.op = "close" /\ (c.err = "EIO" => c.tries = MaxRetries)
    /\ IF c.err = "ok" /\ c.name = "reclaim"
       THEN vn' = [vn EXCEPT ![c.h] = 0] /\ isdir' = isdir \ {c.h}
       ELSE UNCHANGED <<vn, isdir>>
    /\ gaveup' = IF c.err = "ok" THEN gaveup ELSE gaveup \cup {c.h}
    /\ depth' = IF c.name = "reclaim" THEN depth - 2 ELSE depth
    /\ th' = [th EXCEPT ![t] = Ended(@)]
    /\ UNCHANGED <<device, refs, wrongkind, panicked>>
---------------------------------------------------------------------------
Call(t) ==
    \/ emufs_lookup(t) \/ emufs_creat(t) \/ emufs_getroot(t) \/ emufs_read(t) \/ emufs_write(t)
    \/ emufs_truncate(t) \/ emufs_stat(t) \/ emufs_getdirentry(t) \/ vnode_decref(t)

Proceed(t) ==
    \/ Setup(t) \/ WriteFault(t) \/ Oper(t) \/ emu_waitdone(t)
    \/ ReadDone(t) \/ WriteDone(t) \/ OpenDone(t) \/ emufs_loadvnode(t) \/ CloseRetry(t) \/ CloseDone(t)

Next ==
    /\ ~panicked
    /\ Device \/ emu_irq \/ \E t \in Threads : Call(t) \/ Proceed(t)

Spec == Init /\ [][Next]_vars
---------------------------------------------------------------------------
\* Type invariant: what each variable may hold.
TypeOK ==
    /\ DOMAIN host \subseteq Files /\ \A f \in DOMAIN host : Len(host[f]) <= MaxSize
    /\ open \in [Handles -> Files \cup Dirs \cup {None}]
    /\ reg.handle \in Handles /\ reg.iolen \in 0..MaxSize /\ reg.offset \in 0..MaxSize + MaxLen
    /\ irq \in BOOLEAN /\ sem \in 0..1
    /\ vn \in [Handles -> 0..MaxRef * Cardinality(Threads) + 2] /\ isdir \subseteq Handles
    /\ gaveup \subseteq Handles /\ depth \in Nat

Quiet == \A t \in Threads : th[t].pc = "idle"

\* The device is never asked about a handle it has closed, and so emu.c never panics, nor is a
\* directory handled as a file.
DeviceUsedRightly == ~panicked /\ ~wrongkind

\* Between calls the handles open at the device are those of the loaded vnodes, but for handles the
\* device would not close: a call that fails half way leaves none behind.
HandlesKept ==
    Quiet => \A h \in Handles :
        /\ vn[h] > 0 => open[h] # None
        /\ open[h] # None /\ vn[h] = 0 => h \in gaveup

\* What a read that succeeds returns is what the host's file holds there, up to its end; what a write
\* that succeeds was given is in the file: pieces of at most EMU_MAXIO are put together rightly.
TransfersWhole ==
    \A t \in Threads : LET c == th[t] IN
        c.pc = "idle" /\ c.err = "ok" /\ c.op \in {"read", "write"} =>
            LET new == host[open[c.h]] IN
            /\ c.op = "read" => c.data = SubSeq(new, c.from + 1, MinOf(c.from + c.len, Len(new)))
            /\ c.op = "write" => /\ c.from + c.len <= Len(new)
                                 /\ \A i \in 1..c.len : new[c.from + i] = i

=============================================================================
