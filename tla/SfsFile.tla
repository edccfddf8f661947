------------------------------ MODULE SfsFile ------------------------------
(***************************************************************************)
(* The blocks of one SFS file, as kern/fs/sfs/sfs_vnode.c keeps them: the  *)
(* block map with its direct blocks and one indirect block, reading and    *)
(* writing at any offset, and truncation.  One thread at a time.           *)
(***************************************************************************)
EXTENDS SequencesExt, Integers

CONSTANTS
    SFS_BLOCKSIZE, SFS_NDIRECT, SFS_DBPERIDB,
    NBlocks,        \* sp_nblocks
    Bytes,          \* nonzero byte values that programs write
    Lengths,        \* bound: lengths of requests
    MaxLen,         \* the longest of them
    MaxPos,         \* bound: highest offset of a request
    TruncLengths    \* lengths that callers of VOP_TRUNCATE pass

Blocks  == 0 .. NBlocks - 1
InBlock == 0 .. SFS_BLOCKSIZE - 1
IdSlots == 0 .. SFS_DBPERIDB - 1

\* Superblock, root inode, free map, and the inode of this file.
Reserved == 0 .. 3

SizesAssumption ==
    /\ SFS_BLOCKSIZE \in Nat \ {0} /\ SFS_NDIRECT \in Nat \ {0} /\ SFS_DBPERIDB \in Nat \ {0}
    /\ NBlocks \in Nat /\ Lengths \subseteq 1 .. MaxLen /\ MaxPos \in Nat
    /\ 0 \notin Bytes
    /\ TruncLengths \subseteq 0 .. MaxPos + 1

VARIABLES
    file,     \* the inode and the volume around it: see Init
    result    \* bytes the last sfs_read returned

vars == <<file, result>>

Init ==
    /\ \E others \in {{}, {4}} :    \* a block another file may hold
          file = [freemap  |-> Reserved \cup others,
                  others   |-> others,
                  direct   |-> [i \in 0 .. SFS_NDIRECT - 1 |-> 0],
                  indirect |-> 0,
                  size     |-> 0,
                  data     |-> [b \in Blocks |-> [i \in InBlock |-> 0]],
                  idb      |-> [b \in Blocks |-> [i \in IdSlots |-> 0]]]
    /\ result = <<>>

---------------------------------------------------------------------------
\* Variant: a block is handed out with its old contents.
BallocUncleared(f) ==
    LET b == CHOOSE x \in Blocks \ f.freemap : \A y \in Blocks \ f.freemap : x <= y
    IN [f EXCEPT !.freemap = @ \cup {b}]

\* sfs_balloc where a block is free: the first clear bit, and the block is zeroed.
Balloc(f) ==
    LET b == CHOOSE x \in Blocks \ f.freemap : \A y \in Blocks \ f.freemap : x <= y
    IN [f EXCEPT !.freemap = @ \cup {b},
                 !.data[b] = [i \in InBlock |-> 0],
                 !.idb[b]  = [i \in IdSlots |-> 0]]

Full(f) == Blocks \subseteq f.freemap

\* The block that takes f to Balloc(f).
Allocated(f) == CHOOSE b \in Balloc(f).freemap : b \notin f.freemap

\* The outcome of sfs_bmap: an error, or the volume afterwards and the disk block.
Mapped(f, b) ==
    [err |-> IF b # 0 /\ b \notin f.freemap THEN "panic" ELSE "ok", file |-> f, block |-> b]
Failed(err, f) == [err |-> err, file |-> f, block |-> 0]

BmapDirect(f, fileblock, doalloc) ==
    IF f.direct[fileblock] # 0 \/ ~doalloc THEN Mapped(f, f.direct[fileblock])
    ELSE IF Full(f) THEN Failed("ENOSPC", f)
    ELSE Mapped([Balloc(f) EXCEPT !.direct[fileblock] = Allocated(f)], Allocated(f))

\* In the indirect block, which is there.
BmapSlot(f, idoff, doalloc) ==
    LET block == f.idb[f.indirect][idoff]
    IN IF block # 0 \/ ~doalloc THEN Mapped(f, block)
       ELSE IF Full(f) THEN Failed("ENOSPC", f)
       ELSE Mapped([Balloc(f) EXCEPT !.idb[f.indirect][idoff] = Allocated(f)], Allocated(f))

\* An indirect block that was allocated stays when the second allocation fails.
BmapIndirect(f, idoff, doalloc) ==
    IF f.indirect # 0 THEN BmapSlot(f, idoff, doalloc)
    ELSE IF ~doalloc THEN Mapped(f, 0)
    ELSE IF Full(f) THEN Failed("ENOSPC", f)
    ELSE BmapSlot([Balloc(f) EXCEPT !.indirect = Allocated(f)], idoff, doalloc)

Bmap(f, fileblock, doalloc) ==
    IF fileblock < SFS_NDIRECT THEN BmapDirect(f, fileblock, doalloc)
    ELSE IF (fileblock - SFS_NDIRECT) \div SFS_DBPERIDB > 0 THEN Failed("EFBIG", f)
    ELSE BmapIndirect(f, (fileblock - SFS_NDIRECT) % SFS_DBPERIDB, doalloc)
---------------------------------------------------------------------------
\* The parts into which sfs_io cuts a request of n bytes at offset o: a leading partial block,
\* whole blocks, a trailing partial block.
Least(a, b) == IF a <= b THEN a ELSE b
Leading(o, n) == IF o % SFS_BLOCKSIZE = 0 THEN 0 ELSE Least(SFS_BLOCKSIZE - (o % SFS_BLOCKSIZE), n)

Parts(o, n) ==
    LET lead    == Leading(o, n)
        nblocks == (n - lead) \div SFS_BLOCKSIZE
        rest    == (n - lead) % SFS_BLOCKSIZE
    IN (IF lead > 0 THEN <<[off |-> o, len |-> lead]>> ELSE <<>>)
       \o [i \in 1 .. nblocks |-> [off |-> o + lead + (i - 1) * SFS_BLOCKSIZE, len |-> SFS_BLOCKSIZE]]
       \o (IF rest > 0 THEN <<[off |-> o + n - rest, len |-> rest]>> ELSE <<>>)

\* sfs_partialio and sfs_blockio, writing the byte v: the bytes around the part stay.
WritePart(f, part, v) ==
    LET m    == Bmap(f, part.off \div SFS_BLOCKSIZE, TRUE)
        skip == part.off % SFS_BLOCKSIZE
    IN IF m.err # "ok" THEN m
       ELSE [m EXCEPT !.file.data[m.block] =
                [i \in InBlock |-> IF i \in skip .. skip + part.len - 1 THEN v ELSE @[i]]]

ReadPart(f, part) ==
    LET m    == Bmap(f, part.off \div SFS_BLOCKSIZE, FALSE)
        skip == part.off % SFS_BLOCKSIZE
    IN [i \in 1 .. part.len |-> IF m.block = 0 THEN 0 ELSE m.file.data[m.block][skip + i - 1]]

\* A failed part ends the loop of sfs_io; done counts the bytes written before it.
WriteParts(f, o, n, v) ==
    FoldLeft(LAMBDA acc, part :
                IF acc.err # "ok" THEN acc
                ELSE LET w == WritePart(acc.file, part, v)
                     IN [err |-> w.err, file |-> w.file,
                         done |-> IF w.err = "ok" THEN acc.done + part.len ELSE acc.done],
             [err |-> "ok", file |-> f, done |-> 0], Parts(o, n))

\* "If writing, adjust file length": uio_offset has moved past what was written.
Grown(f, o, n, done) ==
    IF o + done > f.size THEN [f EXCEPT !.size = o + done] ELSE f

sfs_write ==
    \E o \in 0 .. MaxPos, n \in Lengths, v \in Bytes :
        LET w == WriteParts(file, o, n, v)
        IN /\ o + n <= MaxPos + 1
           /\ file' = Grown(w.file, o, n, w.done)
           /\ result' = <<>>

\* How much of the request lies before the end of the file; extraresid is the rest.
BeforeEof(f, o, n) == IF o >= f.size THEN 0 ELSE Least(n, f.size - o)

sfs_read ==
    \E o \in 0 .. MaxPos, n \in Lengths :
        /\ result' = FlattenSeq([i \in DOMAIN Parts(o, BeforeEof(file, o, n)) |->
                                    ReadPart(file, Parts(o, BeforeEof(file, o, n))[i])])
        /\ UNCHANGED file
---------------------------------------------------------------------------
\* Variant: the inode forgets the blocks and the map keeps them.
DirectForgotten(f, blocklen) ==
    [f EXCEPT !.direct = [i \in DOMAIN f.direct |-> IF i >= blocklen THEN 0 ELSE @[i]]]

\* The direct blocks past the new length are freed.
DirectFreed(f, blocklen) ==
    LET gone == {i \in DOMAIN f.direct : i >= blocklen /\ f.direct[i] # 0}
    IN [f EXCEPT !.freemap = @ \ {f.direct[i] : i \in gone},
                 !.direct  = [i \in DOMAIN f.direct |-> IF i \in gone THEN 0 ELSE @[i]]]

\* The blocks behind the indirect block, and the indirect block itself when nothing is left in it.
\* The comparisons are the code's: the block just past the new end is kept.
IndirectFreed(f, blocklen) ==
    LET highblock == SFS_NDIRECT + SFS_DBPERIDB - 1
        idbuf == f.idb[f.indirect]
        gone  == {j \in IdSlots : blocklen < SFS_NDIRECT + j /\ idbuf[j] # 0}
        left  == {j \in IdSlots \ gone : idbuf[j] # 0}
        freed == [f EXCEPT !.freemap = @ \ {idbuf[j] : j \in gone}]
    IN IF f.indirect = 0 \/ blocklen >= highblock THEN f
       ELSE IF left = {} THEN [freed EXCEPT !.freemap = @ \ {f.indirect}, !.indirect = 0]
       ELSE [freed EXCEPT !.idb[f.indirect] = [j \in IdSlots |-> IF j \in gone THEN 0 ELSE @[j]]]

sfs_truncate ==
    \E len \in TruncLengths :
        LET blocklen == (len + SFS_BLOCKSIZE - 1) \div SFS_BLOCKSIZE
        IN /\ file' = [IndirectFreed(DirectFreed(file, blocklen), blocklen) EXCEPT !.size = len]
           /\ result' = <<>>

Next == sfs_write \/ sfs_read \/ sfs_truncate

Spec == Init /\ [][Next]_vars
---------------------------------------------------------------------------
\* The disk block behind each place of the file, zero for a hole.
FileBlocks  == 0 .. SFS_NDIRECT + SFS_DBPERIDB - 1
MappedAt(i) == IF i < SFS_NDIRECT THEN file.direct[i]
               ELSE IF file.indirect = 0 THEN 0 ELSE file.idb[file.indirect][i - SFS_NDIRECT]
ByteAt(i)   == IF MappedAt(i \div SFS_BLOCKSIZE) = 0 THEN 0
               ELSE file.data[MappedAt(i \div SFS_BLOCKSIZE)][i % SFS_BLOCKSIZE]

\* Type invariant: what each variable may hold.
TypeOK ==
    /\ file.freemap \subseteq Blocks /\ Reserved \subseteq file.freemap
    /\ file.direct \in [0 .. SFS_NDIRECT - 1 -> Blocks]
    /\ file.indirect \in Blocks
    /\ file.size \in 0 .. MaxPos + 1
    /\ result \in Seq(Bytes \cup {0})

\* No disk block serves two places of the file, none of them is free in the map (sfs_bmap would
\* panic), and the map has no block that nothing names: writes that fail half way, and truncation,
\* neither lose nor share a block.
BlocksAccounted ==
    LET named == {MappedAt(i) : i \in FileBlocks} \ {0}
        index == {file.indirect} \ {0}
    IN /\ \A i, j \in FileBlocks : i # j /\ MappedAt(i) # 0 => MappedAt(i) # MappedAt(j)
       /\ named \cap index = {}
       /\ (named \cup index) \cap (Reserved \cup file.others) = {}
       /\ file.freemap = Reserved \cup file.others \cup named \cup index

\* What a program can see of the file.
VisibleSize == file.size
VisibleBytes == [i \in 0 .. MaxPos |-> IF i < file.size THEN ByteAt(i) ELSE 0]
=============================================================================
