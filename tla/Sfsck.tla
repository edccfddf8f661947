-------------------------------- MODULE Sfsck --------------------------------
(***************************************************************************)
(* The file system checker (user/sbin/sfsck/sfsck.c), on volumes of ten    *)
(* blocks with the kinds of damage that Damage allows.  A name is a tuple, *)
(* <<>> when empty; swapping, messages and the characters of names are left*)
(* out.  Inodes have one direct pointer here and an indirect block has two *)
(* entries (SFS_NDIRECT 15, SFS_DBPERIDB 128).                             *)
(***************************************************************************)
EXTENDS Integers, Sequences, FiniteSets, SequencesExt

CONSTANTS Damage,     \* kinds of damage a volume may have
          MaxDepth    \* bound: directories inside each other

SfsckAssumption == Damage \subseteq {"bitmap", "names", "links", "types", "eof", "shared", "dots", "cross", "hardlink"}

VARIABLES
    disk,      \* inodes, directory blocks and indirect blocks, by block number
    bitmap,    \* blocks in use according to the volume
    found,     \* bitmapdata
    tofree,    \* tofreedata
    inodes,    \* the inodes remembered, with their links seen (0 for directories)
    ninodes,   \* entries of inodes that are looked at
    badness,
    unique,    \* uniquecounter
    stack,     \* check_dir's activations
    pass,      \* 1, or 2 when the checker is run again
    pc

vars == <<disk, bitmap, found, tofree, inodes, ninodes, badness, unique, stack, pass, pc>>

Super == 0
Root == 1
Map == 2
NBlocks == 10
PastEnd == {10, 11}
AtOnce == 4          \* entries of a directory block
NDirect == 1
PerIndirect == 2

Entry(name, ino) == [name |-> name, ino |-> ino]
Empty == Entry(<<>>, 0)
Inode(type, size, links, direct, indirect) ==
    [type |-> type, size |-> size, links |-> links, direct |-> direct, indirect |-> indirect]
---------------------------------------------------------------------------
\* Volumes: the root directory's entries are in block 5; inode 3 is a file, with data in 6 and in 8 by way
\* of the indirect block 7; inode 4 is a directory with its entries in block 9.
Or(d, normal, damaged) == IF d \in Damage THEN normal \cup damaged ELSE normal

Volumes ==
    LET other == Or("names", {<<Entry(<<"a">>, 3), Entry(<<"b">>, 4)>>},
                    {<<Entry(<<"a">>, 3), Entry(<<"a">>, 4)>>, <<Entry(<<"b">>, 4), Entry(<<"a">>, 3)>>,
                     <<Entry(<<>>, 3), Entry(<<"b">>, 0)>>, <<Entry(<<"b">>, 4), Entry(<<"b">>, 4)>>})
                 \cup Or("dots", {}, {<<Entry(<<"..">>, 4), Entry(<<"a">>, 3)>>})
                 \cup Or("hardlink", {}, {<<Entry(<<"a">>, 3), Entry(<<"b">>, 3)>>})
        dots == Or("names", {<<Entry(<<".">>, 1), Entry(<<"..">>, 1)>>},
                   {<<Empty, Entry(<<"..">>, 1)>>, <<Entry(<<".">>, 4), Empty>>, <<Empty, Empty>>})
        used == Or("names", {4}, {3, 2})
        sub == Or("cross", {Empty}, {Entry(<<"c">>, 1), Entry(<<"c">>, 4)})
        links == Or("links", {0}, {1})
        type == Or("types", {"file"}, {"bad"})
        end == Or("eof", {2}, {0, 1})
        first == Or("shared", {6}, {9})
    IN {[b \in {1, 3, 4, 5, 7, 9} |->
           CASE b = 1 -> Inode("dir", u, 2 + l + Cardinality({i \in 1..2 : o[i].ino = 4}), 5, 0)
             [] b = 3 -> Inode(t, e, 1 + l + (IF o[1].ino = o[2].ino THEN 1 ELSE 0), x, 7)
             [] b = 4 -> Inode("dir", 3, 2, 9, 0)
             [] b = 5 -> d \o o
             [] b = 7 -> <<8, 0>>
             [] b = 9 -> <<Entry(<<".">>, 4), Entry(<<"..">>, 1), s, Empty>>] :
        o \in other, d \in dots, u \in used, s \in sub, l \in links, t \in type, e \in end, x \in first}

Init ==
    /\ disk \in Volumes
    /\ bitmap \in Or("bitmap", {0..NBlocks - 1 \cup PastEnd}, {{0, 1, 2, 3, 6}})
    /\ found = {} /\ tofree = {} /\ inodes = <<[ino |-> 0, links |-> 0]>> /\ ninodes = 0 /\ badness = 0 /\ unique = 1
    /\ stack = <<>> /\ pass = 1 /\ pc = "sb"
---------------------------------------------------------------------------
\* bitmap_mark for each block and use of a sequence: what is used is not to be freed, before or after;
\* marking what is in use already is the error that is not fixed.
UsedIn(seq) == {seq[i][1] : i \in {j \in DOMAIN seq : seq[j][2] = "used"}}
FreedIn(seq) == {seq[i][1] : i \in {j \in DOMAIN seq : seq[j][2] = "tofree"}}
MarkedTwice(seq) ==
    \/ UsedIn(seq) \cap found # {}
    \/ \E i, j \in DOMAIN seq : i < j /\ seq[i] = seq[j] /\ seq[i][2] = "used"

\* Variant: a block to be freed is freed although it is used elsewhere.
FreeWins(seq) ==
    [found |-> (found \cup UsedIn(seq)) \ FreedIn(seq), tofree |-> tofree \cup FreedIn(seq),
     twice |-> MarkedTwice(seq)]

\* Variant: a block that turns out to be used stays marked to be freed.
MarkBoth(seq) ==
    [found |-> found \cup UsedIn(seq), tofree |-> tofree \cup (FreedIn(seq) \ found), twice |-> MarkedTwice(seq)]

bitmap_mark(seq) ==
    [found |-> found \cup UsedIn(seq),
     tofree |-> (tofree \cup FreedIn(seq)) \ (found \cup UsedIn(seq)),
     twice |-> MarkedTwice(seq)]

Worse(a, b) == IF a < b THEN b ELSE a

\* check_indirect_block: entries past the end of the file are marked as used and cleared; the block itself
\* is to be freed when none is left.
check_indirect_block(ib, nblocks) ==
    LET old == IF ib = 0 THEN [i \in 1..PerIndirect |-> 0] ELSE disk[ib]
        new == [i \in 1..PerIndirect |-> IF NDirect + i - 1 < nblocks THEN old[i] ELSE 0]
        gone == {i \in 1..PerIndirect : old[i] # 0 /\ new[i] = 0}
        none == \A i \in 1..PerIndirect : new[i] = 0
        data == SelectSeq(old, LAMBDA e : e # 0)
    IN [marks |-> (IF ib = 0 THEN <<>> ELSE <<<<ib, "used">>>>)
                  \o [i \in 1..Len(data) |-> <<data[i], "used">>]
                  \o (IF none /\ ib # 0 THEN <<<<ib, "tofree">>>> ELSE <<>>),
        bad |-> Cardinality(gone) + (IF none /\ ib # 0 THEN 1 ELSE 0),
        ptr |-> IF none THEN 0 ELSE ib,
        entries |-> new]

\* check_inode_blocks: marks, the number of blocks after the end, the inode and the indirect block as they
\* are written back.  A direct block after the end is marked to be freed and stays in the inode.
check_inode_blocks(inode, nblocks) ==
    LET ind == check_indirect_block(inode.indirect, nblocks)
        past == inode.direct # 0 /\ nblocks = 0
    IN [marks |-> (IF inode.direct = 0 THEN <<>>
                   ELSE <<<<inode.direct, IF past THEN "tofree" ELSE "used">>>>) \o ind.marks,
        bad |-> ind.bad + (IF past THEN 1 ELSE 0),
        inode |-> [inode EXCEPT !.indirect = ind.ptr],
        indirect |-> ind.entries]

\* What check_inode_blocks and its caller leave on the disk.
WriteBack(dsk, ino, c) ==
    [b \in DOMAIN dsk |-> IF b = ino /\ c.bad > 0 THEN c.inode
                          ELSE IF b = c.inode.indirect /\ b # 0 /\ c.bad > 0 THEN c.indirect
                          ELSE dsk[b]]

\* addmemory writes the entry after the last one and does not count it.
addmemory(ino, links) ==
    /\ inodes' = [inodes EXCEPT ![ninodes + 1] = [ino |-> ino, links |-> links]]
    /\ UNCHANGED ninodes

Remembered(ino) == \E i \in 1..ninodes : inodes[i].ino = ino
remember_dir(ino) == Remembered(ino)
observe_filelink(ino) ==
    IF Remembered(ino)
    THEN /\ inodes' = [i \in DOMAIN inodes |-> IF i <= ninodes /\ inodes[i].ino = ino
                                              THEN [inodes[i] EXCEPT !.links = @ + 1] ELSE inodes[i]]
         /\ UNCHANGED ninodes
    ELSE addmemory(ino, 1)
---------------------------------------------------------------------------
\* check_sb: the blocks past the end, the superblock and the bitmap.
check_sb ==
    /\ pc = "sb"
    /\ found' = PastEnd \cup {Super, Map} /\ tofree' = {}
    /\ pc' = "root"
    /\ UNCHANGED <<disk, bitmap, inodes, ninodes, badness, unique, stack, pass>>

Frame(ino, parent) == [ino |-> ino, parent |-> parent, at |-> "enter", i |-> 1, entries |-> <<>>, n |-> 0,
                       subdirs |-> 0, ichanged |-> FALSE, dchanged |-> FALSE, inode |-> disk[ino]]

check_root_dir ==
    /\ pc = "root"
    /\ stack' = <<Frame(Root, Root)>>
    /\ pc' = "dirs"
    /\ UNCHANGED <<disk, bitmap, found, tofree, inodes, ninodes, badness, unique, pass>>

\* check_dir_entry: a name without a file, a file without a name.
check_dir_entry(e, k) ==
    IF e.ino = 0 THEN Empty
    ELSE IF e.name = <<>> THEN Entry(<<"FSCK", e.ino, k>>, e.ino) ELSE e

\* strcmp's order of the names, the ones made up here between the dots and the letters.
Rank(name) ==
    CASE name = <<>> -> 0 [] name = <<".">> -> 1 [] name = <<"..">> -> 2 [] name[1] = "FSCK" -> 3 + name[3]
      [] name = <<"a">> -> 1000 [] name = <<"b">> -> 1001 [] OTHER -> 1002

\* sortdir: the places of the first n entries, names in falling order; places with one name, which the
\* checker's exchange sort leaves in some order, are in the order of the entries here.
Before(es, p, q) ==
    \/ Rank(es[p].name) > Rank(es[q].name)
    \/ Rank(es[p].name) = Rank(es[q].name) /\ p < q
sortdir(es, n) ==
    [i \in 1..n |-> CHOOSE p \in 1..n : Cardinality({q \in 1..n : Before(es, q, p)}) = i - 1]

\* Variant: two files with one name keep it.
MergeSameOnly(es, v, n, k) ==
    [p \in 1..AtOnce |->
       IF \E i \in 1..n - 1 : v[i] = p /\ es[p].ino # 0 /\ es[p] = es[v[i + 1]] THEN Empty ELSE es[p]]

\* Of two neighbours in the order with one name the first is removed or renamed.
MergeDuplicates(es, v, n, k) ==
    [p \in 1..AtOnce |->
       IF \E i \in 1..n - 1 : v[i] = p /\ es[p].ino # 0 /\ es[p].name = es[v[i + 1]].name
       THEN LET i == CHOOSE x \in 1..n - 1 : v[x] = p IN
            IF es[p].ino = es[v[i + 1]].ino THEN Empty
            ELSE Entry(<<"FSCK", es[p].ino, k + i>>, es[p].ino)
       ELSE es[p]]

\* The entries "." and ".." are corrected where they are, else added in the first free place.
FixDot(name, ino, es) == [p \in 1..AtOnce |-> IF es[p].name = name THEN Entry(name, ino) ELSE es[p]]
FreePlaces(es) == {p \in 1..AtOnce : es[p].ino = 0}
FirstFree(es) == CHOOSE p \in FreePlaces(es) : \A q \in FreePlaces(es) : p <= q
AddDot(name, ino, d) ==
    IF \E p \in 1..d.n : d.es[p].name = name THEN d
    ELSE IF FreePlaces(d.es) = {} THEN [d EXCEPT !.bad = 2]
    ELSE LET p == FirstFree(d.es) IN
         [es |-> [d.es EXCEPT ![p] = Entry(name, ino)], n |-> IF p > d.n THEN d.n + 1 ELSE d.n,
          bad |-> Worse(d.bad, 1)]

Top == stack[Len(stack)]
SetTop(f) == [stack EXCEPT ![Len(stack)] = f]

\* A directory fits in one block here, and that block is a direct one.
dobmap(inode) == inode.direct
dirread(inode, n) == [p \in 1..AtOnce |-> IF p <= n THEN disk[dobmap(inode)][p] ELSE Empty]

\* The first half of check_dir, up to the walk over the entries.
EnterDir ==
    /\ pc = "dirs" /\ stack # <<>> /\ Top.at = "enter" /\ Len(stack) <= MaxDepth
    /\ \E f \in {Top} : \E n \in {f.inode.size} : \E c \in {check_inode_blocks(f.inode, IF n = 0 THEN 0 ELSE 1)} :
       \E m \in {bitmap_mark(<<<<f.ino, "used">>>> \o c.marks)} :
       \E read \in {dirread(f.inode, n)} :
       \E es \in {[p \in 1..AtOnce |-> IF p <= n THEN check_dir_entry(read[p], unique + p) ELSE read[p]]} :
       \E v \in {sortdir(es, n)} : \E merged \in {MergeDuplicates(es, v, n, unique + 10)} :
       \E fixed \in {FixDot(<<"..">>, f.parent, FixDot(<<".">>, f.ino, merged))} :
       \E one \in {AddDot(<<".">>, f.ino, [es |-> fixed, n |-> n, bad |-> 0])} :
       \E added \in {AddDot(<<"..">>, f.parent, one)} :
           /\ stack' = SetTop([f EXCEPT !.at = "loop", !.entries = added.es, !.n = added.n,
                                        !.inode = [c.inode EXCEPT !.size = added.n],
                                        !.ichanged = c.bad > 0 \/ added.n # n,
                                        !.dchanged = added.es # read])
           /\ badness' = Worse(badness, Worse(IF m.twice THEN 2 ELSE 0,
                               Worse(added.bad, IF c.bad > 0 \/ fixed # read THEN 1 ELSE 0)))
           /\ found' = m.found /\ tofree' = m.tofree
           /\ addmemory(f.ino, 0)
    /\ unique' = unique + 20
    /\ UNCHANGED <<disk, bitmap, pass, pc>>

Skip(e) == e.name \in {<<".">>, <<"..">>} \/ e.ino = 0

\* The second half: each entry in turn.  A file's blocks are checked and its inode marked.
CheckFile ==
    LET f == Top
        e == f.entries[f.i]
        c == check_inode_blocks(disk[e.ino], disk[e.ino].size)
        m == bitmap_mark(c.marks \o (IF Remembered(e.ino) THEN <<>> ELSE <<<<e.ino, "used">>>>))
    IN
    /\ pc = "dirs" /\ stack # <<>> /\ f.at = "loop" /\ f.i <= f.n /\ ~Skip(e) /\ disk[e.ino].type = "file"
    /\ disk' = WriteBack(disk, e.ino, c)
    /\ found' = m.found /\ tofree' = m.tofree
    /\ badness' = Worse(badness, Worse(IF m.twice THEN 2 ELSE 0, IF c.bad > 0 THEN 1 ELSE 0))
    /\ stack' = SetTop([f EXCEPT !.i = @ + 1])
    /\ observe_filelink(e.ino)
    /\ UNCHANGED <<bitmap, unique, pass, pc>>

CheckSubdir ==
    LET f == Top
        e == f.entries[f.i]
    IN
    /\ pc = "dirs" /\ stack # <<>> /\ f.at = "loop" /\ f.i <= f.n /\ ~Skip(e) /\ disk[e.ino].type = "dir"
    /\ IF remember_dir(e.ino)
       THEN /\ stack' = SetTop([f EXCEPT !.i = @ + 1, !.entries[f.i] = Empty, !.dchanged = TRUE])
            /\ badness' = Worse(badness, 1)
       ELSE /\ stack' = Append(SetTop([f EXCEPT !.i = @ + 1, !.subdirs = @ + 1]), Frame(e.ino, f.ino))
            /\ UNCHANGED badness
    /\ UNCHANGED <<disk, bitmap, found, tofree, inodes, ninodes, unique, pass, pc>>

\* Variant: the walk stays at an entry that needs no check.
SkipStays ==
    LET f == Top
        e == f.entries[f.i]
    IN
    /\ pc = "dirs" /\ stack # <<>> /\ f.at = "loop" /\ f.i <= f.n
    /\ Skip(e)
    /\ UNCHANGED vars

\* Entries without a file and the two own ones are passed over, an inode of no known type is removed.
SkipOrRemove ==
    LET f == Top
        e == f.entries[f.i]
    IN
    /\ pc = "dirs" /\ stack # <<>> /\ f.at = "loop" /\ f.i <= f.n
    /\ ~Skip(e) => disk[e.ino].type = "bad"
    /\ IF Skip(e) THEN stack' = SetTop([f EXCEPT !.i = @ + 1]) /\ UNCHANGED badness
       ELSE /\ stack' = SetTop([f EXCEPT !.i = @ + 1, !.entries[f.i] = Empty, !.dchanged = TRUE])
            /\ badness' = Worse(badness, 1)
    /\ UNCHANGED <<disk, bitmap, found, tofree, inodes, ninodes, unique, pass, pc>>

\* Variant: the directory's own two links are forgotten in the count that is written.
LeaveWrongCount ==
    LET f == Top
        wrong == f.inode.links # f.subdirs + 2
    IN
    /\ pc = "dirs" /\ stack # <<>> /\ f.at = "loop" /\ f.i > f.n
    /\ disk' = [b \in DOMAIN disk |->
                  IF b = f.ino /\ (f.ichanged \/ wrong) THEN [f.inode EXCEPT !.links = f.subdirs]
                  ELSE IF b = dobmap(f.inode) /\ f.dchanged THEN f.entries
                  ELSE disk[b]]
    /\ badness' = IF wrong THEN Worse(badness, 1) ELSE badness
    /\ stack' = SubSeq(stack, 1, Len(stack) - 1)
    /\ pc' = IF Len(stack) = 1 THEN "bitmap" ELSE "dirs"
    /\ UNCHANGED <<bitmap, found, tofree, inodes, ninodes, unique, pass>>

\* The end of check_dir: the link count, and what has changed is written.
LeaveDir ==
    LET f == Top
        wrong == f.inode.links # f.subdirs + 2
    IN
    /\ pc = "dirs" /\ stack # <<>> /\ f.at = "loop" /\ f.i > f.n
    /\ disk' = [b \in DOMAIN disk |->
                  IF b = f.ino /\ (f.ichanged \/ wrong) THEN [f.inode EXCEPT !.links = f.subdirs + 2]
                  ELSE IF b = dobmap(f.inode) /\ f.dchanged THEN f.entries
                  ELSE disk[b]]
    /\ badness' = IF wrong THEN Worse(badness, 1) ELSE badness
    /\ stack' = SubSeq(stack, 1, Len(stack) - 1)
    /\ pc' = IF Len(stack) = 1 THEN "bitmap" ELSE "dirs"
    /\ UNCHANGED <<bitmap, found, tofree, inodes, ninodes, unique, pass>>

\* Variant: blocks wrongly shown in use are left so.
BitmapAddsOnly ==
    /\ pc = "bitmap"
    /\ bitmap' = (bitmap \ tofree) \cup found
    /\ badness' = IF bitmap \ tofree # found THEN Worse(badness, 1) ELSE badness
    /\ pc' = "links"
    /\ UNCHANGED <<disk, found, tofree, inodes, ninodes, unique, stack, pass>>

check_bitmap ==
    /\ pc = "bitmap"
    /\ bitmap' = found
    /\ badness' = IF bitmap \ tofree # found THEN Worse(badness, 1) ELSE badness
    /\ pc' = "links"
    /\ UNCHANGED <<disk, found, tofree, inodes, ninodes, unique, stack, pass>>

\* adjust_filelinks: the link counts of the remembered files.
adjust_filelinks ==
    LET Seen(b) == {i \in 1..ninodes : inodes[i].ino = b /\ inodes[i].links > 0}
        wrong == {b \in DOMAIN disk : \E i \in Seen(b) : disk[b].links # inodes[i].links}
    IN
    /\ pc = "links"
    /\ disk' = [b \in DOMAIN disk |-> IF b \in wrong
                   THEN [disk[b] EXCEPT !.links = inodes[CHOOSE i \in Seen(b) : TRUE].links] ELSE disk[b]]
    /\ badness' = IF wrong = {} THEN badness ELSE Worse(badness, 1)
    /\ pc' = "done"
    /\ UNCHANGED <<bitmap, found, tofree, inodes, ninodes, unique, stack, pass>>

\* The checker is run again.
RunAgain ==
    /\ pc = "done" /\ pass = 1 /\ badness < 2
    /\ pass' = 2 /\ pc' = "sb"
    /\ found' = {} /\ tofree' = {} /\ badness' = 0 /\ unique' = 1 /\ inodes' = <<[ino |-> 0, links |-> 0]>>
    /\ UNCHANGED <<disk, bitmap, ninodes, stack>>

Next ==
    \/ check_sb \/ check_root_dir \/ EnterDir \/ CheckFile \/ CheckSubdir \/ SkipOrRemove \/ LeaveDir
    \/ check_bitmap \/ adjust_filelinks \/ RunAgain

Spec == Init /\ [][Next]_vars
---------------------------------------------------------------------------
\* Type invariant: what each variable may hold.
TypeOK ==
    /\ DOMAIN disk = {1, 3, 4, 5, 7, 9} /\ badness \in 0..2 /\ pass \in 1..2 /\ ninodes \in Nat
    /\ bitmap \subseteq 0..11 /\ found \subseteq 0..11 /\ tofree \subseteq 0..11

Pointers(ino) ==
    LET i == disk[ino] IN
    ({i.direct, i.indirect} \cup (IF i.indirect = 0 THEN {} ELSE Range(disk[i.indirect]))) \ {0}

Listed(d) == Range(SubSeq(disk[disk[d].direct], 1, disk[d].size))
Reached == ({Root} \cup {e.ino : e \in Listed(Root)}) \ {0}
Dirs == {i \in Reached : i \in {1, 4} /\ disk[i].type = "dir"}
Files == (Reached \cup UNION {{e.ino : e \in Listed(d)} : d \in Dirs}) \ ({0} \cup Dirs)

\* When the checker is done the bitmap shows exactly the blocks in use: those that the repaired directories,
\* inodes and indirect blocks lead to, and those of the file system itself.
BitmapRight ==
    pc = "done" /\ badness < 2 =>
        bitmap = {Super, Map} \cup PastEnd \cup Dirs \cup Files \cup UNION {Pointers(i) : i \in Dirs \cup Files}

\* A block is never both kept and released: the checker's own assertion.
KeptOrFreed == found \cap tofree = {}

\* When the checker reports that it could repair the volume, every directory has its two own entries, no
\* name twice, no entry without a valid inode, and the right link count.
DirectoriesSound ==
    pc = "done" /\ badness < 2 =>
        \A d \in Dirs :
            LET es == SubSeq(disk[disk[d].direct], 1, disk[d].size) IN
            /\ \A i, j \in DOMAIN es : i # j /\ es[i].name = es[j].name => es[i].name = <<>>
            /\ \A i \in DOMAIN es : es[i].ino = 0 \/ disk[es[i].ino].type \in {"file", "dir"}
            /\ Entry(<<".">>, d) \in Range(es) /\ Entry(<<"..">>, Root) \in Range(es)
            /\ disk[d].links = 2 + Cardinality({i \in DOMAIN es : ~Skip(es[i]) /\ disk[es[i].ino].type = "dir"})

\* A second run finds nothing left to do on a volume the first could repair.
SecondRunClean == pc = "done" /\ pass = 2 => badness = 0

\* A block that holds an inode, or data before the end of a file or directory, is never shown free at the end.
LiveKept ==
    pc = "done" => \A i \in Dirs \cup Files :
        /\ i \in bitmap
        /\ disk[i].size > 0 => disk[i].direct \in bitmap
        /\ disk[i].type = "file" /\ disk[i].size > 1 => {disk[i].indirect, disk[disk[i].indirect][1]} \subseteq bitmap

Ended == pc = "done"
=============================================================================
