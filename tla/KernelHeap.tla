----------------------------- MODULE KernelHeap -----------------------------
(***************************************************************************)
(* The kernel heap: kmalloc and kfree (kern/vm/kmalloc.c) over the page    *)
(* allocator of this kernel (ram_stealmem of kern/arch/mips/vm/ram.c,      *)
(* alloc_kpages and free_kpages of kern/vm/addrspace.c).  The free list of *)
(* a page runs through the first words of its free blocks, which an owner  *)
(* overwrites when it gets the block.  kmalloc_spinlock makes a step of    *)
(* what runs under it; kmalloc releases it to get a new page, and  *)
(* other threads allocate and free meanwhile.                              *)
(***************************************************************************)
EXTENDS Integers, Sequences, FiniteSets, SequencesExt

CONSTANTS
    Thread,
    PAGE_SIZE,  \* in words
    sizes,      \* block sizes of the subpage allocator, a set
    NPAGEREFS,
    Pages,      \* pages between firstpaddr and lastpaddr
    Requests,   \* sizes that are asked for
    MaxLive     \* bound on the blocks in use at the start of kmalloc

LARGEST_SUBPAGE_SIZE == CHOOSE s \in sizes : \A r \in sizes : r <= s

SizesFit ==
    /\ PAGE_SIZE \in Nat \ {0} /\ Pages \in Nat \ {0} /\ NPAGEREFS \in Nat \ {0} /\ MaxLive \in Nat
    /\ sizes \subseteq 1..PAGE_SIZE /\ sizes # {} /\ Requests \subseteq Nat

NULL == 0           \* no address; page 0 is the kernel's
JUNK == -1          \* what an owner writes, and 0xdeadbeef
INVALID_OFFSET == -2
Addr == PAGE_SIZE .. (Pages + 1) * PAGE_SIZE - 1
Refs == 1..NPAGEREFS

VARIABLES
    firstpaddr,     \* the next page ram_stealmem gives away
    word,           \* first word of a block at an address
    pagerefs,       \* page, block size, freelist_offset and nfree of a page of blocks
    pagerefs_inuse,
    sizebases,      \* the page lists, one per block size
    allbase,        \* the list of all pages
    st,             \* a thread in kmalloc: with the lock released, or idle
    live            \* blocks the kernel's code holds: address and requested size

vars == <<firstpaddr, word, pagerefs, pagerefs_inuse, sizebases, allbase, st, live>>

Idle == [at |-> "idle", sz |-> 0, page |-> NULL]
NoRef == [page |-> NULL, type |-> LARGEST_SUBPAGE_SIZE, off |-> INVALID_OFFSET, nfree |-> 0]
Init ==
    /\ firstpaddr = PAGE_SIZE
    /\ word = [a \in Addr |-> JUNK]
    /\ pagerefs = [p \in Refs |-> NoRef] /\ pagerefs_inuse = {}
    /\ sizebases = [s \in sizes |-> <<>>] /\ allbase = <<>>
    /\ st = [t \in Thread |-> Idle] /\ live = {}

NBlocks(s) == PAGE_SIZE \div s
blocktype(sz) == CHOOSE s \in sizes : s >= sz /\ \A r \in sizes : r >= sz => s <= r

\* ram_stealmem, through getppages and alloc_kpages: n pages in a row, or 0.
Stolen(n) == IF firstpaddr + n * PAGE_SIZE > (Pages + 1) * PAGE_SIZE THEN NULL ELSE firstpaddr
ram_stealmem(n) == firstpaddr' = IF Stolen(n) = NULL THEN firstpaddr ELSE firstpaddr + n * PAGE_SIZE

-----------------------------------------------------------------------------
Goto(t, s) == st' = [st EXCEPT ![t] = s]
Give(ptr, sz) == live' = IF ptr = NULL THEN live ELSE live \cup {[ptr |-> ptr, sz |-> sz]}

\* kmalloc of a large block: whole pages.
kmalloc_pages(t, sz) ==
    /\ st[t] = Idle /\ Cardinality(live) < MaxLive
    /\ sz >= LARGEST_SUBPAGE_SIZE
    /\ LET npages == (sz + PAGE_SIZE - 1) \div PAGE_SIZE
       IN  ram_stealmem(npages) /\ Give(Stolen(npages), sz)
    /\ UNCHANGED <<word, pagerefs, pagerefs_inuse, sizebases, allbase, st>>

\* Variant: the list is not advanced past the block that is given away.
PopKeeps(p, w) == [p EXCEPT !.nfree = @ - 1, !.off = IF p.nfree = 1 THEN INVALID_OFFSET ELSE @]
\* doalloc: the first block of the free list, read through its first word.
Pop(p, w) ==
    LET fl == w[p.page + p.off]
    IN  [p EXCEPT !.nfree = @ - 1, !.off = IF fl = NULL THEN INVALID_OFFSET ELSE fl - p.page]

\* The owner of a block writes to it; only the first word matters.
Overwritten(w, a) == [w EXCEPT ![a] = JUNK]

\* The first page of a list with a free block, if there is one.
WithFree(list) == SelectSeq(list, LAMBDA r : pagerefs[r].nfree > 0)

\* subpage_kmalloc, when a page of the block size has a free block.
subpage_kmalloc(t, sz) ==
    /\ st[t] = Idle /\ Cardinality(live) < MaxLive
    /\ sz < LARGEST_SUBPAGE_SIZE
    /\ WithFree(sizebases[blocktype(sz)]) # <<>>
    /\ LET r == Head(WithFree(sizebases[blocktype(sz)]))
       IN  /\ Give(pagerefs[r].page + pagerefs[r].off, sz)
           /\ pagerefs' = [pagerefs EXCEPT ![r] = Pop(@, word)]
           /\ word' = Overwritten(word, pagerefs[r].page + pagerefs[r].off)
    /\ UNCHANGED <<firstpaddr, pagerefs_inuse, sizebases, allbase, st>>

\* subpage_kmalloc, when none has: the lock is released ...
release(t, sz) ==
    /\ st[t] = Idle /\ Cardinality(live) < MaxLive
    /\ sz < LARGEST_SUBPAGE_SIZE
    /\ WithFree(sizebases[blocktype(sz)]) = <<>>
    /\ Goto(t, [Idle EXCEPT !.at = "released", !.sz = sz])
    /\ UNCHANGED <<firstpaddr, word, pagerefs, pagerefs_inuse, sizebases, allbase, live>>

\* ... a page is asked for; NULL is returned when there is none ...
alloc_kpages(t) ==
    /\ st[t].at = "released"
    /\ ram_stealmem(1)
    /\ Goto(t, IF Stolen(1) = NULL THEN Idle ELSE [st[t] EXCEPT !.at = "page", !.page = Stolen(1)])
    /\ UNCHANGED <<word, pagerefs, pagerefs_inuse, sizebases, allbase, live>>

\* The fresh page's free list: from the last block down to the first.
Chained(page, s) ==
    [a \in Addr |-> IF a \in {page + i * s : i \in 0..(NBlocks(s) - 1)}
                    THEN IF a = page THEN NULL ELSE a - s
                    ELSE word[a]]
Fresh(page, s) == [page |-> page, type |-> s, off |-> (NBlocks(s) - 1) * s, nfree |-> NBlocks(s)]

\* allocpageref: the first that is not in use.
Unused == {r \in Refs : r \notin pagerefs_inuse}
allocpageref == CHOOSE r \in Unused : \A q \in Unused : r <= q

\* ... and under the lock again the page is entered in both lists and a block taken from it.  Without a
\* pageref for it the page goes back, which free_kpages of this kernel ignores.
subpage_newpage(t) ==
    /\ st[t].at = "page"
    /\ LET s == blocktype(st[t].sz)
           page == st[t].page
           r == allocpageref
       IN  IF Unused = {}
           THEN UNCHANGED <<word, pagerefs, pagerefs_inuse, sizebases, allbase, live>>
           ELSE /\ pagerefs_inuse' = pagerefs_inuse \cup {r}
                /\ word' = Overwritten(Chained(page, s), page + Fresh(page, s).off)
                /\ pagerefs' = [pagerefs EXCEPT ![r] = Pop(Fresh(page, s), Chained(page, s))]
                /\ sizebases' = [sizebases EXCEPT ![s] = <<r>> \o @]
                /\ allbase' = <<r>> \o allbase
                /\ Give(page + Fresh(page, s).off, st[t].sz)
    /\ Goto(t, Idle)
    /\ UNCHANGED firstpaddr

-----------------------------------------------------------------------------
\* Variant: the page after it is taken for part of the page.
OnPageOrNext(ptr, p) == ptr >= p.page /\ ptr <= p.page + PAGE_SIZE
OnPage(ptr, p) == ptr >= p.page /\ ptr < p.page + PAGE_SIZE

\* subpage_kfree's search of the list of all pages.
PageOf(ptr) == SelectSeq(allbase, LAMBDA r : OnPage(ptr, pagerefs[r]))

\* The block at the head of the free list.
Push(p, ptr) == [p EXCEPT !.off = ptr - p.page, !.nfree = @ + 1]
\* Variant: the rest of the list is dropped.
LinkedNull(p, ptr) == NULL
Linked(p, ptr) == IF p.off = INVALID_OFFSET THEN NULL ELSE p.page + p.off

\* Variant: the page stays when its last block is freed.
WhollyFreeNever(p) == FALSE
WhollyFree(p) == p.nfree = NBlocks(p.type)

\* Variant: the list of all pages keeps the page.
remove_samesize(r, s) == sizebases' = [sizebases EXCEPT ![s] = Remove(@, r)] /\ UNCHANGED allbase
remove_lists(r, s) == sizebases' = [sizebases EXCEPT ![s] = Remove(@, r)] /\ allbase' = Remove(allbase, r)

\* kfree: a block of a page of blocks goes on the page's free list, and the page is given up when it was the
\* last, with contents nobody reads again; anything else is taken for whole pages.  free_kpages does nothing
\* in this kernel.
kfree(b) ==
    /\ b \in live
    /\ live' = live \ {b}
    /\ IF PageOf(b.ptr) = <<>>
       THEN UNCHANGED <<word, pagerefs, pagerefs_inuse, sizebases, allbase>>
       ELSE LET r == Head(PageOf(b.ptr))
                p == Push(pagerefs[r], b.ptr)
            IN  IF WhollyFree(p)
                   THEN /\ word' = [a \in Addr |-> IF OnPage(a, p) THEN JUNK ELSE word[a]]
                        /\ pagerefs' = [pagerefs EXCEPT ![r] = NoRef]
                        /\ pagerefs_inuse' = pagerefs_inuse \ {r}
                        /\ remove_lists(r, p.type)
                   ELSE /\ word' = [word EXCEPT ![b.ptr] = Linked(pagerefs[r], b.ptr)]
                        /\ pagerefs' = [pagerefs EXCEPT ![r] = p]
                        /\ UNCHANGED <<pagerefs_inuse, sizebases, allbase>>
    /\ UNCHANGED <<firstpaddr, st>>

Next ==
    \/ \E t \in Thread : alloc_kpages(t) \/ subpage_newpage(t)
    \/ \E t \in Thread, sz \in Requests : kmalloc_pages(t, sz) \/ subpage_kmalloc(t, sz) \/ release(t, sz)
    \/ \E b \in live : kfree(b)

Spec == Init /\ [][Next]_vars

-----------------------------------------------------------------------------
\* Type invariant: what each variable may hold.
TypeOK ==
    /\ firstpaddr \in PAGE_SIZE..(Pages + 1) * PAGE_SIZE
    /\ word \in [Addr -> Addr \cup {NULL, JUNK}]
    /\ \A r \in Refs :
          /\ pagerefs[r].page \in Addr \cup {NULL} /\ pagerefs[r].page % PAGE_SIZE = 0
          /\ pagerefs[r].type \in sizes
          /\ pagerefs[r].off \in 0..(PAGE_SIZE - 1) \cup {INVALID_OFFSET}
          /\ pagerefs[r].nfree \in 0..NBlocks(pagerefs[r].type)
    /\ pagerefs_inuse \subseteq Refs
    /\ \A s \in sizes : sizebases[s] \in Seq(Refs)
    /\ allbase \in Seq(Refs)
    /\ \A t \in Thread : st[t].at \in {"idle", "released", "page"}
    /\ \A b \in live : b.ptr \in Addr /\ b.sz \in Requests

\* The blocks of a free list, by as many steps through the first words as nfree says; NULL and JUNK stay.
FreeList(p) ==
    LET next[a \in Addr \cup {NULL, JUNK}] == IF a \in Addr THEN word[a] ELSE a
        walk[n \in 0..PAGE_SIZE] ==
            IF n = 0 THEN IF p.off = INVALID_OFFSET THEN NULL ELSE p.page + p.off ELSE next[walk[n - 1]]
    IN  [n \in 0..p.nfree |-> walk[n]]
FreeBlocks(p) == {FreeList(p)[n] : n \in 0..(p.nfree - 1)}

\* checksubpage: the free list of every page in use has nfree entries, all of them different blocks of the
\* page, and ends there, though owners write to blocks that were on it before.
FreeListsWhole ==
    \A r \in pagerefs_inuse :
        LET p == pagerefs[r]
        IN  /\ FreeList(p)[p.nfree] = NULL
            /\ Cardinality(FreeBlocks(p)) = p.nfree
            /\ \A a \in FreeBlocks(p) : OnPage(a, p) /\ (a - p.page) % p.type = 0

\* checksubpages: the lists by size and the list of all pages hold the same pages, each once, and those are
\* the pagerefs in use.
ListsAgree ==
    /\ ToSet(allbase) = pagerefs_inuse /\ Len(allbase) = Cardinality(pagerefs_inuse)
    /\ \A s \in sizes :
          /\ ToSet(sizebases[s]) = {r \in pagerefs_inuse : pagerefs[r].type = s}
          /\ Len(sizebases[s]) = Cardinality(ToSet(sizebases[s]))

Words(b) == b.ptr..(b.ptr + (IF b.sz < LARGEST_SUBPAGE_SIZE THEN blocktype(b.sz) ELSE b.sz) - 1)

\* No two callers hold the same memory, and no block that is held can be given away again: two threads that
\* find no free block at the same time get different pages and pagerefs.
HeldOnce ==
    /\ \A b, c \in live : b # c => Words(b) \cap Words(c) = {}
    /\ \A b \in live, r \in pagerefs_inuse : Words(b) \cap FreeBlocks(pagerefs[r]) = {}

\* kfree recognises every block that is held: a small one by a page of its block size, at the place of a
\* block, so that it does not panic; a large one by no page, so that the assertion on its alignment holds.
KfreeRecognises ==
    \A b \in live :
        IF b.sz < LARGEST_SUBPAGE_SIZE
        THEN /\ Len(PageOf(b.ptr)) = 1
             /\ LET p == pagerefs[Head(PageOf(b.ptr))]
                IN  p.type = blocktype(b.sz) /\ (b.ptr - p.page) % p.type = 0 /\ p.nfree < NBlocks(p.type)
        ELSE PageOf(b.ptr) = <<>> /\ b.ptr % PAGE_SIZE = 0

\* A pageref is occupied only as long as a block of its page is held: the table of pagerefs, which cannot
\* grow, is not filled by pages that are free.
NoIdlePage ==
    \A r \in pagerefs_inuse : \E b \in live : OnPage(b.ptr, pagerefs[r])
=============================================================================
