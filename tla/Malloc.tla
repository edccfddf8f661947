------------------------------- MODULE Malloc -------------------------------
(***************************************************************************)
(* malloc and free of the user C library (user/lib/libc/stdlib/malloc.c):  *)
(* a heap of blocks with headers that hold the distances to the blocks     *)
(* before and after, grown with sbrk.  Sizes are in bytes and of Width     *)
(* bits, as size_t.  A call is one step; errx ends the program.            *)
(***************************************************************************)
EXTENDS Integers, Sequences, FiniteSets

CONSTANTS
    MBLOCKSIZE,     \* bytes of a header
    Width,          \* bits of size_t
    Break0,         \* where the heap begins
    MaxBreak,       \* the memory sbrk grants
    Requests,       \* sizes asked for
    MaxLive         \* bound on the blocks in use

Mod == 2^Width
MallocConstants ==
    /\ MBLOCKSIZE \in Nat \ {0} /\ Break0 \in Nat \ {0} /\ MaxBreak \in Break0..(Mod \div 2)
    /\ Requests \subseteq 0..(Mod - 1)

VARIABLES
    __heapbase, __heaptop,
    brk,        \* the process's break
    hdr,        \* the headers in memory, by address: prevblock, nextblock, inuse
    live,       \* the pointers the program holds, with the sizes it asked for
    result      \* of the last call

vars == <<__heapbase, __heaptop, brk, hdr, live, result>>

Init ==
    /\ __heapbase = 0 /\ __heaptop = 0 /\ brk = Break0
    /\ hdr = [a \in {} |-> 0] /\ live = {} /\ result = "ok"

Header(prev, next, inuse) == [prev |-> prev, next |-> next, inuse |-> inuse]
Put(h, a, x) == [b \in DOMAIN h \cup {a} |-> IF b = a THEN x ELSE h[b]]
Deadbeef(h, a) == [b \in DOMAIN h \ {a} |-> h[b]]
M_DATA(a) == a + MBLOCKSIZE
M_NEXT(h, a) == a + h[a].next
M_SIZE(h, a) == h[a].next - MBLOCKSIZE

\* sbrk, of which this library is given: the old break, or -1 when the new one is below the heap or out of reach.
Signed(n) == IF n >= Mod \div 2 THEN n - Mod ELSE n
sbrk(from, amount) == IF from + Signed(amount) \in Break0..MaxBreak THEN from ELSE -1

\* Variant: the base is left where it is.
AlignedNot(a) == a
\* __malloc_init: the base of the heap, moved up to a multiple of MBLOCKSIZE.
Aligned(a) == a + ((MBLOCKSIZE - (a % MBLOCKSIZE)) % MBLOCKSIZE)
Base == IF __heapbase = 0 THEN Aligned(brk) ELSE __heapbase
Top == IF __heapbase = 0 THEN Aligned(brk) ELSE __heaptop

\* Rounded up to whole blocks, in size_t.
RoundUp(size) == LET s == (size + MBLOCKSIZE - 1) % Mod IN s - (s % MBLOCKSIZE)

\* __malloc_split: what is left of the block becomes a free block, when header and data fit.
\* Variant: the block above is not told.
__malloc_split_quiet(h, a, size) ==
    IF M_SIZE(h, a) - size < 2 * MBLOCKSIZE THEN h
    ELSE Put([h EXCEPT ![a].next = size + MBLOCKSIZE], a + size + MBLOCKSIZE, Header(size + MBLOCKSIZE, M_SIZE(h, a) - size, FALSE))
__malloc_split(h, a, size) ==
    LET new == a + size + MBLOCKSIZE
        left == M_SIZE(h, a) - size
        split == Put([h EXCEPT ![a].next = size + MBLOCKSIZE], new, Header(size + MBLOCKSIZE, left, FALSE))
    IN  IF left < 2 * MBLOCKSIZE THEN h
        ELSE IF M_NEXT(h, a) = __heaptop THEN split
        ELSE [split EXCEPT ![M_NEXT(h, a)].prev = left]

\* The headers met by following nextblock from the base; the walk ends at or above the top, or at no header.
Walk ==
    LET next == [a \in 0..(Mod - 1) |-> IF a \in DOMAIN hdr /\ a < Top THEN M_NEXT(hdr, a) % Mod ELSE a]
        at[n \in 0..MaxBreak] == IF n = 0 THEN Base ELSE next[at[n - 1]]
    IN  at
Blocks == {a \in {Walk[n] : n \in DOMAIN Walk} : a < Top}
RightPrev(blocks, a) ==
    LET below == {b \in blocks : b < a}
    IN  IF below = {} THEN 0 ELSE a - (CHOOSE b \in below : \A c \in below : c <= b)

\* Variant: the header is counted as room for data.
FitsWithHeader(a, size) == ~hdr[a].inuse /\ hdr[a].next >= size
Fits(a, size) == ~hdr[a].inuse /\ M_SIZE(hdr, a) >= size

\* The search stops at the first block that is corrupt or fits.
BadHeader(blocks, a) == a \notin DOMAIN hdr \/ hdr[a].prev # RightPrev(blocks, a)
Stops(blocks, size) == {a \in blocks : BadHeader(blocks, a) \/ Fits(a, size)}

Returned(ptr, req) == live' = IF ptr = 0 THEN live ELSE live \cup {[ptr |-> ptr, req |-> req]}

malloc(req) ==
    /\ result = "ok" /\ Cardinality(live) < MaxLive
    /\ __heapbase' = Base
    /\ \E blocks \in {Blocks} :
       LET size == RoundUp(req)
           stops == Stops(blocks, size)
           stop == CHOOSE a \in stops : \A b \in stops : a <= b
           more == (size + MBLOCKSIZE) % Mod
           from == IF __heapbase = 0 THEN Aligned(brk) ELSE brk
           x == sbrk(from, more)
       IN  IF stops # {}
           THEN /\ UNCHANGED <<__heaptop, brk>>
                /\ IF BadHeader(blocks, stop) THEN result' = "errx" /\ UNCHANGED <<hdr, live>>
                   ELSE /\ hdr' = [__malloc_split(hdr, stop, size) EXCEPT ![stop].inuse = TRUE]
                        /\ Returned(M_DATA(stop), req)
                        /\ UNCHANGED result
           ELSE IF x = -1
           THEN __heaptop' = Top /\ brk' = from /\ UNCHANGED <<hdr, live, result>>
           ELSE IF x # Top
           THEN result' = "errx" /\ __heaptop' = Top /\ brk' = from + Signed(more) /\ UNCHANGED <<hdr, live>>
           ELSE /\ brk' = from + Signed(more) /\ __heaptop' = (Top + more) % Mod
                /\ hdr' = Put(hdr, x, Header(RightPrev(blocks, Top), more, TRUE))
                /\ Returned(M_DATA(x), req)
                /\ UNCHANGED result

-----------------------------------------------------------------------------
\* Variant: the block above the merged one is not told.
__malloc_trymerge_quiet(h, a, b) ==
    IF h[a].inuse \/ h[b].inuse THEN h ELSE Deadbeef([h EXCEPT ![a].next = h[a].next + h[b].next], b)
\* __malloc_trymerge
Inconsistent(h, a, b) == h[a].next # h[b].prev
__malloc_trymerge(h, a, b) ==
    LET sum == h[a].next + h[b].next
        merged == Deadbeef([h EXCEPT ![a].next = sum], b)
    IN  IF h[a].inuse \/ h[b].inuse THEN h
        ELSE IF a + sum = __heaptop THEN merged
        ELSE [merged EXCEPT ![a + sum].prev = sum]

\* Variant of Merged: only with the block above.
MergedUp(h, a) == IF M_NEXT(h, a) = __heaptop THEN h ELSE __malloc_trymerge(h, a, M_NEXT(h, a))

\* With the block above, then with the block below.
Merged(h, a) ==
    LET up == MergedUp(h, a)
    IN  IF a = __heapbase THEN up ELSE __malloc_trymerge(up, a - up[a].prev, a)

Refused(x) ==
    \/ x < __heapbase \/ x >= __heaptop
    \/ x - MBLOCKSIZE \notin DOMAIN hdr
    \/ ~hdr[x - MBLOCKSIZE].inuse

free(b) ==
    /\ result = "ok" /\ b \in live
    /\ LET a == b.ptr - MBLOCKSIZE
       IN  IF \/ Refused(b.ptr)
              \/ M_NEXT(hdr, a) # __heaptop /\ Inconsistent(hdr, a, M_NEXT(hdr, a))
              \/ a # __heapbase /\ Inconsistent(hdr, a - hdr[a].prev, a)
           THEN result' = "errx" /\ UNCHANGED <<hdr, live>>
           ELSE /\ hdr' = Merged([hdr EXCEPT ![a].inuse = FALSE], a)
                /\ live' = live \ {b} /\ UNCHANGED result
    /\ UNCHANGED <<__heapbase, __heaptop, brk>>

Next == (\E req \in Requests : malloc(req)) \/ (\E b \in live : free(b))
Spec == Init /\ [][Next]_vars

-----------------------------------------------------------------------------
\* Type invariant: what each variable may hold.
TypeOK ==
    /\ __heapbase \in {0, Aligned(Break0)} /\ __heaptop \in {0} \cup Aligned(Break0)..MaxBreak
    /\ brk \in Break0..MaxBreak /\ (__heapbase # 0 => brk = __heaptop)
    /\ \A a \in DOMAIN hdr :
          a % MBLOCKSIZE = 0 /\ hdr[a].prev \in 0..MaxBreak /\ hdr[a].next \in MBLOCKSIZE..MaxBreak
    /\ result \in {"ok", "errx"}

\* A program that frees only what malloc returned, once, is never told that its heap is corrupt or that the
\* pointer it frees is invalid.
NeverErrx == result = "ok"

\* What __malloc_dump checks: the blocks cover the heap from base to top without gap or overlap, and the
\* distances to the previous and to the next header agree.
Tiled ==
    __heapbase # 0 =>
        /\ Blocks = DOMAIN hdr /\ \A a \in DOMAIN hdr : ~BadHeader(DOMAIN hdr, a)
        /\ Top \in {Walk[n] : n \in DOMAIN Walk}

\* After any sequence of calls no two neighbouring blocks are free, so that free memory is found by the first
\* fit as one block.
Coalesced ==
    \A a \in DOMAIN hdr : ~hdr[a].inuse /\ M_NEXT(hdr, a) # __heaptop => hdr[M_NEXT(hdr, a)].inuse

\* Every pointer the program holds is the data of its own block in use, aligned and of at least the size asked
\* for; and no other block is in use.
Granted ==
    /\ \A b \in live :
          /\ b.ptr - MBLOCKSIZE \in DOMAIN hdr /\ hdr[b.ptr - MBLOCKSIZE].inuse
          /\ M_SIZE(hdr, b.ptr - MBLOCKSIZE) >= b.req
    /\ Cardinality(live) = Cardinality({a \in DOMAIN hdr : hdr[a].inuse})
=============================================================================
