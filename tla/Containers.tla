----------------------------- MODULE Containers -----------------------------
(***************************************************************************)
(* The containers of the kernel's library under any calls that respect     *)
(* their assertions, and under the scripts of arraytest and bitmaptest:    *)
(*                                                                         *)
(*   - the growing arrays of kern/lib/array.c and kern/include/array.h,    *)
(*     whose elements live in a block that is replaced by a larger one;    *)
(*     slots that were never written hold junk;                            *)
(*   - the bitmaps of kern/lib/bitmap.c (free blocks of a volume, free     *)
(*     swap slots), an array of words.                                     *)
(***************************************************************************)
EXTENDS Naturals, Sequences, SequencesExt

CONSTANTS
    Mode,          \* what is used: "array", "arraytest", "bitmap", "bitmaptest"
    Vals,          \* what the elements point to: the positions 0..TESTSIZE-1
    NULL, Junk,    \* the null pointer; what a fresh block holds
    MaxNum,        \* bound: size asked for
    TESTSIZE,      \* of arraytest (533)
    BITS_PER_WORD, \* 8
    Sizes          \* numbers of bits of the bitmaps created

SizesAssumption ==
    /\ TESTSIZE \in Nat /\ TESTSIZE >= 4 /\ MaxNum \in Nat
    /\ BITS_PER_WORD \in Nat \ {0} /\ Sizes \subseteq Nat \ {0}

VARIABLES
    v, max, num,   \* the array: the block, its slots, and the elements in use
    model,         \* the elements as a sequence (history)
    script,        \* what is left of arraytest
    nbits, words,  \* the bitmap: each word the set of its 1 bits
    index,         \* what the last bitmap_alloc gave
    pc, i, data,   \* bitmaptest: phase, loop index, the bits expected
    ok             \* no KASSERT has failed

arrayVars == <<v, max, num, model, script>>
bitmapVars == <<nbits, words, index, pc, i, data>>
vars == <<arrayVars, bitmapVars, ok>>

-----------------------------------------------------------------------------
(* Arrays. *)

\* array_setsize.  When kmalloc fails nothing is changed.
Doublings == 0 .. 6      \* bound: enough for every size asked for
Grown(n) == LET least == IF max = 0 THEN 4 ELSE max
            IN CHOOSE s \in {least * 2^k : k \in Doublings} : s >= n /\ (s = least \/ s \div 2 < n)
\* Variant: the old block's contents are not kept
BlockDropped(n) == [k \in 0 .. Grown(n) - 1 |-> Junk]
Block(n) == [k \in 0 .. Grown(n) - 1 |-> IF k < num THEN v[k] ELSE Junk]
\* Variant: the block is made twice as large as asked for.
array_setsize_tight(n) ==
    /\ IF n > max THEN v' = [k \in 0 .. 2 * n - 1 |-> IF k < num THEN v[k] ELSE Junk] /\ max' = 2 * n
       ELSE UNCHANGED <<v, max>>
    /\ num' = n
array_setsize(n) ==
    /\ IF n > max THEN v' = Block(n) /\ max' = Grown(n) ELSE UNCHANGED <<v, max>>
    /\ num' = n
Resized(n) == [k \in 1 .. n |-> IF k <= num THEN model[k] ELSE Junk]

array_add(x) ==
    /\ v' = (IF num + 1 > max THEN [Block(num + 1) EXCEPT ![num] = x] ELSE [v EXCEPT ![num] = x])
    /\ max' = (IF num + 1 > max THEN Grown(num + 1) ELSE max)
    /\ num' = num + 1
array_set(k, x) == v' = [v EXCEPT ![k] = x] /\ UNCHANGED <<max, num>>
\* Variant: one element too few is moved
array_remove_short(k) ==
    /\ v' = [j \in DOMAIN v |-> IF j >= k /\ j + 2 < num THEN v[j + 1] ELSE v[j]]
    /\ num' = num - 1 /\ UNCHANGED max
array_remove(k) ==
    /\ v' = [j \in DOMAIN v |-> IF j >= k /\ j + 1 < num THEN v[j + 1] ELSE v[j]]
    /\ num' = num - 1 /\ UNCHANGED max

\* array_init
NoElements == v = [k \in {} |-> Junk] /\ max = 0 /\ num = 0 /\ model = <<>>

-----------------------------------------------------------------------------
(* Any calls of arrays.  A setsize or an add that finds no memory changes nothing. *)

AddAny == \E x \in Vals : num < MaxNum /\ array_add(x) /\ model' = Append(model, x)
SetAny == \E k \in 0 .. num - 1, x \in Vals : array_set(k, x) /\ model' = [model EXCEPT ![k + 1] = x]
SizeAny == \E n \in 0 .. MaxNum : array_setsize(n) /\ model' = Resized(n)
RemoveAny == \E k \in 0 .. num - 1 : array_remove(k) /\ model' = RemoveAt(model, k + 1)
AnyArrayCall == Mode = "array" /\ (AddAny \/ SetAny \/ SizeAny \/ RemoveAny) /\ UNCHANGED <<script, ok, bitmapVars>>

-----------------------------------------------------------------------------
(* arraytest: testa on an empty array, twice.  Testarray[j] is j.             *)

testa ==
    LET expect(n, f(_)) == [k \in 1 .. n |-> <<"get", k - 1, f(k - 1)>>]
        same(j) == j
        back(j) == TESTSIZE - j - 1
        half == TESTSIZE \div 2
    IN [k \in 1 .. TESTSIZE |-> <<"add", k - 1, k>>]
       \o expect(TESTSIZE, same)
       \o [k \in 1 .. TESTSIZE |-> <<"set", k - 1, back(k - 1)>>]
       \o expect(TESTSIZE, back)
       \o <<<<"setsize", half, 0>>>> \o expect(half, back)
       \o <<<<"remove", 1, 0>>>>
       \o [k \in 1 .. half - 2 |-> <<"get", k, TESTSIZE - k - 2>>]
       \o <<<<"get", 0, TESTSIZE - 1>>, <<"setsize", 2, 0>>,
            <<"get", 0, TESTSIZE - 1>>, <<"get", 1, TESTSIZE - 3>>,
            <<"set", 1, NULL>>, <<"setsize", 2, 0>>,
            <<"get", 0, TESTSIZE - 1>>, <<"get", 1, NULL>>,
            <<"setsize", TESTSIZE * 10, 0>>,
            <<"get", 0, TESTSIZE - 1>>, <<"get", 1, NULL>>>>
arraytest == testa \o <<<<"setsize", 0, 0>>>> \o testa \o <<<<"setsize", 0, 0>>, <<"destroy", 0, 0>>>>

ArrayTestStep ==
    /\ Mode = "arraytest" /\ script # <<>>
    /\ LET s == Head(script)
       IN \/ s[1] = "add" /\ array_add(s[2]) /\ ok' = (ok /\ num' = s[3]) /\ model' = Append(model, s[2])
          \/ s[1] = "set" /\ array_set(s[2], s[3]) /\ model' = [model EXCEPT ![s[2] + 1] = s[3]] /\ UNCHANGED ok
          \/ s[1] = "get" /\ ok' = (ok /\ s[2] < num /\ v[s[2]] = s[3]) /\ UNCHANGED <<v, max, num, model>>
          \/ s[1] = "setsize" /\ array_setsize(s[2]) /\ model' = Resized(s[2]) /\ UNCHANGED ok
          \/ s[1] = "remove" /\ array_remove(s[2]) /\ model' = RemoveAt(model, s[2] + 1) /\ UNCHANGED ok
          \* array_destroy: array_cleanup asserts that the array is empty
          \/ s[1] = "destroy" /\ ok' = (ok /\ num = 0) /\ UNCHANGED <<v, max, num, model>>
    /\ script' = Tail(script) /\ UNCHANGED bitmapVars

-----------------------------------------------------------------------------
(* Bitmaps. *)

Word == 0 .. BITS_PER_WORD - 1
Words == (nbits + BITS_PER_WORD - 1) \div BITS_PER_WORD

\* Variant: the bits past the end are left free
bitmap_create_open(n) ==
    [w \in 0 .. ((n + BITS_PER_WORD - 1) \div BITS_PER_WORD) - 1 |-> {}]
\* bitmap_create: leftover bits at the end are marked in use.
bitmap_create(n) ==
    [w \in 0 .. ((n + BITS_PER_WORD - 1) \div BITS_PER_WORD) - 1 |->
        {b \in Word : w * BITS_PER_WORD + b >= n}]

WordOf(k) == k \div BITS_PER_WORD
\* Variant: the bit is counted from the wrong end
BitOfMirrored(k) == BITS_PER_WORD - (k % BITS_PER_WORD)
\* bitmap_translate
BitOf(k) == k % BITS_PER_WORD

bitmap_isset(k) == BitOf(k) \in words[WordOf(k)]
bitmap_mark(k) ==
    /\ ok' = (ok /\ k < nbits /\ ~ bitmap_isset(k))
    /\ words' = [words EXCEPT ![WordOf(k)] = @ \cup {BitOf(k)}]
\* Variant: the whole word is cleared
bitmap_unmark_word(k) ==
    /\ ok' = (ok /\ k < nbits /\ bitmap_isset(k))
    /\ words' = [words EXCEPT ![WordOf(k)] = {}]
bitmap_unmark(k) ==
    /\ ok' = (ok /\ k < nbits /\ bitmap_isset(k))
    /\ words' = [words EXCEPT ![WordOf(k)] = @ \ {BitOf(k)}]

\* Variant: the last word is not looked at
NotFullButLast == {w \in 0 .. Words - 2 : words[w] # Word}
\* bitmap_alloc: the lowest 0 bit of the first word that is not all ones.
NotFull == {w \in 0 .. Words - 1 : words[w] # Word}
Clear == LET w == Min(NotFull) IN w * BITS_PER_WORD + Min(Word \ words[w])
bitmap_alloc(expected) ==
    /\ index' = Clear
    /\ words' = [words EXCEPT ![WordOf(Clear)] = @ \cup {Clear % BITS_PER_WORD}]
    /\ ok' = (ok /\ Clear < nbits /\ Clear \in expected)   \* expected: the caller's assertion

Bits == 0 .. nbits - 1

-----------------------------------------------------------------------------
(* Any calls of bitmaps; data is the set of bits in use, as the caller knows it. *)

MarkAny == \E k \in Bits \ data : bitmap_mark(k) /\ data' = data \cup {k} /\ UNCHANGED index
UnmarkAny == \E k \in data : bitmap_unmark(k) /\ data' = data \ {k} /\ UNCHANGED index
AllocAny ==
    IF NotFull = {} THEN index' = nbits /\ UNCHANGED <<words, ok, data>>    \* ENOSPC
    ELSE bitmap_alloc(Bits) /\ data' = data \cup {index'}
AnyBitmapCall ==
    Mode = "bitmap" /\ (MarkAny \/ UnmarkAny \/ AllocAny) /\ UNCHANGED <<nbits, pc, i, arrayVars>>

-----------------------------------------------------------------------------
(* bitmaptest: data holds the bits chosen at random. *)

Then(next) == IF i + 1 < nbits THEN i' = i + 1 /\ UNCHANGED pc ELSE i' = 0 /\ pc' = next
Expect(set, next) ==
    /\ ok' = (ok /\ (bitmap_isset(i) <=> set)) /\ Then(next) /\ UNCHANGED <<words, index, data>>
Fresh == pc = "fresh" /\ Expect(FALSE, "mark")
MarkData ==
    /\ pc = "mark"
    /\ IF i \in data THEN bitmap_mark(i) ELSE UNCHANGED <<words, ok>>
    /\ Then("check") /\ UNCHANGED <<index, data>>
CheckData == pc = "check" /\ Expect(i \in data, "flip")
Flip ==
    /\ pc = "flip"
    /\ IF i \in data THEN bitmap_unmark(i) ELSE bitmap_mark(i)
    /\ Then("flipped") /\ UNCHANGED <<index, data>>
CheckFlipped == pc = "flipped" /\ Expect(i \notin data, "alloc")
AllocAll ==
    /\ pc = "alloc"
    /\ IF NotFull = {} THEN pc' = "full" /\ UNCHANGED <<words, index, ok, data>>
       ELSE /\ bitmap_alloc(data)
            /\ data' = data \ {Clear}
            /\ UNCHANGED pc
    /\ UNCHANGED i
CheckFull ==
    /\ pc = "full" /\ ok' = (ok /\ bitmap_isset(i) /\ i \notin data)
    /\ Then("done") /\ UNCHANGED <<words, index, data>>
bitmaptest ==
    /\ Mode = "bitmaptest"
    /\ Fresh \/ MarkData \/ CheckData \/ Flip \/ CheckFlipped \/ AllocAll \/ CheckFull
    /\ UNCHANGED <<nbits, arrayVars>>

-----------------------------------------------------------------------------

Init ==
    /\ NoElements /\ script = (IF Mode = "arraytest" THEN arraytest ELSE <<>>)
    /\ nbits \in Sizes /\ words = bitmap_create(nbits)
    /\ index = nbits /\ i = 0 /\ ok = TRUE
    /\ data \in SUBSET Bits /\ (Mode # "bitmaptest" => data = {})
    /\ pc = IF Mode = "bitmaptest" THEN "fresh" ELSE "any"

Next == AnyArrayCall \/ ArrayTestStep \/ AnyBitmapCall \/ bitmaptest

Spec == Init /\ [][Next]_vars

-----------------------------------------------------------------------------
(* Properties *)

\* The block has max slots, and the elements fit in it; the words of the bitmap are sets of bits,
\* one for each BITS_PER_WORD bits.
TypeOK ==
    /\ max \in Nat /\ num \in Nat /\ num <= max /\ DOMAIN v = 0 .. max - 1
    /\ words \in [0 .. Words - 1 -> SUBSET Word] /\ index \in 0 .. nbits

\* The elements are those of the sequence the calls describe, through any
\* growing, shrinking and growing again; an element that was never set is the
\* only one that may differ (it may show a value from before the array shrank).
SameElements == Len(model) = num /\ \A k \in 1 .. num : model[k] # Junk => v[k - 1] = model[k]

\* The block doubles: at most one slot in two is unused when it has grown.
Doubles == max' > max => max' = 4 \/ max' < 2 * num'

\* The bits set, among those the bitmap has, are the ones in use; the bits past
\* the end are set for good, so that bitmap_alloc cannot give one of them.
InUse ==
    Mode = "bitmap" =>
        /\ \A k \in Bits : bitmap_isset(k) <=> k \in data
        /\ \A k \in nbits .. Words * BITS_PER_WORD - 1 : k % BITS_PER_WORD \in words[WordOf(k)]

\* No bit is given twice, the lowest free bit is given, and ENOSPC is the
\* answer exactly when all are in use.
AllocFresh ==
    (Mode = "bitmap" /\ index' # index) =>
            IF index' = nbits THEN data = Bits ELSE index' = Min(Bits \ data)

\* The KASSERTs of bitmap.c, arraytest and bitmaptest hold.
AssertsHold == ok
=============================================================================
