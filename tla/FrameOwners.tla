---------------------------- MODULE FrameOwners ----------------------------
EXTENDS VirtualMemory_proofs

(***************************************************************************)
(* Why the page frame table knows the owner of every frame.  What could    *)
(* break it is a frame that virtual_alloc_kpages has given and that        *)
(* add_page_entry has not entered yet: the table still names its old       *)
(* owner.  As long as no timer interrupt stops the kernel inside itself,   *)
(* one thread at most has such frames, and the clock, which no reference   *)
(* bit delays, has moved past those of them that have an old owner and     *)
(* comes back only after the rest of the table.                            *)
(***************************************************************************)
Entering == {"alloc", "add", "install"}
Given    == Entering \cup Replacing

\* Where a thread is that could be stopped by the timer only, it has the CPU.
KeepsCpu == \A t \in Threads : pc[t] \in Entering => cur = t

\* While one thread sleeps in swap_out, no other is between a frame and its entry.
Alone ==
    \A t, u \in Threads : t # u /\ pc[t] \in Replacing =>
        /\ pc[u] \notin Replacing \cup {"add", "install"}
        /\ pc[u] = "alloc" => got[u] = <<>>

\* A frame that was never given is in no table.
Untouched ==
    \A i \in FrameIndex : ~pftValid[i] =>
        /\ pftOwner[FrameAddr(i)] = NULL
        /\ \A o \in Owners : pte[o] # FrameAddr(i)

Unentered(f) == f \in Frames /\ pftValid[f - FirstFrame] /\ \A o \in Owners : pte[o] # f

\* The frames in a thread's p_list: each is there once, and no page table has it.
GivenOK(t) ==
    pc[t] \in Given =>
        \A j \in DOMAIN got[t] : got[t][j][2] # Wild =>
            /\ Unentered(got[t][j][2])
            /\ \A k \in DOMAIN got[t] : got[t][k][2] = got[t][j][2] => k = j

\* The clock stands n frames after frame f.
Behind(f, n) == Advance(f - FirstFrame, n) = ep_hand

\* The frame being taken.
VictimOK(t) ==
    pc[t] \in Replacing =>
        /\ Unentered(victim[t][1]) /\ Behind(victim[t][1], 1)
        /\ \A j \in DOMAIN got[t] : got[t][j][2] # victim[t][1]

\* as_prepare_load's three lists, of which only the first may be longer than one page.
Shape(q) ==
    /\ Len(q) <= 3
    /\ \A i \in DOMAIN q : i > 1 \/ Len(q) < 3 => Len(q[i]) = 1

\* The frames in p_list that have an old owner: one for each list that was served, the last ones
\* that the clock passed.
OldOwned(t, j) == got[t][j][2] # Wild /\ pftOwner[got[t][j][2]] # NULL

ClockPast(t) ==
    pc[t] \in Allocating =>
        /\ Shape(req[t])
        /\ \A j \in DOMAIN got[t] : OldOwned(t, j) =>
              /\ pc[t] = "alloc" =>
                    \/ Len(req[t]) <= 2 /\ Behind(got[t][j][2], 1)
                    \/ Len(req[t]) <= 1 /\ Behind(got[t][j][2], 2)
              /\ pc[t] \in Replacing =>
                    Len(req[t]) <= 2 /\ (Len(req[t]) = 2 => Behind(got[t][j][2], 2))

FrameInv ==
    /\ KeepsCpu /\ Alone /\ NoneReferenced /\ Untouched /\ OwnerKnown
    /\ \A t \in Threads : GivenOK(t) /\ VictimOK(t) /\ ClockPast(t)

-----------------------------------------------------------------------------
(* Frames and hands. *)

\* A frame and its two entries in pft.table: the one the clock looks at, below FirstFrame, and the
\* one that code which subtracts physical_base_addr finds.
LEMMA FrameEntries ==
    ASSUME NEW f \in Frames
    PROVE  /\ f - FirstFrame \in FrameIndex /\ FrameAddr(f - FirstFrame) = f
           /\ f \in TableIndex /\ f \notin FrameIndex
           /\ f # Wild /\ f # NULL
           /\ PftIndex(f) = f
<1>1. f # Wild /\ f # NULL
  BY NullType, Zenon
<1>2. QED
  BY <1>1, KernelBelowFrames, FramesAssumption
  DEF Frames, FrameIndex, FrameAddr, TableIndex, PftIndex, physical_base_addr

\* Frames and their indices.
LEMMA IndexFrames ==
    ASSUME NEW i \in FrameIndex
    PROVE  /\ FrameAddr(i) \in Frames /\ FrameAddr(i) - FirstFrame = i
           /\ i \in TableIndex
           /\ \A f \in Frames : f # i /\ (f = FrameAddr(i) <=> f - FirstFrame = i)
BY KernelBelowFrames, FramesAssumption DEF Frames, FrameIndex, FrameAddr, TableIndex

\* A hand does not come back to where it was in fewer steps than there are frames.
LEMMA AdvanceMoves ==
    ASSUME NEW h \in FrameIndex, NEW n \in Nat, 0 < n, n < MAX_PM_SIZE
    PROVE  Advance(h, n) # h
<1> DEFINE q == (h + n) \div MAX_PM_SIZE
           s == (h + n) % MAX_PM_SIZE
<1>1. h + n \in Nat /\ MAX_PM_SIZE \in Nat \ {0} /\ h \in Nat
  BY FramesAssumption DEF FrameIndex
<1>2. h + n = (q * MAX_PM_SIZE) + s /\ q \in Int
  BY <1>1, DivMod, Zenon
<1> HIDE DEF q
<1>3. SUFFICES ASSUME s = h PROVE FALSE
  BY DEF Advance
<1>4. q * MAX_PM_SIZE = n
  BY <1>1, <1>2, <1>3
<1>5. q = 0
  BY <1>1, <1>2, <1>4, SmallMultiple
<1>6. QED
  BY <1>1, <1>4, <1>5

\* What is behind the hand falls one further behind.
LEMMA FallsBehind ==
    ASSUME NEW f \in Frames, ep_hand \in FrameIndex, ep_hand' = Advance(ep_hand, 1)
    PROVE  /\ Behind(f, 1) => Behind(f, 2)'
           /\ f = FrameAddr(ep_hand) => Behind(f, 1)'
<1>1. f - FirstFrame \in FrameIndex
  BY FrameEntries
<1>2. f - FirstFrame \in Nat
  BY <1>1, FramesAssumption DEF FrameIndex
<1>3. Advance(Advance(f - FirstFrame, 1), 1) = Advance(f - FirstFrame, 2)
  BY <1>2, AdvanceTwice
<1>4. f = FrameAddr(ep_hand) => f - FirstFrame = ep_hand
  BY IndexFrames
<1>5. QED
  BY <1>3, <1>4 DEF Behind

\* The frame at the hand is neither one nor two behind it.
LEMMA NotBehind ==
    ASSUME ep_hand \in FrameIndex, MAX_PM_SIZE >= 3
    PROVE  ~Behind(FrameAddr(ep_hand), 1) /\ ~Behind(FrameAddr(ep_hand), 2)
<1>1. FrameAddr(ep_hand) - FirstFrame = ep_hand
  BY IndexFrames
<1>2. Advance(ep_hand, 1) # ep_hand /\ Advance(ep_hand, 2) # ep_hand
  BY AdvanceMoves, FramesAssumption
<1>3. QED
  BY <1>1, <1>2 DEF Behind

\* A request whose first list is served, or has a page less.
LEMMA ShapeTail ==
    ASSUME NEW q \in Seq(Seq(VPages)), q # <<>>, Shape(q)
    PROVE  Shape(Tail(q)) /\ Len(Tail(q)) = Len(q) - 1 /\ Len(q) \in 1 .. 3
<1>0. 1 \in DOMAIN q
  OBVIOUS
<1>1. Len(q) \in 1 .. 3 /\ Len(Tail(q)) = Len(q) - 1
  <2>1. Len(q) \in Nat /\ Len(q) >= 1
    BY <1>0
  <2>2. Len(q) <= 3
    BY DEF Shape
  <2>3. Len(Tail(q)) = Len(q) - 1
    OBVIOUS
  <2>4. QED
    BY <2>1, <2>2, <2>3, SMTT(30)
<1>2. ASSUME NEW i \in DOMAIN Tail(q) PROVE Len(Tail(q)[i]) = 1
  <2>1. i + 1 \in DOMAIN q /\ i + 1 > 1 /\ Tail(q)[i] = q[i + 1]
    BY <1>1
  <2>2. QED
    BY <2>1, Zenon DEF Shape
<1>3. QED
  BY <1>1, <1>2 DEF Shape

\* One list after the other.
LEMMA Joined ==
    ASSUME NEW S, NEW a \in Seq(S), NEW b \in Seq(S)
    PROVE  /\ a \o b \in Seq(S) /\ Len(a \o b) = Len(a) + Len(b)
           /\ \A i \in 1 .. Len(a) + Len(b) : (a \o b)[i] = IF i <= Len(a) THEN a[i] ELSE b[i - Len(a)]
OBVIOUS

\* The list that is left when a page of the first list has its frame.
LEMMA ShapeLonger ==
    ASSUME NEW q \in Seq(Seq(VPages)), q # <<>>, Shape(q), Len(Head(q)) # 1, NEW w \in Seq(VPages)
    PROVE  Len(q) = 3 /\ Shape(<<w>> \o Tail(q)) /\ Len(<<w>> \o Tail(q)) = 3
<1> DEFINE a == <<w>>
           b == Tail(q)
           s == a \o b
<1>1. Len(q) \in 1 .. 3
  BY ShapeTail, Zenon
<1>2. Head(q) = q[1] /\ 1 \in DOMAIN q
  OBVIOUS
<1>3. Len(q) = 3
  BY <1>1, <1>2, SMTT(30) DEF Shape
<1>4. /\ a \in Seq(Seq(VPages)) /\ Len(a) = 1
      /\ b \in Seq(Seq(VPages)) /\ Len(b) = 2
      /\ \A i \in DOMAIN b : b[i] = q[i + 1]
  <2>1. a \in Seq(Seq(VPages)) /\ Len(a) = 1
    OBVIOUS
  <2>2. b \in Seq(Seq(VPages)) /\ \A i \in DOMAIN b : b[i] = q[i + 1]
    OBVIOUS
  <2>3. Len(b) = 2
    BY <1>3
  <2>4. QED
    BY <2>1, <2>2, <2>3, Zenon
<1> HIDE DEF a, b
<1>5. /\ s \in Seq(Seq(VPages)) /\ Len(s) = Len(a) + Len(b)
      /\ \A i \in 1 .. Len(a) + Len(b) : s[i] = IF i <= Len(a) THEN a[i] ELSE b[i - Len(a)]
  <2>1. a \in Seq(Seq(VPages)) /\ b \in Seq(Seq(VPages))
    BY <1>4, Zenon
  <2>2. QED
    BY <2>1, Joined, Zenon
<1> HIDE DEF s
<1>6. Len(s) = 3 /\ \A i \in 2 .. 3 : s[i] = q[i]
  <2>1. Len(a) + Len(b) = 3 /\ Len(a) = 1 /\ DOMAIN b = 1 .. 2
    BY <1>4
  <2>2. ASSUME NEW i \in 2 .. 3 PROVE s[i] = q[i]
    <3>1. i \in 1 .. 3 /\ ~(i <= 1) /\ i - 1 \in 1 .. 2 /\ (i - 1) + 1 = i
      OBVIOUS
    <3>2. s[i] = b[i - 1]
      BY <1>5, <2>1, <3>1, Zenon
    <3>3. b[i - 1] = q[(i - 1) + 1]
      BY <1>4, <2>1, <3>1, Zenon
    <3>4. QED
      BY <3>1, <3>2, <3>3, Zenon
  <2>3. QED
    BY <1>5, <2>1, <2>2, Zenon
<1>7. 2 \in DOMAIN q /\ 3 \in DOMAIN q /\ DOMAIN s = 1 .. 3
  <2>1. s \in Seq(Seq(VPages)) /\ Len(s) = 3
    BY <1>5, <1>6, Zenon
  <2>2. DOMAIN s = 1 .. 3
    BY <2>1
  <2>3. 2 \in DOMAIN q /\ 3 \in DOMAIN q
    BY <1>3
  <2>4. QED
    BY <2>2, <2>3, Zenon
<1>8. ASSUME NEW i \in DOMAIN s, i > 1 PROVE Len(s[i]) = 1
  <2>1. i \in 2 .. 3 /\ i \in DOMAIN q
    BY <1>3, <1>7, <1>8
  <2>2. QED
    BY <1>6, <1>8, <2>1, Zenon DEF Shape
<1>9. \A i \in DOMAIN s : i > 1 => Len(s[i]) = 1
  BY <1>8, Zenon
<1>10. Shape(s)
  BY <1>6, <1>9 DEF Shape
<1>11. QED
  BY <1>3, <1>6, <1>10 DEF s, a, b

-----------------------------------------------------------------------------
(* Steps that leave the tables alone. *)

\* A thread that keeps the CPU, and the others stay where they are.
LEMMA CpuKept ==
    ASSUME KeepsCpu, NEW t \in Threads, cur' = cur,
           \A u \in Threads \ {t} : pc'[u] = pc[u],
           pc'[t] \in Entering => cur = t
    PROVE  KeepsCpu'
BY Zenon DEF KeepsCpu

\* The CPU changes hands where no thread needs it to keep its frames.
LEMMA CpuGivenUp ==
    ASSUME KeepsCpu, cur \notin Threads \/ pc[cur] \notin Entering,
           \A u \in Threads : pc'[u] \in Entering => pc[u] \in Entering
    PROVE  KeepsCpu'
BY Zenon DEF KeepsCpu

\* What stays in the tables stays known.
LEMMA TablesSame ==
    ASSUME TypeOK, UNCHANGED <<pftOwner, pte, ep_hand>>,
           \A i \in FrameIndex : pftValid'[i] = pftValid[i]
    PROVE  /\ Untouched => Untouched'
           /\ OwnerKnown => OwnerKnown'
           /\ \A f : Unentered(f) => Unentered(f)'
           /\ \A f, n : Behind(f, n) => Behind(f, n)'
<1>1. \A f \in Frames : f - FirstFrame \in FrameIndex
  BY FrameEntries
<1>2. Untouched => Untouched'
  BY Zenon DEF Untouched, FrameAddr
<1>3. OwnerKnown => OwnerKnown'
  BY <1>1, NullType, ZenonT(30) DEF OwnerKnown, TypeOK, SpaceTypeOK, PftIndex
<1>4. \A f : Unentered(f) => Unentered(f)'
  BY <1>1, Zenon DEF Unentered
<1>5. \A f, n : Behind(f, n) => Behind(f, n)'
  BY Zenon DEF Behind
<1>6. QED
  BY <1>2, <1>3, <1>4, <1>5, Zenon

\* What is known of a thread that stays where it is.
LEMMA ThreadSame ==
    ASSUME TypeOK, UNCHANGED <<pftOwner, pte, ep_hand>>,
           \A i \in FrameIndex : pftValid'[i] = pftValid[i],
           NEW u \in Threads, GivenOK(u), VictimOK(u), ClockPast(u),
           got'[u] = got[u], req'[u] = req[u], victim'[u] = victim[u],
           pc'[u] = pc[u] \/ (pc[u] \in Replacing /\ pc'[u] \in Replacing)
    PROVE  GivenOK(u)' /\ VictimOK(u)' /\ ClockPast(u)'
<1>1. /\ \A f : Unentered(f) => Unentered(f)'
      /\ \A f, n : Behind(f, n) => Behind(f, n)'
  BY TablesSame, Zenon
<1>2. /\ pc'[u] \in Given => pc[u] \in Given
      /\ pc'[u] \in Replacing => pc[u] \in Replacing
      /\ pc'[u] \in Allocating => pc[u] \in Allocating
      /\ pc'[u] = "alloc" => pc[u] = "alloc"
  BY Zenon DEF Given, Entering, Replacing, Allocating
<1>3. GivenOK(u)'
  BY <1>1, <1>2, Zenon DEF GivenOK
<1>4. VictimOK(u)'
  BY <1>1, <1>2, Zenon DEF VictimOK
<1>5. ClockPast(u)'
  BY <1>1, <1>2, Zenon DEF ClockPast, OldOwned, Shape
<1>6. QED
  BY <1>3, <1>4, <1>5, Zenon

\* Thread t takes no frame: it goes where it has none, begins to ask for some, or wakes up.
LEMMA Quiet ==
    ASSUME TypeOK, FrameInv, NEW t \in Threads, KeepsCpu',
           UNCHANGED <<pftOwner, pte, ep_hand>>,
           \A i \in FrameIndex : pftValid'[i] = pftValid[i] /\ pftRef'[i] = pftRef[i],
           \A u \in Threads \ {t} :
               pc'[u] = pc[u] /\ got'[u] = got[u] /\ req'[u] = req[u] /\ victim'[u] = victim[u],
           \/ pc'[t] \notin Given
           \/ pc'[t] = "alloc" /\ got'[t] = <<>> /\ Shape(req[t])'
           \/ /\ pc'[t] = pc[t] \/ (pc[t] \in Replacing /\ pc'[t] \in Replacing)
              /\ got'[t] = got[t] /\ req'[t] = req[t] /\ victim'[t] = victim[t]
    PROVE  FrameInv'
<1>1. NoneReferenced'
  BY Zenon DEF FrameInv, NoneReferenced
<1>2. Untouched' /\ OwnerKnown'
  BY TablesSame, Zenon DEF FrameInv
<1>3. ASSUME NEW u \in Threads \ {t} PROVE GivenOK(u)' /\ VictimOK(u)' /\ ClockPast(u)'
  BY ThreadSame, Zenon DEF FrameInv
<1>4. GivenOK(t)' /\ VictimOK(t)' /\ ClockPast(t)'
  <2>1. CASE pc'[t] \notin Given
    BY <2>1, Zenon DEF GivenOK, VictimOK, ClockPast, Given, Entering, Replacing, Allocating
  <2>2. CASE pc'[t] = "alloc" /\ got'[t] = <<>> /\ Shape(req[t])'
    <3>1. \A j : j \notin DOMAIN got'[t]
      BY <2>2
    <3>2. pc'[t] \notin Replacing
      BY <2>2, Zenon DEF Replacing
    <3>3. QED
      BY <2>2, <3>1, <3>2, Zenon DEF GivenOK, VictimOK, ClockPast
  <2>3. CASE /\ pc'[t] = pc[t] \/ (pc[t] \in Replacing /\ pc'[t] \in Replacing)
             /\ got'[t] = got[t] /\ req'[t] = req[t] /\ victim'[t] = victim[t]
    BY <2>3, ThreadSame, Zenon DEF FrameInv
  <2>4. QED
    BY <2>1, <2>2, <2>3, Zenon
<1>5. Alone'
  <2>1. Alone
    BY Zenon DEF FrameInv
  <2>2. ASSUME NEW a \in Threads, NEW b \in Threads, a # b, pc'[a] \in Replacing
        PROVE  /\ pc'[b] \notin Replacing \cup {"add", "install"}
               /\ pc'[b] = "alloc" => got'[b] = <<>>
    <3>1. pc[a] \in Replacing
      BY <2>2, Zenon DEF Given, Entering, Replacing
    <3>2. CASE b # t
      BY <2>1, <2>2, <3>1, <3>2, ZenonT(30) DEF Alone
    <3>3. CASE b = t
      BY <2>1, <2>2, <3>1, <3>3, Zenon DEF Alone, Given, Entering, Replacing
    <3>4. QED
      BY <3>2, <3>3, Zenon
  <2>3. QED
    BY <2>2, Zenon DEF Alone
<1>6. QED
  BY <1>1, <1>2, <1>3, <1>4, <1>5, Zenon DEF FrameInv

\* Only thread t has frames that are not entered.
LEMMA Sole ==
    ASSUME FrameInv, OneReplacement, NEW t \in Threads, cur = t,
           stealmem_lock \in {NULL, t} \/ pc[t] \in {"add", "install"}
    PROVE  \A u \in Threads \ {t} : pc[u] \notin Given
<1>1. SUFFICES ASSUME NEW u \in Threads \ {t}, pc[u] \in Given PROVE FALSE
  BY Zenon
<1>2. CASE pc[u] \in Entering
  BY <1>2, Zenon DEF FrameInv, KeepsCpu
<1>3. CASE pc[u] \in Replacing
  <2>1. stealmem_lock = u
    BY <1>3, Zenon DEF OneReplacement, Replacing
  <2>2. stealmem_lock \notin {NULL, t}
    BY <2>1, NullType, Zenon
  <2>3. QED
    BY <1>3, <2>2, Zenon DEF FrameInv, Alone
<1>4. QED
  BY <1>1, <1>2, <1>3, Zenon DEF Given

\* When no thread but t has frames to enter, a step of t need only look at its own.
LEMMA SoleSteps ==
    ASSUME NEW t \in Threads,
           \A u \in Threads \ {t} : pc[u] \notin Given /\ pc'[u] = pc[u],
           pc'[t] \in Entering => cur' = t,
           NoneReferenced', Untouched', OwnerKnown', GivenOK(t)', VictimOK(t)', ClockPast(t)'
    PROVE  FrameInv'
<1>1. KeepsCpu'
  BY Zenon DEF KeepsCpu, Given
<1>2. Alone'
  BY Zenon DEF Alone, Given, Entering, Replacing
<1>3. ASSUME NEW u \in Threads \ {t} PROVE GivenOK(u)' /\ VictimOK(u)' /\ ClockPast(u)'
  BY Zenon DEF GivenOK, VictimOK, ClockPast, Given, Entering, Replacing, Allocating
<1>4. QED
  BY <1>1, <1>2, <1>3, Zenon DEF FrameInv

-----------------------------------------------------------------------------
(* The quiet steps. *)

\* A step that changes nothing but who has the CPU, the TLB, memory or the disk.
LEMMA SameFrames ==
    ASSUME FrameInv, UNCHANGED <<pftVars, pte, pc, got, req, victim>>, KeepsCpu'
    PROVE  FrameInv'
<1>1. Alone'
  BY Zenon DEF FrameInv, Alone
<1>2. NoneReferenced'
  BY Zenon DEF FrameInv, NoneReferenced, pftVars
<1>3. Untouched' /\ OwnerKnown'
  BY Zenon DEF FrameInv, Untouched, OwnerKnown, pftVars
<1>4. ASSUME NEW t \in Threads PROVE GivenOK(t)' /\ VictimOK(t)'
  BY Zenon DEF FrameInv, GivenOK, VictimOK, Unentered, Behind, pftVars
<1>5. ASSUME NEW t \in Threads PROVE ClockPast(t)'
  BY Zenon DEF FrameInv, ClockPast, OldOwned, Shape, Behind, pftVars
<1>6. QED
  BY <1>1, <1>2, <1>3, <1>4, <1>5, Zenon DEF FrameInv

\* Panic keeps FrameInv.
LEMMA PanicFrames ==
    ASSUME FrameInv, NEW reason, Panic(reason)
    PROVE  FrameInv'
<1>1. KeepsCpu'
  BY Zenon DEF FrameInv, KeepsCpu, Panic, threadVars, cpuVars
<1>2. QED
  BY <1>1, SameFrames, Zenon DEF Panic, threadVars, spaceVars

\* Thread t leaves for a place where it has no frames to enter.
LEMMA Leaves ==
    ASSUME TypeOK, FrameInv, NEW t \in Threads, NEW x, x \notin Given,
           pc' = [pc EXCEPT ![t] = x],
           got' = got \/ got' = [got EXCEPT ![t] = <<>>],
           UNCHANGED <<pftOwner, pte, ep_hand, req, victim>>,
           \A i \in FrameIndex : pftValid'[i] = pftValid[i] /\ pftRef'[i] = pftRef[i],
           cur' = cur \/ cur = t
    PROVE  FrameInv'
<1>1. pc'[t] = x /\ \A u \in Threads \ {t} : pc'[u] = pc[u] /\ got'[u] = got[u]
  BY Zenon DEF TypeOK, ThreadTypeOK
<1>2. KeepsCpu'
  <2>1. SUFFICES ASSUME NEW u \in Threads, pc'[u] \in Entering PROVE cur' = u
    BY Zenon DEF KeepsCpu
  <2>2. u # t
    BY <1>1, <2>1, Zenon DEF Given
  <2>3. pc[u] \in Entering
    BY <1>1, <2>1, <2>2, Zenon
  <2>4. cur = u
    BY <2>3, Zenon DEF FrameInv, KeepsCpu
  <2>5. QED
    BY <2>2, <2>4, Zenon
<1>3. \A u \in Threads \ {t} : req'[u] = req[u] /\ victim'[u] = victim[u]
  BY Zenon
<1>4. pc'[t] \notin Given
  BY <1>1, Zenon
<1>5. QED
  BY <1>1, <1>2, <1>3, <1>4, Quiet, Zenon

\* Without ticks the timer finds the CPU idle or in user mode.
LEMMA TickOutside ==
    ASSUME MaxTicks = 0, CpuTypeOK, Tick
    PROVE  cur = NULL \/ pc[cur] = "user"
BY DEF Tick, CpuTypeOK

\* Dispatch keeps FrameInv.
LEMMA DispatchFrames ==
    ASSUME FrameInv, Dispatch
    PROVE  FrameInv'
<1>1. KeepsCpu'
  BY CpuGivenUp, NullType, Zenon DEF Dispatch, FrameInv, threadVars
<1>2. QED
  BY <1>1, SameFrames, Zenon DEF Dispatch, threadVars, spaceVars

\* Preempt keeps FrameInv.
LEMMA PreemptFrames ==
    ASSUME MaxTicks = 0, TypeOK, FrameInv, Preempt
    PROVE  FrameInv'
<1>1. cur = NULL \/ pc[cur] = "user"
  BY TickOutside, Zenon DEF Preempt, TypeOK
<1>2. KeepsCpu'
  BY <1>1, CpuGivenUp, NullType, Zenon DEF Preempt, FrameInv, threadVars, Entering
<1>3. QED
  BY <1>2, SameFrames, Zenon DEF Preempt, threadVars, spaceVars

\* Launch keeps FrameInv.
LEMMA LaunchFrames ==
    ASSUME MaxTicks = 0, TypeOK, FrameInv, NEW t \in Threads, NEW p \in Programs, Launch(t, p)
    PROVE  FrameInv'
<1>1. CASE Panic("spinlock_acquire")
  BY <1>1, PanicFrames, Zenon
<1>2. CASE /\ Tick /\ pc' = [pc EXCEPT ![t] = "start"] /\ cur' = NULL
           /\ UNCHANGED <<pftVars, pte, req, got, victim>>
  <2>1. cur = NULL \/ pc[cur] = "user"
    BY <1>2, TickOutside, Zenon DEF TypeOK
  <2>2. pc'[t] = "start" /\ \A u \in Threads \ {t} : pc'[u] = pc[u]
    BY <1>2, Zenon DEF TypeOK, ThreadTypeOK
  <2>3. KeepsCpu'
    BY <1>2, <2>1, <2>2, CpuGivenUp, NullType, Zenon DEF FrameInv, Entering
  <2>4. QED
    BY <1>2, <2>2, <2>3, Quiet, Zenon DEF pftVars, Given, Entering, Replacing
<1>3. QED
  BY <1>1, <1>2, Zenon DEF Launch

\* The lists as_prepare_load asks for.
LEMMA LoadRequestsShape ==
    ASSUME NEW p \in Programs
    PROVE  Shape(LoadRequests(p))
<1> DEFINE a == Pages("seg1", p.npages1)
           b == Pages("seg2", 1)
           c == Pages("stack", 1)
<1>1. 1 \in 0 .. MaxRegionPages
  BY SizesAssumption
<1>2. Len(b) = 1 /\ Len(c) = 1
  BY <1>1, PagesType, Zenon DEF Segments
<1>3. LoadRequests(p) = <<a, b, c>>
  BY Zenon DEF LoadRequests
<1> HIDE DEF a, b, c
<1>4. QED
  BY <1>2, <1>3 DEF Shape

\* Start keeps FrameInv.
LEMMA StartFrames ==
    ASSUME TypeOK, Control, FrameInv, NEW t \in Threads, Start(t)
    PROVE  FrameInv'
<1> DEFINE q == LoadRequests(layout[space[t]])
<1>1. CASE Panic("spinlock_acquire")
  BY <1>1, PanicFrames, Zenon
<1>2. CASE /\ req' = [req EXCEPT ![t] = q] /\ pc' = [pc EXCEPT ![t] = "alloc"]
           /\ UNCHANGED <<pftVars, pte, got, victim, cur>>
  <2>1. cur = t /\ pc[t] = "start"
    BY Zenon DEF Start, Running
  <2>2. got[t] = <<>> /\ layout[space[t]] \in Programs
    BY <2>1, Zenon DEF Control, ThreadOK
  <2>3. Shape(q)
    BY <2>2, LoadRequestsShape, Zenon
  <2> HIDE DEF q
  <2>4. /\ pc'[t] = "alloc" /\ req'[t] = q
        /\ \A u \in Threads \ {t} : pc'[u] = pc[u] /\ req'[u] = req[u]
    BY <1>2, Zenon DEF TypeOK, ThreadTypeOK
  <2>5. KeepsCpu'
    BY <1>2, <2>1, <2>4, CpuKept, Zenon DEF FrameInv
  <2>6. Shape(req[t])'
    BY <2>3, <2>4, Zenon DEF Shape
  <2>7. QED
    BY <1>2, <2>2, <2>4, <2>5, <2>6, Quiet, Zenon DEF pftVars
<1>3. QED
  BY <1>1, <1>2, Zenon DEF Start, cpuVars, spaceVars

\* Fault keeps FrameInv.
LEMMA FaultFrames ==
    ASSUME TypeOK, Control, FrameInv, NEW t \in Threads, NEW v \in VPages, Fault(t, v)
    PROVE  FrameInv'
<1> DEFINE o == <<space[t], v>>
           p == layout[space[t]]
<1>1. o \in Owners /\ pte[o] \in Frames \cup {NULL}
  <2>1. space[t] \in Spaces
    BY SizesAssumption DEF Fault, Control, ThreadOK, TypeOK, SpaceTypeOK, Spaces
  <2>2. QED
    BY <2>1, Zenon DEF Owners, TypeOK, SpaceTypeOK
<1>2. CASE ~(SetUp(p) /\ v \in Region(p))
  <2>1. Panic("vm_fault") \/ Panic("kill_curthread")
    BY <1>2, Zenon DEF Fault
  <2>2. QED
    BY <2>1, PanicFrames, Zenon
<1>3. CASE SetUp(p) /\ v \in Region(p)
  <2>1. /\ \/ /\ pte[o] # NULL
              /\ pftRef' = [pftRef EXCEPT ![PftIndex(pte[o])] = TRUE]
              /\ pc' = [pc EXCEPT ![t] = "map"]
              /\ UNCHANGED req
           \/ /\ req' = [req EXCEPT ![t] = <<<<v>>>>]
              /\ pc' = [pc EXCEPT ![t] = "alloc"]
              /\ UNCHANGED pftRef
        /\ UNCHANGED <<pftValid, pftOwner, ep_hand, pte, got, victim, cur>>
    BY <1>3, Zenon DEF Fault, spaceVars, cpuVars
  <2>2. cur = t /\ pc[t] = "user"
    BY Zenon DEF Fault, Running
  <2>3. got[t] = <<>>
    BY <2>2, Zenon DEF Control, ThreadOK
  <2> DEFINE q == <<<<v>>>>
  <2>4. Shape(q)
    BY DEF Shape
  <2> HIDE DEF o, p
  <2>5. CASE pte[o] # NULL /\ pftRef' = [pftRef EXCEPT ![PftIndex(pte[o])] = TRUE] /\ pc' = [pc EXCEPT ![t] = "map"] /\ UNCHANGED req
    <3>1. \A i \in FrameIndex : pftRef'[i] = pftRef[i]
      BY <1>1, <2>5, FrameEntries, TableIndexType, Zenon DEF TypeOK, PftTypeOK
    <3>2. "map" \notin Given
      BY Zenon DEF Given, Entering, Replacing
    <3>3. QED
      BY <2>1, <2>5, <3>1, <3>2, Leaves, Zenon
  <2>6. CASE req' = [req EXCEPT ![t] = q] /\ pc' = [pc EXCEPT ![t] = "alloc"] /\ UNCHANGED pftRef
    <3> HIDE DEF q
    <3>1. /\ pc'[t] = "alloc" /\ req'[t] = q
          /\ \A u \in Threads \ {t} : pc'[u] = pc[u] /\ req'[u] = req[u]
      BY <2>6, Zenon DEF TypeOK, ThreadTypeOK
    <3>2. KeepsCpu'
      BY <2>1, <2>2, <3>1, CpuKept, Zenon DEF FrameInv
    <3>3. Shape(req[t])'
      BY <2>4, <3>1, Zenon DEF Shape
    <3>4. QED
      BY <2>1, <2>3, <2>6, <3>1, <3>2, <3>3, Quiet, Zenon
  <2>7. QED
    BY <2>1, <2>5, <2>6, Zenon
<1>4. QED
  BY <1>2, <1>3, Zenon

\* SwapOutDone keeps FrameInv.
LEMMA SwapOutDoneFrames ==
    ASSUME TypeOK, FrameInv, NEW t \in Threads, SwapOutDone(t)
    PROVE  FrameInv'
<1>1. /\ pc[t] = "swap_out" /\ pc'[t] = "swapped_out"
      /\ \A u \in Threads \ {t} : pc'[u] = pc[u]
      /\ UNCHANGED <<pftVars, pte, got, req, victim, cur>>
  BY Zenon DEF SwapOutDone, TypeOK, ThreadTypeOK, spaceVars
<1>2. KeepsCpu'
  BY <1>1, CpuKept, Zenon DEF FrameInv, Entering
<1>3. QED
  BY <1>1, <1>2, Quiet, Zenon DEF pftVars, Replacing

\* PageIn keeps FrameInv.
LEMMA PageInFrames ==
    ASSUME TypeOK, Control, FrameInv, NEW t \in Threads, PageIn(t)
    PROVE  FrameInv'
<1> DEFINE f == Head(got[t])[2]
<1>1. f \in Frames
  BY Fetched, Zenon DEF PageIn, Fetching
<1>2. /\ pftRef' = [pftRef EXCEPT ![PftIndex(f)] = TRUE]
      /\ got' = [got EXCEPT ![t] = <<>>]
      /\ pc' = [pc EXCEPT ![t] = "map"]
      /\ UNCHANGED <<pftValid, pftOwner, ep_hand, pte, req, victim, cur>>
  BY Zenon DEF PageIn, spaceVars, cpuVars
<1> HIDE DEF f
<1>3. \A i \in FrameIndex : pftRef'[i] = pftRef[i]
  BY <1>1, <1>2, FrameEntries, TableIndexType, Zenon DEF TypeOK, PftTypeOK
<1>4. "map" \notin Given
  BY Zenon DEF Given, Entering, Replacing
<1>5. QED
  BY <1>2, <1>3, <1>4, Leaves, Zenon

\* as_destroy clears valid_bit in entries that the clock does not look at.
LEMMA ExitFrames ==
    ASSUME TypeOK, Control, FrameInv, NEW t \in Threads, Exit(t)
    PROVE  FrameInv'
<1> DEFINE keeps(i) == /\ pftValid[i]
                       /\ \A v \in VPages : LET f == pte[<<space[t], v>>]
                                            IN  f # NULL => PftIndex(f) # i
<1>1. /\ pftValid' = [i \in TableIndex |-> keeps(i)]
      /\ pc' = [pc EXCEPT ![t] = "none"]
      /\ UNCHANGED <<pftRef, pftOwner, ep_hand, pte, got, req, victim>>
      /\ cur = t /\ pc[t] = "user"
  BY Zenon DEF Exit, Running, spaceVars
<1>2. space[t] \in Spaces
  BY <1>1, SizesAssumption DEF Control, ThreadOK, TypeOK, SpaceTypeOK, Spaces
<1>3. ASSUME NEW i \in FrameIndex PROVE pftValid'[i] = pftValid[i]
  <2>1. ASSUME NEW v \in VPages, pte[<<space[t], v>>] # NULL PROVE PftIndex(pte[<<space[t], v>>]) # i
    <3>1. <<space[t], v>> \in Owners
      BY <1>2, Zenon DEF Owners
    <3>2. pte[<<space[t], v>>] \in Frames
      BY <2>1, <3>1, Zenon DEF TypeOK, SpaceTypeOK
    <3>3. QED
      BY <3>2, FrameEntries, Zenon
  <2>2. keeps(i) <=> pftValid[i]
    BY <2>1, Zenon
  <2>3. i \in TableIndex
    BY TableIndexType, Zenon
  <2>4. keeps(i) \in BOOLEAN /\ pftValid[i] \in BOOLEAN
    BY <2>3, Zenon DEF TypeOK, PftTypeOK
  <2> HIDE DEF keeps
  <2>5. QED
    BY <1>1, <2>2, <2>3, <2>4, Zenon
<1>4. "none" \notin Given
  BY Zenon DEF Given, Entering, Replacing
<1> HIDE DEF keeps
<1>5. QED
  BY <1>1, <1>3, <1>4, Leaves, Zenon

\* The remaining steps that take no frame.
LEMMA OtherFrames ==
    ASSUME TypeOK, FrameInv, NEW t \in Threads,
           \/ LoadFails(t) \/ AllocSpins(t) \/ LoadAs(t) \/ SwapInSleeps(t) \/ SwapInDone(t)
           \/ Map(t) \/ Wake(t) \/ Wait(t)
    PROVE  FrameInv'
<1>1. ASSUME NEW x \in {"none", "user", "swapped_in", "wait"}, pc' = [pc EXCEPT ![t] = x],
             UNCHANGED <<pftVars, pte, got, req, victim>>, cur' = cur \/ cur = t
      PROVE  FrameInv'
  <2>1. x \notin Given
    BY <1>1, Zenon DEF Given, Entering, Replacing
  <2>2. QED
    BY <1>1, <2>1, Leaves, Zenon DEF pftVars
<1>2. CASE AllocSpins(t)
  BY <1>2, PanicFrames, Zenon DEF AllocSpins
<1>3. CASE LoadAs(t)
  BY <1>1, <1>3, PanicFrames, Zenon DEF LoadAs, spaceVars, cpuVars
<1>4. CASE SwapInSleeps(t)
  <2>1. KeepsCpu'
    BY <1>4, CpuGivenUp, Zenon DEF FrameInv, SwapInSleeps, Running, Entering, threadVars
  <2>2. QED
    BY <1>4, <2>1, SameFrames, Zenon DEF SwapInSleeps, threadVars, spaceVars
<1>5. CASE LoadFails(t) \/ Wait(t)
  BY <1>1, <1>5, Zenon DEF LoadFails, Wait, Running, spaceVars
<1>6. CASE SwapInDone(t) \/ Map(t) \/ Wake(t)
  BY <1>1, <1>6, Zenon DEF SwapInDone, Map, Wake, spaceVars, cpuVars
<1>7. QED
  BY <1>2, <1>3, <1>4, <1>5, <1>6, Zenon

-----------------------------------------------------------------------------
(* The steps that give frames and enter them. *)

\* p_list with a frame more.
LEMMA GivenMore ==
    ASSUME TypeOK, NEW t \in Threads, pc[t] \in Given, GivenOK(t),
           NEW x \in VPages \X (Frames \cup {Wild}),
           got' = [got EXCEPT ![t] = Append(@, x)],
           \A g : Unentered(g) => Unentered(g)',
           x[2] # Wild => Unentered(x[2])' /\ \A j \in DOMAIN got[t] : got[t][j][2] # x[2]
    PROVE  /\ GivenOK(t)'
           /\ DOMAIN got'[t] = DOMAIN got[t] \cup {Len(got[t]) + 1}
           /\ \A j \in DOMAIN got[t] : got'[t][j] = got[t][j]
           /\ got'[t][Len(got[t]) + 1] = x
<1> DEFINE n == Len(got[t]) + 1
<1>1. got[t] \in Seq(VPages \X (Frames \cup {Wild})) /\ got'[t] = Append(got[t], x)
  BY Zenon DEF TypeOK, ThreadTypeOK
<1>2. /\ DOMAIN got'[t] = DOMAIN got[t] \cup {n}
      /\ \A j \in DOMAIN got[t] : got'[t][j] = got[t][j]
      /\ got'[t][n] = x
  <2> DEFINE S == VPages \X (Frames \cup {Wild})
             g == got[t]
  <2>1. g \in Seq(S) /\ x \in S /\ got'[t] = Append(g, x)
    BY <1>1, Zenon
  <2> HIDE DEF S, g
  <2>2. /\ DOMAIN Append(g, x) = DOMAIN g \cup {Len(g) + 1}
        /\ \A j \in DOMAIN g : Append(g, x)[j] = g[j]
        /\ Append(g, x)[Len(g) + 1] = x
    BY <2>1
  <2>3. QED
    BY <2>1, <2>2, Zenon DEF g
<1> HIDE DEF n
<1>3. ASSUME NEW j \in DOMAIN got'[t], got'[t][j][2] # Wild
      PROVE  /\ Unentered(got[t][j][2])'
             /\ \A k \in DOMAIN got'[t] : got'[t][k][2] = got'[t][j][2] => k = j
  <2>1. CASE j = n
    <3>1. got'[t][j][2] = x[2] /\ Unentered(x[2])'
      BY <1>2, <1>3, <2>1, Zenon
    <3>2. ASSUME NEW k \in DOMAIN got'[t], got'[t][k][2] = got'[t][j][2] PROVE k = j
      BY <1>2, <1>3, <2>1, <3>2, Zenon
    <3>3. QED
      BY <3>1, <3>2, Zenon DEF Unentered
  <2>2. CASE j \in DOMAIN got[t]
    <3>0. got'[t][j] = got[t][j]
      BY <1>2, <2>2, Zenon
    <3>1. /\ Unentered(got[t][j][2])
          /\ \A k \in DOMAIN got[t] : got[t][k][2] = got[t][j][2] => k = j
      BY <1>3, <2>2, <3>0, Zenon DEF GivenOK
    <3>2. ASSUME NEW k \in DOMAIN got'[t], got'[t][k][2] = got'[t][j][2] PROVE k = j
      BY <1>2, <1>3, <2>2, <3>0, <3>1, <3>2, Zenon
    <3>3. PICK g : g = got[t][j][2] /\ g = got'[t][j][2]
      BY <3>0, Zenon
    <3>4. Unentered(g)'
      BY <3>1, <3>3, Zenon
    <3>5. Unentered(got[t][j][2])'
      BY <3>3, <3>4, Zenon DEF Unentered
    <3>6. QED
      BY <3>2, <3>5, Zenon
  <2>3. QED
    BY <1>2, <1>3, <2>1, <2>2, Zenon
<1>4. GivenOK(t)'
  BY <1>3, Zenon DEF GivenOK
<1>5. QED
  BY <1>2, <1>4, Zenon DEF n

\* add_page_entry for a frame that no page has.
LEMMA Entered ==
    ASSUME TypeOK, NoneReferenced, Untouched, OwnerKnown, NEW o \in Owners, NEW f \in Frames,
           Unentered(f), AddPageEntry(o, f)
    PROVE  /\ NoneReferenced' /\ Untouched' /\ OwnerKnown'
           /\ \A g : g # f /\ Unentered(g) => Unentered(g)'
<1>1. /\ pte' = [pte EXCEPT ![o] = f]
      /\ pftValid' = [pftValid EXCEPT ![f] = TRUE]
      /\ pftRef' = [pftRef EXCEPT ![f] = FALSE]
      /\ pftOwner' = [pftOwner EXCEPT ![f] = o]
  BY FrameEntries, Zenon DEF AddPageEntry
<1>2. \A g \in Frames : /\ g \in TableIndex /\ PftIndex(g) = g /\ g # NULL /\ g \notin FrameIndex
                        /\ g - FirstFrame \in FrameIndex
  BY FrameEntries, Zenon
<1>3. \A i \in FrameIndex : /\ i \in TableIndex /\ FrameAddr(i) \in Frames
                            /\ (f = FrameAddr(i) <=> f - FirstFrame = i)
  BY IndexFrames, Zenon
<1>4. \A i \in FrameIndex : pftValid'[i] = pftValid[i] /\ pftRef'[i] = pftRef[i]
  <2>1. ASSUME NEW i \in FrameIndex PROVE i \in TableIndex /\ i # f
    BY <1>2, TableIndexType, Zenon
  <2>2. QED
    BY <1>1, <2>1, Zenon DEF TypeOK, PftTypeOK
<1>5. /\ \A g \in Frames : g # f => pftOwner'[g] = pftOwner[g]
      /\ pftOwner'[f] = o
      /\ pftValid[f - FirstFrame]
      /\ \A p \in Owners : pte[p] # f
      /\ \A p \in Owners : p # o => pte'[p] = pte[p]
      /\ pte'[o] = f
      /\ \A p \in Owners : pte[p] \in Frames \cup {NULL}
  BY <1>1, <1>2, Zenon DEF TypeOK, PftTypeOK, SpaceTypeOK, Unentered
<1>6. NoneReferenced'
  BY <1>4, Zenon DEF NoneReferenced
<1>7. Untouched'
  <2>1. ASSUME NEW i \in FrameIndex, ~pftValid'[i]
        PROVE  pftOwner'[FrameAddr(i)] = NULL /\ \A p \in Owners : pte'[p] # FrameAddr(i)
    <3>1. ~pftValid[i] /\ f # FrameAddr(i) /\ FrameAddr(i) \in Frames
      BY <1>3, <1>4, <1>5, <2>1, Zenon
    <3>2. pftOwner[FrameAddr(i)] = NULL /\ \A p \in Owners : pte[p] # FrameAddr(i)
      BY <3>1, Zenon DEF Untouched
    <3>3. QED
      BY <1>5, <3>1, <3>2, Zenon
  <2>2. QED
    BY <2>1, Zenon DEF Untouched, FrameAddr
<1>8. OwnerKnown'
  <2>1. ASSUME NEW p \in Owners, pte'[p] # NULL
        PROVE  pftOwner'[PftIndex(pte'[p])] = p /\ pftValid'[pte'[p] - FirstFrame]
    <3>1. CASE p = o
      <4>1. pte'[p] = f /\ PftIndex(f) = f /\ pftOwner'[f] = p
        BY <1>2, <1>5, <3>1, Zenon
      <4>2. pftValid'[f - FirstFrame]
        BY <1>2, <1>4, <1>5, Zenon
      <4>3. QED
        BY <4>1, <4>2, Zenon
    <3>2. CASE p # o
      <4>1. pte'[p] = pte[p] /\ pte[p] \in Frames /\ pte[p] # f
        BY <1>5, <2>1, <3>2, Zenon
      <4>2. pftOwner[pte[p]] = p /\ pftValid[pte[p] - FirstFrame]
        BY <1>2, <2>1, <4>1, Zenon DEF OwnerKnown
      <4>3. PftIndex(pte[p]) = pte[p] /\ pftOwner'[pte[p]] = p
        BY <1>2, <1>5, <4>1, <4>2, Zenon
      <4>4. pftValid'[pte[p] - FirstFrame]
        BY <1>2, <1>4, <4>1, <4>2, Zenon
      <4>5. QED
        BY <4>1, <4>3, <4>4, Zenon
    <3>3. QED
      BY <3>1, <3>2, Zenon
  <2>2. QED
    BY <2>1, Zenon DEF OwnerKnown, PftIndex
<1>9. ASSUME NEW g, g # f, Unentered(g) PROVE Unentered(g)'
  BY <1>2, <1>4, <1>5, <1>9, Zenon DEF Unentered
<1>10. QED
  BY <1>6, <1>7, <1>8, <1>9, Zenon

\* Install keeps FrameInv.
LEMMA InstallFrames ==
    ASSUME TypeOK, Control, FrameInv, OneReplacement, NEW t \in Threads, Install(t)
    PROVE  FrameInv'
<1> DEFINE v == Head(got[t])[1]
           f == Head(got[t])[2]
<1>1. v \in VPages /\ f \in Frames /\ <<space[t], v>> \in Owners
  BY Fetched, Zenon DEF Install, Fetching, Owners
<1>2. CASE ~HasSlot(v)
  BY <1>2, PanicFrames, Zenon DEF Install
<1>3. CASE HasSlot(v)
  <2>1. /\ AddPageEntry(<<space[t], v>>, f)
        /\ pc' = [pc EXCEPT ![t] = "swap_in"]
        /\ pc[t] = "install" /\ cur = t
    BY <1>3, Zenon DEF Install, Running
  <2>2. Unentered(f)
    <3>1. got[t] # <<>> /\ got[t] \in Seq(VPages \X (Frames \cup {Wild}))
      <4>1. PICK g \in Frames : got[t] = <<<<page[t], g>>>>
        BY <2>1, Zenon DEF Control, ThreadOK, Fetching
      <4>2. got[t] # <<>>
        BY <4>1
      <4>3. QED
        BY <4>2, Zenon DEF TypeOK, ThreadTypeOK
    <3>2. 1 \in DOMAIN got[t] /\ Head(got[t]) = got[t][1]
      BY <3>1
    <3>3. f # Wild
      BY <1>1, NullType, Zenon
    <3>4. QED
      BY <2>1, <3>2, <3>3, Zenon DEF FrameInv, GivenOK, Given, Entering
  <2> HIDE DEF v, f
  <2>3. \A u \in Threads \ {t} : pc[u] \notin Given /\ pc'[u] = pc[u]
    BY <2>1, Sole, Zenon DEF TypeOK, ThreadTypeOK
  <2>4. NoneReferenced' /\ Untouched' /\ OwnerKnown'
    BY <1>1, <2>1, <2>2, Entered, Zenon DEF FrameInv
  <2>5. pc'[t] = "swap_in"
    BY <2>1, Zenon DEF TypeOK, ThreadTypeOK
  <2>6. GivenOK(t)' /\ VictimOK(t)' /\ ClockPast(t)'
    BY <2>5, Zenon DEF GivenOK, VictimOK, ClockPast, Given, Entering, Replacing, Allocating
  <2>7. QED
    BY <2>3, <2>4, <2>5, <2>6, SoleSteps, Zenon DEF Entering
<1>4. QED
  BY <1>2, <1>3, Zenon

\* AddPage keeps FrameInv.
LEMMA AddPageFrames ==
    ASSUME TypeOK, Control, FrameInv, OneReplacement, NEW t \in Threads, AddPage(t)
    PROVE  FrameInv'
<1> DEFINE v == Head(got[t])[1]
           f == Head(got[t])[2]
           o == <<space[t], v>>
<1>1. /\ got[t] \in Seq(VPages \X (Frames \cup {Wild})) /\ got[t] # <<>>
      /\ pc[t] = "add" /\ cur = t
  BY Zenon DEF AddPage, Running, TypeOK, ThreadTypeOK
<1>2. Head(got[t]) = got[t][1] /\ 1 \in DOMAIN got[t] /\ Head(got[t]) \in VPages \X (Frames \cup {Wild})
  BY <1>1
<1>3. o \in Owners
  <2>1. space[t] \in Spaces
    BY <1>1, SizesAssumption DEF Control, ThreadOK, TypeOK, SpaceTypeOK, Spaces
  <2>2. QED
    BY <1>2, <2>1, Zenon DEF Owners
<1>4. CASE f = Wild \/ (v[2] = 0 /\ stealmem_lock # NULL)
  <2>1. Panic("p_list") \/ Panic("spinlock_acquire")
    BY <1>4, Zenon DEF AddPage
  <2>2. QED
    BY <2>1, PanicFrames, Zenon
<1>5. CASE f # Wild /\ ~(v[2] = 0 /\ stealmem_lock # NULL)
  <2>1. AddPageEntry(o, f) /\ got' = [got EXCEPT ![t] = Tail(@)] /\ UNCHANGED <<pc, cur>>
    BY <1>5, Zenon DEF AddPage, cpuVars
  <2>2. f \in Frames
    BY <1>2, <1>5, Zenon
  <2>3. Unentered(f) /\ \A k \in DOMAIN got[t] : got[t][k][2] = f => k = 1
    BY <1>1, <1>2, <1>5, Zenon DEF FrameInv, GivenOK, Given, Entering
  <2> HIDE DEF v, f, o
  <2>4. \A u \in Threads \ {t} : pc[u] \notin Given /\ pc'[u] = pc[u]
    BY <1>1, <2>1, Sole, Zenon
  <2>5. /\ NoneReferenced' /\ Untouched' /\ OwnerKnown'
        /\ \A g : g # f /\ Unentered(g) => Unentered(g)'
    BY <1>3, <2>1, <2>2, <2>3, Entered, Zenon DEF FrameInv
  <2>6. GivenOK(t)'
    <3>1. got'[t] = Tail(got[t])
      BY <2>1, Zenon DEF TypeOK, ThreadTypeOK
    <3>2. \A j \in DOMAIN Tail(got[t]) : /\ j + 1 \in DOMAIN got[t] /\ j + 1 # 1 /\ j \in Int
                                         /\ Tail(got[t])[j] = got[t][j + 1]
      BY <1>1
    <3>3. ASSUME NEW j \in DOMAIN got'[t], got'[t][j][2] # Wild
          PROVE  /\ Unentered(got[t][j][2])'
                 /\ \A k \in DOMAIN got'[t] : got'[t][k][2] = got'[t][j][2] => k = j
      <4>1. j + 1 \in DOMAIN got[t] /\ j + 1 # 1 /\ got'[t][j] = got[t][j + 1] /\ j \in Int
        BY <3>1, <3>2, Zenon
      <4>2. /\ Unentered(got[t][j + 1][2])
            /\ \A k \in DOMAIN got[t] : got[t][k][2] = got[t][j + 1][2] => k = j + 1
        BY <1>1, <3>3, <4>1, Zenon DEF FrameInv, GivenOK, Given, Entering
      <4>3. Unentered(got[t][j][2])'
        <5>1. got[t][j + 1][2] # f
          BY <2>3, <4>1, Zenon
        <5>2. QED
          BY <2>5, <4>1, <4>2, <5>1, ZenonT(30) DEF Unentered
      <4>4. ASSUME NEW k \in DOMAIN got'[t], got'[t][k][2] = got'[t][j][2] PROVE k = j
        <5>1. k + 1 \in DOMAIN got[t] /\ got'[t][k] = got[t][k + 1] /\ k \in Int
          BY <3>1, <3>2, Zenon
        <5>2. k + 1 = j + 1
          BY <4>1, <4>2, <4>4, <5>1, Zenon
        <5>3. QED
          BY <4>1, <5>1, <5>2
      <4>5. QED
        BY <4>3, <4>4, Zenon
    <3>4. QED
      BY <3>3, Zenon DEF GivenOK
  <2>7. VictimOK(t)' /\ ClockPast(t)'
    BY <1>1, <2>1, Zenon DEF VictimOK, ClockPast, Replacing, Allocating
  <2>8. QED
    BY <1>1, <2>1, <2>4, <2>5, <2>6, <2>7, SoleSteps, Zenon
<1>6. QED
  BY <1>4, <1>5, Zenon

\* Where virtual_alloc_kpages returns.
LEMMA AfterAllocGiven ==
    ASSUME NEW t, NEW rest
    PROVE  /\ AfterAlloc(t, rest) \in Entering
           /\ AfterAlloc(t, rest) = "alloc" => rest # <<>>
BY Zenon DEF AfterAlloc, Entering

\* The request of a thread in virtual_alloc_kpages.
LEMMA Request ==
    ASSUME TypeOK, Control, FrameInv, NEW t \in Threads, pc[t] \in Allocating
    PROVE  /\ req[t] \in Seq(Seq(VPages)) /\ req[t] # <<>> /\ Shape(req[t])
           /\ Head(req[t]) \in Seq(VPages) /\ Head(req[t]) # <<>>
           /\ Head(Head(req[t])) \in VPages
<1>1. req[t] \in Seq(Seq(VPages)) /\ req[t] # <<>> /\ \A i \in DOMAIN req[t] : req[t][i] # <<>>
  BY Zenon DEF TypeOK, ThreadTypeOK, Control, ThreadOK
<1>2. Shape(req[t])
  BY Zenon DEF FrameInv, ClockPast
<1>3. QED
  BY <1>1, <1>2, RequestType, Zenon

\* A list with more than one page.
LEMMA LongerList ==
    ASSUME NEW w \in Seq(VPages), w # <<>>
    PROVE  /\ Tail(w) \in Seq(VPages)
           /\ Tail(w) # <<>> => Len(w) # 1
           /\ Len(w) > 1 => Len(w) # 1
<1>1. Tail(w) \in Seq(VPages) /\ Len(Tail(w)) = Len(w) - 1
  OBVIOUS
<1> DEFINE r == Tail(w)
           n == Len(w)
<1>2. r \in Seq(VPages) /\ Len(r) = n - 1
  BY <1>1, Zenon
<1> HIDE DEF r, n
<1>3. n = 1 => r = <<>>
  BY <1>2
<1>4. n > 1 => n # 1
  OBVIOUS
<1>5. QED
  BY <1>2, <1>3, <1>4, Zenon DEF r, n

\* A list of two pages or more has a second one.
LEMMA SecondPage ==
    ASSUME NEW w \in Seq(VPages), Len(w) > 1
    PROVE  w[2] \in VPages /\ Tail(w) \in Seq(VPages) /\ Tail(w) # <<>>
<1>1. 2 \in 1 .. Len(w)
  OBVIOUS
<1>2. w[2] \in VPages
  BY <1>1
<1>3. w # <<>>
  OBVIOUS
<1>4. Tail(w) \in Seq(VPages) /\ Len(Tail(w)) = Len(w) - 1
  BY <1>3
<1>5. Tail(w) # <<>>
  <2> DEFINE r == Tail(w)
             n == Len(w)
  <2>1. n \in Nat /\ n > 1 /\ Len(r) = n - 1
    BY <1>4
  <2> HIDE DEF r, n
  <2>2. Len(r) # 0
    BY <2>1
  <2>3. Len(<<>>) = 0
    OBVIOUS
  <2>4. r # <<>>
    BY <2>2, <2>3, Zenon
  <2>5. QED
    BY <2>4, Zenon DEF r
<1>6. QED
  BY <1>2, <1>4, <1>5, Zenon

\* A request that was served, in numbers.
LEMMA FewerLists ==
    ASSUME NEW a \in Nat, NEW b, NEW more \in BOOLEAN, NEW n \in 1 .. 2,
           more => a = 3, ~more => b = a - 1, a <= n
    PROVE  b <= n
OBVIOUS

\* A frame that was never given is given.
LEMMA FreeTaken ==
    ASSUME TypeOK, NoneReferenced, Untouched, OwnerKnown, NEW i \in FrameIndex, ~pftValid[i],
           pftValid' = [pftValid EXCEPT ![i] = TRUE],
           pftRef' = [pftRef EXCEPT ![i] = FALSE],
           UNCHANGED <<pftOwner, pte>>
    PROVE  /\ NoneReferenced' /\ Untouched' /\ OwnerKnown'
           /\ \A g : Unentered(g) => Unentered(g)' /\ g # FrameAddr(i)
           /\ Unentered(FrameAddr(i))' /\ pftOwner[FrameAddr(i)] = NULL
<1>1. FrameAddr(i) \in Frames /\ FrameAddr(i) - FirstFrame = i /\ i \in TableIndex
  BY IndexFrames, Zenon
<1>2. \A g \in Frames : g - FirstFrame \in FrameIndex
  BY FrameEntries, Zenon
<1>3. /\ pftValid'[i] /\ ~pftRef'[i]
      /\ \A k \in FrameIndex \ {i} : pftValid'[k] = pftValid[k] /\ pftRef'[k] = pftRef[k]
  BY <1>1, TableIndexType, Zenon DEF TypeOK, PftTypeOK
<1>4. NoneReferenced'
  BY <1>3, Zenon DEF NoneReferenced
<1>5. Untouched'
  BY <1>3, Zenon DEF Untouched, FrameAddr
<1>6. \A k \in FrameIndex : pftValid[k] => pftValid'[k]
  BY <1>3, Zenon
<1>7. OwnerKnown'
  <2>1. ASSUME NEW o \in Owners, pte[o] # NULL
        PROVE  pftOwner[PftIndex(pte[o])] = o /\ pftValid'[pte[o] - FirstFrame]
    <3>1. pte[o] - FirstFrame \in FrameIndex
      BY <1>2, <2>1, Zenon DEF TypeOK, SpaceTypeOK
    <3>2. QED
      BY <1>6, <2>1, <3>1, Zenon DEF OwnerKnown
  <2>2. QED
    BY <2>1, Zenon DEF OwnerKnown, PftIndex
<1>8. ASSUME NEW g, Unentered(g) PROVE Unentered(g)' /\ g # FrameAddr(i)
  BY <1>1, <1>2, <1>6, <1>8, Zenon DEF Unentered
<1>9. Unentered(FrameAddr(i))' /\ pftOwner[FrameAddr(i)] = NULL
  <2>1. pftOwner[FrameAddr(i)] = NULL /\ \A o \in Owners : pte[o] # FrameAddr(i)
    BY Zenon DEF Untouched
  <2>2. PICK g : g = FrameAddr(i)
    BY Zenon
  <2>3. Unentered(g)'
    BY <1>1, <1>3, <2>1, <2>2, Zenon DEF Unentered
  <2>4. QED
    BY <2>1, <2>2, <2>3, Zenon DEF Unentered, FrameAddr
<1>10. QED
  BY <1>4, <1>5, <1>7, <1>8, <1>9, Zenon

\* AllocFree keeps FrameInv.
LEMMA AllocFreeFrames ==
    ASSUME TypeOK, Control, FrameInv, OneReplacement, NEW t \in Threads, AllocFree(t)
    PROVE  FrameInv'
<1>a. PICK want, rest : want = Head(req[t]) /\ rest = Tail(req[t])
  BY Zenon
<1> DEFINE more == Tail(want) # <<>>
<1>b. PICK i \in First(FreeIndexes) :
        /\ pftValid' = [pftValid EXCEPT ![i] = TRUE]
        /\ pftRef' = [pftRef EXCEPT ![i] = FALSE]
        /\ got' = [got EXCEPT ![t] = Append(@, <<Head(want), FrameAddr(i)>>)]
        /\ req' = [req EXCEPT ![t] = IF more THEN <<Tail(want)>> \o rest ELSE rest]
        /\ pc' = [pc EXCEPT ![t] = IF more THEN "alloc" ELSE AfterAlloc(t, rest)]
  BY <1>a, Zenon DEF AllocFree
<1>c. PICK x : x = <<Head(want), FrameAddr(i)>>
  BY Zenon
<1>0. want = Head(req[t]) /\ rest = Tail(req[t]) /\ x = <<Head(want), FrameAddr(i)>>
  BY <1>a, <1>c, Zenon
<1>1. /\ pc[t] = "alloc" /\ cur = t /\ stealmem_lock \in {NULL, t}
      /\ pftValid' = [pftValid EXCEPT ![i] = TRUE]
      /\ pftRef' = [pftRef EXCEPT ![i] = FALSE]
      /\ got' = [got EXCEPT ![t] = Append(@, x)]
      /\ req' = [req EXCEPT ![t] = IF more THEN <<Tail(want)>> \o rest ELSE rest]
      /\ pc' = [pc EXCEPT ![t] = IF more THEN "alloc" ELSE AfterAlloc(t, rest)]
      /\ UNCHANGED <<pftOwner, pte, ep_hand, cur>>
  BY <1>b, <1>c, Zenon DEF AllocFree, Running, LockFree, spaceVars
<1>2. i \in FrameIndex /\ ~pftValid[i]
  BY <1>b, Zenon DEF First, FreeIndexes
<1>3. /\ req[t] \in Seq(Seq(VPages)) /\ req[t] # <<>> /\ Shape(req[t])
      /\ want \in Seq(VPages) /\ want # <<>> /\ Head(want) \in VPages
  BY <1>0, <1>1, Request, Zenon DEF Allocating
<1>4. x \in VPages \X (Frames \cup {Wild}) /\ x[2] = FrameAddr(i)
  BY <1>0, <1>2, <1>3, IndexFrames, Zenon
<1>5. /\ NoneReferenced' /\ Untouched' /\ OwnerKnown'
      /\ \A g : Unentered(g) => Unentered(g)' /\ g # FrameAddr(i)
      /\ Unentered(FrameAddr(i))' /\ pftOwner[FrameAddr(i)] = NULL
  BY <1>1, <1>2, FreeTaken, Zenon DEF FrameInv
<1>6. ASSUME NEW j \in DOMAIN got[t] PROVE got[t][j][2] # FrameAddr(i)
  <2>1. FrameAddr(i) # Wild
    BY <1>2, IndexFrames, NullType, Zenon
  <2>2. QED
    BY <1>1, <1>5, <2>1, Zenon DEF FrameInv, GivenOK, Given, Entering
<1>7. /\ GivenOK(t)'
      /\ DOMAIN got'[t] = DOMAIN got[t] \cup {Len(got[t]) + 1}
      /\ \A j \in DOMAIN got[t] : got'[t][j] = got[t][j]
      /\ got'[t][Len(got[t]) + 1] = x
  <2>1. x[2] # Wild => Unentered(x[2])' /\ \A j \in DOMAIN got[t] : got[t][j][2] # x[2]
    BY <1>4, <1>5, <1>6, Zenon
  <2>2. pc[t] \in Given /\ GivenOK(t)
    BY <1>1, Zenon DEF FrameInv, Given, Entering
  <2>3. QED
    BY <1>1, <1>4, <1>5, <2>1, <2>2, GivenMore, Zenon
<1>8. pc'[t] = (IF more THEN "alloc" ELSE AfterAlloc(t, rest)) /\ pc'[t] \in Entering
  BY <1>1, AfterAllocGiven, Zenon DEF TypeOK, ThreadTypeOK, Entering
<1>9. req'[t] = IF more THEN <<Tail(want)>> \o rest ELSE rest
  BY <1>1, Zenon DEF TypeOK, ThreadTypeOK
<1>10. /\ pc'[t] = "alloc" => Shape(req[t])'
       /\ more => Len(req[t]) = 3
       /\ ~more => Len(req'[t]) = Len(req[t]) - 1
  <2>1. CASE more
    <3>1. Len(want) # 1 /\ Tail(want) \in Seq(VPages)
      BY <1>3, <2>1, LongerList, Zenon
    <3>2. Len(req[t]) = 3 /\ Shape(req'[t])
      BY <1>0, <1>3, <1>9, <2>1, <3>1, ShapeLonger, Zenon
    <3>3. QED
      BY <2>1, <3>2, Zenon DEF Shape
  <2>2. CASE ~more
    BY <1>0, <1>3, <1>9, <2>2, ShapeTail, Zenon DEF Shape
  <2>3. QED
    BY <2>1, <2>2, Zenon
<1>11. VictimOK(t)'
  BY <1>8, Zenon DEF VictimOK, Entering, Replacing
<1>12. ClockPast(t)'
  <2>1. ASSUME pc'[t] = "alloc", NEW j \in DOMAIN got'[t], OldOwned(t, j)'
        PROVE  \/ Len(req'[t]) <= 2 /\ Behind(got[t][j][2], 1)'
               \/ Len(req'[t]) <= 1 /\ Behind(got[t][j][2], 2)'
    <3>1. j # Len(got[t]) + 1
      BY <1>1, <1>4, <1>5, <1>7, <2>1, Zenon DEF OldOwned
    <3>2. j \in DOMAIN got[t] /\ got'[t][j] = got[t][j]
      BY <1>7, <2>1, <3>1, Zenon
    <3>3. OldOwned(t, j)
      BY <1>1, <2>1, <3>2, Zenon DEF OldOwned
    <3>4. \/ Len(req[t]) <= 2 /\ Behind(got[t][j][2], 1)
          \/ Len(req[t]) <= 1 /\ Behind(got[t][j][2], 2)
      BY <1>1, <3>2, <3>3, Zenon DEF FrameInv, ClockPast, Allocating
    <3>5. /\ Behind(got[t][j][2], 1) => Behind(got[t][j][2], 1)'
          /\ Behind(got[t][j][2], 2) => Behind(got[t][j][2], 2)'
      BY <1>1, <3>2, Zenon DEF Behind
    <3>6. Len(req[t]) \in Nat
      BY <1>3
    <3>7. more \in BOOLEAN /\ 1 \in 1 .. 2 /\ 2 \in 1 .. 2
      OBVIOUS
    <3> HIDE DEF more
    <3>8. CASE Len(req[t]) <= 2 /\ Behind(got[t][j][2], 1)
      <4>1. Len(req'[t]) <= 2
        BY <1>10, <3>6, <3>7, <3>8, FewerLists, Zenon
      <4>2. QED
        BY <3>5, <3>8, <4>1, Zenon
    <3>9. CASE Len(req[t]) <= 1 /\ Behind(got[t][j][2], 2)
      <4>1. Len(req'[t]) <= 1
        BY <1>10, <3>6, <3>7, <3>9, FewerLists, Zenon
      <4>2. QED
        BY <3>5, <3>9, <4>1, Zenon
    <3>10. QED
      BY <3>4, <3>8, <3>9, Zenon
  <2>2. QED
    BY <1>8, <1>10, <2>1, Zenon DEF ClockPast, Entering, Replacing, Allocating
<1>13. \A u \in Threads \ {t} : pc[u] \notin Given /\ pc'[u] = pc[u]
  BY <1>1, Sole, Zenon DEF TypeOK, ThreadTypeOK
<1>14. QED
  BY <1>1, <1>5, <1>7, <1>11, <1>12, <1>13, SoleSteps, Zenon

\* The frame at the hand of the clock is taken from its owner.
LEMMA FrameTaken ==
    ASSUME TypeOK, NoneReferenced, OwnerKnown, FreeIndexes = {},
           NEW f \in Frames, NEW o \in Owners, pftOwner[f] = o, pte' = Unmapped(o),
           UNCHANGED <<pftValid, pftOwner>>
    PROVE  /\ Untouched' /\ OwnerKnown'
           /\ \A g : Unentered(g) => Unentered(g)'
           /\ Unentered(f)'
<1>1. \A i \in FrameIndex : pftValid'[i]
  BY Zenon DEF FreeIndexes
<1>2. Untouched'
  BY <1>1, Zenon DEF Untouched
<1>3. /\ pte'[o] = NULL
      /\ \A p \in Owners : p # o => pte'[p] = pte[p]
      /\ \A p \in Owners : pte[p] \in Frames \cup {NULL}
  BY Zenon DEF Unmapped, TypeOK, SpaceTypeOK
<1>4. OwnerKnown'
  <2>1. ASSUME NEW p \in Owners, pte'[p] # NULL
        PROVE  pftOwner[PftIndex(pte'[p])] = p /\ pftValid[pte'[p] - FirstFrame]
    <3>1. pte'[p] = pte[p]
      BY <1>3, <2>1, Zenon
    <3>2. QED
      BY <2>1, <3>1, Zenon DEF OwnerKnown
  <2>2. QED
    BY <2>1, Zenon DEF OwnerKnown, PftIndex
<1>5. ASSUME NEW g, Unentered(g) PROVE Unentered(g)'
  BY <1>3, <1>5, NullType, Zenon DEF Unentered
<1>6. Unentered(f)'
  <2>1. f - FirstFrame \in FrameIndex /\ PftIndex(f) = f /\ f # NULL
    BY FrameEntries, Zenon
  <2>2. ASSUME NEW p \in Owners, pte'[p] = f PROVE FALSE
    <3>1. p # o /\ pte[p] = f
      BY <1>3, <2>1, <2>2, Zenon
    <3>2. pftOwner[f] = p
      BY <2>1, <3>1, Zenon DEF OwnerKnown
    <3>3. QED
      BY <3>1, <3>2, Zenon
  <2>3. QED
    BY <1>1, <2>1, <2>2, Zenon DEF Unentered
<1>7. QED
  BY <1>2, <1>4, <1>5, <1>6, Zenon

\* AllocReplace keeps FrameInv.
LEMMA AllocReplaceFrames ==
    ASSUME MAX_PM_SIZE >= 3, TypeOK, Control, FrameInv, OneReplacement, NEW t \in Threads,
           AllocReplace(t)
    PROVE  FrameInv'
<1>0. PICK r, f, o : /\ r = SecondChance(pftRef, ep_hand, rp_hand)
                     /\ f = FrameAddr(r.victim)
                     /\ o = pftOwner[PftIndex(f)]
  BY Zenon
<1>1. pc[t] = "alloc" /\ cur = t /\ stealmem_lock \in {NULL, t} /\ FreeIndexes = {}
  BY Zenon DEF AllocReplace, Running, LockFree
<1>2. CASE o = NULL \/ ~HasSlot(o[2])
  <2>1. Panic("p_space_old") \/ Panic("swap_out")
    BY <1>0, <1>2, Zenon DEF AllocReplace
  <2>2. QED
    BY <2>1, PanicFrames, Zenon
<1>3. CASE ~(o = NULL \/ ~HasSlot(o[2]))
  <2>1. /\ pftRef' = r.ref /\ ep_hand' = r.ep /\ pte' = Unmapped(o)
        /\ victim' = [victim EXCEPT ![t] = <<f, o>>]
        /\ pc' = [pc EXCEPT ![t] = "swap_out"]
        /\ UNCHANGED <<pftValid, pftOwner, req, got>>
    BY <1>0, <1>3, Zenon DEF AllocReplace
  <2>2. ep_hand \in FrameIndex /\ rp_hand \in FrameIndex /\ pftRef \in [TableIndex -> BOOLEAN]
    BY Zenon DEF TypeOK, PftTypeOK
  <2>3. /\ r.victim = ep_hand /\ r.ep = Advance(ep_hand, 1)
        /\ \A i \in FrameIndex : ~r.ref[i]
    BY <1>0, Chosen, Zenon DEF FrameInv
  <2>4. f = FrameAddr(ep_hand) /\ f \in Frames /\ PftIndex(f) = f /\ f # Wild
    BY <1>0, <2>2, <2>3, FrameAddrType, FrameEntries, Zenon
  <2>5. o \in Owners /\ o = pftOwner[f]
    BY <1>0, <1>3, <2>4, FrameEntries, Zenon DEF TypeOK, PftTypeOK
  <2>6. /\ Untouched' /\ OwnerKnown'
        /\ \A g : Unentered(g) => Unentered(g)'
        /\ Unentered(f)'
    BY <1>1, <2>1, <2>4, <2>5, FrameTaken, Zenon DEF FrameInv
  <2>7. NoneReferenced'
    BY <2>1, <2>3, Zenon DEF NoneReferenced
  <2>8. pc'[t] = "swap_out" /\ victim'[t] = <<f, o>> /\ victim'[t][1] = f
    BY <2>1, Zenon DEF TypeOK, ThreadTypeOK
  <2>9. GivenOK(t)'
    <3>1. ASSUME NEW j \in DOMAIN got[t], got[t][j][2] # Wild PROVE Unentered(got[t][j][2])'
      <4>1. PICK g : g = got[t][j][2] /\ g = got'[t][j][2]
        BY <2>1, Zenon
      <4>2. Unentered(g)
        BY <1>1, <3>1, <4>1, Zenon DEF FrameInv, GivenOK, Given, Entering
      <4>3. Unentered(g)'
        BY <2>6, <4>2, Zenon
      <4>4. QED
        BY <4>1, <4>3, Zenon DEF Unentered
    <3>2. \A j, k \in DOMAIN got[t] :
              got[t][j][2] # Wild /\ got[t][k][2] = got[t][j][2] => k = j
      BY <1>1, Zenon DEF FrameInv, GivenOK, Given, Entering
    <3>3. QED
      BY <2>1, <3>1, <3>2, Zenon DEF GivenOK
  <2>10. ASSUME NEW j \in DOMAIN got[t], OldOwned(t, j)
         PROVE  \/ Len(req[t]) <= 2 /\ Behind(got[t][j][2], 1)
                \/ Len(req[t]) <= 1 /\ Behind(got[t][j][2], 2)
    BY <1>1, <2>10, Zenon DEF FrameInv, ClockPast, Allocating
  <2>11. VictimOK(t)'
    <3>1. Behind(f, 1)'
      BY <2>1, <2>2, <2>3, <2>4, FallsBehind, Zenon
    <3>2. ASSUME NEW j \in DOMAIN got[t], got[t][j][2] = f PROVE FALSE
      <4>1. OldOwned(t, j)
        BY <2>4, <2>5, <3>2, NullType, Zenon DEF OldOwned
      <4>2. Behind(f, 1) \/ Behind(f, 2)
        BY <2>10, <3>2, <4>1, Zenon
      <4>3. QED
        BY <2>2, <2>4, <4>2, NotBehind, Zenon
    <3>3. Unentered(victim[t][1])' /\ Behind(victim[t][1], 1)'
      BY <2>6, <2>8, <3>1, Zenon DEF Unentered, Behind
    <3>4. QED
      BY <2>1, <2>8, <3>2, <3>3, Zenon DEF VictimOK
  <2>12. ClockPast(t)'
    <3>1. Shape(req[t])'
      BY <1>1, <2>1, Zenon DEF FrameInv, ClockPast, Shape, Allocating
    <3>2. ASSUME NEW j \in DOMAIN got[t], OldOwned(t, j)
          PROVE  Len(req[t]) <= 2 /\ (Len(req[t]) = 2 => Behind(got[t][j][2], 2)')
      <4>0. Len(req[t]) \in Nat
        <5>1. req[t] \in Seq(Seq(VPages))
          BY Zenon DEF TypeOK, ThreadTypeOK
        <5>2. QED
          BY <5>1
      <4>1. CASE Len(req[t]) <= 2 /\ Behind(got[t][j][2], 1)
        <5>1. PICK g \in Frames : g = got[t][j][2] /\ g = got'[t][j][2]
          BY <1>1, <2>1, <3>2, Zenon DEF OldOwned, FrameInv, GivenOK, Given, Entering, Unentered
        <5>2. Behind(g, 2)'
          BY <2>1, <2>2, <2>3, <4>1, <5>1, FallsBehind, Zenon
        <5>3. Behind(got[t][j][2], 2)'
          BY <5>1, <5>2, Zenon DEF Behind
        <5>4. QED
          BY <4>1, <5>3, Zenon
      <4>2. CASE Len(req[t]) <= 1
        <5>0. \A n \in Nat : n <= 1 => n <= 2 /\ n # 2
          OBVIOUS
        <5>1. Len(req[t]) <= 2 /\ Len(req[t]) # 2
          BY <4>0, <4>2, <5>0, Zenon
        <5>2. QED
          BY <5>1, Zenon
      <4>3. QED
        BY <2>10, <3>2, <4>1, <4>2, Zenon
    <3>3. ASSUME NEW j \in DOMAIN got'[t], OldOwned(t, j)'
          PROVE  Len(req'[t]) <= 2 /\ (Len(req'[t]) = 2 => Behind(got[t][j][2], 2)')
      <4>1. j \in DOMAIN got[t] /\ OldOwned(t, j)
        BY <2>1, <3>3, Zenon DEF OldOwned
      <4>2. QED
        BY <2>1, <3>2, <4>1, Zenon
    <3>4. QED
      BY <2>8, <3>1, <3>3, Zenon DEF ClockPast
  <2>13. \A u \in Threads \ {t} : pc[u] \notin Given /\ pc'[u] = pc[u]
    BY <1>1, <2>1, Sole, Zenon DEF TypeOK, ThreadTypeOK
  <2>14. QED
    BY <2>6, <2>7, <2>8, <2>9, <2>11, <2>12, <2>13, SoleSteps, Zenon DEF Entering
<1>4. QED
  BY <1>2, <1>3, Zenon

\* ReplaceDone keeps FrameInv.
LEMMA ReplaceDoneFrames ==
    ASSUME TypeOK, Control, FrameInv, OneReplacement, NEW t \in Threads, ReplaceDone(t)
    PROVE  FrameInv'
<1> DEFINE more == Len(Head(req[t])) > 1
<1>0. PICK want, rest, f, w, x :
        /\ want = Head(req[t]) /\ rest = Tail(req[t]) /\ f = victim[t][1]
        /\ w = <<want[1]>> \o Tail(Tail(want))
        /\ x = IF more THEN <<want[2], Wild>> ELSE <<want[1], f>>
  BY Zenon
<1>1. /\ pc[t] = "swapped_out" /\ cur = t /\ UNCHANGED <<pftVars, pte, cur>>
      /\ got' = [got EXCEPT ![t] = Append(@, x)]
      /\ req' = [req EXCEPT ![t] = IF more THEN <<w>> \o rest ELSE rest]
      /\ pc' = [pc EXCEPT ![t] = IF more THEN "alloc" ELSE AfterAlloc(t, rest)]
  BY <1>0, Zenon DEF ReplaceDone, Running, spaceVars
<1>2. /\ req[t] \in Seq(Seq(VPages)) /\ req[t] # <<>> /\ Shape(req[t])
      /\ want \in Seq(VPages) /\ want # <<>>
  BY <1>0, <1>1, Request, Zenon DEF Allocating
<1>3. f \in Frames /\ f # Wild /\ stealmem_lock = t
  <2>1. victim[t] \in (Frames \X Owners) \cup {NULL} /\ victim[t] # NULL
    BY <1>1, Zenon DEF TypeOK, ThreadTypeOK, Control, ThreadOK, Replacing
  <2>2. f \in Frames
    BY <1>0, <2>1, Zenon
  <2>3. QED
    BY <1>1, <2>2, NullType, Zenon DEF OneReplacement
<1>4. /\ Unentered(f) /\ Behind(f, 1) /\ \A j \in DOMAIN got[t] : got[t][j][2] # f
      /\ GivenOK(t) /\ pc[t] \in Given /\ pc[t] \in Replacing /\ pc[t] \in Allocating
  BY <1>0, <1>1, Zenon DEF FrameInv, VictimOK, Given, Replacing, Allocating
<1>5. want[1] \in VPages /\ (more => want[2] \in VPages /\ w \in Seq(VPages) /\ Len(want) # 1)
  <2>1. want[1] \in VPages
    BY <1>2
  <2>2. ASSUME Len(want) > 1 PROVE want[2] \in VPages /\ Tail(Tail(want)) \in Seq(VPages) /\ Len(want) # 1
    <3>1. want \in Seq(VPages)
      BY <1>2, Zenon
    <3>2. want[2] \in VPages /\ Tail(want) \in Seq(VPages) /\ Tail(want) # <<>>
      BY <2>2, <3>1, SecondPage, Zenon
    <3>3. Tail(Tail(want)) \in Seq(VPages)
      BY <3>2, LongerList, Zenon
    <3>4. QED
      BY <1>2, <2>2, <3>2, <3>3, LongerList, Zenon
  <2>3. ASSUME NEW r \in Seq(VPages) PROVE <<want[1]>> \o r \in Seq(VPages)
    BY <2>1
  <2>4. QED
    BY <1>0, <2>1, <2>2, <2>3, Zenon
<1>6. x \in VPages \X (Frames \cup {Wild}) /\ x[2] = IF more THEN Wild ELSE f
  <2>1. CASE more
    BY <1>0, <1>5, <2>1, Zenon
  <2>2. CASE ~more
    BY <1>0, <1>3, <1>5, <2>2, Zenon
  <2>3. QED
    BY <2>1, <2>2, Zenon
<1>7. PICK m \in BOOLEAN : m <=> more
  BY Zenon
<1>8. /\ got' = [got EXCEPT ![t] = Append(@, x)]
      /\ req'[t] = IF m THEN <<w>> \o rest ELSE rest
      /\ pc'[t] = IF m THEN "alloc" ELSE AfterAlloc(t, rest)
      /\ \A u \in Threads \ {t} : pc'[u] = pc[u]
      /\ x[2] = IF m THEN Wild ELSE f
      /\ m => w \in Seq(VPages) /\ Len(want) # 1
  BY <1>1, <1>5, <1>6, <1>7, Zenon DEF TypeOK, ThreadTypeOK
<1> HIDE DEF more
<1>9. /\ NoneReferenced' /\ Untouched' /\ OwnerKnown'
      /\ \A g : Unentered(g) => Unentered(g)'
      /\ \A g, n : Behind(g, n) => Behind(g, n)'
  <2>1. UNCHANGED <<pftValid, pftRef, pftOwner, ep_hand, pte>>
    BY <1>1, Zenon DEF pftVars
  <2>2. NoneReferenced'
    BY <2>1, Zenon DEF FrameInv, NoneReferenced
  <2>3. QED
    BY <2>1, <2>2, TablesSame, Zenon DEF FrameInv
<1>10. /\ GivenOK(t)'
       /\ DOMAIN got'[t] = DOMAIN got[t] \cup {Len(got[t]) + 1}
       /\ \A j \in DOMAIN got[t] : got'[t][j] = got[t][j]
       /\ got'[t][Len(got[t]) + 1] = x
  <2>1. x[2] # Wild => Unentered(x[2])' /\ \A j \in DOMAIN got[t] : got[t][j][2] # x[2]
    BY <1>4, <1>8, <1>9, Zenon
  <2>2. QED
    BY <1>4, <1>6, <1>8, <1>9, <2>1, GivenMore, Zenon
<1>11. pc'[t] \in Entering
  BY <1>8, AfterAllocGiven, Zenon DEF Entering
<1>12. /\ pc'[t] = "alloc" => Shape(req[t])'
       /\ m => Len(req[t]) = 3
       /\ ~m => Len(req'[t]) = Len(req[t]) - 1
       /\ Len(req[t]) \in 1 .. 3
  <2>1. Len(req[t]) \in 1 .. 3
    BY <1>2, ShapeTail, Zenon
  <2>2. CASE m
    <3>1. Len(req[t]) = 3 /\ Shape(req'[t])
      BY <1>0, <1>2, <1>8, <2>2, ShapeLonger, Zenon
    <3>2. QED
      BY <2>1, <2>2, <3>1, Zenon DEF Shape
  <2>3. CASE ~m
    <3>1. req'[t] = Tail(req[t])
      BY <1>0, <1>8, <2>3, Zenon
    <3>2. Shape(Tail(req[t])) /\ Len(Tail(req[t])) = Len(req[t]) - 1
      BY <1>2, ShapeTail, Zenon
    <3>3. Shape(req'[t]) /\ Len(req'[t]) = Len(req[t]) - 1
      BY <3>1, <3>2, Zenon
    <3>4. QED
      BY <2>1, <2>3, <3>3, Zenon DEF Shape
  <2>4. QED
    BY <2>2, <2>3, Zenon
<1>13. VictimOK(t)'
  BY <1>11, Zenon DEF VictimOK, Entering, Replacing
<1>14. ASSUME pc'[t] = "alloc", NEW j \in DOMAIN got'[t], OldOwned(t, j)'
       PROVE  \/ Len(req'[t]) <= 2 /\ Behind(got[t][j][2], 1)'
              \/ Len(req'[t]) <= 1 /\ Behind(got[t][j][2], 2)'
  <2>1. CASE j = Len(got[t]) + 1
    <3>1. got'[t][j][2] = f /\ ~m
      BY <1>8, <1>10, <1>14, <2>1, Zenon DEF OldOwned
    <3>2. Len(req'[t]) <= 2
      <4>1. \A a \in 1 .. 3 : a - 1 <= 2
        OBVIOUS
      <4>2. QED
        BY <1>12, <3>1, <4>1, Zenon
    <3>3. Behind(f, 1)'
      BY <1>4, <1>9, Zenon
    <3>4. QED
      BY <3>1, <3>2, <3>3, Zenon DEF Behind
  <2>2. CASE j \in DOMAIN got[t]
    <3>1. got'[t][j] = got[t][j] /\ OldOwned(t, j)
      BY <1>1, <1>10, <1>14, <2>2, Zenon DEF OldOwned, pftVars
    <3>2. Len(req[t]) <= 2 /\ (Len(req[t]) = 2 => Behind(got[t][j][2], 2))
      BY <1>4, <2>2, <3>1, Zenon DEF FrameInv, ClockPast
    <3>3. ~m
      <4>1. ~(3 <= 2)
        OBVIOUS
      <4>2. QED
        BY <1>12, <3>2, <4>1, Zenon
    <3>4. Len(req[t]) # 1
      <4>1. rest # <<>> /\ req'[t] = rest
        BY <1>8, <1>14, <3>3, AfterAllocGiven, Zenon
      <4>2. rest \in Seq(Seq(VPages)) /\ Len(rest) = Len(req[t]) - 1
        <5>1. Tail(req[t]) \in Seq(Seq(VPages))
          BY <1>2
        <5>2. QED
          BY <1>0, <1>12, <3>3, <4>1, <5>1, Zenon
      <4>3. \A r \in Seq(Seq(VPages)) : r # <<>> => Len(r) # 1 - 1
        OBVIOUS
      <4>4. QED
        BY <4>1, <4>2, <4>3, Zenon
    <3>5. Len(req[t]) = 2 /\ Len(req'[t]) <= 1
      <4>1. PICK a \in 1 .. 3 : a = Len(req[t])
        BY <1>12, Zenon
      <4>2. PICK b : b = Len(req'[t]) /\ b = a - 1
        BY <1>12, <3>3, <4>1, Zenon
      <4>3. a <= 2 /\ a # 1
        BY <3>2, <3>4, <4>1, Zenon
      <4>4. a = 2 /\ b <= 1
        BY <4>2, <4>3
      <4>5. QED
        BY <4>1, <4>2, <4>4, Zenon
    <3>6. PICK g : g = got[t][j][2] /\ g = got'[t][j][2]
      BY <3>1, Zenon
    <3>7. Behind(g, 2)'
      BY <1>9, <3>2, <3>5, <3>6, Zenon
    <3>8. Behind(got[t][j][2], 2)'
      BY <3>6, <3>7, Zenon DEF Behind
    <3>9. QED
      BY <3>5, <3>8, Zenon
  <2>3. QED
    BY <1>10, <1>14, <2>1, <2>2, Zenon
<1>15. ClockPast(t)'
  BY <1>11, <1>12, <1>14, Zenon DEF ClockPast, Entering, Replacing, Allocating
<1>16. \A u \in Threads \ {t} : pc[u] \notin Given /\ pc'[u] = pc[u]
  BY <1>1, <1>3, <1>8, Sole, Zenon
<1>17. QED
  BY <1>1, <1>9, <1>10, <1>13, <1>15, <1>16, SoleSteps, Zenon

-----------------------------------------------------------------------------
(* The owners. *)

\* The machine starts with an empty page frame table and no page.
LEMMA InitFrames == Init => FrameInv
<1> SUFFICES ASSUME Init PROVE FrameInv
  BY Zenon
<1>1. \A i \in FrameIndex : i \in TableIndex /\ FrameAddr(i) \in Frames /\ FrameAddr(i) \in TableIndex
  BY IndexFrames, FrameEntries, Zenon
<1>2. KeepsCpu /\ Alone
  BY Zenon DEF Init, KeepsCpu, Alone, Entering, Replacing
<1>3. NoneReferenced /\ OwnerKnown
  BY <1>1, Zenon DEF Init, NoneReferenced, OwnerKnown
<1>4. Untouched
  BY <1>1, NullType, Zenon DEF Init, Untouched
<1>5. \A t \in Threads : GivenOK(t) /\ VictimOK(t) /\ ClockPast(t)
  BY Zenon DEF Init, GivenOK, VictimOK, ClockPast, Given, Entering, Replacing, Allocating
<1>6. QED
  BY <1>2, <1>3, <1>4, <1>5, Zenon DEF FrameInv

\* Every step keeps FrameInv, given what has been proved of the types, the places and the replacements.
LEMMA NextFrames ==
    ASSUME MaxTicks = 0, MAX_PM_SIZE >= 3, TypeOK, Control, OneReplacement, FrameInv, [Next]_vars
    PROVE  FrameInv'
<1>1. CASE UNCHANGED vars
  <2>1. KeepsCpu'
    BY <1>1, Zenon DEF FrameInv, KeepsCpu, vars, threadVars, cpuVars
  <2>2. QED
    BY <1>1, <2>1, SameFrames, Zenon DEF vars, threadVars, spaceVars
<1>2. CASE Schedule
  BY <1>2, DispatchFrames, PreemptFrames, Zenon DEF Schedule
<1>3. ASSUME NEW t \in Threads, KernelStep(t) PROVE FrameInv'
  BY <1>3, StartFrames, AllocFreeFrames, AllocReplaceFrames, SwapOutDoneFrames, ReplaceDoneFrames,
     AddPageFrames, InstallFrames, PageInFrames, OtherFrames, Zenon DEF KernelStep
<1>4. ASSUME NEW t \in Threads, NEW v \in VPages, NEW d \in Data, Store(t, v, d) PROVE FrameInv'
  <2>1. KeepsCpu'
    BY <1>4, Zenon DEF FrameInv, KeepsCpu, Store, threadVars, cpuVars
  <2>2. QED
    BY <1>4, <2>1, SameFrames, Zenon DEF Store, threadVars, spaceVars
<1>5. ASSUME NEW t \in Threads, UserStep(t) PROVE FrameInv'
  BY <1>4, <1>5, LaunchFrames, FaultFrames, OtherFrames, ExitFrames, Zenon DEF UserStep
<1>6. QED
  BY <1>1, <1>2, <1>3, <1>5, Zenon DEF Next

\* FrameInv holds always.
LEMMA FrameInvariant ==
    ASSUME MaxTicks = 0, MAX_PM_SIZE >= 3
    PROVE  Spec => []FrameInv
<1> DEFINE Inv == TypeOK /\ Control /\ OneReplacement /\ FrameInv
<1>1. Init => Inv
  <2>1. Init => OneReplacement
    BY InitReplacement
  <2>2. QED
    BY <2>1, InitTypes, InitFrames, Zenon
<1>2. Inv /\ [Next]_vars => Inv'
  <2>1. FrameInv => NoneReferenced
    BY Zenon DEF FrameInv
  <2>2. QED
    BY <2>1, NextTypes, NextReplacement, NextFrames, Zenon
<1>3. Inv => FrameInv
  BY Zenon
<1> HIDE DEF Inv
<1>4. QED
  BY <1>1, <1>2, <1>3, PTL DEF Spec

\* On a machine with three frames or more, and as long as no timer interrupt stops a thread inside
\* the kernel, every valid page table entry is known to the page frame table, however many threads,
\* pages and programs there are: virtual_alloc_kpages makes the right entry invalid when it takes a
\* frame.  With two frames the clock would come back to a frame of p_list before add_page_entry.
THEOREM OwnersKnown ==
    ASSUME MaxTicks = 0, MAX_PM_SIZE >= 3
    PROVE  Spec => []OwnerKnown
<1>1. FrameInv => OwnerKnown
  BY Zenon DEF FrameInv
<1>2. Spec => []FrameInv
  BY FrameInvariant, Zenon
<1>3. QED
  BY <1>1, <1>2, PTL

\* Under the same assumptions no frame backs two pages, of one address space or of two.
THEOREM FramesUnshared ==
    ASSUME MaxTicks = 0, MAX_PM_SIZE >= 3
    PROVE  Spec => []NoSharedFrame
<1>1. OwnerKnown => NoSharedFrame
  BY Zenon DEF OwnerKnown, NoSharedFrame
<1>2. Spec => []OwnerKnown
  BY OwnersKnown, Zenon
<1>3. QED
  BY <1>1, <1>2, PTL

\* Under the same assumptions the frames that virtual_alloc_kpages has given and add_page_entry has
\* not entered are in one list of one thread, once, and back no page.
THEOREM FramesGivenOnce ==
    ASSUME MaxTicks = 0, MAX_PM_SIZE >= 3
    PROVE  Spec => []GivenOnce
<1>1. FrameInv => GivenOnce
  <2> DEFINE Holders == {w \in Threads : pc[w] \in {"alloc", "swap_out", "swapped_out", "add", "install"}}
  <2> SUFFICES ASSUME FrameInv, NEW t \in Holders, NEW u \in Holders,
                      NEW i \in DOMAIN got[t], NEW j \in DOMAIN got[u], got[t][i][2] # Wild
               PROVE  /\ \A o \in Owners : pte[o] # got[t][i][2]
                      /\ got[u][j][2] = got[t][i][2] => <<t, i>> = <<u, j>>
    BY Zenon DEF GivenOnce
  <2>0. t \in Threads /\ u \in Threads /\ pc[t] \in Given /\ pc[u] \in Given
    BY Zenon DEF Given, Entering, Replacing
  <2>1. /\ \A o \in Owners : pte[o] # got[t][i][2]
        /\ \A k \in DOMAIN got[t] : got[t][k][2] = got[t][i][2] => k = i
    BY <2>0, Zenon DEF FrameInv, GivenOK, Unentered
  <2>2. \A k : k \notin DOMAIN <<>>
    OBVIOUS
  <2>3. t = u
    BY <2>0, <2>2, Zenon DEF FrameInv, KeepsCpu, Alone, Given, Entering
  <2>4. QED
    BY <2>1, <2>3, Zenon
<1>2. Spec => []FrameInv
  BY FrameInvariant, Zenon
<1>3. QED
  BY <1>1, <1>2, PTL

=============================================================================
