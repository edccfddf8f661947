------------------------ MODULE VirtualMemory_proofs ------------------------
(***************************************************************************)
(* Type correctness of VirtualMemory, the reference bits and the hands of  *)
(* the clock, and the exclusion that stealmem_lock provides, for any       *)
(* number of threads, frames, pages, slots and programs.                   *)
(***************************************************************************)
EXTENDS VirtualMemory

(***************************************************************************)
(* TypeOK is not inductive: that an action leaves values of the right kind *)
(* depends on what its thread set up on the way there.  Control says, for  *)
(* each place in the code, what a thread that is there holds.              *)
(***************************************************************************)
Replacing  == {"swap_out", "swapped_out"}
Allocating == {"alloc", "swap_out", "swapped_out"}
Fetching   == {"install", "swap_in", "swapped_in"}

ThreadOK(t) ==
    /\ pc[t] # "none" => space[t] \in 1 .. created
    /\ pc[t] \in Allocating =>
         /\ req[t] # <<>>
         /\ \A i \in DOMAIN req[t] : req[t][i] # <<>>
         /\ page[t] # NULL => got[t] = <<>> /\ req[t] = <<<<page[t]>>>>
    /\ pc[t] \in Replacing => victim[t] # NULL
    /\ pc[t] \in Fetching =>
         /\ page[t] # NULL
         /\ \E f \in Frames : got[t] = <<<<page[t], f>>>>
    /\ pc[t] = "swap_in" => HasSlot(page[t])
    /\ pc[t] = "map" => page[t] # NULL /\ paddr[t] # NULL
    /\ pc[t] \in {"none", "start", "add", "user", "wait"} => page[t] = NULL
    /\ pc[t] \in {"none", "start", "user", "wait", "map"} => got[t] = <<>>

Control ==
    /\ \A a \in 1 .. created : layout[a] \in Programs
    /\ \A t \in Threads : ThreadOK(t)

\* The entries that second_chance_replace looks at are never those that get_physical_address marks:
\* one counts frames from 0, the other from the first byte of memory.
NoneReferenced == \A i \in FrameIndex : ~pftRef[i]

-----------------------------------------------------------------------------
(* What the helpers return. *)

\* The frame of a table entry, and the entry that code which subtracts 0 finds for a frame.
LEMMA FrameAddrType ==
    ASSUME NEW i \in FrameIndex
    PROVE  FrameAddr(i) \in Frames
BY KernelBelowFrames, FramesAssumption DEF FrameAddr, Frames, FrameIndex

\* The index that the page frame table is given for a frame is one of the table.
LEMMA PftIndexType ==
    ASSUME NEW f \in Frames
    PROVE  PftIndex(f) \in TableIndex /\ PftIndex(f) = f
BY KernelBelowFrames, FramesAssumption
DEF PftIndex, physical_base_addr, Frames, TableIndex

\* The table has an entry for every frame.
LEMMA TableIndexType == FrameIndex \subseteq TableIndex
BY KernelBelowFrames, FramesAssumption DEF FrameIndex, TableIndex

\* What is not a frame, a page or an owner.
LEMMA NullType ==
    /\ NULL \notin Frames /\ NULL \notin VPages /\ NULL \notin Threads /\ NULL \notin Owners
    /\ NULL \notin VPages \X Frames
    /\ Wild \notin Frames
<1>1. Wild \notin Frames
  BY KernelBelowFrames, FramesAssumption DEF Wild, Frames
<1>2. QED
  BY <1>1, NullAssumption, Zenon

\* A hand that moves on by one stays in the table.
LEMMA NextHand ==
    ASSUME NEW h \in FrameIndex
    PROVE  h \in Nat /\ 1 \in Nat /\ Advance(h, 1) \in FrameIndex
BY FramesAssumption DEF FrameIndex, Advance

\* The number of no address space.
LEMMA NoSpace == 0 \in 0 .. MaxSpaces
BY SizesAssumption

\* The timer interrupts the kernel at most MaxTicks times.
LEMMA TickType ==
    ASSUME CpuTypeOK, Tick
    PROVE  ticks' \in 0 .. MaxTicks
BY SizesAssumption DEF CpuTypeOK, Tick

\* as_activate leaves a TLB.
LEMMA ActivatedType == Activated \in [TlbSlots -> (VPages \X Frames) \cup {NULL}]
BY Zenon DEF Activated, EmptyTlb

\* insert_tlb_entry leaves a TLB.
LEMMA InsertTlbEntryType ==
    ASSUME TlbTypeOK, NEW v \in VPages, NEW f \in Frames, InsertTlbEntry(v, f)
    PROVE  TlbTypeOK'
<1>1. <<v, f>> \in VPages \X Frames
  BY Zenon
<1>2. NextTlbEntry \in TlbSlots
  BY SizesAssumption DEF NextTlbEntry, TlbSlots, TlbTypeOK
<1>3. QED
  BY <1>1, <1>2, Zenon DEF InsertTlbEntry, TlbTypeOK, tlbVars

\* add_page_entry leaves a page frame table.
LEMMA AddPageEntryType ==
    ASSUME PftTypeOK, SpaceTypeOK, NEW o \in Owners, NEW f \in Frames, AddPageEntry(o, f),
           UNCHANGED <<ep_hand, rp_hand, layout, created>>
    PROVE  PftTypeOK' /\ SpaceTypeOK'
BY PftIndexType, Zenon DEF AddPageEntry, PftTypeOK, SpaceTypeOK

\* The pages of a program, in the order in which they are given frames and slots.
LEMMA PagesType ==
    ASSUME NEW s \in Segments, NEW n \in 0 .. MaxRegionPages
    PROVE  Pages(s, n) \in Seq(VPages) /\ Len(Pages(s, n)) = n
<1>1. \A i \in 1 .. n : i - 1 \in 0 .. MaxRegionPages - 1
  BY SizesAssumption
<1>2. Pages(s, n) \in [1 .. n -> VPages]
  BY <1>1, Zenon DEF Pages, VPages
<1>3. QED
  BY <1>2, SizesAssumption DEF Pages

\* as_prepare_load asks for lists of pages.
LEMMA LoadRequestsType ==
    ASSUME NEW p \in Programs
    PROVE  /\ LoadRequests(p) \in Seq(Seq(VPages))
           /\ LoadRequests(p) # <<>>
           /\ \A i \in DOMAIN LoadRequests(p) : LoadRequests(p)[i] # <<>>
<1> DEFINE a == Pages("seg1", p.npages1)
           b == Pages("seg2", 1)
           c == Pages("stack", 1)
<1>1. /\ p.npages1 \in 0 .. MaxRegionPages /\ p.npages1 # 0
      /\ 1 \in 0 .. MaxRegionPages /\ 1 # 0
  BY ProgramsAssumption, SizesAssumption
<1>2. /\ a \in Seq(VPages) /\ Len(a) = p.npages1
      /\ b \in Seq(VPages) /\ Len(b) = 1
      /\ c \in Seq(VPages) /\ Len(c) = 1
  BY <1>1, PagesType, Zenon DEF Segments
<1>3. LoadRequests(p) = <<a, b, c>>
  BY Zenon DEF LoadRequests
<1> HIDE DEF a, b, c
<1>4. a # <<>> /\ b # <<>> /\ c # <<>>
  <2>1. Len(a) # 0 /\ Len(b) # 0 /\ Len(c) # 0
    BY <1>1, <1>2, Zenon
  <2>2. QED
    BY <2>1
<1>5. QED
  BY <1>2, <1>3, <1>4

\* The pages that swapspace_load_as makes slots for are pages.
LEMMA SwapPagesType ==
    ASSUME NEW p \in Programs
    PROVE  SwapPages(p) \in Seq(VPages)
<1>1. /\ p.npages1 \in 0 .. MaxRegionPages
      /\ p.npages2 \in 0 .. MaxRegionPages
      /\ INIT_STACKPAGES \in 0 .. MaxRegionPages
  BY ProgramsAssumption, SizesAssumption
<1>2. /\ Pages("seg1", p.npages1) \in Seq(VPages)
      /\ Pages("seg2", p.npages2) \in Seq(VPages)
      /\ Pages("stack", INIT_STACKPAGES) \in Seq(VPages)
  BY <1>1, PagesType, Zenon DEF Segments
<1>3. QED
  BY <1>2 DEF SwapPages

\* One-element sequences.
LEMMA Single ==
    ASSUME NEW x
    PROVE  Head(<<x>>) = x /\ Tail(<<x>>) = <<>> /\ Append(<<>>, x) = <<x>>
OBVIOUS

\* What is left of a request once the page at its front, or the one after it, has been served.
LEMMA RequestType ==
    ASSUME NEW q \in Seq(Seq(VPages)), q # <<>>, \A i \in DOMAIN q : q[i] # <<>>
    PROVE  /\ Head(q) \in Seq(VPages) /\ Head(q) # <<>>
           /\ Head(Head(q)) \in VPages
           /\ Tail(q) \in Seq(Seq(VPages))
           /\ \A i \in DOMAIN Tail(q) : Tail(q)[i] # <<>>
<1>1. Head(q) = q[1] /\ 1 \in DOMAIN q
  OBVIOUS
<1>2. Head(q) \in Seq(VPages) /\ Head(q) # <<>>
  BY <1>1
<1>3. Tail(q) \in Seq(Seq(VPages)) /\ \A i \in DOMAIN Tail(q) : Tail(q)[i] # <<>>
  OBVIOUS
<1>4. QED
  BY <1>2, <1>3

\* What is left of a list, back in front of the others.
LEMMA RequestPrepend ==
    ASSUME NEW w \in Seq(VPages), w # <<>>, NEW q \in Seq(Seq(VPages)),
           \A i \in DOMAIN q : q[i] # <<>>
    PROVE  /\ <<w>> \o q \in Seq(Seq(VPages))
           /\ <<w>> \o q # <<>>
           /\ \A i \in DOMAIN (<<w>> \o q) : (<<w>> \o q)[i] # <<>>
OBVIOUS

-----------------------------------------------------------------------------
(* What does not change keeps its type, and a thread that does not change  *)
(* keeps what Control says of it.                                          *)

\* What leaves every variable alone keeps the types.
LEMMA SameType ==
    /\ PftTypeOK /\ UNCHANGED pftVars => PftTypeOK'
    /\ SpaceTypeOK /\ UNCHANGED spaceVars => SpaceTypeOK'
    /\ SwapTypeOK /\ UNCHANGED swapVars => SwapTypeOK'
    /\ TlbTypeOK /\ UNCHANGED tlbVars => TlbTypeOK'
    /\ ThreadTypeOK /\ UNCHANGED threadVars => ThreadTypeOK'
    /\ CpuTypeOK /\ UNCHANGED cpuVars => CpuTypeOK'
    /\ DataTypeOK /\ UNCHANGED <<mem, last, fate>> => DataTypeOK'
BY Zenon DEF PftTypeOK, SpaceTypeOK, SwapTypeOK, TlbTypeOK, ThreadTypeOK, CpuTypeOK, DataTypeOK,
       pftVars, spaceVars, swapVars, tlbVars, threadVars, cpuVars

\* A thread whose own variables a step leaves alone holds what it held.
LEMMA SameThread ==
    ASSUME NEW u, ThreadOK(u),
           pc'[u] = pc[u], space'[u] = space[u], req'[u] = req[u], got'[u] = got[u],
           page'[u] = page[u], paddr'[u] = paddr[u], victim'[u] = victim[u],
           created \in Nat, created' \in Nat, created' >= created,
           \A v : HasSlot(v) => HasSlot(v)'
    PROVE  ThreadOK(u)'
<1>1. space[u] \in 1 .. created => space[u] \in 1 .. created'
  OBVIOUS
<1>2. QED
  BY <1>1, Zenon DEF ThreadOK

\* What leaves every variable of the threads alone keeps Control.
LEMMA SameControl ==
    ASSUME Control, SpaceTypeOK, UNCHANGED <<spaceVars, swapspace, threadVars>>
    PROVE  Control'
<1>1. ASSUME NEW u \in Threads PROVE ThreadOK(u)'
  <2>1. ThreadOK(u) /\ created \in Nat /\ created' = created
    BY SizesAssumption DEF Control, SpaceTypeOK, spaceVars
  <2>2. QED
    BY <2>1, SameThread DEF HasSlot, threadVars
<1>2. QED
  BY <1>1, Zenon DEF Control, spaceVars

\* panic keeps the types and what the threads hold.
LEMMA PanicStep ==
    ASSUME TypeOK, Control, NEW reason \in Fates, Panic(reason)
    PROVE  TypeOK' /\ Control'
<1>1. DataTypeOK'
  BY Zenon DEF Panic, TypeOK, DataTypeOK
<1>2. Control'
  BY SameControl, Zenon DEF Panic, TypeOK, swapVars
<1>3. QED
  BY <1>1, <1>2, SameType, Zenon DEF Panic, TypeOK

\* Only thread t's own place matters when the other threads, the layouts and the slots stay.
LEMMA OneThread ==
    ASSUME TypeOK, Control, NEW t \in Threads, ThreadOK(t)',
           \A u \in Threads \ {t} :
               /\ pc'[u] = pc[u] /\ space'[u] = space[u] /\ req'[u] = req[u] /\ got'[u] = got[u]
               /\ page'[u] = page[u] /\ paddr'[u] = paddr[u] /\ victim'[u] = victim[u],
           UNCHANGED <<layout, created>>,
           \A v : HasSlot(v) => HasSlot(v)'
    PROVE  Control'
<1>1. ASSUME NEW u \in Threads \ {t} PROVE ThreadOK(u)'
  <2>1. ThreadOK(u) /\ created \in Nat /\ created' = created
    BY SizesAssumption DEF Control, TypeOK, SpaceTypeOK
  <2>2. QED
    BY <2>1, SameThread
<1>2. QED
  BY <1>1, Zenon DEF Control

-----------------------------------------------------------------------------
(* One lemma per action. *)

\* Launch keeps the types and what the threads hold.
LEMMA LaunchStep ==
    ASSUME TypeOK, Control, NEW t \in Threads, NEW p \in Programs, Launch(t, p)
    PROVE  TypeOK' /\ Control'
<1>1. CASE stealmem_lock # NULL
  <2>1. Panic("spinlock_acquire")
    BY <1>1, Zenon DEF Launch
  <2>2. QED
    BY <2>1, PanicStep, Zenon DEF Fates
<1>2. CASE stealmem_lock = NULL
  <2>1. created + 1 \in Spaces /\ created \in Nat
    BY SizesAssumption DEF Launch, TypeOK, SpaceTypeOK, Spaces
  <2>2. SpaceTypeOK'
    BY <1>2, <2>1 DEF Launch, TypeOK, SpaceTypeOK, Spaces
  <2>3. ThreadTypeOK'
    <3>1. created + 1 \in 0 .. MaxSpaces
      BY <2>1 DEF Spaces
    <3>2. QED
      BY <1>2, <3>1, Zenon DEF Launch, TypeOK, ThreadTypeOK, PCs
  <2>4. CpuTypeOK'
    <3> DEFINE q == IF cur = NULL THEN runqueue ELSE Append(runqueue, cur)
    <3>1. q \in Seq(Threads) /\ runqueue' = Append(q, t)
      BY <1>2 DEF Launch, TypeOK, CpuTypeOK
    <3> HIDE DEF q
    <3>2. runqueue' \in Seq(Threads)
      BY <3>1
    <3>3. Tick
      BY <1>2, Zenon DEF Launch
    <3>4. QED
      BY <1>2, <3>2, <3>3, TickType, Zenon DEF Launch, TypeOK, CpuTypeOK
  <2>5. TypeOK'
    BY <1>2, <2>2, <2>3, <2>4, SameType, Zenon DEF Launch, TypeOK, pftVars, swapVars, tlbVars
  <2>6. ThreadOK(t)'
    BY <1>2, <2>1, SMTT(30) DEF Launch, TypeOK, ThreadTypeOK, Control, ThreadOK, Allocating, Replacing, Fetching
  <2>7. ASSUME NEW u \in Threads \ {t} PROVE ThreadOK(u)'
    <3>1. ThreadOK(u) /\ created' = created + 1 /\ swapspace' = swapspace
      BY <1>2, Zenon DEF Control, Launch, swapVars
    <3>2. QED
      BY <1>2, <2>1, <3>1, SameThread DEF Launch, TypeOK, ThreadTypeOK, HasSlot
  <2>8. \A a \in 1 .. created' : layout'[a] \in Programs
    <3>1. /\ layout' = [layout EXCEPT ![created + 1] = p]
          /\ created' = created + 1
          /\ layout \in [Spaces -> Programs \cup {NULL}]
      BY <1>2, Zenon DEF Launch, TypeOK, SpaceTypeOK
    <3>2. ASSUME NEW a \in 1 .. created + 1 PROVE layout'[a] \in Programs
      <4>1. a \in Spaces /\ (a = created + 1 \/ a \in 1 .. created)
        BY <2>1, SizesAssumption DEF Spaces
      <4>2. QED
        BY <3>1, <4>1, Zenon DEF Control
    <3>3. QED
      BY <3>1, <3>2, Zenon
  <2>9. QED
    BY <2>5, <2>6, <2>7, <2>8, Zenon DEF Control
<1>3. QED
  BY <1>1, <1>2, Zenon

\* Start keeps the types and what the threads hold.
LEMMA StartStep ==
    ASSUME TypeOK, Control, NEW t \in Threads, Start(t)
    PROVE  TypeOK' /\ Control'
<1>1. CASE stealmem_lock # NULL
  <2>1. Panic("spinlock_acquire")
    BY <1>1, Zenon DEF Start
  <2>2. QED
    BY <2>1, PanicStep, Zenon DEF Fates
<1>2. CASE stealmem_lock = NULL
  <2> DEFINE q == LoadRequests(layout[space[t]])
  <2>1. layout[space[t]] \in Programs
    BY Zenon DEF Start, Control, ThreadOK
  <2>2. q \in Seq(Seq(VPages)) /\ q # <<>> /\ \A i \in DOMAIN q : q[i] # <<>>
    BY <2>1, LoadRequestsType, Zenon
  <2>3. /\ req' = [req EXCEPT ![t] = q]
        /\ pc' = [pc EXCEPT ![t] = "alloc"]
        /\ UNCHANGED <<space, got, page, paddr, victim>>
    BY <1>2, Zenon DEF Start
  <2> HIDE DEF q
  <2>4. ThreadTypeOK'
    BY <2>2, <2>3, Zenon DEF TypeOK, ThreadTypeOK, PCs
  <2>5. TlbTypeOK'
    BY <1>2, ActivatedType, Zenon DEF Start, TypeOK, TlbTypeOK
  <2>6. TypeOK'
    BY <1>2, <2>4, <2>5, SameType, Zenon DEF Start, TypeOK
  <2>7. ThreadOK(t)'
    BY <1>2, <2>2, <2>3, Zenon
    DEF Start, TypeOK, ThreadTypeOK, Control, ThreadOK, Allocating, Replacing, Fetching, spaceVars
  <2>8. Control'
    BY <1>2, <2>3, <2>7, OneThread, Zenon DEF Start, TypeOK, ThreadTypeOK, spaceVars, swapVars, HasSlot
  <2>9. QED
    BY <2>6, <2>8, Zenon
<1>3. QED
  BY <1>1, <1>2, Zenon

\* LoadFails keeps the types and what the threads hold.
LEMMA LoadFailsStep ==
    ASSUME TypeOK, Control, NEW t \in Threads, LoadFails(t)
    PROVE  TypeOK' /\ Control'
<1>1. ThreadTypeOK'
  BY NoSpace, Zenon DEF LoadFails, TypeOK, ThreadTypeOK, PCs
<1>2. TlbTypeOK'
  BY ActivatedType, Zenon DEF LoadFails, TypeOK, TlbTypeOK
<1>3. CpuTypeOK'
  BY Zenon DEF LoadFails, TypeOK, CpuTypeOK
<1>4. TypeOK'
  BY <1>1, <1>2, <1>3, SameType, Zenon DEF LoadFails, TypeOK
<1>5. ThreadOK(t)'
  BY Zenon DEF LoadFails, TypeOK, ThreadTypeOK, Control, ThreadOK, Allocating, Replacing, Fetching
<1>6. Control'
  BY <1>5, OneThread, Zenon DEF LoadFails, TypeOK, ThreadTypeOK, spaceVars, swapVars, HasSlot
<1>7. QED
  BY <1>4, <1>6, Zenon

\* Dispatch keeps the types and what the threads hold.
LEMMA DispatchStep ==
    ASSUME TypeOK, Control, Dispatch
    PROVE  TypeOK' /\ Control'
<1>1. TlbTypeOK'
  BY ActivatedType, Zenon DEF Dispatch, TypeOK, TlbTypeOK
<1>2. CpuTypeOK'
  BY DEF Dispatch, TypeOK, CpuTypeOK
<1>3. QED
  BY <1>1, <1>2, SameType, SameControl, Zenon DEF Dispatch, TypeOK, swapVars

\* Preempt keeps the types and what the threads hold.
LEMMA PreemptStep ==
    ASSUME TypeOK, Control, Preempt
    PROVE  TypeOK' /\ Control'
<1>1. TlbTypeOK'
  BY ActivatedType, Zenon DEF Preempt, TypeOK, TlbTypeOK
<1>2. ticks' \in 0 .. MaxTicks
  BY TickType, Zenon DEF Preempt, TypeOK
<1>3. runqueue' \in Seq(Threads) /\ cur' \in Threads
  BY DEF Preempt, TypeOK, CpuTypeOK
<1>4. CpuTypeOK'
  BY <1>2, <1>3, Zenon DEF Preempt, TypeOK, CpuTypeOK
<1>5. QED
  BY <1>1, <1>4, SameType, SameControl, Zenon DEF Preempt, TypeOK, swapVars

\* AllocSpins keeps the types and what the threads hold.
LEMMA AllocSpinsStep ==
    ASSUME TypeOK, Control, NEW t \in Threads, AllocSpins(t)
    PROVE  TypeOK' /\ Control'
BY PanicStep, Zenon DEF AllocSpins, Fates

\* virtual_alloc_kpages has given frame f to the last page its list asks for.
LEMMA LastServed ==
    ASSUME TypeOK, Control, NEW t \in Threads, pc[t] \in Allocating, NEW f \in Frames,
           got' = [got EXCEPT ![t] = Append(@, <<Head(Head(req[t])), f>>)],
           req' = [req EXCEPT ![t] = Tail(req[t])],
           pc' = [pc EXCEPT ![t] = AfterAlloc(t, Tail(req[t]))],
           UNCHANGED <<space, page, paddr, created>>
    PROVE  /\ got' \in [Threads -> Seq(VPages \X (Frames \cup {Wild}))]
           /\ req' \in [Threads -> Seq(Seq(VPages))]
           /\ pc' \in [Threads -> PCs]
           /\ ThreadOK(t)'
<1> DEFINE q == req[t]
<1>1. /\ q \in Seq(Seq(VPages)) /\ q # <<>> /\ \A i \in DOMAIN q : q[i] # <<>>
      /\ page[t] # NULL => got[t] = <<>> /\ q = <<<<page[t]>>>>
      /\ got[t] \in Seq(VPages \X (Frames \cup {Wild}))
      /\ space[t] \in 1 .. created
  BY Zenon DEF TypeOK, ThreadTypeOK, Control, ThreadOK, Allocating
<1>2. /\ Head(Head(q)) \in VPages
      /\ Tail(q) \in Seq(Seq(VPages))
      /\ \A i \in DOMAIN Tail(q) : Tail(q)[i] # <<>>
  BY <1>1, RequestType, Zenon
<1>3. /\ got'[t] = Append(got[t], <<Head(Head(q)), f>>)
      /\ req'[t] = Tail(q)
      /\ pc'[t] = AfterAlloc(t, Tail(q))
  BY Zenon DEF TypeOK, ThreadTypeOK
<1>4. /\ got' \in [Threads -> Seq(VPages \X (Frames \cup {Wild}))]
      /\ req' \in [Threads -> Seq(Seq(VPages))]
      /\ pc' \in [Threads -> PCs]
  <2>1. AfterAlloc(t, Tail(q)) \in PCs
    BY Zenon DEF AfterAlloc, PCs
  <2>2. Append(got[t], <<Head(Head(q)), f>>) \in Seq(VPages \X (Frames \cup {Wild}))
    BY <1>1, <1>2
  <2>3. QED
    BY <1>2, <2>1, <2>2, Zenon DEF TypeOK, ThreadTypeOK
<1> HIDE DEF q
<1>5. CASE Tail(q) # <<>>
  <2>1. page[t] = NULL
    BY <1>1, <1>5, Single, Zenon
  <2>2. pc'[t] = "alloc"
    BY <1>3, <1>5, Zenon DEF AfterAlloc
  <2>3. QED
    BY <1>1, <1>2, <1>3, <1>4, <1>5, <2>1, <2>2, Zenon
    DEF ThreadOK, Allocating, Replacing, Fetching
<1>6. CASE Tail(q) = <<>> /\ page[t] = NULL
  <2>1. pc'[t] = "add"
    BY <1>3, <1>6, Zenon DEF AfterAlloc
  <2>2. QED
    BY <1>1, <1>4, <1>6, <2>1, Zenon DEF ThreadOK, Allocating, Replacing, Fetching
<1>7. CASE Tail(q) = <<>> /\ page[t] # NULL
  <2>1. pc'[t] = "install"
    BY <1>3, <1>7, Zenon DEF AfterAlloc
  <2>2. got'[t] = <<<<page[t], f>>>>
    <3>1. Head(Head(q)) = page[t] /\ got[t] = <<>>
      BY <1>1, <1>7, Single, Zenon
    <3>2. QED
      BY <1>3, <3>1, Single, Zenon
  <2>3. QED
    BY <1>1, <1>4, <1>7, <2>1, <2>2, Zenon DEF ThreadOK, Allocating, Replacing, Fetching
<1>8. QED
  BY <1>4, <1>5, <1>6, <1>7, Zenon

\* virtual_alloc_kpages has more pages to serve for the same call: w is left of its list.
LEMMA MoreToServe ==
    ASSUME TypeOK, Control, NEW t \in Threads, pc[t] \in Allocating,
           NEW w \in Seq(VPages), w # <<>>, NEW x \in VPages \X (Frames \cup {Wild}),
           Tail(Head(req[t])) # <<>>,
           got' = [got EXCEPT ![t] = Append(@, x)],
           req' = [req EXCEPT ![t] = <<w>> \o Tail(req[t])],
           pc' = [pc EXCEPT ![t] = "alloc"],
           UNCHANGED <<space, page, paddr, created>>
    PROVE  /\ got' \in [Threads -> Seq(VPages \X (Frames \cup {Wild}))]
           /\ req' \in [Threads -> Seq(Seq(VPages))]
           /\ pc' \in [Threads -> PCs]
           /\ ThreadOK(t)'
<1> DEFINE q == req[t]
<1>1. /\ q \in Seq(Seq(VPages)) /\ q # <<>> /\ \A i \in DOMAIN q : q[i] # <<>>
      /\ page[t] # NULL => q = <<<<page[t]>>>>
      /\ got[t] \in Seq(VPages \X (Frames \cup {Wild}))
      /\ space[t] \in 1 .. created
  BY Zenon DEF TypeOK, ThreadTypeOK, Control, ThreadOK, Allocating
<1>2. /\ Tail(q) \in Seq(Seq(VPages))
      /\ \A i \in DOMAIN Tail(q) : Tail(q)[i] # <<>>
  BY <1>1, RequestType, Zenon
<1>3. /\ <<w>> \o Tail(q) \in Seq(Seq(VPages))
      /\ <<w>> \o Tail(q) # <<>>
      /\ \A i \in DOMAIN (<<w>> \o Tail(q)) : (<<w>> \o Tail(q))[i] # <<>>
  BY <1>2, RequestPrepend, Zenon
<1>4. page[t] = NULL
  BY <1>1, Single, Zenon
<1> DEFINE n == <<w>> \o Tail(q)
<1>5. req'[t] = n /\ pc'[t] = "alloc" /\ page'[t] = NULL
  BY <1>4, Zenon DEF TypeOK, ThreadTypeOK
<1>6. /\ got' \in [Threads -> Seq(VPages \X (Frames \cup {Wild}))]
      /\ req' \in [Threads -> Seq(Seq(VPages))]
      /\ pc' \in [Threads -> PCs]
  <2>1. Append(got[t], x) \in Seq(VPages \X (Frames \cup {Wild}))
    BY <1>1
  <2> HIDE DEF n
  <2>2. QED
    BY <1>3, <2>1, Zenon DEF TypeOK, ThreadTypeOK, PCs, n
<1> HIDE DEF n, q
<1>7. ThreadOK(t)'
  BY <1>1, <1>3, <1>5, Zenon DEF ThreadOK, Allocating, Replacing, Fetching, n
<1>8. QED
  BY <1>6, <1>7, Zenon

\* AllocFree keeps the types and what the threads hold.
LEMMA AllocFreeStep ==
    ASSUME TypeOK, Control, NEW t \in Threads, AllocFree(t)
    PROVE  TypeOK' /\ Control'
<1> DEFINE want == Head(req[t])
           rest == Tail(req[t])
<1>0. PICK i \in First(FreeIndexes) :
        /\ pftValid' = [pftValid EXCEPT ![i] = TRUE]
        /\ pftRef' = [pftRef EXCEPT ![i] = FALSE]
        /\ got' = [got EXCEPT ![t] = Append(@, <<Head(want), FrameAddr(i)>>)]
        /\ req' = [req EXCEPT ![t] = IF Tail(want) # <<>> THEN <<Tail(want)>> \o rest ELSE rest]
        /\ stealmem_lock' = IF Tail(want) # <<>> THEN t ELSE NULL
        /\ pc' = [pc EXCEPT ![t] = IF Tail(want) # <<>> THEN "alloc" ELSE AfterAlloc(t, rest)]
  BY Zenon DEF AllocFree
<1>1. /\ i \in FrameIndex /\ i \in TableIndex
      /\ FrameAddr(i) \in Frames
  BY FrameAddrType, TableIndexType, Zenon DEF First, FreeIndexes
<1>2. /\ want \in Seq(VPages) /\ want # <<>> /\ Head(want) \in VPages
      /\ Tail(want) \in Seq(VPages)
  <2>1. req[t] \in Seq(Seq(VPages)) /\ req[t] # <<>> /\ \A j \in DOMAIN req[t] : req[t][j] # <<>>
    BY Zenon DEF TypeOK, ThreadTypeOK, AllocFree, Control, ThreadOK, Allocating
  <2>2. want \in Seq(VPages) /\ want # <<>> /\ Head(want) \in VPages
    BY <2>1, RequestType, Zenon
  <2> HIDE DEF want
  <2>3. QED
    BY <2>2
<1>3. pc[t] \in Allocating
  BY Zenon DEF AllocFree, Allocating
<1>4. /\ pftValid' = [pftValid EXCEPT ![i] = TRUE]
      /\ pftRef' = [pftRef EXCEPT ![i] = FALSE]
      /\ got' = [got EXCEPT ![t] = Append(@, <<Head(want), FrameAddr(i)>>)]
      /\ req' = [req EXCEPT ![t] = IF Tail(want) # <<>> THEN <<Tail(want)>> \o rest ELSE rest]
      /\ stealmem_lock' = IF Tail(want) # <<>> THEN t ELSE NULL
      /\ pc' = [pc EXCEPT ![t] = IF Tail(want) # <<>> THEN "alloc" ELSE AfterAlloc(t, rest)]
      /\ UNCHANGED <<pftOwner, ep_hand, rp_hand, spaceVars, swapVars, mem, tlbVars, space, page,
                     paddr, victim, cur, runqueue, ticks, last, fate>>
  BY <1>0, Zenon DEF AllocFree
<1> HIDE DEF want, rest
<1>5. PftTypeOK'
  BY <1>1, <1>4, Zenon DEF TypeOK, PftTypeOK
<1>6. CpuTypeOK'
  BY <1>4, Zenon DEF TypeOK, CpuTypeOK
<1>7. /\ got' \in [Threads -> Seq(VPages \X (Frames \cup {Wild}))]
      /\ req' \in [Threads -> Seq(Seq(VPages))]
      /\ pc' \in [Threads -> PCs]
      /\ ThreadOK(t)'
  <2>1. CASE Tail(want) = <<>>
    BY <1>1, <1>3, <1>4, <2>1, LastServed, Zenon DEF want, rest, spaceVars
  <2>2. CASE Tail(want) # <<>>
    <3>1. <<Head(want), FrameAddr(i)>> \in VPages \X (Frames \cup {Wild})
      BY <1>1, <1>2, Zenon
    <3>2. QED
      BY <1>2, <1>3, <1>4, <2>2, <3>1, MoreToServe, Zenon DEF want, rest, spaceVars
  <2>3. QED
    BY <2>1, <2>2, Zenon
<1>8. ThreadTypeOK'
  BY <1>4, <1>7, Zenon DEF TypeOK, ThreadTypeOK
<1>9. TypeOK'
  BY <1>4, <1>5, <1>6, <1>8, SameType, Zenon DEF TypeOK
<1>10. Control'
  BY <1>4, <1>7, OneThread, Zenon DEF TypeOK, ThreadTypeOK, spaceVars, swapVars, HasSlot
<1>11. QED
  BY <1>9, <1>10, Zenon

\* With no reference bit set, second_chance_replace takes the frame at the evicting hand.
LEMMA Chosen ==
    ASSUME TypeOK, NoneReferenced,
           NEW r, r = SecondChance(pftRef, ep_hand, rp_hand)
    PROVE  /\ r.victim = ep_hand /\ r.victim \in FrameIndex
           /\ r.ep = Advance(ep_hand, 1) /\ r.ep \in FrameIndex
           /\ r.rp = Advance(rp_hand, 1) /\ r.rp \in FrameIndex
           /\ r.ref \in [TableIndex -> BOOLEAN]
           /\ \A i \in FrameIndex : ~r.ref[i]
<1>1. /\ pftRef \in [TableIndex -> BOOLEAN] /\ ep_hand \in FrameIndex /\ rp_hand \in FrameIndex
      /\ \A i \in FrameIndex : ~pftRef[i]
  BY Zenon DEF TypeOK, PftTypeOK, NoneReferenced
<1>2. /\ r.victim = ep_hand /\ r.ep = Advance(ep_hand, 1) /\ r.rp = Advance(rp_hand, 1)
      /\ r.ref \in [TableIndex -> BOOLEAN]
      /\ \A i \in FrameIndex : ~r.ref[i]
  BY <1>1, SecondChanceAtOnce, TableIndexType
<1>3. QED
  BY <1>1, <1>2, NextHand, Zenon

\* AllocReplace keeps the types and what the threads hold.
LEMMA AllocReplaceStep ==
    ASSUME TypeOK, Control, NoneReferenced, NEW t \in Threads, AllocReplace(t)
    PROVE  TypeOK' /\ Control'
<1> DEFINE r == SecondChance(pftRef, ep_hand, rp_hand)
           f == FrameAddr(r.victim)
           o == pftOwner[PftIndex(f)]
<1>1. /\ r.victim \in FrameIndex /\ r.ref \in [TableIndex -> BOOLEAN]
      /\ r.ep \in FrameIndex /\ r.rp \in FrameIndex
  BY Chosen, Zenon
<1>2. f \in Frames /\ o \in Owners \cup {NULL}
  BY <1>1, FrameAddrType, PftIndexType, Zenon DEF TypeOK, PftTypeOK
<1>3. CASE o = NULL \/ ~HasSlot(o[2])
  <2>1. Panic("p_space_old") \/ Panic("swap_out")
    BY <1>3, Zenon DEF AllocReplace
  <2>2. QED
    BY <2>1, PanicStep, Zenon DEF Fates
<1>4. CASE o # NULL /\ HasSlot(o[2])
  <2>1. /\ pftRef' = r.ref
        /\ ep_hand' = r.ep
        /\ rp_hand' = r.rp
        /\ pte' = [pte EXCEPT ![o] = NULL]
        /\ victim' = [victim EXCEPT ![t] = <<f, o>>]
        /\ pc' = [pc EXCEPT ![t] = "swap_out"]
        /\ stealmem_lock' = t
        /\ cur' = NULL
        /\ UNCHANGED <<pftValid, pftOwner, layout, created, swapVars, mem, tlbVars, space,
                       req, got, page, paddr, runqueue, ticks, last, fate>>
    BY <1>4, Zenon DEF AllocReplace, Unmapped
  <2>2. <<f, o>> \in Frames \X Owners /\ NULL \notin Frames \X Owners
    BY <1>2, <1>4, NullAssumption, Zenon
  <2>3. pc[t] = "alloc"
    BY Zenon DEF AllocReplace
  <2> HIDE DEF r, f, o
  <2>4. PftTypeOK'
    BY <1>1, <2>1, Zenon DEF TypeOK, PftTypeOK
  <2>5. SpaceTypeOK'
    BY <2>1, Zenon DEF TypeOK, SpaceTypeOK
  <2>6. ThreadTypeOK'
    BY <2>1, <2>2, Zenon DEF TypeOK, ThreadTypeOK, PCs
  <2>7. CpuTypeOK'
    BY <2>1, Zenon DEF TypeOK, CpuTypeOK
  <2>8. TypeOK'
    BY <2>1, <2>4, <2>5, <2>6, <2>7, SameType, Zenon DEF TypeOK
  <2>9. ThreadOK(t)'
    BY <2>1, <2>2, <2>3, Zenon
    DEF TypeOK, ThreadTypeOK, Control, ThreadOK, Allocating, Replacing, Fetching
  <2>10. Control'
    BY <2>1, <2>9, OneThread, Zenon DEF TypeOK, ThreadTypeOK, swapVars, HasSlot
  <2>11. QED
    BY <2>8, <2>10, Zenon
<1>5. QED
  BY <1>3, <1>4, Zenon

\* thread_make_runnable leaves a run queue.
LEMMA MadeRunnableType ==
    ASSUME CpuTypeOK, NEW t \in Threads
    PROVE  MadeRunnable(t) \in Seq(Threads)
BY DEF CpuTypeOK, MadeRunnable

\* SwapOutDone keeps the types and what the threads hold.
LEMMA SwapOutDoneStep ==
    ASSUME TypeOK, Control, NEW t \in Threads, SwapOutDone(t)
    PROVE  TypeOK' /\ Control'
<1>1. victim[t] # NULL /\ victim[t] \in Frames \X Owners
  BY Zenon DEF SwapOutDone, TypeOK, ThreadTypeOK, Control, ThreadOK, Replacing
<1>2. SwapTypeOK'
  <2>1. victim[t][1] \in Frames
    BY <1>1, Zenon
  <2>2. mem[victim[t][1]] \in Data
    BY <2>1, Zenon DEF TypeOK, DataTypeOK
  <2>3. QED
    BY <2>2, Zenon DEF SwapOutDone, Written, TypeOK, SwapTypeOK
<1>3. CpuTypeOK'
  BY MadeRunnableType, Zenon DEF SwapOutDone, TypeOK, CpuTypeOK
<1>4. ThreadTypeOK'
  BY Zenon DEF SwapOutDone, TypeOK, ThreadTypeOK, PCs
<1>5. TypeOK'
  BY <1>2, <1>3, <1>4, SameType, Zenon DEF SwapOutDone, TypeOK
<1>6. ThreadOK(t)'
  BY <1>1, Zenon DEF SwapOutDone, TypeOK, ThreadTypeOK, Control, ThreadOK, Allocating, Replacing, Fetching, spaceVars
<1>7. Control'
  BY <1>6, OneThread, Zenon DEF SwapOutDone, TypeOK, ThreadTypeOK, spaceVars, HasSlot
<1>8. QED
  BY <1>5, <1>7, Zenon

\* tlb_invalidate leaves a TLB.
LEMMA InvalidatedType ==
    ASSUME TlbTypeOK, NEW v
    PROVE  Invalidated(v) \in [TlbSlots -> (VPages \X Frames) \cup {NULL}]
BY Zenon DEF TlbTypeOK, Invalidated

\* ReplaceDone keeps the types and what the threads hold.
LEMMA ReplaceDoneStep ==
    ASSUME TypeOK, Control, NEW t \in Threads, ReplaceDone(t)
    PROVE  TypeOK' /\ Control'
<1> DEFINE want == Head(req[t])
           rest == Tail(req[t])
           f    == victim[t][1]
           w    == <<want[1]>> \o Tail(Tail(want))
<1>1. f \in Frames
  BY Zenon DEF ReplaceDone, TypeOK, ThreadTypeOK, Control, ThreadOK, Replacing
<1>2. want \in Seq(VPages) /\ want # <<>>
  <2>1. req[t] \in Seq(Seq(VPages)) /\ req[t] # <<>> /\ \A j \in DOMAIN req[t] : req[t][j] # <<>>
    BY Zenon DEF TypeOK, ThreadTypeOK, ReplaceDone, Control, ThreadOK, Allocating
  <2>2. QED
    BY <2>1, RequestType, Zenon
<1>3. pc[t] \in Allocating
  BY Zenon DEF ReplaceDone, Allocating
<1>4. /\ tlb' = Invalidated(victim[t][2][2])
      /\ got' = [got EXCEPT ![t] = Append(@, IF Len(want) > 1 THEN <<want[2], Wild>>
                                                            ELSE <<want[1], f>>)]
      /\ req' = [req EXCEPT ![t] = IF Len(want) > 1 THEN <<w>> \o rest ELSE rest]
      /\ stealmem_lock' = IF Len(want) > 1 THEN t ELSE NULL
      /\ pc' = [pc EXCEPT ![t] = IF Len(want) > 1 THEN "alloc" ELSE AfterAlloc(t, rest)]
      /\ victim' = [victim EXCEPT ![t] = NULL]
      /\ UNCHANGED <<pftVars, spaceVars, swapVars, mem, last_tlb_entry, space, page, paddr, cur,
                     runqueue, ticks, last, fate>>
  BY Zenon DEF ReplaceDone
<1> HIDE DEF want, rest, f
<1>5. want[1] = Head(want) /\ want[1] \in VPages
  BY <1>2
<1>6. /\ got' \in [Threads -> Seq(VPages \X (Frames \cup {Wild}))]
      /\ req' \in [Threads -> Seq(Seq(VPages))]
      /\ pc' \in [Threads -> PCs]
      /\ ThreadOK(t)'
  <2>1. CASE ~(Len(want) > 1)
    BY <1>1, <1>3, <1>4, <1>5, <2>1, LastServed, Zenon DEF want, rest, spaceVars
  <2>2. CASE Len(want) > 1
    <3>1. want[2] \in VPages /\ Tail(want) # <<>> /\ Tail(Tail(want)) \in Seq(VPages)
      BY <1>2, <2>2
    <3>2. w \in Seq(VPages) /\ w # <<>>
      BY <1>5, <3>1
    <3>3. <<want[2], Wild>> \in VPages \X (Frames \cup {Wild})
      BY <3>1, Zenon
    <3> HIDE DEF w
    <3>4. QED
      BY <1>3, <1>4, <2>2, <3>1, <3>2, <3>3, MoreToServe, Zenon DEF want, rest, spaceVars
  <2>3. QED
    BY <2>1, <2>2, Zenon
<1>7. TlbTypeOK'
  BY <1>4, InvalidatedType, Zenon DEF TypeOK, TlbTypeOK
<1>8. CpuTypeOK'
  BY <1>4, Zenon DEF TypeOK, CpuTypeOK
<1>9. ThreadTypeOK'
  BY <1>4, <1>6, Zenon DEF TypeOK, ThreadTypeOK
<1>10. TypeOK'
  BY <1>4, <1>7, <1>8, <1>9, SameType, Zenon DEF TypeOK
<1>11. Control'
  BY <1>4, <1>6, OneThread, Zenon DEF TypeOK, ThreadTypeOK, spaceVars, swapVars, HasSlot
<1>12. QED
  BY <1>10, <1>11, Zenon

\* AddPage keeps the types and what the threads hold.
LEMMA AddPageStep ==
    ASSUME TypeOK, Control, NEW t \in Threads, AddPage(t)
    PROVE  TypeOK' /\ Control'
<1> DEFINE v == Head(got[t])[1]
           f == Head(got[t])[2]
           o == <<space[t], v>>
<1>1. v \in VPages /\ f \in Frames \cup {Wild} /\ Tail(got[t]) \in Seq(VPages \X (Frames \cup {Wild}))
  <2>1. got[t] \in Seq(VPages \X (Frames \cup {Wild})) /\ got[t] # <<>>
    BY Zenon DEF AddPage, TypeOK, ThreadTypeOK
  <2>2. Head(got[t]) \in VPages \X (Frames \cup {Wild})
    BY <2>1
  <2>3. QED
    BY <2>1, <2>2
<1>2. o \in Owners
  <2>1. space[t] \in Spaces
    BY SizesAssumption DEF AddPage, Control, ThreadOK, TypeOK, SpaceTypeOK, Spaces
  <2>2. QED
    BY <1>1, <2>1, Zenon DEF Owners
<1>3. CASE f = Wild \/ (v[2] = 0 /\ stealmem_lock # NULL)
  <2>1. Panic("p_list") \/ Panic("spinlock_acquire")
    BY <1>3, Zenon DEF AddPage
  <2>2. QED
    BY <2>1, PanicStep, Zenon DEF Fates
<1>4. CASE f # Wild /\ ~(v[2] = 0 /\ stealmem_lock # NULL)
  <2>1. /\ AddPageEntry(o, f)
        /\ mem' = [mem EXCEPT ![f] = Zero]
        /\ last' = [last EXCEPT ![o] = Zero]
        /\ got' = [got EXCEPT ![t] = Tail(@)]
        /\ UNCHANGED <<ep_hand, rp_hand, layout, created, swapVars, tlbVars, pc, space,
                       req, page, paddr, victim, cpuVars, fate>>
    BY <1>4, Zenon DEF AddPage
  <2>2. pc[t] = "add"
    BY Zenon DEF AddPage
  <2> HIDE DEF v, f, o
  <2>3. PftTypeOK' /\ SpaceTypeOK'
    BY <1>1, <1>2, <1>4, <2>1, AddPageEntryType, Zenon DEF TypeOK
  <2>4. DataTypeOK'
    BY <2>1, DataAssumption, Zenon DEF TypeOK, DataTypeOK
  <2>5. ThreadTypeOK'
    BY <1>1, <2>1, Zenon DEF TypeOK, ThreadTypeOK
  <2>6. TypeOK'
    BY <2>1, <2>3, <2>4, <2>5, SameType, Zenon DEF TypeOK
  <2>7. ThreadOK(t)'
    BY <2>1, <2>2, Zenon DEF TypeOK, ThreadTypeOK, Control, ThreadOK, Allocating, Replacing, Fetching
  <2>8. Control'
    BY <2>1, <2>7, OneThread, Zenon DEF TypeOK, ThreadTypeOK, swapVars, HasSlot
  <2>9. QED
    BY <2>6, <2>8, Zenon
<1>5. QED
  BY <1>3, <1>4, Zenon

\* LoadAs keeps the types and what the threads hold.
LEMMA LoadAsStep ==
    ASSUME TypeOK, Control, NEW t \in Threads, LoadAs(t)
    PROVE  TypeOK' /\ Control'
<1> DEFINE new == SwapPages(layout[space[t]])
<1>1. new \in Seq(VPages)
  BY SwapPagesType, Zenon DEF LoadAs, Control, ThreadOK
<1>2. CASE Len(swapspace) + Len(new) > SWAP_SLOTS
  BY <1>2, PanicStep, Zenon DEF LoadAs, Fates
<1>3. CASE ~(Len(swapspace) + Len(new) > SWAP_SLOTS)
  <2>1. /\ swapspace' = swapspace \o new
        /\ pc' = [pc EXCEPT ![t] = "user"]
        /\ UNCHANGED <<pftVars, spaceVars, disk, mem, tlbVars, space, req, got, page,
                       paddr, victim, cpuVars, last, fate>>
    BY <1>3, Zenon DEF LoadAs
  <2>2. pc[t] = "add" /\ got[t] = <<>>
    BY Zenon DEF LoadAs
  <2> HIDE DEF new
  <2>3. SwapTypeOK'
    BY <1>1, <1>3, <2>1, SizesAssumption DEF TypeOK, SwapTypeOK
  <2>4. \A v : HasSlot(v) => HasSlot(v)'
    <3>1. swapspace \in Seq(VPages)
      BY Zenon DEF TypeOK, SwapTypeOK
    <3>2. \A i \in DOMAIN swapspace : i \in DOMAIN (swapspace \o new) /\ (swapspace \o new)[i] = swapspace[i]
      BY <1>1, <3>1
    <3>3. QED
      BY <2>1, <3>2, Zenon DEF HasSlot
  <2>5. ThreadTypeOK'
    BY <2>1, Zenon DEF TypeOK, ThreadTypeOK, PCs
  <2>6. TypeOK'
    BY <2>1, <2>3, <2>5, SameType, Zenon DEF TypeOK
  <2>7. ThreadOK(t)'
    BY <2>1, <2>2, Zenon DEF TypeOK, ThreadTypeOK, Control, ThreadOK, Allocating, Replacing, Fetching, spaceVars
  <2>8. Control'
    BY <2>1, <2>4, <2>7, OneThread, Zenon DEF TypeOK, ThreadTypeOK, spaceVars
  <2>9. QED
    BY <2>6, <2>8, Zenon
<1>4. QED
  BY <1>2, <1>3, Zenon

\* Fault keeps the types and what the threads hold.
LEMMA FaultStep ==
    ASSUME TypeOK, Control, NEW t \in Threads, NEW v \in VPages, Fault(t, v)
    PROVE  TypeOK' /\ Control'
<1> DEFINE o == <<space[t], v>>
           p == layout[space[t]]
<1>1. o \in Owners /\ pte[o] \in Frames \cup {NULL}
  <2>1. space[t] \in Spaces
    BY SizesAssumption DEF Fault, Control, ThreadOK, TypeOK, SpaceTypeOK, Spaces
  <2>2. QED
    BY <2>1, Zenon DEF Owners, TypeOK, SpaceTypeOK
<1>2. CASE ~(SetUp(p) /\ v \in Region(p))
  <2>1. Panic("vm_fault") \/ Panic("kill_curthread")
    BY <1>2, Zenon DEF Fault
  <2>2. QED
    BY <2>1, PanicStep, Zenon DEF Fates
<1>3. CASE SetUp(p) /\ v \in Region(p)
  <2>1. /\ page' = [page EXCEPT ![t] = v]
        /\ \/ /\ pte[o] # NULL
              /\ pftRef' = [pftRef EXCEPT ![PftIndex(pte[o])] = TRUE]
              /\ paddr' = [paddr EXCEPT ![t] = pte[o]]
              /\ pc' = [pc EXCEPT ![t] = "map"]
              /\ UNCHANGED req
           \/ /\ req' = [req EXCEPT ![t] = <<<<v>>>>]
              /\ pc' = [pc EXCEPT ![t] = "alloc"]
              /\ UNCHANGED <<pftRef, paddr>>
        /\ UNCHANGED <<pftValid, pftOwner, ep_hand, rp_hand, spaceVars, swapVars, mem,
                       tlbVars, space, got, victim, cpuVars, last, fate>>
    BY <1>3, Zenon DEF Fault
  <2>2. pc[t] = "user"
    BY Zenon DEF Fault
  <2> DEFINE q == <<<<v>>>>
  <2>3. q \in Seq(Seq(VPages)) /\ q # <<>> /\ \A i \in DOMAIN q : q[i] # <<>>
    OBVIOUS
  <2> HIDE DEF o, p
  <2>4. PftTypeOK'
    BY <1>1, <2>1, PftIndexType, Zenon DEF TypeOK, PftTypeOK
  <2>5. ThreadTypeOK'
    <3> HIDE DEF q
    <3>1. req' = req \/ req' = [req EXCEPT ![t] = q]
      BY <2>1, Zenon DEF q
    <3>2. req' \in [Threads -> Seq(Seq(VPages))]
      BY <2>3, <3>1, Zenon DEF TypeOK, ThreadTypeOK
    <3>3. QED
      BY <1>1, <2>1, <3>2, Zenon DEF TypeOK, ThreadTypeOK, PCs
  <2>6. TypeOK'
    BY <2>1, <2>4, <2>5, SameType, Zenon DEF TypeOK
  <2>7. ThreadOK(t)'
    <3>1. space'[t] \in 1 .. created' /\ got'[t] = <<>> /\ page'[t] = v /\ v # NULL
      BY <2>1, <2>2, NullType, Zenon DEF TypeOK, ThreadTypeOK, Control, ThreadOK, spaceVars
    <3>2. \/ pc'[t] = "map" /\ paddr'[t] # NULL
          \/ pc'[t] = "alloc" /\ req'[t] = q
      BY <2>1, Zenon DEF TypeOK, ThreadTypeOK
    <3>3. QED
      BY <2>3, <3>1, <3>2, Zenon DEF ThreadOK, Allocating, Replacing, Fetching
  <2>8. Control'
    BY <2>1, <2>7, OneThread, Zenon DEF TypeOK, ThreadTypeOK, swapVars, spaceVars, HasSlot
  <2>9. QED
    BY <2>6, <2>8, Zenon
<1>4. QED
  BY <1>2, <1>3, Zenon

\* The frame get_physical_address was given for the faulting page.
LEMMA Fetched ==
    ASSUME TypeOK, Control, NEW t \in Threads, pc[t] \in Fetching
    PROVE  /\ page[t] \in VPages
           /\ Head(got[t])[1] = page[t]
           /\ Head(got[t])[2] \in Frames
           /\ space[t] \in Spaces
<1>1. page[t] \in VPages
  BY Zenon DEF TypeOK, ThreadTypeOK, Control, ThreadOK
<1>2. PICK f \in Frames : got[t] = <<<<page[t], f>>>>
  BY Zenon DEF Control, ThreadOK
<1>3. Head(got[t]) = <<page[t], f>>
  BY <1>2, Single, Zenon
<1>4. space[t] \in Spaces
  BY SizesAssumption DEF Fetching, Control, ThreadOK, TypeOK, SpaceTypeOK, Spaces
<1>5. QED
  BY <1>1, <1>3, <1>4

\* Install keeps the types and what the threads hold.
LEMMA InstallStep ==
    ASSUME TypeOK, Control, NEW t \in Threads, Install(t)
    PROVE  TypeOK' /\ Control'
<1> DEFINE v == Head(got[t])[1]
           f == Head(got[t])[2]
<1>1. v = page[t] /\ v \in VPages /\ f \in Frames /\ <<space[t], v>> \in Owners
  BY Fetched, Zenon DEF Install, Fetching, Owners
<1>2. CASE ~HasSlot(v)
  BY <1>2, PanicStep, Zenon DEF Install, Fates
<1>3. CASE HasSlot(v)
  <2>1. /\ AddPageEntry(<<space[t], v>>, f)
        /\ InsertTlbEntry(v, f)
        /\ pc' = [pc EXCEPT ![t] = "swap_in"]
        /\ UNCHANGED <<ep_hand, rp_hand, layout, created, swapVars, mem, space, req, got,
                       page, paddr, victim, cpuVars, last, fate>>
    BY <1>3, Zenon DEF Install
  <2>2. pc[t] = "install"
    BY Zenon DEF Install
  <2> HIDE DEF v, f
  <2>3. PftTypeOK' /\ SpaceTypeOK'
    BY <1>1, <2>1, AddPageEntryType, Zenon DEF TypeOK
  <2>4. TlbTypeOK'
    BY <1>1, <2>1, InsertTlbEntryType, Zenon DEF TypeOK
  <2>5. ThreadTypeOK'
    BY <2>1, Zenon DEF TypeOK, ThreadTypeOK, PCs
  <2>6. TypeOK'
    BY <2>1, <2>3, <2>4, <2>5, SameType, Zenon DEF TypeOK
  <2>7. HasSlot(page[t])'
    BY <1>1, <1>3, <2>1, Zenon DEF HasSlot, swapVars
  <2>8. ThreadOK(t)'
    BY <2>1, <2>2, <2>7, Zenon
    DEF TypeOK, ThreadTypeOK, Control, ThreadOK, Allocating, Replacing, Fetching
  <2>9. Control'
    BY <2>1, <2>8, OneThread, Zenon DEF TypeOK, ThreadTypeOK, swapVars, HasSlot
  <2>10. QED
    BY <2>6, <2>9, Zenon
<1>4. QED
  BY <1>2, <1>3, Zenon

\* SwapInSleeps keeps the types and what the threads hold.
LEMMA SwapInSleepsStep ==
    ASSUME TypeOK, Control, NEW t \in Threads, SwapInSleeps(t)
    PROVE  TypeOK' /\ Control'
<1>1. CpuTypeOK'
  BY Zenon DEF SwapInSleeps, TypeOK, CpuTypeOK
<1>2. QED
  BY <1>1, SameType, SameControl, Zenon DEF SwapInSleeps, TypeOK, swapVars

\* SwapInDone keeps the types and what the threads hold.
LEMMA SwapInDoneStep ==
    ASSUME TypeOK, Control, NEW t \in Threads, SwapInDone(t)
    PROVE  TypeOK' /\ Control'
<1> DEFINE v == Head(got[t])[1]
           f == Head(got[t])[2]
<1>1. v = page[t] /\ v \in VPages /\ f \in Frames
  BY Fetched, Zenon DEF SwapInDone, Fetching
<1>2. PICK s \in First(Slots(v)) : mem' = [mem EXCEPT ![f] = disk[s]]
  BY Zenon DEF SwapInDone
<1>3. disk[s] \in Data
  <2>1. s \in DOMAIN swapspace
    BY <1>2, Zenon DEF First, Slots
  <2>2. s \in 1 .. SWAP_SLOTS
    BY <2>1, SizesAssumption DEF TypeOK, SwapTypeOK
  <2>3. QED
    BY <2>2, Zenon DEF TypeOK, SwapTypeOK
<1>4. /\ mem' = [mem EXCEPT ![f] = disk[s]]
      /\ pc' = [pc EXCEPT ![t] = "swapped_in"]
      /\ runqueue' = MadeRunnable(t)
      /\ UNCHANGED <<pftVars, spaceVars, swapVars, tlbVars, space, req, got, page, paddr, victim,
                     cur, ticks, stealmem_lock, last, fate>>
      /\ pc[t] = "swap_in"
  BY <1>2, Zenon DEF SwapInDone
<1> HIDE DEF v, f
<1>5. DataTypeOK'
  BY <1>3, <1>4, Zenon DEF TypeOK, DataTypeOK
<1>6. CpuTypeOK'
  BY <1>4, MadeRunnableType, Zenon DEF TypeOK, CpuTypeOK
<1>7. ThreadTypeOK'
  BY <1>4, Zenon DEF TypeOK, ThreadTypeOK, PCs
<1>8. TypeOK'
  BY <1>4, <1>5, <1>6, <1>7, SameType, Zenon DEF TypeOK
<1>9. ThreadOK(t)'
  BY <1>4, Zenon DEF TypeOK, ThreadTypeOK, Control, ThreadOK, Allocating, Replacing, Fetching, spaceVars
<1>10. Control'
  BY <1>4, <1>9, OneThread, Zenon DEF TypeOK, ThreadTypeOK, spaceVars, swapVars, HasSlot
<1>11. QED
  BY <1>8, <1>10, Zenon

\* PageIn keeps the types and what the threads hold.
LEMMA PageInStep ==
    ASSUME TypeOK, Control, NEW t \in Threads, PageIn(t)
    PROVE  TypeOK' /\ Control'
<1> DEFINE o == <<space[t], page[t]>>
           f == Head(got[t])[2]
<1>1. f \in Frames /\ f # NULL /\ o \in Owners /\ page[t] # NULL
  BY Fetched, NullType, Zenon DEF PageIn, Fetching, Owners
<1>2. /\ pftRef' = [pftRef EXCEPT ![PftIndex(f)] = TRUE]
      /\ paddr' = [paddr EXCEPT ![t] = f]
      /\ last' = [last EXCEPT ![o] = IF @ = NULL THEN mem[f] ELSE @]
      /\ got' = [got EXCEPT ![t] = <<>>]
      /\ pc' = [pc EXCEPT ![t] = "map"]
      /\ UNCHANGED <<pftValid, pftOwner, ep_hand, rp_hand, spaceVars, swapVars, mem, tlbVars, space,
                     req, page, victim, cpuVars, fate>>
      /\ pc[t] = "swapped_in"
  BY Zenon DEF PageIn
<1> HIDE DEF o, f
<1>3. PftTypeOK'
  BY <1>1, <1>2, PftIndexType, Zenon DEF TypeOK, PftTypeOK
<1>4. DataTypeOK'
  BY <1>1, <1>2, Zenon DEF TypeOK, DataTypeOK
<1>5. ThreadTypeOK'
  BY <1>1, <1>2 DEF TypeOK, ThreadTypeOK, PCs
<1>6. TypeOK'
  BY <1>2, <1>3, <1>4, <1>5, SameType, Zenon DEF TypeOK
<1>7. ThreadOK(t)'
  BY <1>1, <1>2, Zenon DEF TypeOK, ThreadTypeOK, Control, ThreadOK, Allocating, Replacing, Fetching, spaceVars
<1>8. Control'
  BY <1>2, <1>7, OneThread, Zenon DEF TypeOK, ThreadTypeOK, spaceVars, swapVars, HasSlot
<1>9. QED
  BY <1>6, <1>8, Zenon

\* Map keeps the types and what the threads hold.
LEMMA MapStep ==
    ASSUME TypeOK, Control, NEW t \in Threads, Map(t)
    PROVE  TypeOK' /\ Control'
<1>1. page[t] \in VPages /\ paddr[t] \in Frames
  BY Zenon DEF Map, TypeOK, ThreadTypeOK, Control, ThreadOK
<1>2. TlbTypeOK'
  BY <1>1, InsertTlbEntryType, Zenon DEF Map, TypeOK
<1>3. ThreadTypeOK'
  BY Zenon DEF Map, TypeOK, ThreadTypeOK, PCs
<1>4. TypeOK'
  BY <1>2, <1>3, SameType, Zenon DEF Map, TypeOK
<1>5. ThreadOK(t)'
  BY Zenon DEF Map, TypeOK, ThreadTypeOK, Control, ThreadOK, Allocating, Replacing, Fetching, spaceVars
<1>6. Control'
  BY <1>5, OneThread, Zenon DEF Map, TypeOK, ThreadTypeOK, spaceVars, swapVars, HasSlot
<1>7. QED
  BY <1>4, <1>6, Zenon

\* Store keeps the types and what the threads hold.
LEMMA StoreStep ==
    ASSUME TypeOK, Control, NEW t \in Threads, NEW v \in VPages, NEW d \in Data, Store(t, v, d)
    PROVE  TypeOK' /\ Control'
<1>1. /\ mem' = [mem EXCEPT ![tlb[Least(Probe(v))][2]] = d]
      /\ last' = [last EXCEPT ![<<space[t], v>>] = d]
      /\ UNCHANGED <<pftVars, spaceVars, swapVars, tlbVars, threadVars, cpuVars, fate>>
  BY Zenon DEF Store
<1>2. DataTypeOK'
  BY <1>1, Zenon DEF TypeOK, DataTypeOK
<1>3. QED
  BY <1>1, <1>2, SameType, SameControl, Zenon DEF TypeOK, swapVars

\* Wait keeps the types and what the threads hold.
LEMMA WaitStep ==
    ASSUME TypeOK, Control, NEW t \in Threads, Wait(t)
    PROVE  TypeOK' /\ Control'
<1>1. CpuTypeOK'
  BY Zenon DEF Wait, TypeOK, CpuTypeOK
<1>2. ThreadTypeOK'
  BY Zenon DEF Wait, TypeOK, ThreadTypeOK, PCs
<1>3. TypeOK'
  BY <1>1, <1>2, SameType, Zenon DEF Wait, TypeOK
<1>4. ThreadOK(t)'
  BY Zenon DEF Wait, TypeOK, ThreadTypeOK, Control, ThreadOK, Allocating, Replacing, Fetching, spaceVars
<1>5. Control'
  BY <1>4, OneThread, Zenon DEF Wait, TypeOK, ThreadTypeOK, spaceVars, swapVars, HasSlot
<1>6. QED
  BY <1>3, <1>5, Zenon

\* Wake keeps the types and what the threads hold.
LEMMA WakeStep ==
    ASSUME TypeOK, Control, NEW t \in Threads, Wake(t)
    PROVE  TypeOK' /\ Control'
<1>1. CpuTypeOK'
  BY MadeRunnableType, Zenon DEF Wake, TypeOK, CpuTypeOK
<1>2. ThreadTypeOK'
  BY Zenon DEF Wake, TypeOK, ThreadTypeOK, PCs
<1>3. TypeOK'
  BY <1>1, <1>2, SameType, Zenon DEF Wake, TypeOK
<1>4. ThreadOK(t)'
  BY Zenon DEF Wake, TypeOK, ThreadTypeOK, Control, ThreadOK, Allocating, Replacing, Fetching, spaceVars
<1>5. Control'
  BY <1>4, OneThread, Zenon DEF Wake, TypeOK, ThreadTypeOK, spaceVars, swapVars, HasSlot
<1>6. QED
  BY <1>3, <1>5, Zenon

\* Exit keeps the types and what the threads hold.
LEMMA ExitStep ==
    ASSUME TypeOK, Control, NEW t \in Threads, Exit(t)
    PROVE  TypeOK' /\ Control'
<1>1. PftTypeOK'
  <2>1. pftValid' \in [TableIndex -> BOOLEAN]
    <3> DEFINE keeps(i) == /\ pftValid[i]
                           /\ \A v \in VPages : LET f == pte[<<space[t], v>>]
                                                IN  f # NULL => PftIndex(f) # i
    <3>1. pftValid' = [i \in TableIndex |-> keeps(i)]
      BY Zenon DEF Exit
    <3>2. \A i \in TableIndex : keeps(i) \in BOOLEAN
      BY Zenon
    <3> HIDE DEF keeps
    <3>3. QED
      BY <3>1, <3>2, Zenon
  <2>2. QED
    BY <2>1, Zenon DEF Exit, TypeOK, PftTypeOK
<1>2. TlbTypeOK'
  BY ActivatedType, Zenon DEF Exit, TypeOK, TlbTypeOK
<1>3. CpuTypeOK'
  BY Zenon DEF Exit, TypeOK, CpuTypeOK
<1>4. ThreadTypeOK'
  BY NoSpace, Zenon DEF Exit, TypeOK, ThreadTypeOK, PCs
<1>5. DataTypeOK'
  BY Zenon DEF Exit, TypeOK, DataTypeOK
<1>6. TypeOK'
  BY <1>1, <1>2, <1>3, <1>4, <1>5, SameType, Zenon DEF Exit, TypeOK
<1>7. ThreadOK(t)'
  BY Zenon DEF Exit, TypeOK, ThreadTypeOK, Control, ThreadOK, Allocating, Replacing, Fetching, spaceVars
<1>8. Control'
  BY <1>7, OneThread, Zenon DEF Exit, TypeOK, ThreadTypeOK, spaceVars, swapVars, HasSlot
<1>9. QED
  BY <1>6, <1>8, Zenon

-----------------------------------------------------------------------------
(* Type correctness. *)

\* The machine starts with values of the right kinds.
LEMMA InitTypes == Init => TypeOK /\ Control /\ NoneReferenced
<1> SUFFICES ASSUME Init PROVE TypeOK /\ Control /\ NoneReferenced
  BY Zenon
<1>1. PftTypeOK
  <2>1. 0 \in FrameIndex /\ CLOCK_ANGLE \in FrameIndex
    BY FramesAssumption, AngleAssumption DEF FrameIndex
  <2>2. QED
    BY <2>1, Zenon DEF Init, PftTypeOK
<1>2. SpaceTypeOK /\ CpuTypeOK
  BY SizesAssumption DEF Init, SpaceTypeOK, CpuTypeOK
<1>3. SwapTypeOK
  BY SizesAssumption, DataAssumption DEF Init, SwapTypeOK
<1>4. TlbTypeOK
  BY SizesAssumption DEF Init, TlbTypeOK, EmptyTlb, TlbSlots
<1>5. ThreadTypeOK
  <2>1. <<>> \in Seq(Seq(VPages)) /\ <<>> \in Seq(VPages \X (Frames \cup {Wild}))
    OBVIOUS
  <2>2. QED
    BY <2>1, NoSpace, Zenon DEF Init, ThreadTypeOK, PCs
<1>6. DataTypeOK
  BY DataAssumption, Zenon DEF Init, DataTypeOK, Fates
<1>7. Control
  <2>1. 1 .. 0 = {}
    OBVIOUS
  <2>2. \A t \in Threads : ThreadOK(t)
    BY Zenon DEF Init, ThreadOK, Allocating, Replacing, Fetching
  <2>3. QED
    BY <2>1, <2>2, Zenon DEF Init, Control
<1>8. NoneReferenced
  BY TableIndexType, Zenon DEF Init, NoneReferenced
<1>9. QED
  BY <1>1, <1>2, <1>3, <1>4, <1>5, <1>6, <1>7, <1>8, Zenon DEF TypeOK

\* Clearing a reference bit sets none.
LEMMA StillClear ==
    ASSUME TypeOK, NoneReferenced, NEW k, pftRef' = [pftRef EXCEPT ![k] = FALSE]
    PROVE  NoneReferenced'
BY TableIndexType, Zenon DEF TypeOK, PftTypeOK, NoneReferenced

\* The bit that get_physical_address sets for a frame is not one that the clock looks at.
LEMMA SetElsewhere ==
    ASSUME TypeOK, NoneReferenced, NEW f \in Frames, pftRef' = [pftRef EXCEPT ![PftIndex(f)] = TRUE]
    PROVE  NoneReferenced'
<1>1. PftIndex(f) \notin FrameIndex
  BY KernelBelowFrames, FramesAssumption DEF PftIndex, physical_base_addr, Frames, FrameIndex
<1>2. QED
  BY <1>1, TableIndexType, Zenon DEF TypeOK, PftTypeOK, NoneReferenced

\* get_physical_address for a page in memory marks its frame.
LEMMA FaultReferences ==
    ASSUME TypeOK, NoneReferenced, NEW t \in Threads, NEW v \in VPages, Fault(t, v),
           space[t] \in Spaces
    PROVE  NoneReferenced'
<1> DEFINE p == layout[space[t]]
           f == pte[<<space[t], v>>]
<1>1. CASE pftRef' = pftRef
  BY <1>1, Zenon DEF NoneReferenced
<1>2. CASE ~(SetUp(p) /\ v \in Region(p))
  <2>1. Panic("vm_fault") \/ Panic("kill_curthread")
    BY <1>2, Zenon DEF Fault
  <2>2. QED
    BY <1>1, <2>1, Zenon DEF Panic, pftVars
<1>3. CASE SetUp(p) /\ v \in Region(p)
  <2>1. f \in Frames \cup {NULL}
    BY Zenon DEF TypeOK, SpaceTypeOK, Owners
  <2>2. pftRef' = pftRef \/ (f # NULL /\ pftRef' = [pftRef EXCEPT ![PftIndex(f)] = TRUE])
    BY <1>3, Zenon DEF Fault
  <2>3. QED
    BY <1>1, <2>1, <2>2, SetElsewhere, Zenon
<1>4. QED
  BY <1>2, <1>3, Zenon

\* Every step keeps the clock's reference bits clear.
LEMMA NextReferenced == TypeOK /\ Control /\ NoneReferenced /\ [Next]_vars => NoneReferenced'
<1> SUFFICES ASSUME TypeOK, Control, NoneReferenced, [Next]_vars PROVE NoneReferenced'
  BY Zenon
<1>1. CASE pftRef' = pftRef
  BY <1>1, Zenon DEF NoneReferenced
<1>2. CASE Schedule
  BY <1>1, <1>2, Zenon DEF Schedule, Dispatch, Preempt, pftVars
<1>3. ASSUME NEW t \in Threads, KernelStep(t) PROVE NoneReferenced'
  <2>1. ASSUME NEW reason, Panic(reason) PROVE NoneReferenced'
    BY <1>1, <2>1, Zenon DEF Panic, pftVars
  <2>2. CASE AllocFree(t) \/ AddPage(t) \/ Install(t)
    <3>1. (\E k : pftRef' = [pftRef EXCEPT ![k] = FALSE]) \/ \E reason : Panic(reason)
      BY <2>2, Zenon DEF AllocFree, AddPage, Install, AddPageEntry
    <3>2. QED
      BY <2>1, <3>1, StillClear, Zenon
  <2>3. CASE AllocReplace(t)
    <3> DEFINE r == SecondChance(pftRef, ep_hand, rp_hand)
    <3>1. \A i \in FrameIndex : ~r.ref[i]
      BY Chosen, Zenon
    <3>2. pftRef' = r.ref \/ \E reason : Panic(reason)
      BY <2>3, Zenon DEF AllocReplace
    <3> HIDE DEF r
    <3>3. QED
      BY <2>1, <3>1, <3>2, Zenon DEF NoneReferenced
  <2>4. CASE PageIn(t)
    BY <2>4, Fetched, SetElsewhere, Zenon DEF PageIn, Fetching
  <2>5. QED
    BY <1>1, <1>3, <2>1, <2>2, <2>3, <2>4, Zenon
    DEF KernelStep, Start, LoadFails, AllocSpins, SwapOutDone, ReplaceDone, LoadAs, SwapInSleeps,
        SwapInDone, Map, Wake, pftVars
<1>4. ASSUME NEW t \in Threads, UserStep(t) PROVE NoneReferenced'
  <2>1. ASSUME NEW v \in VPages, Fault(t, v) PROVE NoneReferenced'
    <3>1. space[t] \in Spaces
      BY <2>1, SizesAssumption DEF Fault, Control, ThreadOK, TypeOK, SpaceTypeOK, Spaces
    <3>2. QED
      BY <2>1, <3>1, FaultReferences, Zenon
  <2>2. QED
    BY <1>1, <1>4, <2>1, Zenon DEF UserStep, Launch, Store, Wait, Exit, Panic, pftVars
<1>5. QED
  BY <1>1, <1>2, <1>3, <1>4, Zenon DEF Next, vars, pftVars

\* Every step keeps the types, Control and the clear bits together.
LEMMA NextTypes ==
    TypeOK /\ Control /\ NoneReferenced /\ [Next]_vars => TypeOK' /\ Control' /\ NoneReferenced'
<1> SUFFICES ASSUME TypeOK, Control, NoneReferenced, [Next]_vars PROVE TypeOK' /\ Control'
  BY NextReferenced, Zenon
<1>1. CASE UNCHANGED vars
  BY <1>1, SameType, SameControl, Zenon DEF vars, TypeOK, swapVars
<1>2. CASE Schedule
  BY <1>2, DispatchStep, PreemptStep, Zenon DEF Schedule
<1>3. ASSUME NEW t \in Threads, KernelStep(t) PROVE TypeOK' /\ Control'
  BY <1>3, StartStep, LoadFailsStep, AllocSpinsStep, AllocFreeStep, AllocReplaceStep, SwapOutDoneStep,
     ReplaceDoneStep, AddPageStep, LoadAsStep, InstallStep, SwapInSleepsStep, SwapInDoneStep,
     PageInStep, MapStep, WakeStep, Zenon DEF KernelStep
<1>4. ASSUME NEW t \in Threads, UserStep(t) PROVE TypeOK' /\ Control'
  BY <1>4, LaunchStep, FaultStep, StoreStep, WaitStep, ExitStep, Zenon DEF UserStep
<1>5. QED
  BY <1>1, <1>2, <1>3, <1>4, Zenon DEF Next

\* Type invariant of the paging code: for any number of threads, frames, slots and programs, the
\* tables of addrspace.c and swapspace.c hold entries of the right kind, the hands stay inside
\* pft.table and last_tlb_entry inside the TLB.
THEOREM TypeCorrect == Spec => []TypeOK
<1>1. Spec => [](TypeOK /\ Control /\ NoneReferenced)
  BY InitTypes, NextTypes, PTL DEF Spec
<1>2. QED
  BY <1>1, PTL

\* The reference bits that second_chance_replace tests are never set, whatever the programs touch:
\* get_physical_address marks other entries of pft.table.
THEOREM ReferencesUnseen == Spec => []NoneReferenced
<1>1. Spec => [](TypeOK /\ Control /\ NoneReferenced)
  BY InitTypes, NextTypes, PTL DEF Spec
<1>2. QED
  BY <1>1, PTL

-----------------------------------------------------------------------------
(* The hands. *)

\* Every step keeps the hands of the clock CLOCK_ANGLE apart.
LEMMA NextHands == TypeOK /\ NoneReferenced /\ HandsApart /\ [Next]_vars => HandsApart'
<1> SUFFICES ASSUME TypeOK, NoneReferenced, HandsApart, [Next]_vars PROVE HandsApart'
  BY Zenon
<1>1. CASE UNCHANGED <<ep_hand, rp_hand>>
  BY <1>1, Zenon DEF HandsApart
<1>2. ASSUME NEW t \in Threads, AllocReplace(t) PROVE HandsApart'
  <2> DEFINE r == SecondChance(pftRef, ep_hand, rp_hand)
  <2>1. r.rp = Advance(r.ep, CLOCK_ANGLE)
    <3>1. r.ep = Advance(ep_hand, 1) /\ r.rp = Advance(rp_hand, 1)
      BY Chosen, Zenon
    <3>2. ep_hand \in FrameIndex /\ rp_hand = Advance(ep_hand, CLOCK_ANGLE) /\ CLOCK_ANGLE \in Nat
      BY AngleAssumption, Zenon DEF TypeOK, PftTypeOK, HandsApart
    <3>3. /\ Advance(Advance(ep_hand, CLOCK_ANGLE), 1) = Advance(ep_hand, CLOCK_ANGLE + 1)
          /\ Advance(Advance(ep_hand, 1), CLOCK_ANGLE) = Advance(ep_hand, 1 + CLOCK_ANGLE)
      <4>1. ep_hand \in Nat /\ 1 \in Nat
        BY <3>2, NextHand
      <4>2. Advance(Advance(ep_hand, CLOCK_ANGLE), 1) = Advance(ep_hand, CLOCK_ANGLE + 1)
        BY <3>2, <4>1, AdvanceTwice
      <4>3. Advance(Advance(ep_hand, 1), CLOCK_ANGLE) = Advance(ep_hand, 1 + CLOCK_ANGLE)
        BY <3>2, <4>1, AdvanceTwice
      <4>4. QED
        BY <4>2, <4>3, Zenon
    <3>4. CLOCK_ANGLE + 1 = 1 + CLOCK_ANGLE
      BY <3>2
    <3> HIDE DEF r
    <3>5. QED
      BY <3>1, <3>2, <3>3, <3>4, Zenon
  <2>2. (ep_hand' = r.ep /\ rp_hand' = r.rp) \/ UNCHANGED <<ep_hand, rp_hand>>
    BY <1>2, Zenon DEF AllocReplace, Panic, pftVars
  <2> HIDE DEF r
  <2>3. QED
    BY <1>1, <2>1, <2>2, Zenon DEF HandsApart
<1>3. CASE Schedule
  BY <1>1, <1>3, Zenon DEF Schedule, Dispatch, Preempt, pftVars
<1>4. ASSUME NEW t \in Threads, KernelStep(t) PROVE HandsApart'
  BY <1>1, <1>2, <1>4, Zenon
  DEF KernelStep, Start, LoadFails, AllocSpins, AllocFree, SwapOutDone, ReplaceDone, AddPage, LoadAs,
      Install, SwapInSleeps, SwapInDone, PageIn, Map, Wake, Panic, pftVars
<1>5. ASSUME NEW t \in Threads, UserStep(t) PROVE HandsApart'
  <2>1. ASSUME NEW v \in VPages, Fault(t, v) PROVE UNCHANGED <<ep_hand, rp_hand>>
    <3> DEFINE p == layout[space[t]]
    <3>1. CASE ~(SetUp(p) /\ v \in Region(p))
      <4>1. Panic("vm_fault") \/ Panic("kill_curthread")
        BY <2>1, <3>1, Zenon DEF Fault
      <4>2. QED
        BY <4>1, Zenon DEF Panic, pftVars
    <3>2. CASE SetUp(p) /\ v \in Region(p)
      BY <2>1, <3>2, Zenon DEF Fault
    <3>3. QED
      BY <3>1, <3>2, Zenon
  <2>2. QED
    BY <1>1, <1>5, <2>1, Zenon DEF UserStep, Launch, Store, Wait, Exit, Panic, pftVars
<1>6. QED
  BY <1>1, <1>3, <1>4, <1>5, Zenon DEF Next, vars, pftVars

\* In the running kernel, where second_chance_replace meets threads, faults and exits, its two
\* hands keep CLOCK_ANGLE frames between them.
THEOREM HandsStayApart == Spec => []HandsApart
<1>1. Init => HandsApart
  BY FramesAssumption, AngleAssumption DEF Init, HandsApart, Advance
<1>2. QED
  BY <1>1, NextHands, TypeCorrect, ReferencesUnseen, PTL DEF Spec

-----------------------------------------------------------------------------
(* The spinlock. *)

\* A step of t that leaves the lock alone and does not go near the code it protects.
LEMMA LockKept ==
    ASSUME TypeOK, OneReplacement, NEW t \in Threads,
           stealmem_lock' = stealmem_lock,
           \E x : pc' = [pc EXCEPT ![t] = x] /\ x \notin Replacing,
           stealmem_lock = t => pc'[t] = "alloc"
    PROVE  OneReplacement'
BY Zenon DEF TypeOK, ThreadTypeOK, OneReplacement, Replacing

\* Every step keeps the replacements apart.
LEMMA NextReplacement == TypeOK /\ OneReplacement /\ [Next]_vars => OneReplacement'
<1> SUFFICES ASSUME TypeOK, OneReplacement, [Next]_vars PROVE OneReplacement'
  BY Zenon
<1>1. CASE UNCHANGED <<pc, stealmem_lock>>
  BY <1>1, Zenon DEF OneReplacement
<1>2. ASSUME NEW reason, Panic(reason) PROVE OneReplacement'
  BY <1>1, <1>2, Zenon DEF Panic, threadVars, cpuVars
<1>3. CASE Schedule
  BY <1>1, <1>3, Zenon DEF Schedule, Dispatch, Preempt, threadVars
<1>4. ASSUME NEW t \in Threads, KernelStep(t) PROVE OneReplacement'
  <2>1. ASSUME NEW x, x \in {"alloc", "add", "install"}, stealmem_lock \in {NULL, t},
               pc' = [pc EXCEPT ![t] = x],
               stealmem_lock' = NULL \/ (stealmem_lock' = t /\ x = "alloc")
        PROVE  OneReplacement'
    BY <2>1, NullType DEF TypeOK, ThreadTypeOK, OneReplacement
  <2>2. ASSUME NEW q PROVE AfterAlloc(t, q) \in {"alloc", "add", "install"}
    BY Zenon DEF AfterAlloc
  <2>3. CASE AllocFree(t)
    BY <2>1, <2>2, <2>3, Zenon DEF AllocFree, LockFree
  <2>4. CASE ReplaceDone(t)
    <3> DEFINE x == IF Len(Head(req[t])) > 1 THEN "alloc" ELSE AfterAlloc(t, Tail(req[t]))
    <3>1. stealmem_lock = t
      BY <2>4, Zenon DEF ReplaceDone, OneReplacement
    <3>2. /\ pc' = [pc EXCEPT ![t] = x]
          /\ stealmem_lock' = NULL \/ (stealmem_lock' = t /\ x = "alloc")
      BY <2>4, Zenon DEF ReplaceDone
    <3>3. x \in {"alloc", "add", "install"}
      BY <2>2, Zenon
    <3> HIDE DEF x
    <3>4. QED
      BY <2>1, <3>1, <3>2, <3>3, Zenon
  <2>5. CASE AllocReplace(t)
    <3>1. CASE pc' = [pc EXCEPT ![t] = "swap_out"] /\ stealmem_lock' = t
      BY <2>5, <3>1, NullType, Zenon DEF AllocReplace, LockFree, TypeOK, ThreadTypeOK, OneReplacement
    <3>2. QED
      BY <1>2, <2>5, <3>1, Zenon DEF AllocReplace
  <2>6. CASE SwapOutDone(t)
    BY <2>6, Zenon DEF SwapOutDone, TypeOK, ThreadTypeOK, OneReplacement
  <2>7. CASE Start(t) \/ LoadFails(t) \/ Wake(t)
    <3>1. \/ Panic("spinlock_acquire")
          \/ /\ pc[t] \in {"start", "wait"}
             /\ \E x \in {"alloc", "none", "user"} : pc' = [pc EXCEPT ![t] = x]
             /\ stealmem_lock' = stealmem_lock
      BY <2>7, Zenon DEF Start, LoadFails, Wake, cpuVars
    <3>2. QED
      BY <1>2, <3>1, LockKept, Zenon DEF OneReplacement, Replacing
  <2>8. CASE AllocSpins(t) \/ AddPage(t) \/ SwapInSleeps(t)
    BY <1>1, <1>2, <2>8, Zenon DEF AllocSpins, AddPage, SwapInSleeps, cpuVars, threadVars
  <2>9. CASE LoadAs(t) \/ Install(t)
    BY <1>2, <2>9, LockKept, Zenon DEF LoadAs, Install, OneReplacement, Replacing, cpuVars
  <2>10. CASE SwapInDone(t) \/ PageIn(t) \/ Map(t)
    <3>1. /\ pc[t] \in {"swap_in", "swapped_in", "map"}
          /\ \E x \in {"swapped_in", "map", "user"} : pc' = [pc EXCEPT ![t] = x]
          /\ stealmem_lock' = stealmem_lock
      BY <2>10, Zenon DEF SwapInDone, PageIn, Map, cpuVars
    <3>2. QED
      BY <3>1, LockKept, Zenon DEF OneReplacement, Replacing
  <2>11. QED
    BY <1>4, <2>3, <2>4, <2>5, <2>6, <2>7, <2>8, <2>9, <2>10, ZenonT(30) DEF KernelStep
<1>5. ASSUME NEW t \in Threads, UserStep(t) PROVE OneReplacement'
  <2>1. ASSUME NEW p \in Programs, Launch(t, p) PROVE OneReplacement'
    BY <1>2, <2>1, LockKept, Zenon DEF Launch, OneReplacement, Replacing
  <2>2. ASSUME NEW v \in VPages, Fault(t, v) PROVE OneReplacement'
    <3>1. \/ Panic("vm_fault") \/ Panic("kill_curthread")
          \/ /\ pc' = [pc EXCEPT ![t] = "map"] \/ pc' = [pc EXCEPT ![t] = "alloc"]
             /\ UNCHANGED cpuVars
      BY <2>2, Zenon DEF Fault
    <3>2. pc[t] = "user"
      BY <2>2, Zenon DEF Fault
    <3>3. QED
      BY <1>2, <3>1, <3>2, LockKept, Zenon DEF OneReplacement, Replacing, cpuVars
  <2>3. ASSUME NEW v \in VPages, NEW d \in Data, Store(t, v, d) PROVE OneReplacement'
    BY <1>1, <2>3, Zenon DEF Store, threadVars, cpuVars
  <2>4. CASE Wait(t) \/ Exit(t)
    <3>1. /\ pc[t] = "user"
          /\ \E x \in {"wait", "none"} : pc' = [pc EXCEPT ![t] = x]
          /\ stealmem_lock' = stealmem_lock
      BY <2>4, Zenon DEF Wait, Exit
    <3>2. QED
      BY <3>1, LockKept, Zenon DEF OneReplacement, Replacing
  <2>5. QED
    BY <1>5, <2>1, <2>2, <2>3, <2>4, Zenon DEF UserStep
<1>6. QED
  BY <1>1, <1>3, <1>4, <1>5, Zenon DEF Next, vars, threadVars, cpuVars

\* At the start nobody holds the spinlock and nobody is past AllocReplace.
LEMMA InitReplacement == Init => OneReplacement
<1> SUFFICES ASSUME Init PROVE OneReplacement
  OBVIOUS
<1>1. stealmem_lock = NULL /\ \A t \in Threads : pc[t] = "none"
  BY Zenon DEF Init
<1>2. \A t \in Threads : pc[t] \notin {"swap_out", "swapped_out"} /\ stealmem_lock # t
  BY <1>1, NullType, Zenon
<1>3. QED
  BY <1>2, Zenon DEF OneReplacement

\* The spinlock virtual_alloc_kpages holds across the sleep in swap_out keeps every other thread
\* out of frame replacement, however many threads there are and wherever they are preempted.
THEOREM ReplacementExcludes == Spec => []OneReplacement
<1>1. Init => OneReplacement
  BY InitReplacement
<1>2. QED
  BY <1>1, NextReplacement, TypeCorrect, PTL DEF Spec
=============================================================================
