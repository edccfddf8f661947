--------------------------- MODULE VirtualMemory ---------------------------
(***************************************************************************)
(* Demand paging as kern/vm/addrspace.c and kern/vm/swapspace.c do it, in  *)
(* the ASST0 kernel on one CPU: the page frame table, the page tables, the *)
(* swap disk, the TLB, and the threads that load and run programs on them. *)
(*                                                                         *)
(* A step ends where the CPU can go to another thread: at a disk transfer, *)
(* which puts the thread to sleep, and where interrupts are on, so that    *)
(* the timer can preempt it.                                               *)
(***************************************************************************)
EXTENDS ClockPolicies, Sequences

CONSTANTS
    FirstFrame,       \* page number of the memory getppages gave the table
    NUM_TLB,          \* entries of the TLB (64)
    SWAP_SLOTS,       \* swapspace_size: pages of lhd0raw
    INIT_STACKPAGES,  \* pages of the stack region (12)
    MaxRegionPages,   \* bound: pages of the largest region
    Programs,         \* executables, as [npages1 |-> m, npages2 |-> n]
    MaxSpaces,        \* bound: address spaces created since boot
    MaxTicks,         \* bound: timer interrupts that preempt a thread inside the kernel
    Threads,          \* threads that run programs for the menu
    Data, Zero,       \* contents of a page; a zeroed page
    NULL

Spaces   == 1 .. MaxSpaces
Segments == {"seg1", "seg2", "stack"}
VPages   == Segments \X (0 .. MaxRegionPages - 1)   \* "stack", i: i-th page from the top
Owners   == Spaces \X VPages
Frames   == FirstFrame .. FirstFrame + MAX_PM_SIZE - 1
TlbSlots == 0 .. NUM_TLB - 1

\* What virtual_alloc_kpages leaves in the p_list elements it never assigns.
Wild == FirstFrame + MAX_PM_SIZE

ASSUME KernelBelowFrames == FirstFrame \in Nat /\ MAX_PM_SIZE <= FirstFrame

ASSUME SizesAssumption ==
    /\ NUM_TLB \in Nat \ {0}
    /\ SWAP_SLOTS \in Nat
    /\ MaxRegionPages \in Nat \ {0}
    /\ INIT_STACKPAGES \in 1 .. MaxRegionPages
    /\ MaxSpaces \in Nat
    /\ MaxTicks \in Nat

ASSUME ProgramsAssumption ==
    Programs \subseteq [npages1 : 1 .. MaxRegionPages, npages2 : 0 .. MaxRegionPages]

ASSUME DataAssumption == Zero \in Data /\ NULL \notin Data

ASSUME NullAssumption ==
    NULL \notin Threads \cup Frames \cup VPages \cup Owners \cup (VPages \X Frames) \cup (Frames \X Owners)

VARIABLES
    pftValid, pftRef, pftOwner,  \* pft.table[i].valid_bit, .ref_bit, <<.p_space, .virtual_addr>>
    ep_hand, rp_hand,            \* the two hands of second_chance_replace
    pte,                         \* page tables: the frame of each valid entry, NULL for the others
    layout, created,             \* as_npages1, as_npages2 of each address space; as_create calls
    swapspace, disk,             \* virtual_addr of the slots in use; contents of lhd0raw
    mem,                         \* contents of the frames
    tlb, last_tlb_entry,
    ticks,                       \* preemptions inside the kernel so far
    stealmem_lock,               \* the thread that took the spinlock
    cur, runqueue,               \* curthread, NULL when the CPU idles; c_runqueue
    pc, space,                   \* where each thread is; its t_addrspace
    req, got,                    \* pages still to be given frames; <<page, frame>> pairs of p_list
    page, paddr,                 \* faulting page; the frame get_physical_address returned
    victim,                      \* frame and owner of the page being replaced
    last,                        \* history: what each page last held for its program
    fate                         \* "up", or what the kernel died of

pftVars    == <<pftValid, pftRef, pftOwner, ep_hand, rp_hand>>
spaceVars  == <<pte, layout, created>>
swapVars   == <<swapspace, disk>>
tlbVars    == <<tlb, last_tlb_entry>>
threadVars == <<pc, space, req, got, page, paddr, victim>>
cpuVars    == <<cur, runqueue, ticks, stealmem_lock>>
vars == <<pftVars, spaceVars, swapVars, mem, tlbVars, threadVars, cpuVars, last, fate>>

-----------------------------------------------------------------------------
(* Regions of a program and the order in which its pages are handed out.   *)

Pages(segment, n) == [i \in 1 .. n |-> <<segment, i - 1>>]

Region(p) ==
    {<<"seg1", i>>  : i \in 0 .. p.npages1 - 1} \cup
    {<<"seg2", i>>  : i \in 0 .. p.npages2 - 1} \cup
    {<<"stack", i>> : i \in 0 .. INIT_STACKPAGES - 1}

\* as_prepare_load: all of segment 1, one page of segment 2, one of the stack.
LoadRequests(p) == <<Pages("seg1", p.npages1), Pages("seg2", 1), Pages("stack", 1)>>

\* Variant: only the stack pages that as_prepare_load maps get a slot.
SwapPagesMapped(p) ==
    Pages("seg1", p.npages1) \o Pages("seg2", 1) \o Pages("stack", 1)

\* swapspace_load_as
SwapPages(p) ==
    Pages("seg1", p.npages1) \o Pages("seg2", p.npages2) \o Pages("stack", INIT_STACKPAGES)

\* The KASSERTs of vm_fault on the two regions.
SetUp(p) == p.npages1 # 0 /\ p.npages2 # 0

-----------------------------------------------------------------------------
(* The page frame table.  page_frame_table_bootstrap stores the address of *)
(* the frames in a local variable that hides the global one, so the global *)
(* keeps its initial value, and code that subtracts it indexes pft.table   *)
(* with the number of the frame in physical memory.                        *)

physical_base_addr == 0
PftIndex(f)  == f - physical_base_addr
FrameAddr(i) == FirstFrame + i
TableIndex   == 0 .. FirstFrame + MAX_PM_SIZE - 1

\* Variant: ref_bit is taken for valid_bit.
FreeIndexesByRef == {i \in FrameIndex : ~pftRef[i]}

FreeIndexes == {i \in FrameIndex : ~pftValid[i]}

\* The index at which a loop over the indexes in S, from the lowest up, stops first.
First(S) == {i \in S : \A j \in S : i <= j}

\* Variant: the page stays mapped.
StillMapped(o) == pte

\* The entry of the page whose frame is taken loses its valid_bit.
Unmapped(o) == [pte EXCEPT ![o] = NULL]

\* Variant: the frame keeps the owner it had.
AddPageEntryOldOwner(o, f) ==
    /\ pte'      = [pte EXCEPT ![o] = f]
    /\ pftValid' = [pftValid EXCEPT ![PftIndex(f)] = TRUE]
    /\ pftRef'   = [pftRef EXCEPT ![PftIndex(f)] = FALSE]
    /\ pftOwner' = [pftOwner EXCEPT ![PftIndex(f)] = IF @ = NULL THEN o ELSE @]

\* add_page_entry on the page frame table and on the page table
AddPageEntry(o, f) ==
    /\ pte'      = [pte EXCEPT ![o] = f]
    /\ pftValid' = [pftValid EXCEPT ![PftIndex(f)] = TRUE]
    /\ pftRef'   = [pftRef EXCEPT ![PftIndex(f)] = FALSE]
    /\ pftOwner' = [pftOwner EXCEPT ![PftIndex(f)] = o]

(* The swap space: a page goes to the first slot that names its virtual    *)
(* address.  swapspace_remove has no caller, so the slots in use are those *)
(* from the first to the last inserted.                                    *)

HasSlot(v) == \E i \in DOMAIN swapspace : swapspace[i] = v
Slots(v)   == {i \in DOMAIN swapspace : swapspace[i] = v}
Slot(v)    == Least(Slots(v))

\* Variant: a page is dropped without being written.
NeverWritten(v, f) == disk

\* The disk once page v has been written from frame f.
Written(v, f) == [disk EXCEPT ![Slot(v)] = mem[f]]

(* The TLB. *)

EmptyTlb == [i \in TlbSlots |-> NULL]

\* Variant: a switch that leaves the TLB alone.
KeptTlb == tlb

\* as_activate
Activated == EmptyTlb

\* Variant: no wrap-around.
UnwrappedTlbEntry == last_tlb_entry + 1

NextTlbEntry == (last_tlb_entry + 1) % NUM_TLB

Probe(v) == {i \in TlbSlots : tlb[i] # NULL /\ tlb[i][1] = v}

\* insert_tlb_entry: the scan for an invalid entry never stops at one.
InsertTlbEntry(v, f) ==
    IF Probe(v) # {}
    THEN UNCHANGED tlbVars
    ELSE /\ tlb' = [tlb EXCEPT ![last_tlb_entry] = <<v, f>>]
         /\ last_tlb_entry' = NextTlbEntry

\* tlb_invalidate: tests index > 0, so that entry 0 is left alone.
Invalidated(v) == [i \in TlbSlots |-> IF i \in Probe(v) /\ i > 0 THEN NULL ELSE tlb[i]]

-----------------------------------------------------------------------------
(* Steps. *)

Panic(reason) ==
    /\ fate' = reason
    /\ UNCHANGED <<pftVars, spaceVars, swapVars, mem, tlbVars, threadVars, cpuVars, last>>

\* t has the CPU.
Running(t) == fate = "up" /\ cur = t

\* The CPU takes interrupts: it is idle, or the running thread does not hold the spinlock.
InterruptsOn == cur = NULL \/ stealmem_lock # cur

\* Variant: the spinlock is released before swap_out sleeps.
LockIgnored(t) == TRUE

\* spinlock_acquire succeeds, or the call already holds the lock.
LockFree(t) == stealmem_lock \in {NULL, t}

Queued(t) == \E i \in DOMAIN runqueue : runqueue[i] = t

\* Variant: a wakeup that does not look whether the thread sleeps.
QueuedAgain(t) == Append(runqueue, t)

\* thread_make_runnable, for a thread that sleeps.
MadeRunnable(t) == IF cur = t \/ Queued(t) THEN runqueue ELSE Append(runqueue, t)

\* What follows the return of a virtual_alloc_kpages call that leaves rest to do.
AfterAlloc(t, rest) ==
    CASE rest # <<>>                   -> "alloc"
      [] rest = <<>> /\ page[t] = NULL -> "add"
      [] rest = <<>> /\ page[t] # NULL -> "install"

\* The CPU goes to another thread: at once if it idles, otherwise at a timer interrupt.
Tick == IF cur = NULL \/ pc[cur] = "user" THEN UNCHANGED ticks ELSE ticks < MaxTicks /\ ticks' = ticks + 1

\* The menu's thread takes the CPU and forks thread t to run program p.  The stack of t comes from
\* getppages.
Launch(t, p) ==
    /\ fate = "up" /\ InterruptsOn
    /\ pc[t] = "none" /\ created < MaxSpaces
    /\ IF stealmem_lock # NULL
       THEN Panic("spinlock_acquire")
       ELSE /\ Tick
            /\ created' = created + 1
            /\ layout' = [layout EXCEPT ![created + 1] = p]
            /\ space' = [space EXCEPT ![t] = created + 1]
            /\ pc' = [pc EXCEPT ![t] = "start"]
            /\ runqueue' = Append(IF cur = NULL THEN runqueue ELSE Append(runqueue, cur), t)
            /\ cur' = NULL
            /\ UNCHANGED <<pftVars, pte, swapVars, mem, tlbVars, req, got, page, paddr, victim,
                           stealmem_lock, last, fate>>

\* runprogram up to as_prepare_load: as_create, which takes pages from getppages, as_activate,
\* and as_define_region for the program's segments.
Start(t) ==
    /\ Running(t) /\ pc[t] = "start"
    /\ IF stealmem_lock # NULL
       THEN Panic("spinlock_acquire")
       ELSE /\ tlb' = Activated
            /\ req' = [req EXCEPT ![t] = LoadRequests(layout[space[t]])]
            /\ pc' = [pc EXCEPT ![t] = "alloc"]
            /\ UNCHANGED <<pftVars, spaceVars, swapVars, mem, last_tlb_entry, space, got, page,
                           paddr, victim, cpuVars, last, fate>>

\* The executable cannot be read: thread_exit destroys an address space that has no page.
LoadFails(t) ==
    /\ Running(t) /\ pc[t] = "start" /\ stealmem_lock = NULL
    /\ tlb' = Activated
    /\ pc' = [pc EXCEPT ![t] = "none"]
    /\ space' = [space EXCEPT ![t] = 0]
    /\ cur' = NULL
    /\ UNCHANGED <<pftVars, spaceVars, swapVars, mem, last_tlb_entry, req, got, page, paddr, victim,
                   runqueue, ticks, stealmem_lock, last, fate>>

\* The idle loop of thread_switch finds a thread; as_activate empties the TLB.
Dispatch ==
    /\ fate = "up" /\ cur = NULL /\ runqueue # <<>>
    /\ cur' = Head(runqueue)
    /\ runqueue' = Tail(runqueue)
    /\ tlb' = Activated
    /\ UNCHANGED <<pftVars, spaceVars, swapVars, mem, last_tlb_entry, threadVars, ticks,
                   stealmem_lock, last, fate>>

\* The timer makes the running thread yield to the next one.
Preempt ==
    /\ fate = "up" /\ cur # NULL /\ InterruptsOn /\ runqueue # <<>>
    /\ Tick
    /\ cur' = Head(runqueue)
    /\ runqueue' = Append(Tail(runqueue), cur)
    /\ tlb' = Activated
    /\ UNCHANGED <<pftVars, spaceVars, swapVars, mem, last_tlb_entry, threadVars, stealmem_lock,
                   last, fate>>

\* virtual_alloc_kpages called while the spinlock is held across another thread's transfer.
AllocSpins(t) ==
    /\ Running(t) /\ pc[t] = "alloc"
    /\ ~LockFree(t)
    /\ Panic("spinlock_acquire")

\* virtual_alloc_kpages takes the first free frame for the next page of its list.
AllocFree(t) ==
    /\ Running(t) /\ pc[t] = "alloc"
    /\ LockFree(t)
    /\ \E i \in First(FreeIndexes) :
       LET want == Head(req[t])
           more == Tail(want) # <<>>
           rest == Tail(req[t])
       IN  /\ pftValid' = [pftValid EXCEPT ![i] = TRUE]
           /\ pftRef' = [pftRef EXCEPT ![i] = FALSE]
           /\ got' = [got EXCEPT ![t] = Append(@, <<Head(want), FrameAddr(i)>>)]
           /\ req' = [req EXCEPT ![t] = IF more THEN <<Tail(want)>> \o rest ELSE rest]
           /\ stealmem_lock' = IF more THEN t ELSE NULL
           /\ pc' = [pc EXCEPT ![t] = IF more THEN "alloc" ELSE AfterAlloc(t, rest)]
    /\ UNCHANGED <<pftOwner, ep_hand, rp_hand, spaceVars, swapVars, mem, tlbVars, space, page,
                   paddr, victim, cur, runqueue, ticks, last, fate>>

\* No frame is free: virtual_alloc_kpages picks one, takes it from its owner, and goes to
\* sleep in swap_out, with the spinlock held.
AllocReplace(t) ==
    /\ Running(t) /\ pc[t] = "alloc"
    /\ LockFree(t)
    /\ FreeIndexes = {}
    /\ LET r == SecondChance(pftRef, ep_hand, rp_hand)
           f == FrameAddr(r.victim)
           o == pftOwner[PftIndex(f)]
       IN  IF o = NULL THEN Panic("p_space_old")
           ELSE IF ~HasSlot(o[2]) THEN Panic("swap_out")
           ELSE /\ pftRef' = r.ref
                /\ ep_hand' = r.ep
                /\ rp_hand' = r.rp
                /\ pte' = Unmapped(o)
                /\ victim' = [victim EXCEPT ![t] = <<f, o>>]
                /\ pc' = [pc EXCEPT ![t] = "swap_out"]
                /\ stealmem_lock' = t
                /\ cur' = NULL
                /\ UNCHANGED <<pftValid, pftOwner, layout, created, swapVars, mem, tlbVars, space,
                               req, got, page, paddr, runqueue, ticks, last, fate>>

\* swap_out's transfer ends and the disk wakes t.
SwapOutDone(t) ==
    /\ fate = "up" /\ InterruptsOn /\ pc[t] = "swap_out"
    /\ disk' = Written(victim[t][2][2], victim[t][1])
    /\ pc' = [pc EXCEPT ![t] = "swapped_out"]
    /\ runqueue' = MadeRunnable(t)
    /\ UNCHANGED <<pftVars, spaceVars, swapspace, mem, tlbVars, space, req, got, page, paddr,
                   victim, cur, ticks, stealmem_lock, last, fate>>

\* virtual_alloc_kpages after swap_out.  Its loop assigns every frame it replaces to the same
\* p_list element: the last one stays there, the elements after it are never assigned.
ReplaceDone(t) ==
    /\ Running(t) /\ pc[t] = "swapped_out"
    /\ tlb' = Invalidated(victim[t][2][2])
    /\ LET want == Head(req[t])
           more == Len(want) > 1
           rest == Tail(req[t])
       IN  /\ got' = [got EXCEPT ![t] = Append(@, IF more THEN <<want[2], Wild>>
                                                   ELSE <<want[1], victim[t][1]>>)]
           /\ req' = [req EXCEPT ![t] = IF more THEN <<<<want[1]>> \o Tail(Tail(want))>> \o rest
                                                 ELSE rest]
           /\ stealmem_lock' = IF more THEN t ELSE NULL
           /\ pc' = [pc EXCEPT ![t] = IF more THEN "alloc" ELSE AfterAlloc(t, rest)]
    /\ victim' = [victim EXCEPT ![t] = NULL]
    /\ UNCHANGED <<pftVars, spaceVars, swapVars, mem, last_tlb_entry, space, page, paddr, cur,
                   runqueue, ticks, last, fate>>

\* as_prepare_load enters one of the frames it was given in the tables and zeroes it.  For the
\* first page of a segment add_page_entry needs a second-level table, which getppages provides.
AddPage(t) ==
    /\ Running(t) /\ pc[t] = "add" /\ got[t] # <<>>
    /\ LET v == Head(got[t])[1]
           f == Head(got[t])[2]
           o == <<space[t], v>>
       IN  IF f = Wild THEN Panic("p_list")
           ELSE IF v[2] = 0 /\ stealmem_lock # NULL THEN Panic("spinlock_acquire")
           ELSE /\ AddPageEntry(o, f)
                /\ mem' = [mem EXCEPT ![f] = Zero]
                /\ last' = [last EXCEPT ![o] = Zero]
                /\ got' = [got EXCEPT ![t] = Tail(@)]
                /\ UNCHANGED <<ep_hand, rp_hand, layout, created, swapVars, tlbVars, pc, space,
                               req, page, paddr, victim, cpuVars, fate>>

\* swapspace_load_as; load_segment then stores into the pages as the program does.
LoadAs(t) ==
    /\ Running(t) /\ pc[t] = "add" /\ got[t] = <<>>
    /\ LET new == SwapPages(layout[space[t]])
       IN  IF Len(swapspace) + Len(new) > SWAP_SLOTS THEN Panic("swapspace_insert")
           ELSE /\ swapspace' = swapspace \o new
                /\ pc' = [pc EXCEPT ![t] = "user"]
                /\ UNCHANGED <<pftVars, spaceVars, disk, mem, tlbVars, space, req, got, page,
                               paddr, victim, cpuVars, last, fate>>

\* vm_fault and get_physical_address, for a page that is not in the TLB.
Fault(t, v) ==
    /\ Running(t) /\ pc[t] = "user" /\ Probe(v) = {}
    /\ LET o == <<space[t], v>>
           p == layout[space[t]]
       IN  CASE ~SetUp(p)                       -> Panic("vm_fault")
             [] SetUp(p) /\ v \notin Region(p) -> Panic("kill_curthread")
             [] SetUp(p) /\ v \in Region(p) ->
                /\ page' = [page EXCEPT ![t] = v]
                /\ IF pte[o] # NULL
                   THEN /\ pftRef' = [pftRef EXCEPT ![PftIndex(pte[o])] = TRUE]
                        /\ paddr' = [paddr EXCEPT ![t] = pte[o]]
                        /\ pc' = [pc EXCEPT ![t] = "map"]
                        /\ UNCHANGED req
                   ELSE /\ req' = [req EXCEPT ![t] = <<<<v>>>>]
                        /\ pc' = [pc EXCEPT ![t] = "alloc"]
                        /\ UNCHANGED <<pftRef, paddr>>
                /\ UNCHANGED <<pftValid, pftOwner, ep_hand, rp_hand, spaceVars, swapVars, mem,
                               tlbVars, space, got, victim, cpuVars, last, fate>>

\* get_physical_address with the new frame: add_page_entry, insert_tlb_entry, and swap_in up to
\* the start of its transfer.
Install(t) ==
    /\ Running(t) /\ pc[t] = "install"
    /\ LET v == Head(got[t])[1]
           f == Head(got[t])[2]
       IN  IF ~HasSlot(v) THEN Panic("swap_in")
           ELSE /\ AddPageEntry(<<space[t], v>>, f)
                /\ InsertTlbEntry(v, f)
                /\ pc' = [pc EXCEPT ![t] = "swap_in"]
                /\ UNCHANGED <<ep_hand, rp_hand, layout, created, swapVars, mem, space, req, got,
                               page, paddr, victim, cpuVars, last, fate>>

\* The transfer has not ended: t waits for it.
SwapInSleeps(t) ==
    /\ Running(t) /\ pc[t] = "swap_in"
    /\ cur' = NULL
    /\ UNCHANGED <<pftVars, spaceVars, swapVars, mem, tlbVars, threadVars, runqueue,
                   ticks, stealmem_lock, last, fate>>

\* Variant: the transfer ends and a thread that sleeps is not woken.
SwapInSilent(t) ==
    /\ fate = "up" /\ InterruptsOn /\ pc[t] = "swap_in"
    /\ \E s \in First(Slots(Head(got[t])[1])) : mem' = [mem EXCEPT ![Head(got[t])[2]] = disk[s]]
    /\ pc' = [pc EXCEPT ![t] = "swapped_in"]
    /\ UNCHANGED <<pftVars, spaceVars, swapVars, tlbVars, space, req, got, page, paddr, victim,
                   cpuVars, last, fate>>

\* swap_in's transfer ends.
SwapInDone(t) ==
    /\ fate = "up" /\ InterruptsOn /\ pc[t] = "swap_in"
    /\ LET v == Head(got[t])[1]
           f == Head(got[t])[2]
       IN  \E s \in First(Slots(v)) : mem' = [mem EXCEPT ![f] = disk[s]]
    /\ pc' = [pc EXCEPT ![t] = "swapped_in"]
    /\ runqueue' = MadeRunnable(t)
    /\ UNCHANGED <<pftVars, spaceVars, swapVars, tlbVars, space, req, got, page, paddr, victim,
                   cur, ticks, stealmem_lock, last, fate>>

\* get_physical_address after swap_in.  It reads the frame from the page table entry without
\* looking at valid_bit; replacing the frame meanwhile would have left that address there.
PageIn(t) ==
    /\ Running(t) /\ pc[t] = "swapped_in"
    /\ LET o == <<space[t], page[t]>>
           f == Head(got[t])[2]
       IN  /\ pftRef' = [pftRef EXCEPT ![PftIndex(f)] = TRUE]
           /\ paddr' = [paddr EXCEPT ![t] = f]
           /\ last' = [last EXCEPT ![o] = IF @ = NULL THEN mem[f] ELSE @]
    /\ got' = [got EXCEPT ![t] = <<>>]
    /\ pc' = [pc EXCEPT ![t] = "map"]
    /\ UNCHANGED <<pftValid, pftOwner, ep_hand, rp_hand, spaceVars, swapVars, mem, tlbVars, space,
                   req, page, victim, cpuVars, fate>>

\* vm_fault's last step.
Map(t) ==
    /\ Running(t) /\ pc[t] = "map"
    /\ InsertTlbEntry(page[t], paddr[t])
    /\ pc' = [pc EXCEPT ![t] = "user"]
    /\ page' = [page EXCEPT ![t] = NULL]
    /\ paddr' = [paddr EXCEPT ![t] = NULL]
    /\ UNCHANGED <<pftVars, spaceVars, swapVars, mem, space, req, got, victim, cpuVars, last, fate>>

\* The program stores d into a page the TLB maps.
Store(t, v, d) ==
    /\ Running(t) /\ pc[t] = "user" /\ Probe(v) # {}
    /\ LET f == tlb[Least(Probe(v))][2]
       IN  mem' = [mem EXCEPT ![f] = d]
    /\ last' = [last EXCEPT ![<<space[t], v>>] = d]
    /\ UNCHANGED <<pftVars, spaceVars, swapVars, tlbVars, threadVars, cpuVars, fate>>

\* A system call, or load_segment reading the executable, waits for a device and is woken.
Wait(t) ==
    /\ Running(t) /\ pc[t] = "user"
    /\ pc' = [pc EXCEPT ![t] = "wait"]
    /\ cur' = NULL
    /\ UNCHANGED <<pftVars, spaceVars, swapVars, mem, tlbVars, space, req, got, page, paddr, victim,
                   runqueue, ticks, stealmem_lock, last, fate>>

Wake(t) ==
    /\ fate = "up" /\ InterruptsOn /\ pc[t] = "wait"
    /\ pc' = [pc EXCEPT ![t] = "user"]
    /\ runqueue' = MadeRunnable(t)
    /\ UNCHANGED <<pftVars, spaceVars, swapVars, mem, tlbVars, space, req, got, page, paddr, victim,
                   cur, ticks, stealmem_lock, last, fate>>

\* thread_exit: as_activate and as_destroy.  kfree leaks what as_destroy gives it, so that the
\* page tables stay as they are.
Exit(t) ==
    /\ Running(t) /\ pc[t] = "user"
    /\ pftValid' = [i \in TableIndex |->
                       /\ pftValid[i]
                       /\ \A v \in VPages : LET f == pte[<<space[t], v>>]
                                            IN  f # NULL => PftIndex(f) # i]
    /\ tlb' = Activated
    /\ pc' = [pc EXCEPT ![t] = "none"]
    /\ space' = [space EXCEPT ![t] = 0]
    /\ cur' = NULL
    /\ last' = [o \in Owners |-> IF o[1] = space[t] THEN NULL ELSE last[o]]
    /\ UNCHANGED <<pftRef, pftOwner, ep_hand, rp_hand, spaceVars, swapVars, mem, last_tlb_entry,
                   req, got, page, paddr, victim, runqueue, ticks, stealmem_lock, fate>>

-----------------------------------------------------------------------------
\* vm_bootstrap.  The table's memory past the 30 entries and the disk hold zeroes.
Init ==
    /\ pftValid = [i \in TableIndex |-> FALSE]
    /\ pftRef = [i \in TableIndex |-> FALSE]
    /\ pftOwner = [i \in TableIndex |-> NULL]
    /\ ep_hand = 0
    /\ rp_hand = CLOCK_ANGLE
    /\ pte = [o \in Owners |-> NULL]
    /\ layout = [a \in Spaces |-> NULL]
    /\ created = 0
    /\ swapspace = <<>>
    /\ disk = [i \in 1 .. SWAP_SLOTS |-> Zero]
    /\ mem = [f \in Frames |-> Zero]
    /\ tlb = EmptyTlb
    /\ last_tlb_entry = 0
    /\ stealmem_lock = NULL
    /\ cur = NULL
    /\ runqueue = <<>>
    /\ ticks = 0
    /\ pc = [t \in Threads |-> "none"]
    /\ space = [t \in Threads |-> 0]
    /\ req = [t \in Threads |-> <<>>]
    /\ got = [t \in Threads |-> <<>>]
    /\ page = [t \in Threads |-> NULL]
    /\ paddr = [t \in Threads |-> NULL]
    /\ victim = [t \in Threads |-> NULL]
    /\ last = [o \in Owners |-> NULL]
    /\ fate = "up"

\* The kernel's own progress once a thread is in it.
KernelStep(t) ==
    \/ Start(t) \/ LoadFails(t)
    \/ AllocSpins(t) \/ AllocFree(t) \/ AllocReplace(t) \/ SwapOutDone(t) \/ ReplaceDone(t)
    \/ AddPage(t) \/ LoadAs(t)
    \/ Install(t) \/ SwapInSleeps(t) \/ SwapInDone(t) \/ PageIn(t) \/ Map(t)
    \/ Wake(t)

UserStep(t) ==
    \/ \E p \in Programs : Launch(t, p)
    \/ \E v \in VPages : Fault(t, v)
    \/ \E v \in VPages, d \in Data : Store(t, v, d)
    \/ Wait(t) \/ Exit(t)

Schedule == Dispatch \/ Preempt

Next == Schedule \/ \E t \in Threads : KernelStep(t) \/ UserStep(t)

Spec == Init /\ [][Next]_vars

\* The run queue is first in, first out, the timer never stops, so that a program that returns to
\* user mode again and again is preempted there, and the disk answers.  Nothing obliges a program
\* or the user at the menu to do anything.
Fairness == SF_vars(Schedule) /\ \A t \in Threads : WF_vars(KernelStep(t))

FairSpec == Spec /\ Fairness

-----------------------------------------------------------------------------
(* Properties. *)

PCs == {"none", "start", "alloc", "swap_out", "swapped_out", "add", "install", "swap_in", "swapped_in",
        "map", "user", "wait"}

Fates == {"up", "spinlock_acquire", "p_space_old", "swap_out", "p_list", "swapspace_insert",
          "vm_fault", "kill_curthread", "swap_in"}

PftTypeOK ==
    /\ pftValid \in [TableIndex -> BOOLEAN]
    /\ pftRef \in [TableIndex -> BOOLEAN]
    /\ pftOwner \in [TableIndex -> Owners \cup {NULL}]
    /\ ep_hand \in FrameIndex /\ rp_hand \in FrameIndex

SpaceTypeOK ==
    /\ pte \in [Owners -> Frames \cup {NULL}]
    /\ layout \in [Spaces -> Programs \cup {NULL}]
    /\ created \in 0 .. MaxSpaces

SwapTypeOK ==
    /\ swapspace \in Seq(VPages) /\ Len(swapspace) <= SWAP_SLOTS
    /\ disk \in [1 .. SWAP_SLOTS -> Data]

TlbTypeOK ==
    /\ tlb \in [TlbSlots -> (VPages \X Frames) \cup {NULL}]
    /\ last_tlb_entry \in TlbSlots

ThreadTypeOK ==
    /\ pc \in [Threads -> PCs]
    /\ space \in [Threads -> 0 .. MaxSpaces]
    /\ req \in [Threads -> Seq(Seq(VPages))]
    /\ got \in [Threads -> Seq(VPages \X (Frames \cup {Wild}))]
    /\ page \in [Threads -> VPages \cup {NULL}]
    /\ paddr \in [Threads -> Frames \cup {NULL}]
    /\ victim \in [Threads -> (Frames \X Owners) \cup {NULL}]

CpuTypeOK ==
    /\ stealmem_lock \in Threads \cup {NULL}
    /\ cur \in Threads \cup {NULL}
    /\ runqueue \in Seq(Threads)
    /\ ticks \in 0 .. MaxTicks

DataTypeOK ==
    /\ mem \in [Frames -> Data]
    /\ last \in [Owners -> Data \cup {NULL}]
    /\ fate \in Fates

\* Type invariant: the tables of addrspace.c and swapspace.c hold frames, pages and owners of
\* the right kinds, and the hands and last_tlb_entry stay inside their tables.
TypeOK ==
    /\ PftTypeOK /\ SpaceTypeOK /\ SwapTypeOK /\ TlbTypeOK
    /\ ThreadTypeOK /\ CpuTypeOK /\ DataTypeOK

\* The two hands of second_chance_replace keep CLOCK_ANGLE frames between them.
HandsApart == rp_hand = Advance(ep_hand, CLOCK_ANGLE)

\* Every valid page table entry is known to the page frame table: the entry virtual_alloc_kpages
\* consults when it replaces the frame names that page and that address space, so that taking the
\* frame makes the right entry invalid.  (This, and what follows from it, as long as no timer
\* interrupt stops a thread between virtual_alloc_kpages and add_page_entry, MaxTicks = 0: the frames
\* in its p_list still have their old owners, and enough faults of another thread turn the clock to
\* them.)
OwnerKnown ==
    \A o \in Owners : pte[o] # NULL =>
        pftOwner[PftIndex(pte[o])] = o /\ pftValid[pte[o] - FirstFrame]

\* No frame backs two pages, of one address space or of two.
NoSharedFrame ==
    \A o1, o2 \in Owners :
        pte[o1] # NULL /\ pte[o1] = pte[o2] => o1 = o2

\* While a program runs, the TLB maps its pages as its page table does, although tlb_invalidate
\* skips entry 0 and insert_tlb_entry leaves an entry it finds as it is.
TlbCoherent ==
    \A t \in Threads, i \in DOMAIN tlb :
        Running(t) /\ pc[t] = "user" /\ tlb[i] # NULL =>
            pte[<<space[t], tlb[i][1]>>] = tlb[i][2]

\* Where the contents of page o are: on disk until swap_in is done, in the frame until swap_out is.
Contents(o) ==
    IF \E t \in Threads : pc[t] = "swap_out" /\ victim[t][2] = o
    THEN mem[victim[CHOOSE t \in Threads : pc[t] = "swap_out" /\ victim[t][2] = o][1]]
    ELSE IF pte[o] # NULL /\ ~\E t \in Threads : pc[t] = "swap_in" /\ o = <<space[t], page[t]>>
    THEN mem[pte[o]]
    ELSE disk[Slot(o[2])]

\* A page of a running program holds what the program last stored there, or what it held when the
\* program first saw it, through any number of swap_out and swap_in.
ContentsKept ==
    \A t \in Threads, v \in VPages :
        LET o == <<space[t], v>>
        IN  space[t] # 0 /\ last[o] # NULL => Contents(o) = last[o]

\* Every page a program may touch has a slot once it runs, and so has every page that can be
\* replaced: the KASSERTs of swap_in and swap_out hold.
SlotsFound == fate \notin {"swap_in", "swap_out", "p_space_old"}

\* The spinlock excludes across the sleep in swap_out: only the thread that took it is between
\* the choice of a frame and the end of virtual_alloc_kpages, and it is there while it holds it.
OneReplacement ==
    \A t \in Threads :
        /\ pc[t] \in {"swap_out", "swapped_out"} => stealmem_lock = t
        /\ stealmem_lock = t => pc[t] \in {"alloc", "swap_out", "swapped_out"}

\* A thread is in one place: running, once in the run queue, waiting for a device, or not there.
OnePlace ==
    \A t \in Threads :
        LET places == {i \in DOMAIN runqueue : runqueue[i] = t}
        IN  CASE pc[t] \in {"none", "wait", "swap_out"} -> cur # t /\ places = {}
              [] pc[t] = "swap_in" -> places = {} \/ (cur # t /\ \E i \in places : places = {i})
              [] OTHER -> IF cur = t THEN places = {} ELSE \E i \in places : places = {i}

\* A page fault of thread t ends, with the page mapped, unless the kernel dies: t does not wait for
\* the disk, the CPU or the spinlock for ever.
FaultEnds(t) == []<>(page[t] = NULL \/ fate # "up")

\* A frame virtual_alloc_kpages has put in a list and as_prepare_load or get_physical_address has
\* not yet entered in the tables is in that list once, in no other list, and backs no page: the
\* later calls of the same load, which still see its old owner, do not replace it again.
GivenOnce ==
    \A t, u \in {w \in Threads : pc[w] \in {"alloc", "swap_out", "swapped_out", "add", "install"}} :
        \A i \in DOMAIN got[t], j \in DOMAIN got[u] :
            LET f == got[t][i][2]
            IN  f # Wild => /\ \A o \in Owners : pte[o] # f
                            /\ got[u][j][2] = f => <<t, i>> = <<u, j>>

-----------------------------------------------------------------------------
(* What comments and assertions of the code say, and the code does not keep. *)

\* loadelf.c, load_segment: "the VM system should provide pages that do not contain other
\* processes' data, i.e., are already zeroed".  A page seen for the first time holds zeroes.
FreshPagesZeroed ==
    \A t \in Threads :
        pc[t] = "swapped_in" /\ last[<<space[t], page[t]>>] = NULL => mem[Head(got[t])[2]] = Zero

\* The same comment, for programs that run at the same time: a frame that the TLB gives to the
\* running program is not the frame of another program's page.
PrivatePages ==
    \A t \in Threads, i \in TlbSlots, o \in Owners :
        Running(t) /\ pc[t] = "user" /\ tlb[i] # NULL /\ pte[o] = tlb[i][2] => o[1] = space[t]

\* swapspace_insert: KASSERT(pos<swapspace_size).
SlotsSuffice == fate # "swapspace_insert"

\* spinlock_acquire: the CPU does not acquire a spinlock it holds.
NoSpinOnOwnLock == fate # "spinlock_acquire"

\* trap.c, mips_trap: "Fatal fault in user mode.  Kill the current user process."
UserFaultContained == fate # "kill_curthread"

\* addrspace.h: "as_destroy - dispose of an address space".  When no program is left, every frame
\* is free again.
FramesReturned == (\A t \in Threads : pc[t] = "none") => FreeIndexes = FrameIndex

=============================================================================
