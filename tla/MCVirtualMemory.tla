-------------------------- MODULE MCVirtualMemory --------------------------
(***************************************************************************)
(* VirtualMemory for TLC.  The runs that follow two programs, or look for  *)
(* one thing, give its constants their values in the configuration.  The   *)
(* run of PagingSpec follows two more machines of other sizes at once: the *)
(* sizes tell to which of them a state belongs.                            *)
(***************************************************************************)
EXTENDS VirtualMemory, FiniteSets, TLC

CONSTANTS t0, t1, t2    \* model values: threads

\* One page in each segment: as_prepare_load maps all of it but the deeper stack.
TinyProgram == {[npages1 |-> 1, npages2 |-> 1]}

\* Segment 2 has a page that as_prepare_load does not map.
SmallProgram == {[npages1 |-> 1, npages2 |-> 2]}

\* An executable with one segment and one with a longer first segment as well.
SeveralPrograms == {[npages1 |-> 1, npages2 |-> 2], [npages1 |-> 1, npages2 |-> 0],
                    [npages1 |-> 2, npages2 |-> 1]}

\* A page fault that vm_fault starts to serve ends, unless the kernel dies.  Threads are
\* interchangeable: what holds of one of them holds of all.
FaultServed == LET t == CHOOSE u \in Threads : TRUE IN FaultEnds(t)

-----------------------------------------------------------------------------
\* The constants of the module itself: one program out of several, on a TLB of two entries.
IsOne == Len(layout) = 1

\* One program after the other in the frames the first leaves behind.
After == INSTANCE VirtualMemory WITH
    MAX_PM_SIZE <- 3, CLOCK_ANGLE <- 2, FirstFrame <- 3, NUM_TLB <- 1, SWAP_SLOTS <- 8,
    INIT_STACKPAGES <- 1, MaxRegionPages <- 2, Programs <- SmallProgram, MaxSpaces <- 2,
    MaxTicks <- 0, Threads <- {t0}, Data <- {0, 1}, Zero <- 0
IsAfter == Len(layout) = 2 /\ Cardinality(DOMAIN mem) = 3

\* As many frames as the longest list of virtual_alloc_kpages needs.
Roomy == INSTANCE VirtualMemory WITH
    MAX_PM_SIZE <- 4, CLOCK_ANGLE <- 1, FirstFrame <- 4, NUM_TLB <- 1, SWAP_SLOTS <- 8,
    INIT_STACKPAGES <- 1, MaxRegionPages <- 2, Programs <- SeveralPrograms, MaxSpaces <- 2,
    MaxTicks <- 0, Threads <- {t0}, Data <- {0}, Zero <- 0
IsRoomy == Cardinality(DOMAIN mem) = 4

PagingInit == Init \/ After!Init \/ Roomy!Init

PagingNext ==
    \/ IsOne /\ Next
    \/ IsAfter /\ After!Next
    \/ IsRoomy /\ Roomy!Next

PagingSpec == PagingInit /\ [][PagingNext]_vars

-----------------------------------------------------------------------------
\* What a program wrote to a page is in its frame or in its slot of the swap disk until it ends; a page
\* that is replaced or faulted in finds the slot swapspace_load_as gave it; and virtual_alloc_kpages
\* gives no frame to two pages of a list, and none that is in use.
PagesKept ==
    /\ IsOne => ContentsKept
    /\ IsAfter => After!ContentsKept /\ After!SlotsFound
    /\ IsRoomy => Roomy!GivenOnce
=============================================================================
