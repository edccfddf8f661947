------------------------------ MODULE Spinlocks ------------------------------
(***************************************************************************)
(* Spinlocks and the interrupt level (kern/thread/spinlock.c, spl.c, the   *)
(* test-and-set of arch/mips/include/spinlock.h, and the bookkeeping of    *)
(* mips_trap around an interrupt).  Each CPU runs code that takes and      *)
(* releases spinlocks and calls splhigh and splx in any order, and is      *)
(* interrupted by handlers that do the same.                               *)
(***************************************************************************)
EXTENDS Integers, FiniteSets, FiniteSetTheorems, TLAPS

CONSTANTS Processors, Locks, NoCpu

ASSUME CpuAssumption == NoCpu \notin Processors /\ IsFiniteSet(Locks)

VARIABLES
    data, holder,     \* lk_lock and lk_holder of each lock
    pc, want,         \* where each CPU is, and the lock it is about
    linked, old,      \* the CPU's link of ll, and what ll read
    held,             \* locks acquired and not yet released
    irq,              \* interrupts are on
    count, curspl,    \* t_iplhigh_count and t_curspl of the thread on the CPU
    intr,             \* in an interrupt handler
    fate              \* "panic" once an assertion fails

vars == <<data, holder, pc, want, linked, old, held, irq, count, curspl, intr, fate>>

Init ==
    /\ data = [l \in Locks |-> 0]
    /\ holder = [l \in Locks |-> NoCpu]
    /\ pc = [c \in Processors |-> "run"]
    /\ want \in [Processors -> Locks]
    /\ linked = [c \in Processors |-> FALSE]
    /\ old = [c \in Processors |-> 0]
    /\ held = [c \in Processors |-> {}]
    /\ irq = [c \in Processors |-> TRUE]
    /\ count = [c \in Processors |-> 0]
    /\ curspl = [c \in Processors |-> 0]
    /\ intr = [c \in Processors |-> FALSE]
    /\ fate = "ok"

At(c, where) == fate = "ok" /\ pc[c] = where
Goto(c, where) == pc' = [pc EXCEPT ![c] = where]
Panic == fate' = "panic" /\ UNCHANGED <<data, holder, pc, want, linked, old, held, irq, count, curspl, intr>>

splraise(c) ==
    /\ irq' = [irq EXCEPT ![c] = IF count[c] = 0 THEN FALSE ELSE @]
    /\ count' = [count EXCEPT ![c] = @ + 1]

\* Variant: interrupts go on at the first spllower.
LowerAtOnce(c) ==
    /\ count' = [count EXCEPT ![c] = @ - 1]
    /\ irq' = [irq EXCEPT ![c] = TRUE]

spllower(c) ==
    /\ count' = [count EXCEPT ![c] = @ - 1]
    /\ irq' = [irq EXCEPT ![c] = IF count[c] = 1 THEN TRUE ELSE @]

splhigh(c) ==
    /\ At(c, "run") /\ curspl[c] = 0
    /\ splraise(c)
    /\ curspl' = [curspl EXCEPT ![c] = 1]
    /\ UNCHANGED <<data, holder, pc, want, linked, old, held, intr, fate>>

\* splx back to 0, by a thread: a handler runs at the high level throughout.
splx(c) ==
    /\ At(c, "run") /\ curspl[c] = 1 /\ ~intr[c]
    /\ spllower(c)
    /\ curspl' = [curspl EXCEPT ![c] = 0]
    /\ UNCHANGED <<data, holder, pc, want, linked, old, held, intr, fate>>
---------------------------------------------------------------------------
\* The callers of spinlock_acquire do not hold the lock.
spinlock_acquire(c, l) ==
    /\ At(c, "run") /\ l \notin held[c]
    /\ splraise(c)
    /\ want' = [want EXCEPT ![c] = l]
    /\ Goto(c, "check")
    /\ UNCHANGED <<data, holder, linked, old, held, curspl, intr, fate>>

\* Another CPU may be changing lk_holder at this moment.
CheckHolder(c) ==
    /\ At(c, "check")
    /\ \/ holder[want[c]] = c /\ Panic
       \/ /\ holder[want[c]] # c
          /\ Goto(c, "spin")
          /\ UNCHANGED <<data, holder, want, linked, old, held, irq, count, curspl, intr, fate>>

\* spinlock_data_get, repeated until it reads 0.
Spin(c) ==
    /\ At(c, "spin") /\ data[want[c]] = 0
    /\ Goto(c, "ll")
    /\ UNCHANGED <<data, holder, want, linked, old, held, irq, count, curspl, intr, fate>>

\* spinlock_data_testandset
LoadLinked(c) ==
    /\ At(c, "ll")
    /\ old' = [old EXCEPT ![c] = data[want[c]]]
    /\ linked' = [linked EXCEPT ![c] = TRUE]
    /\ Goto(c, "sc")
    /\ UNCHANGED <<data, holder, want, held, irq, count, curspl, intr, fate>>

\* A store to a lock word takes the link from every CPU that has one on it.
Unlinked(l) == [c \in Processors |-> linked[c] /\ ~(want[c] = l /\ pc[c] = "sc")]

\* Variant: the store is not conditional.
StoreAlways(c) ==
    /\ At(c, "sc")
    /\ data' = [data EXCEPT ![want[c]] = 1]
    /\ linked' = Unlinked(want[c])
    /\ Goto(c, IF old[c] = 0 THEN "own" ELSE "spin")
    /\ UNCHANGED <<holder, want, old, held, irq, count, curspl, intr, fate>>

StoreConditional(c) ==
    /\ At(c, "sc")
    /\ \/ /\ linked[c]
          /\ data' = [data EXCEPT ![want[c]] = 1]
          /\ linked' = Unlinked(want[c])
          /\ Goto(c, IF old[c] = 0 THEN "own" ELSE "spin")
       \/ /\ ~linked[c]
          /\ Goto(c, "spin")
          /\ UNCHANGED <<data, linked>>
    /\ UNCHANGED <<holder, want, old, held, irq, count, curspl, intr, fate>>

SetHolder(c) ==
    /\ At(c, "own")
    /\ holder' = [holder EXCEPT ![want[c]] = c]
    /\ held' = [held EXCEPT ![c] = @ \cup {want[c]}]
    /\ Goto(c, "run")
    /\ UNCHANGED <<data, want, linked, old, irq, count, curspl, intr, fate>>
---------------------------------------------------------------------------
\* Variant: the holder is not cleared.
HolderStays(c, l) ==
    /\ At(c, "run") /\ l \in held[c]
    /\ held' = [held EXCEPT ![c] = @ \ {l}]
    /\ want' = [want EXCEPT ![c] = l]
    /\ Goto(c, "clear")
    /\ UNCHANGED <<data, holder, linked, old, irq, count, curspl, intr, fate>>

spinlock_release(c, l) ==
    /\ At(c, "run") /\ l \in held[c]
    /\ \/ holder[l] # c /\ Panic
       \/ /\ holder[l] = c
          /\ holder' = [holder EXCEPT ![l] = NoCpu]
          /\ held' = [held EXCEPT ![c] = @ \ {l}]
          /\ want' = [want EXCEPT ![c] = l]
          /\ Goto(c, "clear")
          /\ UNCHANGED <<data, linked, old, irq, count, curspl, intr, fate>>

ClearData(c) ==
    /\ At(c, "clear")
    /\ data' = [data EXCEPT ![want[c]] = 0]
    /\ linked' = Unlinked(want[c])
    /\ spllower(c)
    /\ Goto(c, "run")
    /\ UNCHANGED <<holder, want, old, held, curspl, intr, fate>>
---------------------------------------------------------------------------
\* mips_trap: the processor has turned interrupts off, and the recorded level is made to match.
\* (Interrupts are on at the high level only in the idle loop, which is in Threads.)
Interrupt(c) ==
    /\ fate = "ok" /\ irq[c] /\ curspl[c] = 0
    /\ \/ count[c] # 0 /\ Panic
       \/ /\ count[c] = 0
          /\ irq' = [irq EXCEPT ![c] = FALSE]
          /\ curspl' = [curspl EXCEPT ![c] = 1]
          /\ count' = [count EXCEPT ![c] = 1]
          /\ intr' = [intr EXCEPT ![c] = TRUE]
          /\ UNCHANGED <<data, holder, pc, want, linked, old, held, fate>>

\* The handler is done, holding nothing; the assertions of mips_trap, and the level as before.
Return(c) ==
    /\ At(c, "run") /\ intr[c] /\ held[c] = {}
    /\ \/ (curspl[c] # 1 \/ count[c] # 1) /\ Panic
       \/ /\ curspl[c] = 1 /\ count[c] = 1
          /\ count' = [count EXCEPT ![c] = 0]
          /\ curspl' = [curspl EXCEPT ![c] = 0]
          /\ intr' = [intr EXCEPT ![c] = FALSE]
          /\ irq' = [irq EXCEPT ![c] = TRUE]
          /\ UNCHANGED <<data, holder, pc, want, linked, old, held, fate>>

Next ==
    \E c \in Processors :
        \/ splhigh(c) \/ splx(c)
        \/ \E l \in Locks : spinlock_acquire(c, l) \/ spinlock_release(c, l)
        \/ CheckHolder(c) \/ Spin(c) \/ LoadLinked(c) \/ StoreConditional(c) \/ SetHolder(c)
        \/ ClearData(c)
        \/ Interrupt(c) \/ Return(c)

Spec == Init /\ [][Next]_vars
---------------------------------------------------------------------------
Where == {"run", "check", "spin", "ll", "sc", "own", "clear"}

\* Type invariant: what each variable may hold.
TypeOK ==
    /\ data \in [Locks -> 0 .. 1]
    /\ holder \in [Locks -> Processors \cup {NoCpu}]
    /\ pc \in [Processors -> Where]
    /\ want \in [Processors -> Locks]
    /\ linked \in [Processors -> BOOLEAN]
    /\ old \in [Processors -> 0 .. 1]
    /\ held \in [Processors -> SUBSET Locks]
    /\ irq \in [Processors -> BOOLEAN]
    /\ count \in [Processors -> Nat]
    /\ curspl \in [Processors -> 0 .. 1]
    /\ intr \in [Processors -> BOOLEAN]
    /\ fate \in {"ok", "panic"}

\* A CPU has the lock from its successful test-and-set to the store that clears the word.
Has(c, l) == l \in held[c] \/ (want[c] = l /\ pc[c] \in {"own", "clear"})

\* No two CPUs have a lock at once, whatever they read of each other's half-done acquires and
\* releases.
MutualExclusion == \A l \in Locks : \A c, d \in Processors : Has(c, l) /\ Has(d, l) => c = d

\* "Deadlock on spinlock" is never reported of a lock the CPU does not hold, no CPU releases a lock
\* that the holder field says another one has, and the level is what mips_trap asserts when an
\* interrupt comes and goes.
NoPanic == fate = "ok"

\* The count is one for each lock taken or being taken and one for the level: interrupts come on
\* with the last spllower and not before, in whatever order locks and levels are given back.
LevelCounted ==
    \A c \in Processors :
        /\ count[c] = Cardinality(held[c]) + curspl[c] + (IF pc[c] = "run" THEN 0 ELSE 1)
        /\ irq[c] <=> count[c] = 0

-----------------------------------------------------------------------------
(***************************************************************************)
(* Proofs: spinlocks exclude, and the interrupt level is counted, on any   *)
(* number of processors and locks.                                         *)
(***************************************************************************)

\* From its successful test-and-set to the store that clears it, a lock's word is 1.
WordSet == \A l \in Locks : \A c \in Processors : Has(c, l) => data[l] = 1

\* lk_holder names a processor from SetHolder to spinlock_release and at no other time.
HolderRight == \A l \in Locks : \A c \in Processors : holder[l] = c <=> l \in held[c]

\* A processor is about a lock that it does not hold: it has not got it yet, or is giving it back.
WantNotHeld == \A c \in Processors : pc[c] # "run" => want[c] \notin held[c]

\* As long as a link lasts, the word is what ll read.
LinkFresh == \A c \in Processors : pc[c] = "sc" /\ linked[c] => data[want[c]] = old[c]

\* A handler runs at the high level.
HandlerHigh == \A c \in Processors : intr[c] => curspl[c] = 1

\* The inductive invariant.
IInv ==
    /\ TypeOK /\ NoPanic
    /\ MutualExclusion /\ WordSet /\ HolderRight /\ WantNotHeld /\ LinkFresh
    /\ LevelCounted /\ HandlerHigh

\* The locks a processor holds can be counted.
LEMMA HeldCounted ==
    ASSUME TypeOK
    PROVE  \A c \in Processors :
               /\ IsFiniteSet(held[c])
               /\ Cardinality(held[c]) \in Nat
               /\ Cardinality(held[c]) = 0 <=> held[c] = {}
<1> SUFFICES ASSUME NEW c \in Processors
             PROVE  /\ IsFiniteSet(held[c])
                    /\ Cardinality(held[c]) \in Nat
                    /\ Cardinality(held[c]) = 0 <=> held[c] = {}
  OBVIOUS
<1>1. held[c] \subseteq Locks
  BY DEF TypeOK
<1>2. IsFiniteSet(held[c])
  BY <1>1, CpuAssumption, FS_Subset
<1> QED
  BY <1>2, FS_CardinalityType, FS_EmptySet

\* The CPUs start with no lock held.
LEMMA Initially == Init => IInv
<1> SUFFICES ASSUME Init PROVE IInv
  OBVIOUS
<1>1. TypeOK /\ NoPanic
  BY DEF Init, TypeOK, Where, NoPanic
<1>2. LevelCounted
  <2>1. Cardinality({}) = 0
    BY FS_EmptySet
  <2> QED
    BY <2>1 DEF Init, LevelCounted
<1>3. MutualExclusion /\ WordSet
  BY DEF Init, MutualExclusion, WordSet, Has
<1>4. HolderRight
  BY CpuAssumption DEF Init, HolderRight
<1>5. WantNotHeld /\ LinkFresh /\ HandlerHigh
  BY DEF Init, WantNotHeld, LinkFresh, HandlerHigh
<1> QED
  BY <1>1, <1>2, <1>3, <1>4, <1>5 DEF IInv

\* splraise turns the processor's interrupts off and counts.
LEMMA Raised ==
    ASSUME TypeOK, LevelCounted, NEW c \in Processors, splraise(c)
    PROVE  /\ count' \in [Processors -> Nat] /\ irq' \in [Processors -> BOOLEAN]
           /\ count'[c] = count[c] + 1 /\ ~irq'[c]
           /\ \A d \in Processors : d # c => count'[d] = count[d] /\ irq'[d] = irq[d]
<1> USE DEF TypeOK, splraise
<1>1. count' \in [Processors -> Nat] /\ count'[c] = count[c] + 1
  OBVIOUS
<1>2. irq' \in [Processors -> BOOLEAN]
  BY Zenon
<1>3. \A d \in Processors : d # c => count'[d] = count[d] /\ irq'[d] = irq[d]
  OBVIOUS
<1>4. ~irq'[c]
  BY DEF LevelCounted
<1> QED
  BY <1>1, <1>2, <1>3, <1>4, Zenon

\* spllower undoes one splraise; the last one turns the interrupts on.
LEMMA Lowered ==
    ASSUME TypeOK, LevelCounted, NEW c \in Processors, spllower(c), count[c] > 0
    PROVE  /\ count' \in [Processors -> Nat] /\ irq' \in [Processors -> BOOLEAN]
           /\ count'[c] = count[c] - 1 /\ (irq'[c] <=> count'[c] = 0)
           /\ \A d \in Processors : d # c => count'[d] = count[d] /\ irq'[d] = irq[d]
<1> USE DEF TypeOK, spllower
<1>1. count' \in [Processors -> Nat] /\ count'[c] = count[c] - 1
  OBVIOUS
<1>2. irq' \in [Processors -> BOOLEAN]
  BY Zenon
<1>3. \A d \in Processors : d # c => count'[d] = count[d] /\ irq'[d] = irq[d]
  OBVIOUS
<1>4. irq'[c] <=> count'[c] = 0
  <2>1. CASE count[c] = 1
    BY <1>1, <2>1
  <2>2. CASE count[c] # 1
    <3>1. irq'[c] = irq[c]
      BY <2>2
    <3>2. ~irq[c]
      BY DEF LevelCounted
    <3> QED
      BY <1>1, <2>2, <3>1, <3>2
  <2> QED
    BY <2>1, <2>2
<1> QED
  BY <1>1, <1>2, <1>3, <1>4, Zenon

\* A step of c that keeps the count of c keeps the counts of all.
LEMMA OthersCounted ==
    ASSUME LevelCounted, NEW c \in Processors,
           \A d \in Processors : d # c =>
               /\ count'[d] = count[d] /\ irq'[d] = irq[d] /\ held'[d] = held[d]
               /\ curspl'[d] = curspl[d] /\ pc'[d] = pc[d],
           count'[c] = Cardinality(held'[c]) + curspl'[c] + (IF pc'[c] = "run" THEN 0 ELSE 1),
           irq'[c] <=> count'[c] = 0
    PROVE  LevelCounted'
<1> SUFFICES ASSUME NEW d \in Processors
             PROVE  /\ count'[d] = Cardinality(held'[d]) + curspl'[d] + (IF pc'[d] = "run" THEN 0 ELSE 1)
                    /\ irq'[d] <=> count'[d] = 0
  BY DEF LevelCounted
<1>1. CASE d = c
  BY <1>1
<1>2. CASE d # c
  BY <1>2 DEF LevelCounted
<1> QED
  BY <1>1, <1>2

\* splhigh and splx.
LEMMA LevelSteps ==
    ASSUME IInv, NEW c \in Processors, splhigh(c) \/ splx(c)
    PROVE  IInv'
<1> USE DEF IInv
<1>1. \A d \in Processors : Cardinality(held[d]) \in Nat
  BY HeldCounted
<1>2. CASE splhigh(c)
  <2>1. /\ count' \in [Processors -> Nat] /\ irq' \in [Processors -> BOOLEAN]
        /\ count'[c] = count[c] + 1 /\ ~irq'[c]
        /\ \A d \in Processors : d # c => count'[d] = count[d] /\ irq'[d] = irq[d]
    BY <1>2, Raised DEF splhigh
  <2>2. TypeOK' /\ NoPanic' /\ HandlerHigh'
    <3>1. TypeOK'
      <4>1. curspl' \in [Processors -> 0 .. 1]
        BY <1>2, <2>1 DEF TypeOK, splhigh
      <4> QED
        BY <1>2, <2>1, <4>1 DEF TypeOK, splhigh
    <3>2. NoPanic' /\ HandlerHigh'
      BY <1>2, <2>1 DEF TypeOK, NoPanic, HandlerHigh, splhigh
    <3> QED
      BY <3>1, <3>2
  <2>3. LevelCounted'
    <3>1. \A d \in Processors : d # c => curspl'[d] = curspl[d]
      BY <1>2 DEF splhigh, TypeOK
    <3>2. count'[c] = Cardinality(held'[c]) + curspl'[c] + (IF pc'[c] = "run" THEN 0 ELSE 1)
      BY <1>1, <1>2, <2>1 DEF TypeOK, LevelCounted, splhigh, At
    <3>3. count'[c] # 0
      BY <2>1, SMTT(30) DEF TypeOK
    <3> QED
      BY <1>2, <2>1, <3>1, <3>2, <3>3, OthersCounted, SMTT(30) DEF splhigh
  <2> QED
    BY <1>2, <2>2, <2>3
       DEF MutualExclusion, WordSet, HolderRight, WantNotHeld, LinkFresh, Has, splhigh
<1>3. CASE splx(c)
  <2>1. count[c] > 0
    BY <1>1, <1>3 DEF TypeOK, LevelCounted, splx, At
  <2>2. /\ count' \in [Processors -> Nat] /\ irq' \in [Processors -> BOOLEAN]
        /\ count'[c] = count[c] - 1 /\ (irq'[c] <=> count'[c] = 0)
        /\ \A d \in Processors : d # c => count'[d] = count[d] /\ irq'[d] = irq[d]
    BY <1>3, <2>1, Lowered, Zenon DEF splx
  <2>3. TypeOK' /\ NoPanic' /\ HandlerHigh'
    <3>1. TypeOK'
      <4>1. curspl' \in [Processors -> 0 .. 1]
        BY <1>3, <2>2 DEF TypeOK, splx
      <4> QED
        BY <1>3, <2>2, <4>1 DEF TypeOK, splx
    <3>2. NoPanic' /\ HandlerHigh'
      BY <1>3, <2>2 DEF TypeOK, NoPanic, HandlerHigh, splx
    <3> QED
      BY <3>1, <3>2
  <2>4. LevelCounted'
    <3>1. \A d \in Processors : d # c => curspl'[d] = curspl[d]
      BY <1>3 DEF splx, TypeOK
    <3>2. count'[c] = Cardinality(held'[c]) + curspl'[c] + (IF pc'[c] = "run" THEN 0 ELSE 1)
      BY <1>1, <1>3, <2>2 DEF TypeOK, LevelCounted, splx, At
    <3> QED
      BY <1>3, <2>2, <3>1, <3>2, OthersCounted, Zenon DEF splx
  <2> QED
    BY <1>3, <2>3, <2>4
       DEF MutualExclusion, WordSet, HolderRight, WantNotHeld, LinkFresh, Has, splx
<1> QED
  BY <1>2, <1>3

\* spinlock_acquire, up to its test-and-set.
LEMMA AcquireSteps ==
    ASSUME IInv, NEW c \in Processors,
           \/ \E l \in Locks : spinlock_acquire(c, l)
           \/ CheckHolder(c) \/ Spin(c) \/ LoadLinked(c)
    PROVE  IInv'
<1> USE DEF IInv
<1>1. \A d \in Processors : Cardinality(held[d]) \in Nat
  BY HeldCounted
<1>2. ASSUME NEW l \in Locks, spinlock_acquire(c, l)
      PROVE  IInv'
  <2>1. /\ count' \in [Processors -> Nat] /\ irq' \in [Processors -> BOOLEAN]
        /\ count'[c] = count[c] + 1 /\ ~irq'[c]
        /\ \A d \in Processors : d # c => count'[d] = count[d] /\ irq'[d] = irq[d]
    BY <1>2, Raised DEF spinlock_acquire
  <2>2. TypeOK' /\ NoPanic' /\ HandlerHigh'
    BY <1>2, <2>1, Zenon DEF TypeOK, NoPanic, HandlerHigh, spinlock_acquire, Goto, Where
  <2>3. LevelCounted'
    BY <1>1, <1>2, <2>1 DEF TypeOK, LevelCounted, spinlock_acquire, At, Goto
  <2>4. \A d \in Processors : \A k \in Locks : Has(d, k)' <=> Has(d, k)
    BY <1>2, SMTT(30) DEF TypeOK, Has, spinlock_acquire, At, Goto
  <2>5. MutualExclusion' /\ WordSet' /\ HolderRight'
    BY <1>2, <2>4, SMTT(30) DEF MutualExclusion, WordSet, HolderRight, spinlock_acquire
  <2>6. WantNotHeld' /\ LinkFresh'
    BY <1>2 DEF TypeOK, WantNotHeld, LinkFresh, spinlock_acquire, At, Goto
  <2> QED
    BY <2>2, <2>3, <2>5, <2>6, SMTT(30)
<1>3. CASE CheckHolder(c)
  <2>1. holder[want[c]] # c
    BY <1>3 DEF TypeOK, HolderRight, WantNotHeld, CheckHolder, At
  <2>2. TypeOK' /\ NoPanic' /\ HandlerHigh'
    BY <1>3, <2>1, SMTT(30) DEF TypeOK, NoPanic, HandlerHigh, CheckHolder, Goto, Where
  <2>3. LevelCounted'
    BY <1>1, <1>3, <2>1 DEF TypeOK, LevelCounted, CheckHolder, At, Goto
  <2>4. \A d \in Processors : \A k \in Locks : Has(d, k)' <=> Has(d, k)
    BY <1>3, <2>1, Zenon DEF TypeOK, Has, CheckHolder, At, Goto
  <2>5. MutualExclusion' /\ WordSet' /\ HolderRight'
    BY <1>3, <2>1, <2>4, Zenon DEF MutualExclusion, WordSet, HolderRight, CheckHolder
  <2>6. WantNotHeld' /\ LinkFresh'
    BY <1>3, <2>1 DEF TypeOK, WantNotHeld, LinkFresh, CheckHolder, At, Goto
  <2> QED
    BY <2>2, <2>3, <2>5, <2>6
<1>4. CASE Spin(c) \/ LoadLinked(c)
  <2>1. TypeOK' /\ NoPanic' /\ HandlerHigh'
    <3>1. TypeOK'
      BY <1>4, ZenonT(30) DEF TypeOK, Spin, LoadLinked, Goto, Where
    <3>2. NoPanic' /\ HandlerHigh'
      BY <1>4, SMTT(30) DEF TypeOK, NoPanic, HandlerHigh, Spin, LoadLinked
    <3> QED
      BY <3>1, <3>2, Zenon
  <2>2. LevelCounted'
    BY <1>1, <1>4, SMTT(30) DEF TypeOK, LevelCounted, Spin, LoadLinked, At, Goto
  <2>3. \A d \in Processors : \A k \in Locks : Has(d, k)' <=> Has(d, k)
    BY <1>4, SMTT(30) DEF TypeOK, Has, Spin, LoadLinked, At, Goto
  <2>4. MutualExclusion' /\ WordSet' /\ HolderRight'
    BY <1>4, <2>3, SMTT(30) DEF MutualExclusion, WordSet, HolderRight, Spin, LoadLinked
  <2>5. WantNotHeld' /\ LinkFresh'
    BY <1>4 DEF TypeOK, WantNotHeld, LinkFresh, Spin, LoadLinked, At, Goto
  <2> QED
    BY <2>1, <2>2, <2>4, <2>5
<1> QED
  BY <1>2, <1>3, <1>4

\* A store-conditional succeeds only if nothing has stored to the word since the load, so the
\* processor that goes on found the word 0, and nobody had the lock.
LEMMA StoreStep ==
    ASSUME IInv, NEW c \in Processors, StoreConditional(c)
    PROVE  IInv'
<1> USE DEF IInv
<1>1. \A d \in Processors : Cardinality(held[d]) \in Nat
  BY HeldCounted
<1>2. pc' \in [Processors -> Where] /\ pc'[c] \in {"own", "spin"} /\ pc[c] = "sc"
  BY DEF TypeOK, StoreConditional, At, Goto, Where
<1>3. \A d \in Processors : d # c => pc'[d] = pc[d]
  BY DEF TypeOK, StoreConditional, Goto
<1>4. TypeOK'
  <2>1. data' \in [Locks -> 0 .. 1]
    BY DEF TypeOK, StoreConditional
  <2>2. linked' \in [Processors -> BOOLEAN]
    BY Zenon DEF TypeOK, StoreConditional, Unlinked
  <2> QED
    BY <1>2, <2>1, <2>2 DEF TypeOK, StoreConditional
<1>5. NoPanic' /\ HandlerHigh' /\ HolderRight' /\ WantNotHeld'
  BY <1>2, <1>3, SMTT(30) DEF NoPanic, HandlerHigh, HolderRight, WantNotHeld, StoreConditional
<1>6. LevelCounted'
  BY <1>1, <1>2, <1>3 DEF TypeOK, LevelCounted, StoreConditional
<1>7. CASE linked[c]
  <2>1. data' = [data EXCEPT ![want[c]] = 1] /\ linked' = Unlinked(want[c])
    BY <1>7 DEF StoreConditional
  <2>2. data[want[c]] = old[c]
    BY <1>2, <1>7, Zenon DEF LinkFresh
  <2>3. LinkFresh'
    BY <1>2, <1>3, <2>1, Zenon DEF TypeOK, LinkFresh, Unlinked, StoreConditional
  <2>4. \A d \in Processors : \A l \in Locks :
            Has(d, l)' => Has(d, l) \/ (d = c /\ l = want[c] /\ old[c] = 0)
    BY <1>2, <1>3, <1>7 DEF TypeOK, Has, StoreConditional, Goto
  <2>5. WordSet'
    BY <2>1, <2>4 DEF TypeOK, WordSet
  <2>6. MutualExclusion'
    BY <2>2, <2>4, SMTT(30) DEF TypeOK, MutualExclusion, WordSet
  <2> QED
    BY <1>4, <1>5, <1>6, <2>3, <2>5, <2>6, SMTT(30)
<1>8. CASE ~linked[c]
  <2>1. \A d \in Processors : \A l \in Locks : Has(d, l)' <=> Has(d, l)
    BY <1>2, <1>3, <1>8, Zenon DEF TypeOK, Has, StoreConditional, Goto
  <2>2. MutualExclusion' /\ WordSet'
    BY <1>8, <2>1, SMTT(30) DEF MutualExclusion, WordSet, StoreConditional
  <2>3. LinkFresh'
    BY <1>2, <1>3, <1>8 DEF LinkFresh, StoreConditional
  <2> QED
    BY <1>4, <1>5, <1>6, <2>2, <2>3
<1> QED
  BY <1>7, <1>8

\* The lock that was taken is counted as held from here on.
LEMMA HolderStep ==
    ASSUME IInv, NEW c \in Processors, SetHolder(c)
    PROVE  IInv'
<1> USE DEF IInv
<1>1. want[c] \in Locks /\ want[c] \notin held[c] /\ pc[c] = "own" /\ pc'[c] = "run"
  BY DEF TypeOK, WantNotHeld, SetHolder, At, Goto
<1>2. \A d \in Processors : d # c => pc'[d] = pc[d] /\ held'[d] = held[d]
  BY DEF TypeOK, SetHolder, Goto
<1>3. held'[c] = held[c] \cup {want[c]}
  BY DEF TypeOK, SetHolder
<1>4. TypeOK' /\ NoPanic' /\ HandlerHigh'
  <2>1. holder' \in [Locks -> Processors \cup {NoCpu}] /\ held' \in [Processors -> SUBSET Locks]
    BY <1>1 DEF TypeOK, SetHolder
  <2>2. TypeOK'
    BY <2>1, Zenon DEF TypeOK, SetHolder, Goto, Where
  <2>3. NoPanic' /\ HandlerHigh'
    BY Zenon DEF NoPanic, HandlerHigh, SetHolder
  <2> QED
    BY <2>2, <2>3
<1>5. LevelCounted'
  <2>1. IsFiniteSet(held[c]) /\ Cardinality(held[c]) \in Nat
    BY HeldCounted
  <2>2. Cardinality(held'[c]) = Cardinality(held[c]) + 1
    BY <1>1, <1>3, <2>1, FS_AddElement, Zenon
  <2>3. count'[c] = Cardinality(held'[c]) + curspl'[c] + (IF pc'[c] = "run" THEN 0 ELSE 1)
    BY <1>1, <2>1, <2>2, SMTT(30) DEF TypeOK, LevelCounted, SetHolder
  <2>4. irq'[c] <=> count'[c] = 0
    BY DEF LevelCounted, SetHolder
  <2> QED
    BY <1>2, <2>3, <2>4, OthersCounted, Zenon DEF SetHolder
<1>6. \A d \in Processors : \A l \in Locks : Has(d, l)' <=> Has(d, l)
  BY <1>1, <1>2, <1>3 DEF Has, SetHolder
<1>7. MutualExclusion' /\ WordSet'
  BY <1>6 DEF MutualExclusion, WordSet, SetHolder
<1>8. HolderRight'
  <2>1. \A d \in Processors : d # c => want[c] \notin held[d]
    BY <1>1 DEF MutualExclusion, Has
  <2>2. \A l \in Locks : holder'[l] = IF l = want[c] THEN c ELSE holder[l]
    BY Zenon DEF TypeOK, SetHolder
  <2> QED
    BY <1>2, <1>3, <2>1, <2>2 DEF HolderRight
<1>9. WantNotHeld' /\ LinkFresh'
  BY <1>1, <1>2 DEF WantNotHeld, LinkFresh, SetHolder
<1> QED
  BY <1>4, <1>5, <1>7, <1>8, <1>9, Zenon

\* spinlock_release up to the store: the lock is not held any more, and still excludes.
LEMMA ReleaseStep ==
    ASSUME IInv, NEW c \in Processors, NEW k \in Locks, spinlock_release(c, k)
    PROVE  IInv'
<1> USE DEF IInv
<1>1. holder[k] = c /\ k \in held[c] /\ pc[c] = "run"
  BY DEF HolderRight, spinlock_release, At
<1>2. \A d \in Processors : d # c => pc'[d] = pc[d] /\ held'[d] = held[d] /\ want'[d] = want[d]
  BY <1>1 DEF TypeOK, spinlock_release, Goto
<1>3. held'[c] = held[c] \ {k} /\ want'[c] = k /\ pc'[c] = "clear"
  BY <1>1 DEF TypeOK, spinlock_release, Goto
<1>4. TypeOK' /\ NoPanic' /\ HandlerHigh'
  <2>1. holder' \in [Locks -> Processors \cup {NoCpu}] /\ held' \in [Processors -> SUBSET Locks]
    BY <1>1, SMTT(30) DEF TypeOK, spinlock_release
  <2>2. TypeOK'
    BY <1>1, <2>1, SMTT(30) DEF TypeOK, spinlock_release, Goto, Where
  <2>3. NoPanic' /\ HandlerHigh'
    BY <1>1, SMTT(30) DEF NoPanic, HandlerHigh, spinlock_release
  <2> QED
    BY <2>2, <2>3, SMTT(30)
<1>5. LevelCounted'
  <2>1. IsFiniteSet(held[c]) /\ Cardinality(held[c]) \in Nat
    BY HeldCounted, Zenon
  <2>2. Cardinality(held'[c]) = Cardinality(held[c]) - 1
    BY <1>1, <1>3, <2>1, FS_RemoveElement, Zenon
  <2>3. count'[c] = Cardinality(held'[c]) + curspl'[c] + (IF pc'[c] = "run" THEN 0 ELSE 1)
    BY <1>1, <1>3, <2>1, <2>2, SMTT(30) DEF TypeOK, LevelCounted, spinlock_release
  <2>4. irq'[c] <=> count'[c] = 0
    BY <1>1 DEF LevelCounted, spinlock_release
  <2> QED
    BY <1>1, <1>2, <2>3, <2>4, OthersCounted DEF spinlock_release
<1>6. \A d \in Processors : \A l \in Locks : Has(d, l)' <=> Has(d, l)
  BY <1>1, <1>2, <1>3, SMTT(30) DEF Has
<1>7. MutualExclusion' /\ WordSet'
  BY <1>1, <1>6, SMTT(30) DEF MutualExclusion, WordSet, spinlock_release
<1>8. HolderRight'
  <2>1. \A d \in Processors : d # c => k \notin held[d]
    BY <1>1 DEF MutualExclusion, Has
  <2>2. \A l \in Locks : holder'[l] = IF l = k THEN NoCpu ELSE holder[l]
    BY <1>1, Zenon DEF TypeOK, spinlock_release
  <2> QED
    BY <1>2, <1>3, <2>1, <2>2, CpuAssumption, SMTT(30) DEF HolderRight
<1>9. WantNotHeld' /\ LinkFresh'
  BY <1>1, <1>2, <1>3, SMTT(30) DEF WantNotHeld, LinkFresh, spinlock_release
<1> QED
  BY <1>4, <1>5, <1>7, <1>8, <1>9, SMTT(30)

\* The store that gives the lock back: only the processor that makes it had the lock.
LEMMA ClearStep ==
    ASSUME IInv, NEW c \in Processors, ClearData(c)
    PROVE  IInv'
<1> USE DEF IInv
<1>1. want[c] \in Locks /\ want[c] \notin held[c] /\ pc[c] = "clear" /\ pc'[c] = "run"
  BY DEF TypeOK, WantNotHeld, ClearData, At, Goto
<1>2. \A d \in Processors : d # c => pc'[d] = pc[d]
  BY SMTT(30) DEF TypeOK, ClearData, Goto
<1>3. \A d \in Processors : Cardinality(held[d]) \in Nat
  BY HeldCounted
<1>4. count[c] > 0
  BY <1>1, <1>3, SMTT(30) DEF TypeOK, LevelCounted
<1>5. /\ count' \in [Processors -> Nat] /\ irq' \in [Processors -> BOOLEAN]
      /\ count'[c] = count[c] - 1 /\ (irq'[c] <=> count'[c] = 0)
      /\ \A d \in Processors : d # c => count'[d] = count[d] /\ irq'[d] = irq[d]
  BY <1>4, Lowered, SMTT(30) DEF ClearData
<1>6. TypeOK' /\ NoPanic' /\ HandlerHigh'
  <2>1. data' \in [Locks -> 0 .. 1] /\ linked' \in [Processors -> BOOLEAN]
    BY DEF TypeOK, ClearData, Unlinked
  <2>2. TypeOK'
    BY <1>5, <2>1, Zenon DEF TypeOK, ClearData, Goto, Where
  <2>3. NoPanic' /\ HandlerHigh'
    BY DEF NoPanic, HandlerHigh, ClearData
  <2> QED
    BY <2>2, <2>3
<1>7. LevelCounted'
  <2>1. count'[c] = Cardinality(held'[c]) + curspl'[c] + (IF pc'[c] = "run" THEN 0 ELSE 1)
    BY <1>1, <1>3, <1>5, SMTT(30) DEF TypeOK, LevelCounted, ClearData
  <2> QED
    BY <1>2, <1>5, <2>1, OthersCounted, Zenon DEF ClearData
<1>8. \A d \in Processors : \A l \in Locks : Has(d, l)' <=> Has(d, l) /\ l # want[c]
  <2>1. \A d \in Processors : d # c => ~Has(d, want[c])
    BY <1>1 DEF MutualExclusion, Has
  <2> QED
    BY <1>1, <1>2, <2>1, SMTT(30) DEF Has, ClearData
<1>9. MutualExclusion' /\ WordSet'
  BY <1>8, Zenon DEF TypeOK, MutualExclusion, WordSet, ClearData
<1>10. HolderRight' /\ WantNotHeld'
  BY <1>1, <1>2 DEF HolderRight, WantNotHeld, ClearData
<1>11. LinkFresh'
  BY <1>1, <1>2, Zenon DEF TypeOK, LinkFresh, Unlinked, ClearData
<1> QED
  BY <1>6, <1>7, <1>9, <1>10, <1>11, SMTT(30)

\* An interrupt comes at count 0 only, and its handler leaves as it came.
LEMMA InterruptSteps ==
    ASSUME IInv, NEW c \in Processors, Interrupt(c) \/ Return(c)
    PROVE  IInv'
<1> USE DEF IInv
<1>1. \A d \in Processors : Cardinality(held[d]) \in Nat /\ (Cardinality(held[d]) = 0 <=> held[d] = {})
  BY HeldCounted, SMTT(30)
<1>2. MutualExclusion' /\ WordSet' /\ HolderRight' /\ WantNotHeld' /\ LinkFresh'
  BY SMTT(30) DEF MutualExclusion, WordSet, HolderRight, WantNotHeld, LinkFresh, Has, Interrupt, Return, Panic
<1>3. \A d \in Processors : d # c =>
          count'[d] = count[d] /\ irq'[d] = irq[d] /\ curspl'[d] = curspl[d] /\ intr'[d] = intr[d]
  BY DEF TypeOK, Interrupt, Return, Panic
<1>4. CASE Interrupt(c)
  <2>1. count[c] = 0 /\ pc[c] = "run" /\ Cardinality(held[c]) = 0
    BY <1>1, <1>4, SMTT(30) DEF TypeOK, LevelCounted, Interrupt
  <2>2. count'[c] = 1 /\ curspl'[c] = 1 /\ ~irq'[c]
    BY <1>4, <2>1 DEF TypeOK, Interrupt
  <2>3. TypeOK'
    <3>1. count' \in [Processors -> Nat] /\ curspl' \in [Processors -> 0 .. 1]
      BY <1>4, <2>1, SMTT(30) DEF TypeOK, Interrupt
    <3> QED
      BY <1>4, <2>1, <3>1, Zenon DEF TypeOK, Interrupt
  <2>4. NoPanic' /\ HandlerHigh'
    BY <1>3, <1>4, <2>1, <2>2, SMTT(30) DEF NoPanic, HandlerHigh, Interrupt
  <2>5. LevelCounted'
    BY <1>3, <1>4, <2>1, <2>2, OthersCounted, SMTT(30) DEF Interrupt
  <2> QED
    BY <1>2, <2>3, <2>4, <2>5, SMTT(30)
<1>5. CASE Return(c)
  <2>1. count[c] = 1 /\ curspl[c] = 1 /\ pc[c] = "run" /\ Cardinality(held[c]) = 0
    <3>1. curspl[c] = 1 /\ pc[c] = "run" /\ held[c] = {}
      BY <1>5 DEF HandlerHigh, Return, At
    <3>2. Cardinality(held[c]) = 0
      BY <1>1, <3>1, Zenon
    <3> QED
      BY <3>1, <3>2, SMTT(30) DEF LevelCounted
  <2>2. count'[c] = 0 /\ curspl'[c] = 0 /\ irq'[c] /\ ~intr'[c]
    BY <1>5, <2>1, SMTT(30) DEF TypeOK, Return
  <2>3. TypeOK'
    <3>1. count' \in [Processors -> Nat] /\ curspl' \in [Processors -> 0 .. 1]
      BY <1>5, <2>1, SMTT(30) DEF TypeOK, Return
    <3> QED
      BY <1>5, <2>1, <3>1, ZenonT(30) DEF TypeOK, Return
  <2>4. NoPanic' /\ HandlerHigh'
    <3>1. \A d \in Processors : intr'[d] => d # c /\ intr[d]
      BY <1>3, <2>2, Zenon
    <3>2. HandlerHigh'
      BY <1>3, <3>1, Zenon DEF HandlerHigh
    <3> QED
      BY <1>5, <2>1, <3>2, Zenon DEF NoPanic, Return
  <2>5. LevelCounted'
    <3>1. held' = held /\ pc' = pc
      BY <1>5, <2>1, ZenonT(30) DEF Return
    <3>2. count'[c] = Cardinality(held'[c]) + curspl'[c] + (IF pc'[c] = "run" THEN 0 ELSE 1)
      BY <2>1, <2>2, <3>1, SMTT(30)
    <3>3. irq'[c] <=> count'[c] = 0
      BY <2>2
    <3> QED
      BY <1>3, <3>1, <3>2, <3>3, OthersCounted, Zenon
  <2> QED
    BY <1>2, <2>3, <2>4, <2>5
<1> QED
  BY <1>4, <1>5

\* Every step keeps IInv.
LEMMA Inductive == IInv /\ [Next]_vars => IInv'
<1> SUFFICES ASSUME IInv, [Next]_vars PROVE IInv'
  OBVIOUS
<1>1. CASE Next
  <2> PICK c \in Processors :
        \/ splhigh(c) \/ splx(c)
        \/ \E l \in Locks : spinlock_acquire(c, l) \/ spinlock_release(c, l)
        \/ CheckHolder(c) \/ Spin(c) \/ LoadLinked(c) \/ StoreConditional(c) \/ SetHolder(c)
        \/ ClearData(c)
        \/ Interrupt(c) \/ Return(c)
    BY <1>1, ZenonT(30) DEF Next
  <2> QED
    BY LevelSteps, AcquireSteps, StoreStep, HolderStep, ReleaseStep, ClearStep, InterruptSteps, Zenon
<1>2. CASE UNCHANGED vars
  BY <1>2 DEF vars, IInv, TypeOK, NoPanic, MutualExclusion, WordSet, HolderRight, WantNotHeld,
              LinkFresh, LevelCounted, HandlerHigh, Has
<1> QED
  BY <1>1, <1>2

\* IInv holds always.
LEMMA Invariant == Spec => []IInv
<1> QED
  BY Initially, Inductive, PTL DEF Spec

\* Whatever the number of processors and locks, and however their acquires and releases run into
\* each other and into interrupt handlers, no two processors have a spinlock at once
\* (spinlock_acquire and spinlock_release on the ll/sc test-and-set).
THEOREM LocksExclude == Spec => []MutualExclusion
<1>1. IInv => MutualExclusion
  BY DEF IInv
<1> QED
  BY <1>1, Invariant, PTL

\* splraise and spllower keep the count of each thread exactly, and interrupts are on exactly at
\* count 0, whatever the order in which locks and levels are given back.
THEOREM LevelsCounted == Spec => []LevelCounted
<1>1. IInv => LevelCounted
  BY DEF IInv
<1> QED
  BY <1>1, Invariant, PTL

\* The assertions of spinlock_acquire, spinlock_release and mips_trap never fail.
THEOREM AssertionsHold == Spec => []NoPanic
<1>1. IInv => NoPanic
  BY DEF IInv
<1> QED
  BY <1>1, Invariant, PTL
=============================================================================
