---------------------------- MODULE TlbCoherence ----------------------------
(***************************************************************************)
(* The place of every thread, for any number of threads; and, for a single *)
(* thread, that the TLB is never out of date.                              *)
(***************************************************************************)
EXTENDS VirtualMemory_proofs

(***************************************************************************)
(* OnePlace for any number of threads: the timer, the disk and the menu    *)
(* may move threads about at any time, and each is still in one place.     *)
(***************************************************************************)
Absent(q, t) == \A i \in DOMAIN q : q[i] # t
Once(q, t)   == \E i \in DOMAIN q : q[i] = t /\ \A j \in DOMAIN q : q[j] = t => j = i

\* A thread that is here has nothing to do until it is woken or launched.
Asleep == {"none", "wait", "swap_out"}

\* OnePlace for one thread.
Placed(t) ==
    /\ pc[t] \in Asleep => cur # t /\ Absent(runqueue, t)
    /\ pc[t] = "swap_in" => Absent(runqueue, t) \/ (cur # t /\ Once(runqueue, t))
    /\ pc[t] \notin Asleep \cup {"swap_in"} =>
         IF cur = t THEN Absent(runqueue, t) ELSE Once(runqueue, t)

\* OnePlace says of each thread that it is in one place.
LEMMA PlacedIsOnePlace == OnePlace <=> \A t \in Threads : Placed(t)
<1> SUFFICES ASSUME NEW t \in Threads
             PROVE  (LET places == {i \in DOMAIN runqueue : runqueue[i] = t}
                     IN  CASE pc[t] \in {"none", "wait", "swap_out"} -> cur # t /\ places = {}
                           [] pc[t] = "swap_in" -> places = {} \/ (cur # t /\ \E i \in places : places = {i})
                           [] OTHER -> IF cur = t THEN places = {} ELSE \E i \in places : places = {i})
                    <=> Placed(t)
  BY Zenon DEF OnePlace
<1> DEFINE places == {i \in DOMAIN runqueue : runqueue[i] = t}
<1>1. places = {} <=> Absent(runqueue, t)
  BY Zenon DEF Absent
<1>2. (\E i \in places : places = {i}) <=> Once(runqueue, t)
  BY Zenon DEF Once
<1> HIDE DEF places
<1>3. CASE pc[t] \in {"none", "wait", "swap_out"}
  BY <1>1, <1>3, Zenon DEF Placed, Asleep, places
<1>4. CASE pc[t] = "swap_in"
  BY <1>1, <1>2, <1>4, Zenon DEF Placed, Asleep, places
<1>5. CASE pc[t] \notin {"none", "wait", "swap_out", "swap_in"}
  BY <1>1, <1>2, <1>5, Zenon DEF Placed, Asleep, places
<1>6. QED
  BY <1>3, <1>4, <1>5, Zenon

-----------------------------------------------------------------------------
(* The run queue. *)

\* Another thread at the end of the run queue.
LEMMA AppendOther ==
    ASSUME NEW q \in Seq(Threads), NEW t \in Threads, NEW u \in Threads, t # u
    PROVE  /\ Absent(q, t) => Absent(Append(q, u), t)
           /\ Once(q, t) => Once(Append(q, u), t)
<1>1. /\ DOMAIN Append(q, u) = 1 .. Len(q) + 1 /\ DOMAIN q = 1 .. Len(q) /\ Len(q) \in Nat
      /\ \A i \in 1 .. Len(q) : Append(q, u)[i] = q[i]
      /\ Append(q, u)[Len(q) + 1] = u
  OBVIOUS
<1> DEFINE r == Append(q, u)
<1> HIDE DEF r
<1>2. QED
  BY <1>1 DEF Absent, Once, r

\* A thread that was not in the run queue, at its end.
LEMMA AppendSelf ==
    ASSUME NEW q \in Seq(Threads), NEW t \in Threads, Absent(q, t)
    PROVE  Once(Append(q, t), t)
<1>1. /\ DOMAIN Append(q, t) = 1 .. Len(q) + 1 /\ DOMAIN q = 1 .. Len(q) /\ Len(q) \in Nat
      /\ \A i \in 1 .. Len(q) : Append(q, t)[i] = q[i]
      /\ Append(q, t)[Len(q) + 1] = t
  OBVIOUS
<1>2. QED
  BY <1>1 DEF Absent, Once

\* The run queue without its head, for another thread.
LEMMA TailOther ==
    ASSUME NEW q \in Seq(Threads), q # <<>>, NEW t \in Threads, Head(q) # t
    PROVE  /\ Absent(q, t) => Absent(Tail(q), t)
           /\ Once(q, t) => Once(Tail(q), t)
<1>1. /\ DOMAIN Tail(q) = 1 .. Len(q) - 1 /\ DOMAIN q = 1 .. Len(q) /\ Len(q) \in Nat
      /\ \A i \in 1 .. Len(q) - 1 : Tail(q)[i] = q[i + 1]
      /\ q[1] # t
  OBVIOUS
<1>2. Absent(q, t) => Absent(Tail(q), t)
  BY <1>1 DEF Absent
<1>3. ASSUME Once(q, t) PROVE Once(Tail(q), t)
  <2>1. PICK i \in 1 .. Len(q) : q[i] = t /\ \A j \in 1 .. Len(q) : q[j] = t => j = i
    BY <1>1, <1>3, Zenon DEF Once
  <2>2. i - 1 \in 1 .. Len(q) - 1 /\ Tail(q)[i - 1] = t
    BY <1>1, <2>1
  <2>3. \A j \in 1 .. Len(q) - 1 : Tail(q)[j] = t => j = i - 1
    BY <1>1, <2>1
  <2>4. QED
    BY <1>1, <2>2, <2>3, Zenon DEF Once
<1>4. QED
  BY <1>2, <1>3, Zenon

\* The run queue without its head, for the head.
LEMMA TailSelf ==
    ASSUME NEW q \in Seq(Threads), q # <<>>, NEW t \in Threads, Head(q) = t
    PROVE  ~Absent(q, t) /\ (Once(q, t) => Absent(Tail(q), t))
<1>1. /\ DOMAIN Tail(q) = 1 .. Len(q) - 1 /\ DOMAIN q = 1 .. Len(q) /\ Len(q) \in Nat
      /\ \A i \in 1 .. Len(q) - 1 : Tail(q)[i] = q[i + 1]
      /\ q[1] = t /\ 1 \in DOMAIN q
  OBVIOUS
<1>2. QED
  BY <1>1 DEF Absent, Once

-----------------------------------------------------------------------------
(* Steps by what they do to the CPU and to the run queue. *)

\* Threads that stay where they are.
LEMMA OthersPlaced ==
    ASSUME NEW u \in Threads, Placed(u), pc'[u] = pc[u], cur' = u <=> cur = u,
           Absent(runqueue, u) => Absent(runqueue', u),
           Once(runqueue, u) => Once(runqueue', u)
    PROVE  Placed(u)'
<1>1. CASE pc[u] \in Asleep
  BY <1>1, Zenon DEF Placed, Absent, Once, Asleep
<1>2. CASE pc[u] \notin Asleep
  BY <1>2, Zenon DEF Placed, Absent, Once, Asleep
<1>3. QED
  BY <1>1, <1>2, Zenon

\* t goes on, still running.
LEMMA GoesOn ==
    ASSUME TypeOK, \A u \in Threads : Placed(u), NEW t \in Threads, cur = t,
           UNCHANGED <<cur, runqueue>>,
           \E x : pc' = [pc EXCEPT ![t] = x] /\ x \notin Asleep
    PROVE  \A u \in Threads : Placed(u)'
<1>1. Absent(runqueue, t)
  BY Zenon DEF Placed, Asleep
<1>2. Placed(t)'
  BY <1>1, Zenon DEF Placed, Absent, Once, TypeOK, ThreadTypeOK
<1>3. ASSUME NEW u \in Threads \ {t} PROVE Placed(u)'
  BY OthersPlaced, Zenon DEF TypeOK, ThreadTypeOK
<1>4. QED
  BY <1>2, <1>3, Zenon

\* t gives up the CPU and sleeps, or ends.
LEMMA Sleeps ==
    ASSUME TypeOK, \A u \in Threads : Placed(u), NEW t \in Threads, cur = t,
           cur' = NULL, UNCHANGED runqueue,
           \E x : pc' = [pc EXCEPT ![t] = x] /\ x \in Asleep \cup {"swap_in"}
    PROVE  \A u \in Threads : Placed(u)'
<1>1. Absent(runqueue, t)
  BY Zenon DEF Placed, Asleep
<1>2. Placed(t)'
  BY <1>1, NullType DEF Placed, Absent, Once, Asleep, TypeOK, ThreadTypeOK
<1>3. ASSUME NEW u \in Threads \ {t} PROVE Placed(u)'
  BY OthersPlaced, NullType, Zenon DEF TypeOK, ThreadTypeOK
<1>4. QED
  BY <1>2, <1>3, Zenon

\* t is woken.
LEMMA Woken ==
    ASSUME TypeOK, \A u \in Threads : Placed(u), NEW t \in Threads,
           pc[t] \in {"swap_out", "wait", "swap_in"},
           UNCHANGED cur, runqueue' = MadeRunnable(t),
           \E x : pc' = [pc EXCEPT ![t] = x] /\ x \in {"swapped_out", "swapped_in", "user"}
    PROVE  \A u \in Threads : Placed(u)'
<1>1. Queued(t) <=> ~Absent(runqueue, t)
  BY Zenon DEF Queued, Absent
<1>2. runqueue \in Seq(Threads) /\ pc'[t] \in {"swapped_out", "swapped_in", "user"}
  BY Zenon DEF TypeOK, CpuTypeOK, ThreadTypeOK
<1>3. IF cur = t THEN Absent(runqueue', t) ELSE Once(runqueue', t)
  <2>1. CASE cur = t
    BY <2>1, Zenon DEF Placed, Asleep, MadeRunnable
  <2>2. CASE cur # t /\ Queued(t)
    BY <1>1, <2>2, Zenon DEF Placed, Asleep, MadeRunnable
  <2>3. CASE cur # t /\ ~Queued(t)
    BY <1>1, <1>2, <2>3, AppendSelf, Zenon DEF MadeRunnable
  <2>4. QED
    BY <2>1, <2>2, <2>3, Zenon
<1>4. Placed(t)'
  BY <1>2, <1>3, Zenon DEF Placed, Asleep, Absent, Once
<1>5. ASSUME NEW u \in Threads \ {t} PROVE Placed(u)'
  <2>1. /\ Absent(runqueue, u) => Absent(runqueue', u)
        /\ Once(runqueue, u) => Once(runqueue', u)
    BY <1>2, AppendOther, Zenon DEF MadeRunnable
  <2>2. QED
    BY <2>1, OthersPlaced, Zenon DEF TypeOK, ThreadTypeOK
<1>6. QED
  BY <1>4, <1>5, Zenon

\* The menu's thread takes the CPU from the running thread and launches t.
LEMMA LaunchPlaces ==
    ASSUME TypeOK, \A u \in Threads : Placed(u), NEW t \in Threads, NEW p \in Programs,
           Launch(t, p), stealmem_lock = NULL
    PROVE  \A u \in Threads : Placed(u)'
<1> DEFINE q == IF cur = NULL THEN runqueue ELSE Append(runqueue, cur)
<1>1. /\ runqueue \in Seq(Threads) /\ cur \in Threads \cup {NULL}
      /\ pc[t] = "none" /\ pc' = [pc EXCEPT ![t] = "start"]
      /\ runqueue' = Append(q, t) /\ cur' = NULL
  BY Zenon DEF Launch, TypeOK, CpuTypeOK
<1>2. q \in Seq(Threads)
  BY <1>1
<1>3. cur # t /\ Absent(runqueue, t)
  BY <1>1, Zenon DEF Placed, Asleep
<1>4. Absent(q, t)
  BY <1>1, <1>3, AppendOther, Zenon
<1>5. ASSUME NEW u \in Threads \ {t}
      PROVE  /\ cur = u => Once(q, u)
             /\ cur # u /\ Absent(runqueue, u) => Absent(q, u)
             /\ cur # u /\ Once(runqueue, u) => Once(q, u)
  <2>1. CASE cur = u
    <3>1. Absent(runqueue, u)
      BY <2>1, Zenon DEF Placed, Asleep
    <3>2. QED
      BY <1>1, <2>1, <3>1, AppendSelf, NullType, Zenon
  <2>2. CASE cur # u
    BY <1>1, <2>2, AppendOther, Zenon
  <2>3. QED
    BY <2>1, <2>2, Zenon
<1> HIDE DEF q
<1>6. Placed(t)'
  <2>1. Once(runqueue', t)
    BY <1>1, <1>2, <1>4, AppendSelf, Zenon
  <2>2. pc'[t] = "start" /\ cur' # t
    BY <1>1, NullType, Zenon DEF TypeOK, ThreadTypeOK
  <2>3. QED
    BY <2>1, <2>2, Zenon DEF Placed, Asleep, Absent, Once
<1>7. ASSUME NEW u \in Threads \ {t} PROVE Placed(u)'
  <2>1. /\ Absent(q, u) => Absent(runqueue', u)
        /\ Once(q, u) => Once(runqueue', u)
    BY <1>1, <1>2, AppendOther, Zenon
  <2>2. pc'[u] = pc[u] /\ cur' # u
    BY <1>1, NullType, Zenon DEF TypeOK, ThreadTypeOK
  <2>3. CASE cur = u
    <3>1. Once(runqueue', u) /\ pc[u] \notin Asleep
      BY <1>5, <2>1, <2>3, Zenon DEF Placed
    <3>2. QED
      BY <2>2, <3>1, Zenon DEF Placed, Asleep, Absent, Once
  <2>4. CASE cur # u
    BY <1>5, <2>1, <2>2, <2>4, OthersPlaced, Zenon
  <2>5. QED
    BY <2>3, <2>4, Zenon
<1>8. QED
  BY <1>6, <1>7, Zenon

\* Dispatch keeps every thread in one place.
LEMMA DispatchPlaces ==
    ASSUME TypeOK, \A u \in Threads : Placed(u), Dispatch
    PROVE  \A u \in Threads : Placed(u)'
<1>1. PICK t \in Threads : t = Head(runqueue)
  BY DEF Dispatch, TypeOK, CpuTypeOK
<1>2. /\ runqueue \in Seq(Threads) /\ runqueue # <<>>
      /\ cur = NULL /\ cur' = t /\ runqueue' = Tail(runqueue) /\ pc' = pc
  BY <1>1, Zenon DEF Dispatch, TypeOK, CpuTypeOK, threadVars
<1>3. Placed(t)'
  <2>1. ~Absent(runqueue, t) /\ (Once(runqueue, t) => Absent(runqueue', t))
    BY <1>2, <1>1, TailSelf, Zenon
  <2>2. pc[t] \notin Asleep /\ Absent(runqueue', t)
    BY <1>2, <2>1, NullType, Zenon DEF Placed, Asleep
  <2>3. QED
    BY <1>2, <2>2, Zenon DEF Placed, Absent, Once
<1>4. ASSUME NEW u \in Threads \ {t} PROVE Placed(u)'
  <2>1. /\ Absent(runqueue, u) => Absent(runqueue', u)
        /\ Once(runqueue, u) => Once(runqueue', u)
    BY <1>2, <1>1, TailOther, Zenon
  <2>2. QED
    BY <1>2, <2>1, OthersPlaced, NullType, Zenon
<1>5. QED
  BY <1>3, <1>4, Zenon

\* Preempt keeps every thread in one place.
LEMMA PreemptPlaces ==
    ASSUME TypeOK, \A u \in Threads : Placed(u), Preempt
    PROVE  \A u \in Threads : Placed(u)'
<1>1. PICK t \in Threads : t = Head(runqueue)
  BY DEF Preempt, TypeOK, CpuTypeOK
<1> DEFINE q == Tail(runqueue)
<1>2. /\ runqueue \in Seq(Threads) /\ runqueue # <<>> /\ q \in Seq(Threads)
      /\ cur \in Threads /\ cur' = t /\ runqueue' = Append(q, cur) /\ pc' = pc
  BY <1>1 DEF Preempt, TypeOK, CpuTypeOK, threadVars
<1> HIDE DEF q
<1>3. ~Absent(runqueue, t) /\ (Once(runqueue, t) => Absent(q, t))
  BY <1>2, <1>1, TailSelf, Zenon DEF q
<1>4. Absent(runqueue, cur) /\ pc[cur] \notin Asleep
  BY <1>2, Zenon DEF Placed, Asleep
<1>5. cur # t
  BY <1>3, <1>4, Zenon
<1>6. Placed(t)'
  <2>1. pc[t] \notin Asleep /\ Absent(q, t)
    BY <1>2, <1>3, <1>5, Zenon DEF Placed, Asleep
  <2>2. Absent(runqueue', t)
    BY <1>2, <1>5, <2>1, AppendOther, Zenon
  <2>3. QED
    BY <1>2, <2>1, <2>2, Zenon DEF Placed, Absent, Once
<1>7. ASSUME NEW u \in Threads, u = cur PROVE Placed(u)'
  <2>1. Absent(q, u)
    BY <1>2, <1>4, <1>5, <1>7, <1>1, TailOther, Zenon DEF q
  <2>2. Once(runqueue', u) /\ cur' # u /\ pc'[u] \notin Asleep
    BY <1>2, <1>4, <1>5, <1>7, <2>1, AppendSelf, Zenon
  <2>3. QED
    BY <2>2, Zenon DEF Placed, Absent, Once
<1>8. ASSUME NEW u \in Threads \ {t, cur} PROVE Placed(u)'
  <2>1. /\ Absent(runqueue, u) => Absent(q, u)
        /\ Once(runqueue, u) => Once(q, u)
    BY <1>2, <1>1, TailOther, Zenon DEF q
  <2>2. /\ Absent(q, u) => Absent(runqueue', u)
        /\ Once(q, u) => Once(runqueue', u)
    BY <1>2, AppendOther, Zenon
  <2>3. QED
    BY <1>2, <2>1, <2>2, OthersPlaced, Zenon
<1>9. QED
  BY <1>6, <1>7, <1>8, Zenon

\* Every step keeps every thread in one place.
LEMMA NextPlaces == TypeOK /\ OnePlace /\ [Next]_vars => OnePlace'
<1> SUFFICES ASSUME TypeOK, \A u \in Threads : Placed(u), [Next]_vars
             PROVE  \A u \in Threads : Placed(u)'
  <2>1. (OnePlace <=> \A t \in Threads : Placed(t))'
    BY PlacedIsOnePlace, PTL
  <2>2. QED
    BY <2>1, PlacedIsOnePlace, Zenon
<1>1. CASE UNCHANGED <<pc, cur, runqueue>>
  BY <1>1, Zenon DEF Placed, Absent, Once
<1>2. ASSUME NEW reason, Panic(reason) PROVE \A u \in Threads : Placed(u)'
  BY <1>1, <1>2, Zenon DEF Panic, threadVars, cpuVars
<1>3. CASE Schedule
  BY <1>3, DispatchPlaces, PreemptPlaces, Zenon DEF Schedule
<1>4. ASSUME NEW t \in Threads, KernelStep(t) PROVE \A u \in Threads : Placed(u)'
  <2>1. CASE AllocSpins(t)
    BY <1>2, <2>1, Zenon DEF AllocSpins
  <2>2. CASE AllocFree(t) \/ ReplaceDone(t)
    <3>1. ASSUME NEW q PROVE AfterAlloc(t, q) \in {"alloc", "add", "install"}
      BY Zenon DEF AfterAlloc
    <3>2. PICK x \in {"alloc", "add", "install"} : pc' = [pc EXCEPT ![t] = x]
      <4>1. CASE AllocFree(t)
        BY <3>1, <4>1, Zenon DEF AllocFree
      <4>2. CASE ReplaceDone(t)
        BY <3>1, <4>2, Zenon DEF ReplaceDone
      <4>3. QED
        BY <2>2, <4>1, <4>2, Zenon
    <3>3. cur = t /\ UNCHANGED <<cur, runqueue>>
      BY <2>2, Zenon DEF AllocFree, ReplaceDone, Running
    <3>4. QED
      BY <3>2, <3>3, GoesOn, Zenon DEF Asleep
  <2>3. CASE Start(t) \/ AddPage(t) \/ LoadAs(t) \/ Install(t) \/ PageIn(t) \/ Map(t)
    <3>1. \/ \E reason : Panic(reason)
          \/ UNCHANGED <<pc, cur, runqueue>>
          \/ /\ cur = t /\ UNCHANGED <<cur, runqueue>>
             /\ \E x \in {"alloc", "user", "swap_in", "map"} : pc' = [pc EXCEPT ![t] = x]
      BY <2>3, Zenon DEF Start, AddPage, LoadAs, Install, PageIn, Map, Running, cpuVars
    <3>2. QED
      BY <1>1, <1>2, <3>1, GoesOn, Zenon DEF Asleep
  <2>4. CASE LoadFails(t) \/ AllocReplace(t)
    <3>1. \/ \E reason : Panic(reason)
          \/ /\ cur = t /\ cur' = NULL /\ UNCHANGED runqueue
             /\ \E x \in {"none", "swap_out"} : pc' = [pc EXCEPT ![t] = x]
      BY <2>4, Zenon DEF LoadFails, AllocReplace, Running
    <3>2. QED
      BY <1>2, <3>1, Sleeps, Zenon DEF Asleep
  <2>5. CASE SwapInSleeps(t)
    <3>1. /\ cur = t /\ cur' = NULL /\ UNCHANGED runqueue
          /\ pc' = [pc EXCEPT ![t] = "swap_in"]
      BY <2>5, Zenon DEF SwapInSleeps, Running, threadVars, TypeOK, ThreadTypeOK
    <3>2. QED
      BY <3>1, Sleeps, Zenon
  <2>6. CASE SwapOutDone(t) \/ SwapInDone(t) \/ Wake(t)
    BY <2>6, Woken, Zenon DEF SwapOutDone, SwapInDone, Wake
  <2>7. QED
    BY <1>4, <2>1, <2>2, <2>3, <2>4, <2>5, <2>6, Zenon DEF KernelStep
<1>5. ASSUME NEW t \in Threads, UserStep(t) PROVE \A u \in Threads : Placed(u)'
  <2>1. ASSUME NEW p \in Programs, Launch(t, p) PROVE \A u \in Threads : Placed(u)'
    BY <1>2, <2>1, LaunchPlaces, Zenon DEF Launch
  <2>2. ASSUME NEW v \in VPages, Fault(t, v) PROVE \A u \in Threads : Placed(u)'
    <3>1. \/ Panic("vm_fault") \/ Panic("kill_curthread")
          \/ /\ pc' = [pc EXCEPT ![t] = "map"] \/ pc' = [pc EXCEPT ![t] = "alloc"]
             /\ UNCHANGED cpuVars
      BY <2>2, Zenon DEF Fault
    <3>2. cur = t
      BY <2>2, Zenon DEF Fault, Running
    <3>3. QED
      BY <1>2, <3>1, <3>2, GoesOn, Zenon DEF Asleep, cpuVars
  <2>3. ASSUME NEW v \in VPages, NEW d \in Data, Store(t, v, d)
        PROVE  \A u \in Threads : Placed(u)'
    BY <1>1, <2>3, Zenon DEF Store, threadVars, cpuVars
  <2>4. CASE Wait(t) \/ Exit(t)
    <3>1. /\ cur = t /\ cur' = NULL /\ UNCHANGED runqueue
          /\ \E x \in {"wait", "none"} : pc' = [pc EXCEPT ![t] = x]
      BY <2>4, Zenon DEF Wait, Exit, Running
    <3>2. QED
      BY <3>1, Sleeps, Zenon DEF Asleep
  <2>5. QED
    BY <1>5, <2>1, <2>2, <2>3, <2>4, Zenon DEF UserStep
<1>6. QED
  BY <1>1, <1>3, <1>4, <1>5, Zenon DEF Next, vars, threadVars, cpuVars

\* thread_make_runnable, the timer's thread_yield, thread_switch and the sleeps in swap_in and
\* swap_out never lose a thread and never enter one twice in the run queue.
THEOREM ThreadsInOnePlace == Spec => []OnePlace
<1>1. Init => OnePlace
  <2>1. Init => \A t \in Threads : Placed(t)
    BY NullType DEF Init, Placed, Absent, Asleep
  <2>2. QED
    BY <2>1, PlacedIsOnePlace, Zenon
<1>2. QED
  BY <1>1, NextPlaces, TypeCorrect, PTL DEF Spec

-----------------------------------------------------------------------------
(***************************************************************************)
(* Why the TLB of a single program is never out of date, although          *)
(* tlb_invalidate skips entry 0.  The frame of a page is taken while its   *)
(* program gives up the CPU, and it comes back with an empty TLB.  The TLB *)
(* of a program that is being loaded is empty, and a page that is being    *)
(* fetched was mapped nowhere before: what add_page_entry enters           *)
(* contradicts no entry of the TLB.                                        *)
(***************************************************************************)
Serving == Allocating \cup {"add", "install"}

\* The page that thread t faults on.
Faulting(t) == <<space[t], page[t]>>

\* The TLB holds nothing but what the page table of t does.
Agrees(t) == \A i \in TlbSlots : tlb[i] # NULL => pte[<<space[t], tlb[i][1]>>] = tlb[i][2]

Mapped(t) ==
    /\ cur = t => Agrees(t)
    /\ pc[t] \in Serving /\ page[t] = NULL /\ cur = t => tlb = EmptyTlb
    /\ pc[t] \in Serving /\ page[t] # NULL => pte[Faulting(t)] = NULL
    /\ pc[t] \in {"swap_in", "swapped_in"} => pte[Faulting(t)] = Head(got[t])[2]
    /\ pc[t] = "map" => pte[Faulting(t)] = paddr[t]

TlbInv == \A t \in Threads : Mapped(t)

\* There is one thread.
Solitary == \A t, u \in Threads : t = u

\* An empty TLB agrees with every page table.
LEMMA EmptyAgrees ==
    /\ \A t : tlb = EmptyTlb => Agrees(t)
    /\ \A t : tlb' = EmptyTlb => Agrees(t)'
<1>1. \A i \in TlbSlots : EmptyTlb[i] = NULL
  BY Zenon DEF EmptyTlb
<1>2. QED
  BY <1>1, Zenon DEF Agrees

\* What leaves a thread, its page table and the TLB alone, or empties the TLB, keeps Mapped.
LEMMA SameMapped ==
    ASSUME NEW t \in Threads, Mapped(t), UNCHANGED pte,
           pc'[t] = pc[t], space'[t] = space[t], page'[t] = page[t], paddr'[t] = paddr[t],
           got'[t] = got[t], cur' = t => (cur = t /\ tlb' = tlb) \/ tlb' = EmptyTlb
    PROVE  Mapped(t)'
<1>1. Faulting(t)' = Faulting(t)
  BY Zenon DEF Faulting
<1>2. cur' = t => Agrees(t)'
  <2>1. CASE cur = t /\ tlb' = tlb
    BY <2>1, Zenon DEF Mapped, Agrees
  <2>2. QED
    BY <2>1, EmptyAgrees, Zenon
<1>3. pc'[t] \in Serving /\ page'[t] = NULL /\ cur' = t => tlb' = EmptyTlb
  BY Zenon DEF Mapped
<1>4. QED
  BY <1>1, <1>2, <1>3, Zenon DEF Mapped

\* A thread that is served no page, and is not about to map one, has only its TLB to keep.
LEMMA Idle ==
    ASSUME NEW t \in Threads, pc'[t] \in {"none", "start", "user", "wait"},
           cur' = t => Agrees(t)'
    PROVE  Mapped(t)'
BY Zenon DEF Mapped, Serving, Allocating

\* panic leaves everything as it is.
LEMMA PanicMapped ==
    ASSUME NEW t \in Threads, Mapped(t), NEW reason, Panic(reason)
    PROVE  Mapped(t)'
BY SameMapped, Zenon DEF Panic, spaceVars, threadVars, cpuVars, tlbVars

\* The scheduler's steps end with an empty TLB.
LEMMA ScheduleMapped ==
    ASSUME NEW t \in Threads, Mapped(t), Schedule
    PROVE  Mapped(t)'
BY SameMapped, Zenon DEF Schedule, Dispatch, Preempt, Activated, spaceVars, threadVars

\* A thread that goes on in virtual_alloc_kpages or leaves it.
LEMMA StillServing ==
    ASSUME NEW t \in Threads, Mapped(t), pc[t] \in Serving, pc'[t] \in Serving,
           UNCHANGED <<pte, space, page, cur>>, Agrees(t) => Agrees(t)',
           tlb = EmptyTlb => tlb' = EmptyTlb
    PROVE  Mapped(t)'
<1>1. Faulting(t)' = Faulting(t)
  BY Zenon DEF Faulting
<1>2. pc'[t] \notin {"swap_in", "swapped_in", "map"}
  BY Zenon DEF Serving, Allocating
<1>3. QED
  BY <1>1, <1>2, Zenon DEF Mapped

\* What follows virtual_alloc_kpages.
LEMMA AfterAllocServes ==
    ASSUME NEW t, NEW rest
    PROVE  AfterAlloc(t, rest) \in Serving
BY Zenon DEF AfterAlloc, Serving, Allocating

\* insert_tlb_entry, for a page whose frame is the one in the page table.
LEMMA InsertAgrees ==
    ASSUME TypeOK, NEW t \in Threads, NEW v \in VPages, NEW f, InsertTlbEntry(v, f),
           Agrees(t), space'[t] = space[t],
           pte'[<<space[t], v>>] = f,
           \A w \in VPages : w # v => pte'[<<space[t], w>>] = pte[<<space[t], w>>],
           Probe(v) = {} \/ pte[<<space[t], v>>] = f
    PROVE  Agrees(t)'
<1>1. SUFFICES ASSUME NEW i \in TlbSlots, tlb'[i] # NULL
               PROVE  pte'[<<space[t], tlb'[i][1]>>] = tlb'[i][2]
  BY Zenon DEF Agrees
<1>2. tlb \in [TlbSlots -> (VPages \X Frames) \cup {NULL}] /\ last_tlb_entry \in TlbSlots
  BY Zenon DEF TypeOK, TlbTypeOK
<1>3. CASE tlb'[i] = tlb[i] /\ (tlb[i][1] # v \/ pte[<<space[t], v>>] = f)
  <2>1. tlb[i] \in VPages \X Frames
    BY <1>1, <1>2, <1>3, Zenon
  <2>2. tlb[i][1] \in VPages
    BY <2>1
  <2>3. pte[<<space[t], tlb[i][1]>>] = tlb[i][2]
    BY <1>1, <1>3, Zenon DEF Agrees
  <2>4. QED
    BY <1>3, <2>2, <2>3, Zenon
<1>4. CASE Probe(v) # {}
  BY <1>3, <1>4, Zenon DEF InsertTlbEntry, tlbVars
<1>5. CASE Probe(v) = {}
  <2>1. tlb' = [tlb EXCEPT ![last_tlb_entry] = <<v, f>>]
    BY <1>5, Zenon DEF InsertTlbEntry
  <2>2. CASE i = last_tlb_entry
    BY <1>2, <2>1, <2>2
  <2>3. CASE i # last_tlb_entry
    <3>1. tlb'[i] = tlb[i]
      BY <1>2, <2>1, <2>3, Zenon
    <3>2. tlb[i][1] # v
      BY <1>1, <1>5, <3>1, Zenon DEF Probe
    <3>3. QED
      BY <1>3, <3>1, <3>2, Zenon
  <2>4. QED
    BY <2>2, <2>3, Zenon
<1>6. QED
  BY <1>4, <1>5, Zenon

\* A page that the page table does not map is not in the TLB.
LEMMA NotCached ==
    ASSUME TypeOK, NEW t \in Threads, Agrees(t), NEW v, pte[<<space[t], v>>] = NULL
    PROVE  Probe(v) = {}
<1>1. SUFFICES ASSUME NEW i \in TlbSlots, tlb[i] # NULL, tlb[i][1] = v PROVE FALSE
  BY Zenon DEF Probe
<1>2. tlb[i] \in VPages \X Frames
  BY <1>1, Zenon DEF TypeOK, TlbTypeOK
<1>3. tlb[i][2] \in Frames
  BY <1>2
<1>4. QED
  BY <1>1, <1>3, NullType, Zenon DEF Agrees

\* virtual_alloc_kpages gives a free frame.
LEMMA AllocFreeMapped ==
    ASSUME TypeOK, NEW t \in Threads, Mapped(t), AllocFree(t)
    PROVE  Mapped(t)'
<1>1. PICK n : n \in Serving /\ pc' = [pc EXCEPT ![t] = n]
  <2>1. \E m : pc' = [pc EXCEPT ![t] = IF m THEN "alloc" ELSE AfterAlloc(t, Tail(req[t]))]
    BY Zenon DEF AllocFree
  <2>2. QED
    BY <2>1, AfterAllocServes, Zenon DEF Serving, Allocating
<1>2. pc'[t] \in Serving /\ pc[t] \in Serving
  BY <1>1, Zenon DEF AllocFree, TypeOK, ThreadTypeOK, Serving, Allocating
<1>3. UNCHANGED <<pte, space, page, cur, tlb>>
  BY Zenon DEF AllocFree, spaceVars, tlbVars
<1>4. Agrees(t) => Agrees(t)'
  BY <1>3, Zenon DEF Agrees
<1>5. QED
  BY <1>2, <1>3, <1>4, StillServing, Zenon

\* The frame of a page is taken: its thread leaves the CPU.
LEMMA AllocReplaceMapped ==
    ASSUME TypeOK, NEW t \in Threads, Mapped(t), AllocReplace(t)
    PROVE  Mapped(t)'
<1> DEFINE f == FrameAddr(SecondChance(pftRef, ep_hand, rp_hand).victim)
           o == pftOwner[PftIndex(f)]
<1>1. CASE o = NULL \/ ~HasSlot(o[2])
  BY <1>1, PanicMapped, Zenon DEF AllocReplace
<1>2. CASE o # NULL /\ HasSlot(o[2])
  <2>1. /\ pte' = Unmapped(o) /\ pc' = [pc EXCEPT ![t] = "swap_out"]
        /\ cur' = NULL /\ UNCHANGED <<space, page>>
    BY <1>2, Zenon DEF AllocReplace
  <2> HIDE DEF o
  <2>2. pte[Faulting(t)] = NULL => pte'[Faulting(t)] = NULL
    <3>1. pte' = [pte EXCEPT ![o] = NULL]
      BY <2>1, Zenon DEF Unmapped
    <3>2. CASE Faulting(t) \in Owners
      BY <3>1, <3>2, Zenon DEF TypeOK, SpaceTypeOK
    <3>3. QED
      BY <3>1, <3>2 DEF TypeOK, SpaceTypeOK
  <2>3. pc'[t] = "swap_out" /\ pc[t] \in Serving
    BY <2>1, Zenon DEF TypeOK, ThreadTypeOK, AllocReplace, Serving, Allocating
  <2>4. cur' # t /\ Faulting(t)' = Faulting(t)
    BY <2>1, NullType, Zenon DEF Faulting
  <2>5. QED
    BY <2>1, <2>2, <2>3, <2>4, Zenon DEF Mapped
<1>3. QED
  BY <1>1, <1>2, Zenon

\* virtual_alloc_kpages after swap_out only takes entries from the TLB.
LEMMA ReplaceDoneMapped ==
    ASSUME TypeOK, NEW t \in Threads, Mapped(t), ReplaceDone(t)
    PROVE  Mapped(t)'
<1>1. PICK n : n \in Serving /\ pc' = [pc EXCEPT ![t] = n]
  <2>1. \E m : pc' = [pc EXCEPT ![t] = IF m THEN "alloc" ELSE AfterAlloc(t, Tail(req[t]))]
    BY Zenon DEF ReplaceDone
  <2>2. QED
    BY <2>1, AfterAllocServes, Zenon DEF Serving, Allocating
<1>2. pc'[t] \in Serving /\ pc[t] \in Serving
  BY <1>1, Zenon DEF ReplaceDone, TypeOK, ThreadTypeOK, Serving, Allocating
<1>3. UNCHANGED <<pte, space, page, cur>>
  BY Zenon DEF ReplaceDone, spaceVars
<1>4. \A i \in TlbSlots : tlb'[i] \in {tlb[i], NULL}
  BY Zenon DEF ReplaceDone, Invalidated
<1>5. Agrees(t) => Agrees(t)'
  BY <1>3, <1>4, Zenon DEF Agrees
<1>6. tlb = EmptyTlb => tlb' = EmptyTlb
  <2>1. \A i \in TlbSlots : EmptyTlb[i] = NULL
    BY Zenon DEF EmptyTlb
  <2>2. \E p : tlb' = [i \in TlbSlots |-> IF p[i] THEN NULL ELSE tlb[i]]
    <3> DEFINE P == Probe(victim[t][2][2])
    <3>1. tlb' = [i \in TlbSlots |-> IF i \in P /\ i > 0 THEN NULL ELSE tlb[i]]
      BY Zenon DEF ReplaceDone, Invalidated
    <3> HIDE DEF P
    <3>2. tlb' = [i \in TlbSlots |-> IF [j \in TlbSlots |-> j \in P /\ j > 0][i] THEN NULL ELSE tlb[i]]
      BY <3>1, Zenon
    <3>3. QED
      BY <3>2, Zenon
  <2>3. QED
    BY <2>1, <2>2 DEF EmptyTlb
<1>7. QED
  BY <1>2, <1>3, <1>5, <1>6, StillServing, Zenon

\* A program that starts does so with an empty TLB.
LEMMA StartMapped ==
    ASSUME TypeOK, Control, NEW t \in Threads, Mapped(t), Start(t)
    PROVE  Mapped(t)'
<1>1. CASE stealmem_lock # NULL
  BY <1>1, PanicMapped, Zenon DEF Start
<1>2. CASE stealmem_lock = NULL
  <2>1. tlb' = EmptyTlb /\ pc'[t] = "alloc" /\ page'[t] = page[t]
    BY <1>2, Zenon DEF Start, Activated, TypeOK, ThreadTypeOK
  <2>2. page[t] = NULL
    BY Zenon DEF Start, Control, ThreadOK
  <2>3. QED
    BY <2>1, <2>2, EmptyAgrees, Zenon DEF Mapped
<1>3. QED
  BY <1>1, <1>2, Zenon

\* A page that as_prepare_load enters finds the TLB empty.
LEMMA AddPageMapped ==
    ASSUME TypeOK, Control, NEW t \in Threads, Mapped(t), AddPage(t)
    PROVE  Mapped(t)'
<1> DEFINE v == Head(got[t])[1]
           f == Head(got[t])[2]
<1>1. CASE f = Wild \/ (v[2] = 0 /\ stealmem_lock # NULL)
  BY <1>1, PanicMapped, Zenon DEF AddPage
<1>2. CASE f # Wild /\ ~(v[2] = 0 /\ stealmem_lock # NULL)
  <2>1. tlb' = tlb /\ pc' = pc /\ page' = page
    BY <1>2, Zenon DEF AddPage, tlbVars
  <2>2. pc[t] = "add" /\ cur = t /\ page[t] = NULL
    BY Zenon DEF AddPage, Running, Control, ThreadOK
  <2>3. tlb' = EmptyTlb
    BY <2>1, <2>2, Zenon DEF Mapped, Serving
  <2>4. QED
    BY <2>1, <2>2, <2>3, EmptyAgrees, Zenon DEF Mapped
<1>3. QED
  BY <1>1, <1>2, Zenon

\* The loaded program begins with an empty TLB.
LEMMA LoadAsMapped ==
    ASSUME TypeOK, NEW t \in Threads, Mapped(t), LoadAs(t)
    PROVE  Mapped(t)'
<1> DEFINE full == Len(swapspace) + Len(SwapPages(layout[space[t]])) > SWAP_SLOTS
<1>1. CASE full
  BY <1>1, PanicMapped, Zenon DEF LoadAs
<1>2. CASE ~full
  <2>1. UNCHANGED <<tlb, pte, space, cur>> /\ pc'[t] = "user" /\ cur = t
    BY <1>2, Zenon DEF LoadAs, Running, tlbVars, spaceVars, cpuVars, TypeOK, ThreadTypeOK
  <2>2. Agrees(t)'
    BY <2>1, Zenon DEF Mapped, Agrees
  <2>3. QED
    BY <2>1, <2>2, Idle, Zenon
<1>3. QED
  BY <1>1, <1>2, Zenon

\* vm_fault takes the frame from the page table, or finds that there is none.
LEMMA FaultMapped ==
    ASSUME TypeOK, Control, NEW t \in Threads, NEW v \in VPages, Mapped(t), Fault(t, v)
    PROVE  Mapped(t)'
<1> DEFINE o == <<space[t], v>>
           p == layout[space[t]]
<1>1. CASE ~(SetUp(p) /\ v \in Region(p))
  BY <1>1, PanicMapped, Zenon DEF Fault
<1>2. CASE SetUp(p) /\ v \in Region(p)
  <2>1. /\ page' = [page EXCEPT ![t] = v]
        /\ \/ paddr' = [paddr EXCEPT ![t] = pte[o]] /\ pc' = [pc EXCEPT ![t] = "map"]
           \/ pte[o] = NULL /\ pc' = [pc EXCEPT ![t] = "alloc"]
        /\ UNCHANGED <<spaceVars, tlbVars, space, cpuVars>>
    BY <1>2, Zenon DEF Fault
  <2>2. page'[t] = v /\ Faulting(t)' = o /\ v # NULL
    BY <2>1, NullType, Zenon DEF TypeOK, ThreadTypeOK, Faulting
  <2> HIDE DEF o
  <2>3. UNCHANGED <<pte, tlb, cur>>
    BY <2>1, Zenon DEF spaceVars, tlbVars, cpuVars
  <2>4. cur' = t => Agrees(t)'
    BY <2>1, <2>3, Zenon DEF Mapped, Agrees
  <2>5. \/ paddr'[t] = pte[o] /\ pc'[t] = "map"
        \/ pte[o] = NULL /\ pc'[t] = "alloc"
    BY <2>1, Zenon DEF TypeOK, ThreadTypeOK
  <2>6. QED
    BY <2>2, <2>3, <2>4, <2>5, Zenon DEF Mapped, Serving, Allocating
<1>3. QED
  BY <1>1, <1>2, Zenon

\* get_physical_address enters the new frame in the page table and in the TLB.
LEMMA InstallMapped ==
    ASSUME TypeOK, Control, NEW t \in Threads, Mapped(t), Install(t)
    PROVE  Mapped(t)'
<1> DEFINE v == Head(got[t])[1]
           f == Head(got[t])[2]
           o == <<space[t], v>>
<1>1. v = page[t] /\ v \in VPages /\ v # NULL /\ o \in Owners /\ o = Faulting(t)
  <2>1. pc[t] \in Fetching
    BY Zenon DEF Install, Fetching
  <2>2. v = page[t] /\ v \in VPages /\ space[t] \in Spaces
    BY <2>1, Fetched, Zenon
  <2>3. QED
    BY <2>2, NullType, Zenon DEF Owners, Faulting
<1>2. CASE ~HasSlot(v)
  BY <1>2, PanicMapped, Zenon DEF Install
<1>3. CASE HasSlot(v)
  <2>1. /\ AddPageEntry(o, f) /\ InsertTlbEntry(v, f)
        /\ pc' = [pc EXCEPT ![t] = "swap_in"] /\ UNCHANGED <<space, page, got>>
    BY <1>3, Zenon DEF Install
  <2>2. pc[t] \in Serving /\ cur = t
    BY Zenon DEF Install, Running, Serving
  <2>3. pte[o] = NULL /\ Agrees(t)
    BY <1>1, <2>2, Zenon DEF Mapped
  <2>4. Probe(v) = {}
    BY <2>3, NotCached, Zenon
  <2>5. pte'[o] = f /\ \A x \in Owners : x # o => pte'[x] = pte[x]
    BY <1>1, <2>1, Zenon DEF AddPageEntry, TypeOK, SpaceTypeOK
  <2>6. \A w \in VPages : w # v => pte'[<<space[t], w>>] = pte[<<space[t], w>>]
    <3>1. space[t] \in Spaces
      BY Fetched, Zenon DEF Install, Fetching
    <3>2. SUFFICES ASSUME NEW w \in VPages, w # v PROVE pte'[<<space[t], w>>] = pte[<<space[t], w>>]
      BY Zenon
    <3>3. <<space[t], w>> \in Owners /\ <<space[t], w>> # o
      BY <3>1, <3>2, Zenon DEF Owners
    <3>4. QED
      BY <2>5, <3>3, Zenon
  <2>7. Agrees(t)'
    BY <1>1, <2>1, <2>3, <2>4, <2>5, <2>6, InsertAgrees, Zenon
  <2>8. pc'[t] = "swap_in" /\ Faulting(t)' = Faulting(t) /\ Head(got'[t])[2] = f
    BY <2>1, Zenon DEF TypeOK, ThreadTypeOK, Faulting
  <2>9. pte'[Faulting(t)'] = Head(got'[t])[2]
    BY <1>1, <2>5, <2>8, Zenon
  <2> HIDE DEF v, f, o
  <2>10. QED
    BY <2>7, <2>8, <2>9, Zenon DEF Mapped, Serving, Allocating
<1>4. QED
  BY <1>2, <1>3, Zenon

\* The transfer of swap_in ends.
LEMMA SwapInDoneMapped ==
    ASSUME TypeOK, NEW t \in Threads, Mapped(t), SwapInDone(t)
    PROVE  Mapped(t)'
<1>1. /\ UNCHANGED <<pte, tlb, space, page, got, cur>>
      /\ pc[t] = "swap_in" /\ pc'[t] = "swapped_in"
  BY Zenon DEF SwapInDone, spaceVars, tlbVars, TypeOK, ThreadTypeOK
<1>2. Faulting(t)' = Faulting(t) /\ (Agrees(t) => Agrees(t)')
  BY <1>1, Zenon DEF Faulting, Agrees
<1>3. QED
  BY <1>1, <1>2, Zenon DEF Mapped, Serving, Allocating

\* get_physical_address returns the frame that it entered.
LEMMA PageInMapped ==
    ASSUME TypeOK, NEW t \in Threads, Mapped(t), PageIn(t)
    PROVE  Mapped(t)'
<1>1. /\ UNCHANGED <<pte, tlb, space, page, cur>>
      /\ pc[t] = "swapped_in" /\ pc'[t] = "map" /\ paddr'[t] = Head(got[t])[2]
  BY Zenon DEF PageIn, spaceVars, tlbVars, cpuVars, TypeOK, ThreadTypeOK
<1>2. Faulting(t)' = Faulting(t) /\ (Agrees(t) => Agrees(t)')
  BY <1>1, Zenon DEF Faulting, Agrees
<1>3. QED
  BY <1>1, <1>2, Zenon DEF Mapped, Serving, Allocating

\* vm_fault's last step.
LEMMA MapMapped ==
    ASSUME TypeOK, Control, NEW t \in Threads, Mapped(t), Map(t)
    PROVE  Mapped(t)'
<1>1. /\ UNCHANGED <<pte, space>> /\ InsertTlbEntry(page[t], paddr[t])
      /\ pc[t] = "map" /\ pc'[t] = "user" /\ cur = t
  BY Zenon DEF Map, Running, spaceVars, TypeOK, ThreadTypeOK
<1>2. page[t] \in VPages
  BY <1>1, Zenon DEF Control, ThreadOK, TypeOK, ThreadTypeOK
<1>3. Agrees(t) /\ pte[<<space[t], page[t]>>] = paddr[t]
  BY <1>1, Zenon DEF Mapped, Faulting
<1>4. Agrees(t)'
  BY <1>1, <1>2, <1>3, InsertAgrees, Zenon
<1>5. QED
  BY <1>1, <1>4, Idle, Zenon

\* The steps that concern the TLB only by leaving the CPU or by emptying it.
LEMMA OtherMapped ==
    ASSUME TypeOK, OnePlace, NEW t \in Threads, Mapped(t),
           \/ \E p \in Programs : Launch(t, p)
           \/ \E v \in VPages, d \in Data : Store(t, v, d)
           \/ LoadFails(t) \/ SwapOutDone(t) \/ SwapInSleeps(t) \/ Wait(t) \/ Wake(t) \/ Exit(t)
    PROVE  Mapped(t)'
<1>1. ASSUME NEW p \in Programs, Launch(t, p) PROVE Mapped(t)'
  <2>1. CASE stealmem_lock # NULL
    BY <1>1, <2>1, PanicMapped, Zenon DEF Launch
  <2>2. CASE stealmem_lock = NULL
    <3>1. pc'[t] = "start" /\ cur' = NULL
      BY <1>1, <2>2, Zenon DEF Launch, TypeOK, ThreadTypeOK
    <3>2. QED
      BY <3>1, Idle, NullType, Zenon
  <2>3. QED
    BY <2>1, <2>2, Zenon
<1>2. ASSUME NEW v \in VPages, NEW d \in Data, Store(t, v, d) PROVE Mapped(t)'
  BY <1>2, SameMapped, Zenon DEF Store, spaceVars, threadVars, cpuVars, tlbVars
<1>3. ASSUME LoadFails(t) \/ Wait(t) \/ Exit(t) PROVE Mapped(t)'
  <2>1. pc'[t] \in {"none", "wait"} /\ cur' = NULL
    BY <1>3, Zenon DEF LoadFails, Wait, Exit, TypeOK, ThreadTypeOK
  <2>2. QED
    BY <2>1, Idle, NullType, Zenon
<1>4. ASSUME SwapInSleeps(t) PROVE Mapped(t)'
  <2>1. cur' # t
    BY <1>4, NullType, Zenon DEF SwapInSleeps
  <2>2. QED
    BY <1>4, <2>1, SameMapped, Zenon DEF SwapInSleeps, spaceVars, threadVars
<1>5. pc[t] \in Asleep => cur # t
  BY PlacedIsOnePlace, Zenon DEF Placed
<1>6. ASSUME Wake(t) PROVE Mapped(t)'
  <2>1. pc'[t] = "user" /\ cur' # t
    BY <1>5, <1>6, Zenon DEF Wake, Asleep, TypeOK, ThreadTypeOK
  <2>2. QED
    BY <2>1, Idle, Zenon
<1>7. ASSUME SwapOutDone(t) PROVE Mapped(t)'
  <2>1. /\ pc[t] = "swap_out" /\ pc'[t] = "swapped_out" /\ cur' # t
        /\ UNCHANGED <<pte, space, page, cur, tlb>>
    BY <1>5, <1>7, Zenon DEF SwapOutDone, Asleep, TypeOK, ThreadTypeOK, spaceVars, tlbVars
  <2>2. Agrees(t) => Agrees(t)'
    BY <2>1, Zenon DEF Agrees
  <2>3. QED
    BY <2>1, <2>2, StillServing, Zenon DEF Serving, Allocating
<1>8. QED
  BY <1>1, <1>2, <1>3, <1>4, <1>6, <1>7, Zenon

\* A step of the only thread, or of the scheduler.
LEMMA NextMapped ==
    ASSUME Solitary, TypeOK, Control, OnePlace, TlbInv, [Next]_vars
    PROVE  TlbInv'
<1> SUFFICES ASSUME NEW t \in Threads PROVE Mapped(t)'
  BY Zenon DEF TlbInv
<1>1. Mapped(t)
  BY Zenon DEF TlbInv
<1>2. CASE UNCHANGED vars
  BY <1>1, <1>2, SameMapped, Zenon DEF vars, spaceVars, threadVars, cpuVars, tlbVars
<1>3. CASE Schedule
  BY <1>1, <1>3, ScheduleMapped, Zenon
<1>4. CASE KernelStep(t)
  <2>1. ASSUME AllocSpins(t) PROVE Mapped(t)'
    BY <1>1, <2>1, PanicMapped, Zenon DEF AllocSpins
  <2>2. QED
    BY <1>1, <1>4, <2>1, StartMapped, AllocFreeMapped, AllocReplaceMapped, ReplaceDoneMapped, AddPageMapped,
       LoadAsMapped, InstallMapped, SwapInDoneMapped, PageInMapped, MapMapped, OtherMapped, Zenon
    DEF KernelStep
<1>5. CASE UserStep(t)
  BY <1>1, <1>5, FaultMapped, OtherMapped, Zenon DEF UserStep
<1>6. QED
  BY <1>2, <1>3, <1>4, <1>5, Zenon DEF Next, Solitary

\* While the only program runs, the TLB maps its pages as its page table does, whatever the sizes of
\* the TLB, the page frame table and the program, though tlb_invalidate leaves entry 0 alone and
\* insert_tlb_entry an entry that it finds.
THEOREM TlbNeverStale ==
    ASSUME Solitary
    PROVE  Spec => []TlbCoherent
<1>1. Init => TlbInv
  <2>1. SUFFICES ASSUME Init, NEW t \in Threads PROVE Mapped(t)
    BY Zenon DEF TlbInv
  <2>2. pc[t] = "none" /\ cur # t
    BY <2>1, NullType, Zenon DEF Init
  <2>3. QED
    BY <2>2, Zenon DEF Mapped, Serving, Allocating
<1>2. TypeOK /\ TlbInv => TlbCoherent
  <2>1. TypeOK => DOMAIN tlb = TlbSlots
    BY DEF TypeOK, TlbTypeOK
  <2>2. QED
    BY <2>1, Zenon DEF TlbInv, Mapped, Agrees, TlbCoherent, Running
<1>3. TypeOK /\ Control /\ OnePlace /\ TlbInv /\ [Next]_vars => TlbInv'
  BY NextMapped, Zenon
<1>4. Spec => [](TypeOK /\ Control /\ NoneReferenced)
  BY InitTypes, NextTypes, PTL DEF Spec
<1>5. QED
  BY <1>1, <1>2, <1>3, <1>4, ThreadsInOnePlace, PTL DEF Spec
=============================================================================
