------------------------------ MODULE Semaphore ------------------------------
(***************************************************************************)
(* P and V of kern/thread/synch.c on the wait channel of thread.c, lock by *)
(* lock: the semaphore's spinlock, then the channel's, which P takes before*)
(* it lets go of the first.  Threads run on as many CPUs as there are      *)
(* threads; V is also called by interrupt handlers, which are threads here.*)
(***************************************************************************)
EXTENDS Integers, Sequences, FiniteSetTheorems, TLAPS

CONSTANTS Threads, Nobody,
          Initial,     \* initial_count
          MaxCount     \* bound: V is not called when it could take the count past this

ASSUME SemaphoreAssumption ==
    /\ IsFiniteSet(Threads) /\ Nobody \notin Threads
    /\ Initial \in Nat /\ MaxCount \in Nat

VARIABLES
    count,       \* sem_count
    lock,        \* holder of sem_lock
    wlock,       \* holder of wc_lock
    sleepers,    \* wc_threads
    pc

vars == <<count, lock, wlock, sleepers, pc>>

Init ==
    /\ count = Initial
    /\ lock = Nobody /\ wlock = Nobody
    /\ sleepers = <<>>
    /\ pc = [t \in Threads |-> "idle"]

Goto(t, where) == pc' = [pc EXCEPT ![t] = where]

P(t) ==
    /\ pc[t] = "idle"
    /\ Goto(t, "p_lock")
    /\ UNCHANGED <<count, lock, wlock, sleepers>>

PLock(t) ==
    /\ pc[t] = "p_lock" /\ lock = Nobody
    /\ lock' = t
    /\ Goto(t, "p_test")
    /\ UNCHANGED <<count, wlock, sleepers>>

\* Variant: P does not test again after it slept.
PTakeAnyway(t) ==
    /\ pc[t] = "p_test" /\ lock' = Nobody
    /\ count' = IF count > 0 THEN count - 1 ELSE 0
    /\ Goto(t, "idle")
    /\ UNCHANGED <<wlock, sleepers>>

\* Variant: P goes down whatever the count is.
PTakeUntested(t) ==
    /\ pc[t] = "p_test" /\ lock' = Nobody
    /\ count' = count - 1
    /\ Goto(t, "idle")
    /\ UNCHANGED <<wlock, sleepers>>

PTake(t) ==
    /\ pc[t] = "p_test" /\ count > 0
    /\ count' = count - 1
    /\ lock' = Nobody
    /\ Goto(t, "idle")
    /\ UNCHANGED <<wlock, sleepers>>

\* Variant: P lets go of sem_lock without the bridge to wc_lock.
PNoBridge(t) ==
    /\ pc[t] = "p_test" /\ count = 0
    /\ lock' = Nobody
    /\ Goto(t, "p_sleep")
    /\ UNCHANGED <<count, wlock, sleepers>>

\* Variant: P sleeps with sem_lock.
PKeepsLock(t) ==
    /\ pc[t] = "p_test" /\ count = 0 /\ wlock = Nobody
    /\ wlock' = t
    /\ Goto(t, "p_sleep")
    /\ UNCHANGED <<count, lock, sleepers>>

\* wchan_lock, and then spinlock_release of sem_lock.
PBridge(t) ==
    /\ pc[t] = "p_test" /\ count = 0 /\ wlock = Nobody
    /\ wlock' = t
    /\ lock' = Nobody
    /\ Goto(t, "p_sleep")
    /\ UNCHANGED <<count, sleepers>>

\* wchan_sleep: thread_switch puts the thread on the list and unlocks the channel.
PSleep(t) ==
    /\ pc[t] = "p_sleep"
    /\ sleepers' = Append(sleepers, t)
    /\ wlock' = Nobody
    /\ Goto(t, "asleep")
    /\ UNCHANGED <<count, lock>>

V(t) ==
    /\ pc[t] = "idle" /\ count + Cardinality({u \in Threads : pc[u] = "v_lock"}) < MaxCount
    /\ Goto(t, "v_lock")
    /\ UNCHANGED <<count, lock, wlock, sleepers>>

VLock(t) ==
    /\ pc[t] = "v_lock" /\ lock = Nobody
    /\ lock' = t
    /\ count' = count + 1
    /\ Goto(t, "v_wake")
    /\ UNCHANGED <<wlock, sleepers>>

\* Variant: the thread that is woken stays on the list.
VWakeListed(t) ==
    /\ pc[t] = "v_wake" /\ wlock = Nobody
    /\ lock' = Nobody
    /\ pc' = [u \in Threads |-> IF u = t THEN "idle"
              ELSE IF sleepers # <<>> /\ u = Head(sleepers) THEN "p_lock" ELSE pc[u]]
    /\ UNCHANGED <<count, wlock, sleepers>>

\* wchan_wakeone holds wc_lock only for the removal; what is not asleep is not on the list.
VWake(t) ==
    /\ pc[t] = "v_wake" /\ wlock = Nobody
    /\ lock' = Nobody
    /\ \/ /\ sleepers = <<>>
          /\ Goto(t, "idle")
          /\ UNCHANGED sleepers
       \/ /\ sleepers # <<>>
          /\ sleepers' = Tail(sleepers)
          /\ pc' = [pc EXCEPT ![t] = "idle", ![Head(sleepers)] = "p_lock"]
    /\ UNCHANGED <<count, wlock>>

Step(t) == PLock(t) \/ PTake(t) \/ PBridge(t) \/ PSleep(t) \/ VLock(t) \/ VWake(t)

Next == \E t \in Threads : P(t) \/ V(t) \/ Step(t)

Spec == Init /\ [][Next]_vars
---------------------------------------------------------------------------
Where == {"idle", "p_lock", "p_test", "p_sleep", "asleep", "v_lock", "v_wake"}

\* Type invariant: what each variable may hold.
TypeOK ==
    /\ count \in Nat
    /\ lock \in Threads \cup {Nobody} /\ wlock \in Threads \cup {Nobody}
    /\ sleepers \in Seq(Threads)
    /\ pc \in [Threads -> Where]

In(where) == {t \in Threads : pc[t] \in where}

\* No wakeup is lost between the test in P and the sleep: while a thread sleeps, or is past the test
\* on its way to sleep, there is for every unit of the count a V that is about to wake someone or a
\* P that will test again.
NoLostWakeup ==
    sleepers # <<>> \/ In({"p_sleep"}) # {} =>
        count <= Cardinality(In({"v_wake"})) + Cardinality(In({"p_lock", "p_test"}))

\* The threads on the channel's list are the sleeping ones, each once.
ListedOnce ==
    /\ {sleepers[i] : i \in DOMAIN sleepers} = In({"asleep"})
    /\ \A i, j \in DOMAIN sleepers : sleepers[i] = sleepers[j] => i = j

\* What a caller of the semaphore sees of a thread.
CallOf(t) ==
    CASE pc[t] \in {"idle", "v_wake"} -> "none"
      [] pc[t] = "v_lock" -> "V"
      [] OTHER -> "P"

Calls == [t \in Threads |-> CallOf(t)]

Returned(t) == pc[t] \in {"idle", "asleep"}

\* What a semaphore promises its callers.
Promise == INSTANCE CountingSemaphore WITH call <- Calls
-----------------------------------------------------------------------------
(***************************************************************************)
(* Proofs, for any number of threads.  NoLostWakeup alone is not           *)
(* inductive: that wchan_wakeone finds nobody on the list proves that      *)
(* nobody sleeps only because whoever is on the way to sleep has wc_lock.  *)
(***************************************************************************)
\* A thread past the test in P has the channel's lock until it is on the list.
SleepLocked == \A t \in Threads : pc[t] = "p_sleep" => wlock = t

\* The inductive invariant.
SemInv == TypeOK /\ SleepLocked /\ ListedOnce /\ NoLostWakeup

\* How many threads a state of the program counters has in some places.
Count(f, where) == Cardinality({t \in Threads : f[t] \in where})

\* What a move of thread t to w, from f to g, does to the count of the places S.
Moved(f, g, t, w, S) ==
    /\ Count(f, S) \in Nat
    /\ (w \in S <=> f[t] \in S) => Count(g, S) = Count(f, S)
    /\ w \in S /\ f[t] \notin S => Count(g, S) = Count(f, S) + 1
    /\ w \notin S /\ f[t] \in S => Count(g, S) = Count(f, S) - 1

\* One thread that moves changes the count of the places it leaves and enters by one.
LEMMA CountMoved ==
    ASSUME NEW f, NEW g, NEW t \in Threads, NEW w, NEW S,
           g[t] = w, \A u \in Threads \ {t} : g[u] = f[u]
    PROVE  Moved(f, g, t, w, S)
<1> DEFINE A == {u \in Threads : f[u] \in S}
           B == {u \in Threads : g[u] \in S}
<1>1. IsFiniteSet(A) /\ Cardinality(A) \in Nat
  BY SemaphoreAssumption, FS_Subset, FS_CardinalityType
<1>2. g[t] = w /\ \A u \in Threads \ {t} : g[u] = f[u]
  OBVIOUS
<1>3. (w \in S <=> f[t] \in S) => B = A
  BY <1>2, Zenon
<1>4. ASSUME w \in S, f[t] \notin S PROVE Cardinality(B) = Cardinality(A) + 1
  <2>1. B = A \cup {t} /\ t \notin A
    BY <1>2, <1>4
  <2>2. QED
    BY <1>1, <2>1, FS_AddElement, Zenon
<1>5. ASSUME w \notin S, f[t] \in S PROVE Cardinality(B) = Cardinality(A) - 1
  <2>1. B = A \ {t} /\ t \in A
    BY <1>2, <1>5
  <2> HIDE DEF A, B
  <2>2. QED
    BY <1>1, <2>1, FS_RemoveElement, Zenon
<1>6. QED
  BY <1>1, <1>3, <1>4, <1>5, Zenon DEF Count, Moved

\* A thread at the end of the list.
LEMMA ListAppend ==
    ASSUME NEW s \in Seq(Threads), NEW x \in Threads, NEW r, r = Append(s, x)
    PROVE  /\ {r[i] : i \in DOMAIN r} = {s[i] : i \in DOMAIN s} \cup {x}
           /\ (\A i, j \in DOMAIN s : s[i] = s[j] => i = j) /\ x \notin {s[i] : i \in DOMAIN s} =>
                \A i, j \in DOMAIN r : r[i] = r[j] => i = j
<1>1. /\ DOMAIN s = 1 .. Len(s) /\ Len(s) \in Nat /\ DOMAIN r = 1 .. Len(s) + 1
      /\ r[Len(s) + 1] = x /\ \A i \in 1 .. Len(s) : r[i] = s[i]
  OBVIOUS
<1>2. DOMAIN r = DOMAIN s \cup {Len(s) + 1} /\ Len(s) + 1 \notin DOMAIN s
  BY <1>1
<1>3. {r[i] : i \in DOMAIN r} = {s[i] : i \in DOMAIN s} \cup {x}
  BY <1>1, <1>2
<1>4. ASSUME \A i, j \in DOMAIN s : s[i] = s[j] => i = j, x \notin {s[i] : i \in DOMAIN s},
             NEW i \in DOMAIN r, NEW j \in DOMAIN r, r[i] = r[j]
      PROVE  i = j
  BY <1>1, <1>2, <1>4
<1>5. QED
  BY <1>3, <1>4, Zenon

\* The list without its head.
LEMMA ListTail ==
    ASSUME NEW s \in Seq(Threads), s # <<>>, \A i, j \in DOMAIN s : s[i] = s[j] => i = j,
           NEW r, r = Tail(s)
    PROVE  /\ r \in Seq(Threads) /\ Head(s) \in Threads
           /\ Head(s) \in {s[i] : i \in DOMAIN s}
           /\ {r[i] : i \in DOMAIN r} = {s[i] : i \in DOMAIN s} \ {Head(s)}
           /\ \A i, j \in DOMAIN r : r[i] = r[j] => i = j
<1>1. /\ DOMAIN s = 1 .. Len(s) /\ Len(s) \in Nat \ {0} /\ DOMAIN r = 1 .. Len(s) - 1
      /\ r \in Seq(Threads) /\ Head(s) = s[1] /\ Head(s) \in Threads
      /\ \A i \in 1 .. Len(s) - 1 : r[i] = s[i + 1]
  OBVIOUS
<1>2. Head(s) \in {s[i] : i \in DOMAIN s}
  BY <1>1
<1>3. ASSUME NEW x \in {r[i] : i \in DOMAIN r} PROVE x \in {s[i] : i \in DOMAIN s} \ {Head(s)}
  BY <1>1
<1>4. ASSUME NEW x \in {s[i] : i \in DOMAIN s} \ {Head(s)} PROVE x \in {r[i] : i \in DOMAIN r}
  <2>1. PICK i \in DOMAIN s : x = s[i]
    OBVIOUS
  <2>2. i - 1 \in DOMAIN r /\ r[i - 1] = x
    BY <1>1, <2>1
  <2>3. QED
    BY <2>2
<1>5. ASSUME NEW i \in DOMAIN r, NEW j \in DOMAIN r, r[i] = r[j] PROVE i = j
  <2>1. i \in Nat /\ j \in Nat /\ i + 1 \in DOMAIN s /\ j + 1 \in DOMAIN s
    BY <1>1
  <2>2. s[i + 1] = s[j + 1]
    BY <1>1, <1>5
  <2>3. i + 1 = j + 1
    BY <2>1, <2>2, Zenon
  <2>4. QED
    BY <2>1, <2>3
<1>6. QED
  BY <1>1, <1>2, <1>3, <1>4, <1>5, Zenon

\* A step that moves one thread, not to sleep and not from it, and leaves the list alone.
LEMMA SameList ==
    ASSUME TypeOK, ListedOnce, NEW t \in Threads, NEW w \in Where, Goto(t, w), UNCHANGED sleepers,
           pc[t] # "asleep", w # "asleep"
    PROVE  ListedOnce'
<1>1. In({"asleep"})' = In({"asleep"})
  BY DEF TypeOK, Goto, In
<1>2. QED
  BY <1>1, Zenon DEF ListedOnce

\* Where thread t goes, and that the others stay.
LEMMA Going ==
    ASSUME TypeOK, NEW t \in Threads, NEW w \in Where, Goto(t, w)
    PROVE  /\ pc \in [Threads -> Where] /\ pc' \in [Threads -> Where]
           /\ pc' = [pc EXCEPT ![t] = w] /\ pc'[t] = w
           /\ \A u \in Threads \ {t} : pc'[u] = pc[u]
<1>1. pc' = [pc EXCEPT ![t] = w] /\ pc \in [Threads -> Where]
  BY Zenon DEF Goto, TypeOK
<1>2. pc' \in [Threads -> Where] /\ pc'[t] = w /\ \A u \in Threads \ {t} : pc'[u] = pc[u]
  BY <1>1
<1>3. QED
  BY <1>1, <1>2, Zenon

\* The threads that will see to a unit of the count: a V about to wake, a P about to test.
Pending == {"v_wake", "p_lock", "p_test"}

\* Somebody sleeps on the channel, or is about to.
Asleep == sleepers # <<>> \/ \E u \in Threads : pc[u] = "p_sleep"

\* The two kinds counted together.
LEMMA PendingCount ==
    ASSUME NEW f
    PROVE  Count(f, Pending) = Count(f, {"v_wake"}) + Count(f, {"p_lock", "p_test"})
<1> DEFINE A == {t \in Threads : f[t] \in {"v_wake"}}
           B == {t \in Threads : f[t] \in {"p_lock", "p_test"}}
           C == {t \in Threads : f[t] \in Pending}
<1>1. IsFiniteSet(A) /\ IsFiniteSet(B)
  BY SemaphoreAssumption, FS_Subset
<1>2. A \cap B = {} /\ C = A \cup B
  BY DEF Pending
<1> HIDE DEF A, B, C
<1>3. Cardinality(C) = Cardinality(A) + Cardinality(B) - Cardinality({})
  <2>1. Cardinality(A \cup B) = Cardinality(A) + Cardinality(B) - Cardinality(A \cap B)
    BY <1>1, FS_Union
  <2>2. QED
    BY <1>2, <2>1, Zenon
<1>4. Cardinality(A) \in Nat /\ Cardinality(B) \in Nat /\ Cardinality({}) = 0
  BY <1>1, FS_CardinalityType, FS_EmptySet, Zenon
<1>5. \A a, b \in Nat : a + b - 0 = a + b
  OBVIOUS
<1>6. Cardinality(C) = Cardinality(A) + Cardinality(B)
  BY <1>3, <1>4, <1>5, Zenon
<1>7. QED
  BY <1>6, Zenon DEF Count, A, B, C

\* NoLostWakeup in those terms, before and after a step.
LEMMA Wakeups ==
    /\ NoLostWakeup <=> (Asleep => count <= Count(pc, Pending))
    /\ NoLostWakeup' <=> (Asleep' => count' <= Count(pc', Pending))
<1>1. ASSUME NEW f PROVE {t \in Threads : f[t] \in {"p_sleep"}} # {} <=> \E u \in Threads : f[u] = "p_sleep"
  OBVIOUS
<1>2. NoLostWakeup <=> (Asleep => count <= Count(pc, Pending))
  BY <1>1, PendingCount, Zenon DEF NoLostWakeup, Asleep, In, Count
<1>3. NoLostWakeup' <=> (Asleep' => count' <= Count(pc', Pending))
  BY <1>1, PendingCount, Zenon DEF NoLostWakeup, Asleep, In, Count
<1>4. QED
  BY <1>2, <1>3, Zenon

\* What thread t counts for in Count(pc, Pending).
Weight(w) == IF w \in Pending THEN 1 ELSE 0

\* A step that moves one thread changes the count by no more than what is pending.
LEMMA OneMoves ==
    ASSUME SemInv, NEW t \in Threads, NEW w \in Where, Goto(t, w),
           TypeOK', SleepLocked', ListedOnce',
           \/ count' = 0
           \/ (Asleep' => Asleep) /\ count' - count <= Weight(w) - Weight(pc[t])
    PROVE  SemInv'
<1>1. TypeOK
  BY Zenon DEF SemInv
<1>2. PICK f \in [Threads -> Where] : f = pc
  BY <1>1, Zenon DEF TypeOK
<1>3. PICK g \in [Threads -> Where] : g = pc'
  BY Zenon DEF TypeOK
<1>4. g = [f EXCEPT ![t] = w]
  BY <1>2, <1>3, Zenon DEF Goto
<1>5. Moved(f, g, t, w, Pending) /\ Count(g, Pending) \in Nat
  <2>1. g[t] = w /\ \A u \in Threads \ {t} : g[u] = f[u]
    BY <1>4
  <2>2. Moved(g, g, t, w, Pending)
    BY <2>1, CountMoved, Zenon
  <2>3. Moved(f, g, t, w, Pending)
    BY <2>1, CountMoved, Zenon
  <2>4. QED
    BY <2>2, <2>3, Zenon DEF Moved
<1>6. Count(g, Pending) - Count(f, Pending) = Weight(w) - Weight(f[t])
  BY <1>5 DEF Weight, Moved
<1>7. Asleep' => count' <= Count(g, Pending)
  <2>1. CASE count' = 0
    BY <1>5, <2>1
  <2>2. CASE (Asleep' => Asleep) /\ count' - count <= Weight(w) - Weight(pc[t])
    <3>1. Asleep => count <= Count(f, Pending)
      BY <1>2, Wakeups, Zenon DEF SemInv
    <3>2. Weight(w) \in Int /\ Weight(f[t]) \in Int /\ count \in Nat /\ count' \in Nat
      BY <1>1 DEF Weight, TypeOK
    <3>3. QED
      BY <1>2, <1>5, <1>6, <2>2, <3>1, <3>2 DEF Moved
  <2>3. QED
    BY <2>1, <2>2, Zenon
<1>8. NoLostWakeup'
  BY <1>3, <1>7, Wakeups, Zenon
<1>9. QED
  BY <1>8, Zenon DEF SemInv

\* P keeps the invariant.
LEMMA PSem ==
    ASSUME SemInv, NEW t \in Threads, P(t)
    PROVE  SemInv'
<1>1. TypeOK
  BY Zenon DEF SemInv
<1>2. Goto(t, "p_lock") /\ pc[t] = "idle" /\ "p_lock" \in Where
  BY DEF P, Where
<1>3. /\ pc' \in [Threads -> Where] /\ pc'[t] = "p_lock"
      /\ \A u \in Threads \ {t} : pc'[u] = pc[u]
  BY <1>1, <1>2, Going, Zenon
<1>4. TypeOK'
  BY <1>1, <1>3, Zenon DEF P, TypeOK
<1>5. SleepLocked'
  BY <1>2, <1>3, Zenon DEF P, SemInv, SleepLocked
<1>6. ListedOnce'
  BY <1>1, <1>2, SameList DEF P, SemInv
<1>7. (Asleep' => Asleep) /\ count' - count <= Weight("p_lock") - Weight("idle")
  <2>1. Asleep' => Asleep
    BY <1>2, <1>3 DEF P, Asleep
  <2>2. QED
    BY <1>1, <2>1 DEF P, Weight, Pending, TypeOK
<1>8. QED
  BY <1>2, <1>4, <1>5, <1>6, <1>7, OneMoves, Zenon

\* PLock keeps the invariant.
LEMMA PLockSem ==
    ASSUME SemInv, NEW t \in Threads, PLock(t)
    PROVE  SemInv'
<1>1. TypeOK
  BY Zenon DEF SemInv
<1>2. Goto(t, "p_test") /\ pc[t] = "p_lock" /\ "p_test" \in Where
  BY DEF PLock, Where
<1>3. /\ pc' \in [Threads -> Where] /\ pc'[t] = "p_test"
      /\ \A u \in Threads \ {t} : pc'[u] = pc[u]
  BY <1>1, <1>2, Going, Zenon
<1>4. TypeOK'
  BY <1>1, <1>3, Zenon DEF PLock, TypeOK
<1>5. SleepLocked'
  BY <1>2, <1>3, Zenon DEF PLock, SemInv, SleepLocked
<1>6. ListedOnce'
  BY <1>1, <1>2, SameList DEF PLock, SemInv
<1>7. (Asleep' => Asleep) /\ count' - count <= Weight("p_test") - Weight("p_lock")
  <2>1. Asleep' => Asleep
    BY <1>2, <1>3 DEF PLock, Asleep
  <2>2. QED
    BY <1>1, <2>1 DEF PLock, Weight, Pending, TypeOK
<1>8. QED
  BY <1>2, <1>4, <1>5, <1>6, <1>7, OneMoves, Zenon

\* PTake keeps the invariant.
LEMMA PTakeSem ==
    ASSUME SemInv, NEW t \in Threads, PTake(t)
    PROVE  SemInv'
<1>1. TypeOK
  BY Zenon DEF SemInv
<1>2. Goto(t, "idle") /\ pc[t] = "p_test" /\ "idle" \in Where
  BY DEF PTake, Where
<1>3. /\ pc' \in [Threads -> Where] /\ pc'[t] = "idle"
      /\ \A u \in Threads \ {t} : pc'[u] = pc[u]
  BY <1>1, <1>2, Going, Zenon
<1>4. TypeOK'
  BY <1>1, <1>3 DEF PTake, TypeOK
<1>5. SleepLocked'
  BY <1>2, <1>3, Zenon DEF PTake, SemInv, SleepLocked
<1>6. ListedOnce'
  BY <1>1, <1>2, SameList DEF PTake, SemInv
<1>7. (Asleep' => Asleep) /\ count' - count <= Weight("idle") - Weight("p_test")
  <2>1. Asleep' => Asleep
    BY <1>2, <1>3 DEF PTake, Asleep
  <2>2. QED
    BY <1>1, <2>1 DEF PTake, Weight, Pending, TypeOK
<1>8. QED
  BY <1>2, <1>4, <1>5, <1>6, <1>7, OneMoves, Zenon

\* PBridge keeps the invariant.
LEMMA PBridgeSem ==
    ASSUME SemInv, NEW t \in Threads, PBridge(t)
    PROVE  SemInv'
<1>1. TypeOK
  BY Zenon DEF SemInv
<1>2. Goto(t, "p_sleep") /\ pc[t] = "p_test" /\ "p_sleep" \in Where
  BY DEF PBridge, Where
<1>3. /\ pc' \in [Threads -> Where] /\ pc'[t] = "p_sleep"
      /\ \A u \in Threads \ {t} : pc'[u] = pc[u]
  BY <1>1, <1>2, Going, Zenon
<1>4. TypeOK'
  BY <1>1, <1>3, Zenon DEF PBridge, TypeOK
<1>5. SleepLocked'
  <2>1. \A u \in Threads : pc[u] # "p_sleep"
    BY SemaphoreAssumption, Zenon DEF PBridge, SemInv, SleepLocked
  <2>2. QED
    BY <1>2, <1>3, <2>1, Zenon DEF PBridge, SleepLocked
<1>6. ListedOnce'
  BY <1>1, <1>2, SameList DEF PBridge, SemInv
<1>7. count' = 0
  BY Zenon DEF PBridge
<1>8. QED
  BY <1>2, <1>4, <1>5, <1>6, <1>7, OneMoves, Zenon

\* PSleep keeps the invariant.
LEMMA PSleepSem ==
    ASSUME SemInv, NEW t \in Threads, PSleep(t)
    PROVE  SemInv'
<1>1. TypeOK
  BY Zenon DEF SemInv
<1>2. Goto(t, "asleep") /\ pc[t] = "p_sleep" /\ "asleep" \in Where
  BY DEF PSleep, Where
<1>3. /\ pc' \in [Threads -> Where] /\ pc'[t] = "asleep"
      /\ \A u \in Threads \ {t} : pc'[u] = pc[u]
  BY <1>1, <1>2, Going, Zenon
<1>4. TypeOK'
  BY <1>1, <1>3 DEF PSleep, TypeOK
<1>5. SleepLocked'
  <2>1. \A u \in Threads \ {t} : pc[u] # "p_sleep"
    BY <1>2, Zenon DEF SemInv, SleepLocked
  <2>2. QED
    BY <1>2, <1>3, <2>1 DEF SleepLocked
<1>6. ListedOnce'
  <2>1. In({"asleep"})' = In({"asleep"}) \cup {t} /\ t \notin In({"asleep"})
    BY <1>2, <1>3 DEF In
  <2>2. PICK s \in Seq(Threads) : s = sleepers
    BY <1>1, Zenon DEF TypeOK
  <2>3. PICK r \in Seq(Threads) : r = sleepers'
    BY <1>4, Zenon DEF TypeOK
  <2>4. r = Append(s, t)
    BY <2>2, <2>3, Zenon DEF PSleep
  <2>5. /\ {s[i] : i \in DOMAIN s} = In({"asleep"})
        /\ \A i, j \in DOMAIN s : s[i] = s[j] => i = j
    BY <2>2, Zenon DEF SemInv, ListedOnce
  <2>6. /\ {r[i] : i \in DOMAIN r} = {s[i] : i \in DOMAIN s} \cup {t}
        /\ \A i, j \in DOMAIN r : r[i] = r[j] => i = j
    BY <2>1, <2>4, <2>5, ListAppend
  <2>7. QED
    <3>1. {r[i] : i \in DOMAIN r} = In({"asleep"})'
      BY <2>1, <2>5, <2>6, Zenon
    <3>2. QED
      BY <2>3, <2>6, <3>1 DEF ListedOnce
<1>7. (Asleep' => Asleep) /\ count' - count <= Weight("asleep") - Weight("p_sleep")
  <2>1. Asleep' => Asleep
    BY <1>2, <1>3 DEF PSleep, Asleep
  <2>2. QED
    BY <1>1, <2>1 DEF PSleep, Weight, Pending, TypeOK
<1>8. QED
  BY <1>2, <1>4, <1>5, <1>6, <1>7, OneMoves, Zenon

\* V keeps the invariant.
LEMMA VSem ==
    ASSUME SemInv, NEW t \in Threads, V(t)
    PROVE  SemInv'
<1>1. TypeOK
  BY Zenon DEF SemInv
<1>2. Goto(t, "v_lock") /\ pc[t] = "idle" /\ "v_lock" \in Where
  BY DEF V, Where
<1>3. /\ pc' \in [Threads -> Where] /\ pc'[t] = "v_lock"
      /\ \A u \in Threads \ {t} : pc'[u] = pc[u]
  BY <1>1, <1>2, Going, Zenon
<1>4. TypeOK'
  BY <1>1, <1>3, Zenon DEF V, TypeOK
<1>5. SleepLocked'
  BY <1>2, <1>3, Zenon DEF V, SemInv, SleepLocked
<1>6. ListedOnce'
  BY <1>1, <1>2, SameList DEF V, SemInv
<1>7. (Asleep' => Asleep) /\ count' - count <= Weight("v_lock") - Weight("idle")
  <2>1. Asleep' => Asleep
    BY <1>2, <1>3 DEF V, Asleep
  <2>2. QED
    BY <1>1, <2>1 DEF V, Weight, Pending, TypeOK
<1>8. QED
  BY <1>2, <1>4, <1>5, <1>6, <1>7, OneMoves, Zenon

\* VLock keeps the invariant.
LEMMA VLockSem ==
    ASSUME SemInv, NEW t \in Threads, VLock(t)
    PROVE  SemInv'
<1>1. TypeOK
  BY Zenon DEF SemInv
<1>2. Goto(t, "v_wake") /\ pc[t] = "v_lock" /\ "v_wake" \in Where
  BY DEF VLock, Where
<1>3. /\ pc' \in [Threads -> Where] /\ pc'[t] = "v_wake"
      /\ \A u \in Threads \ {t} : pc'[u] = pc[u]
  BY <1>1, <1>2, Going, Zenon
<1>4. TypeOK'
  BY <1>1, <1>3 DEF VLock, TypeOK
<1>5. SleepLocked'
  BY <1>2, <1>3, Zenon DEF VLock, SemInv, SleepLocked
<1>6. ListedOnce'
  BY <1>1, <1>2, SameList DEF VLock, SemInv
<1>7. (Asleep' => Asleep) /\ count' - count <= Weight("v_wake") - Weight("v_lock")
  <2>1. Asleep' => Asleep
    BY <1>2, <1>3 DEF VLock, Asleep
  <2>2. QED
    BY <1>1, <2>1 DEF VLock, Weight, Pending, TypeOK
<1>8. QED
  BY <1>2, <1>4, <1>5, <1>6, <1>7, OneMoves, Zenon

\* The thread that wchan_wakeone takes off the list sleeps, and is not the one that wakes it.
LEMMA Sleeper ==
    ASSUME TypeOK, ListedOnce, sleepers # <<>>
    PROVE  /\ Head(sleepers) \in Threads /\ pc[Head(sleepers)] = "asleep"
           /\ Tail(sleepers) \in Seq(Threads)
<1>1. Head(sleepers) \in Threads /\ Head(sleepers) \in {sleepers[i] : i \in DOMAIN sleepers}
  BY ListTail, Zenon DEF TypeOK, ListedOnce
<1>2. Head(sleepers) \in In({"asleep"})
  BY <1>1, Zenon DEF ListedOnce
<1>3. pc[Head(sleepers)] = "asleep"
  BY <1>2 DEF In
<1>4. QED
  BY <1>1, <1>3, ListTail, Zenon DEF TypeOK, ListedOnce

\* VWake keeps the invariant: it wakes the one that has slept longest, or there is none.
LEMMA VWakeSem ==
    ASSUME SemInv, NEW t \in Threads, VWake(t)
    PROVE  SemInv'
<1>1. TypeOK /\ pc[t] = "v_wake" /\ "idle" \in Where /\ "p_lock" \in Where
  BY DEF SemInv, VWake, Where
<1>2. \A u \in Threads : pc[u] # "p_sleep"
  BY SemaphoreAssumption, Zenon DEF VWake, SemInv, SleepLocked
<1>3. CASE sleepers = <<>>
  <2>1. Goto(t, "idle") /\ UNCHANGED sleepers
    BY <1>3, Zenon DEF VWake
  <2>2. /\ pc' \in [Threads -> Where] /\ pc'[t] = "idle"
        /\ \A u \in Threads \ {t} : pc'[u] = pc[u]
    BY <1>1, <2>1, Going, Zenon
  <2>3. TypeOK'
    BY <1>1, <2>1, <2>2, Zenon DEF VWake, TypeOK
  <2>4. \A u \in Threads : pc'[u] # "p_sleep"
    BY <1>2, <2>2
  <2>5. ListedOnce'
    BY <1>1, <2>1, SameList DEF SemInv
  <2>6. NoLostWakeup'
    BY <1>3, <2>1, <2>4, Wakeups, Zenon DEF Asleep
  <2>7. QED
    BY <2>3, <2>4, <2>5, <2>6, Zenon DEF SemInv, SleepLocked
<1>4. CASE sleepers # <<>>
  <2>1. PICK s \in Seq(Threads) : s = sleepers
    BY <1>1, Zenon DEF TypeOK
  <2>2. PICK h \in Threads : h = Head(sleepers) /\ pc[h] = "asleep" /\ Tail(s) \in Seq(Threads)
    BY <1>1, <1>4, <2>1, Sleeper, Zenon DEF SemInv
  <2>3. PICK f \in [Threads -> Where] : f = pc
    BY <1>1, Zenon DEF TypeOK
  <2>4. PICK r \in Seq(Threads) : r = Tail(s) /\ r = sleepers'
    BY <1>4, <2>1, <2>2, Zenon DEF VWake
  <2> DEFINE m == [f EXCEPT ![t] = "idle"]
             g == [m EXCEPT ![h] = "p_lock"]
  <2>5. pc' = g /\ h # t /\ m \in [Threads -> Where] /\ g \in [Threads -> Where]
    <3>1. h # t
      BY <1>1, <2>2
    <3>2. pc' = [pc EXCEPT ![t] = "idle", ![Head(sleepers)] = "p_lock"]
      BY <1>4, Zenon DEF VWake
    <3>3. QED
      BY <1>1, <2>2, <2>3, <3>1, <3>2
  <2>6. /\ pc'[t] = "idle" /\ pc'[h] = "p_lock"
        /\ \A u \in Threads \ {t, h} : pc'[u] = pc[u]
    BY <1>1, <2>3, <2>5
  <2>7. TypeOK'
    BY <1>1, <2>4, <2>5, Zenon DEF VWake, TypeOK
  <2>8. \A u \in Threads : pc'[u] # "p_sleep"
    BY <1>2, <2>6
  <2>9. ListedOnce'
    <3>1. In({"asleep"})' = In({"asleep"}) \ {h}
      BY <1>1, <2>2, <2>6 DEF In
    <3>2. /\ {s[i] : i \in DOMAIN s} = In({"asleep"}) /\ Head(s) = h
          /\ \A i, j \in DOMAIN s : s[i] = s[j] => i = j
      BY <2>1, <2>2, Zenon DEF SemInv, ListedOnce
    <3>3. /\ {r[i] : i \in DOMAIN r} = {s[i] : i \in DOMAIN s} \ {h}
          /\ \A i, j \in DOMAIN r : r[i] = r[j] => i = j
      BY <1>4, <2>1, <2>4, <3>2, ListTail, Zenon
    <3>4. QED
      <4>1. {r[i] : i \in DOMAIN r} = In({"asleep"})'
        BY <3>1, <3>2, <3>3, Zenon
      <4>2. QED
        BY <2>4, <3>3, <4>1, Zenon DEF ListedOnce
  <2>10. NoLostWakeup'
    <3>1. count <= Count(f, Pending)
      BY <1>4, <2>3, Wakeups, Zenon DEF SemInv, Asleep
    <3>2. f[t] \in Pending /\ "idle" \notin Pending /\ m[h] \notin Pending /\ "p_lock" \in Pending
      BY <1>1, <2>2, <2>3, <2>5 DEF Pending
    <3>3. Count(m, Pending) = Count(f, Pending) - 1 /\ Count(f, Pending) \in Nat
      <4>1. m[t] = "idle" /\ \A u \in Threads \ {t} : m[u] = f[u]
        OBVIOUS
      <4>2. Moved(f, m, t, "idle", Pending)
        BY <4>1, CountMoved, Zenon
      <4>3. QED
        BY <3>2, <4>2, Zenon DEF Moved
    <3>4. Count(g, Pending) = Count(m, Pending) + 1
      <4>1. g[h] = "p_lock" /\ \A u \in Threads \ {h} : g[u] = m[u]
        BY <2>5
      <4>2. Moved(m, g, h, "p_lock", Pending)
        BY <4>1, CountMoved, Zenon
      <4>3. QED
        BY <3>2, <4>2, Zenon DEF Moved
    <3>5. Count(g, Pending) = Count(f, Pending)
      <4> HIDE DEF m, g
      <4> QED  BY <3>3, <3>4
    <3>6. count' <= Count(pc', Pending)
      BY <2>5, <3>1, <3>5, Zenon DEF VWake
    <3>7. QED
      BY <3>6, Wakeups, Zenon
  <2>11. QED
    BY <2>7, <2>8, <2>9, <2>10, Zenon DEF SemInv, SleepLocked
<1>5. QED
  BY <1>3, <1>4, Zenon

\* The semaphore starts with nobody asleep.
LEMMA InitSem == Init => SemInv
<1> SUFFICES ASSUME Init PROVE SemInv
  OBVIOUS
<1>1. TypeOK
  BY SemaphoreAssumption DEF Init, TypeOK, Where
<1>2. \A u \in Threads : pc[u] = "idle"
  BY DEF Init
<1>3. SleepLocked
  BY <1>2 DEF SleepLocked
<1>4. ListedOnce
  BY <1>2 DEF Init, ListedOnce, In
<1>5. NoLostWakeup
  BY <1>2 DEF Init, NoLostWakeup, In
<1>6. QED
  BY <1>1, <1>3, <1>4, <1>5, Zenon DEF SemInv

\* Every step keeps the invariant.
LEMMA NextSem == SemInv /\ [Next]_vars => SemInv'
<1> SUFFICES ASSUME SemInv, [Next]_vars PROVE SemInv'
  OBVIOUS
<1>1. CASE UNCHANGED vars
  <2>1. TypeOK' /\ SleepLocked'
    BY <1>1, Zenon DEF vars, SemInv, TypeOK, SleepLocked
  <2>2. ListedOnce'
    BY <1>1 DEF vars, SemInv, ListedOnce, In
  <2>3. NoLostWakeup'
    BY <1>1, Zenon DEF vars, SemInv, NoLostWakeup, In
  <2>4. QED
    BY <2>1, <2>2, <2>3, Zenon DEF SemInv
<1>2. CASE Next
  BY <1>2, PSem, PLockSem, PTakeSem, PBridgeSem, PSleepSem, VSem, VLockSem, VWakeSem, Zenon
  DEF Next, Step
<1>3. QED
  BY <1>1, <1>2, Zenon

\* The invariant holds always.
LEMMA SemInvariant == Spec => []SemInv
BY InitSem, NextSem, PTL DEF Spec

\* For any number of threads, no wakeup is lost between the test in P and wchan_sleep: sem_lock is
\* let go only when wc_lock is held, and V looks at the list with both.
THEOREM WakeupsKept == Spec => []NoLostWakeup
<1>1. SemInv => NoLostWakeup
  BY Zenon DEF SemInv
<1>2. QED
  BY <1>1, SemInvariant, PTL

(***************************************************************************)
(* The same invariant shows that the semaphore implements its promise,     *)
(* step by step: PTake is Down and VLock is Up, whatever the threads that  *)
(* sleep and are woken do meanwhile.                                       *)
(***************************************************************************)
\* What a caller sees of thread t, place by place.
LEMMA CallSeen ==
    ASSUME NEW t
    PROVE  /\ pc[t] \in {"idle", "v_wake"} => CallOf(t) = "none"
           /\ pc[t] = "v_lock" => CallOf(t) = "V"
           /\ pc[t] \in {"p_lock", "p_test", "p_sleep", "asleep"} => CallOf(t) = "P"
           /\ pc'[t] \in {"idle", "v_wake"} => CallOf(t)' = "none"
           /\ pc'[t] = "v_lock" => CallOf(t)' = "V"
           /\ pc'[t] \in {"p_lock", "p_test", "p_sleep", "asleep"} => CallOf(t)' = "P"
BY DEF CallOf

\* A step that moves thread t changes no other call.
LEMMA CallsMove ==
    ASSUME TypeOK, NEW t \in Threads, NEW w \in Where, Goto(t, w), NEW x, CallOf(t)' = x
    PROVE  Calls' = [Calls EXCEPT ![t] = x]
<1>1. \A u \in Threads \ {t} : pc'[u] = pc[u]
  BY Going, Zenon
<1>2. \A u \in Threads \ {t} : CallOf(u)' = CallOf(u)
  BY <1>1, Zenon DEF CallOf
<1>3. QED
  BY <1>2, Zenon DEF Calls

\* A step that moves thread t to a place where its caller sees no difference.
LEMMA CallsSame ==
    ASSUME TypeOK, NEW t \in Threads, NEW w \in Where, Goto(t, w), CallOf(t)' = CallOf(t)
    PROVE  Calls' = Calls
<1>1. \A u \in Threads \ {t} : pc'[u] = pc[u]
  BY Going, Zenon
<1>2. \A u \in Threads \ {t} : CallOf(u)' = CallOf(u)
  BY <1>1, Zenon DEF CallOf
<1>3. QED
  BY <1>2 DEF Calls

\* Each step of the semaphore is a step of CountingSemaphore or none.
LEMMA StepPromised ==
    ASSUME SemInv, [Next]_vars
    PROVE  [Promise!Next]_(Promise!vars)
<1>1. TypeOK /\ ListedOnce
  BY Zenon DEF SemInv
<1>2. CASE UNCHANGED vars
  BY <1>2, Zenon DEF vars, Promise!vars, Calls, CallOf
<1>3. SUFFICES ASSUME NEW t \in Threads, P(t) \/ V(t) \/ Step(t)
               PROVE  Promise!Next \/ UNCHANGED Promise!vars
  BY <1>2, Zenon DEF Next
<1>4. Calls[t] = CallOf(t) /\ CallOf(t)' = Calls'[t]
  BY DEF Calls
<1>5. CASE P(t)
  <2>1. Goto(t, "p_lock") /\ "p_lock" \in Where /\ pc[t] = "idle" /\ count' = count
    BY <1>5 DEF P, Where
  <2>2. CallOf(t) = "none" /\ CallOf(t)' = "P"
    BY <1>1, <2>1, Going, CallSeen
  <2>3. Calls' = [Calls EXCEPT ![t] = "P"]
    BY <1>1, <2>1, <2>2, CallsMove, Zenon
  <2>4. Promise!Ask(t)
    BY <1>4, <2>1, <2>2, <2>3 DEF Promise!Ask
  <2>5. QED
    BY <2>4, Zenon DEF Promise!Next
<1>6. CASE V(t)
  <2>1. Goto(t, "v_lock") /\ "v_lock" \in Where /\ pc[t] = "idle" /\ count' = count
    BY <1>6 DEF V, Where
  <2>2. CallOf(t) = "none" /\ CallOf(t)' = "V"
    BY <1>1, <2>1, Going, CallSeen
  <2>3. Calls' = [Calls EXCEPT ![t] = "V"]
    BY <1>1, <2>1, <2>2, CallsMove, Zenon
  <2>4. Promise!Ask(t)
    BY <1>4, <2>1, <2>2, <2>3 DEF Promise!Ask
  <2>5. QED
    BY <2>4, Zenon DEF Promise!Next
<1>7. CASE PTake(t)
  <2>1. Goto(t, "idle") /\ "idle" \in Where /\ pc[t] = "p_test" /\ count > 0 /\ count' = count - 1
    BY <1>7 DEF PTake, Where
  <2>2. CallOf(t) = "P" /\ CallOf(t)' = "none"
    BY <1>1, <2>1, Going, CallSeen
  <2>3. Calls' = [Calls EXCEPT ![t] = "none"]
    BY <1>1, <2>1, <2>2, CallsMove, Zenon
  <2>4. Promise!Down(t)
    BY <1>4, <2>1, <2>2, <2>3, Zenon DEF Promise!Down
  <2>5. QED
    BY <2>4, Zenon DEF Promise!Next
<1>8. CASE VLock(t)
  <2>1. Goto(t, "v_wake") /\ "v_wake" \in Where /\ pc[t] = "v_lock" /\ count' = count + 1
    BY <1>8 DEF VLock, Where
  <2>2. CallOf(t) = "V" /\ CallOf(t)' = "none"
    BY <1>1, <2>1, Going, CallSeen
  <2>3. Calls' = [Calls EXCEPT ![t] = "none"]
    BY <1>1, <2>1, <2>2, CallsMove, Zenon
  <2>4. Promise!Up(t)
    BY <1>4, <2>1, <2>2, <2>3, Zenon DEF Promise!Up
  <2>5. QED
    BY <2>4, Zenon DEF Promise!Next
<1>9. CASE PLock(t) \/ PBridge(t) \/ PSleep(t)
  <2>1. PICK w \in {"p_test", "p_sleep", "asleep"} :
            Goto(t, w) /\ pc[t] \in {"p_lock", "p_test", "p_sleep"} /\ count' = count
    BY <1>9 DEF PLock, PBridge, PSleep
  <2>2. w \in Where
    BY DEF Where
  <2>3. CallOf(t) = "P" /\ CallOf(t)' = "P"
    BY <1>1, <2>1, <2>2, Going, CallSeen
  <2>4. Calls' = Calls
    BY <1>1, <2>1, <2>2, <2>3, CallsSame, Zenon
  <2>5. QED
    BY <2>1, <2>4, Zenon DEF Promise!vars
<1>10. CASE VWake(t)
  <2>1. ASSUME NEW u \in Threads PROVE CallOf(u)' = CallOf(u)
    <3>1. CASE sleepers = <<>>
      <4>1. Goto(t, "idle") /\ "idle" \in Where /\ pc[t] = "v_wake"
        BY <1>10, <3>1 DEF VWake, Where
      <4>2. CASE u = t
        BY <1>1, <4>1, <4>2, Going, CallSeen
      <4>3. CASE u # t
        <5>1. pc'[u] = pc[u]
          BY <1>1, <4>1, <4>3, Going, Zenon
        <5>2. QED
          BY <5>1, Zenon DEF CallOf
      <4>4. QED
        BY <4>2, <4>3, Zenon
    <3>2. CASE sleepers # <<>>
      <4>1. PICK h \in Threads : h = Head(sleepers) /\ pc[h] = "asleep"
        BY <1>1, <3>2, Sleeper, Zenon
      <4>2. pc' = [pc EXCEPT ![t] = "idle", ![h] = "p_lock"] /\ pc[t] = "v_wake"
        BY <1>10, <3>2, <4>1, Zenon DEF VWake
      <4>3. h # t /\ pc \in [Threads -> Where]
        BY <1>1, <4>1, <4>2 DEF TypeOK
      <4>4. pc'[t] = "idle" /\ pc'[h] = "p_lock" /\ (u \notin {t, h} => pc'[u] = pc[u])
        BY <4>2, <4>3
      <4>5. CASE u \in {t, h}
        BY <4>1, <4>2, <4>4, <4>5, CallSeen, ZenonT(30)
      <4>6. CASE u \notin {t, h}
        BY <4>4, <4>6, Zenon DEF CallOf
      <4>7. QED
        BY <4>5, <4>6, Zenon
    <3>3. QED
      BY <3>1, <3>2, Zenon
  <2>2. Calls' = Calls
    BY <2>1, Zenon DEF Calls
  <2>3. QED
    BY <1>10, <2>2, Zenon DEF VWake, Promise!vars
<1>11. QED
  BY <1>3, <1>5, <1>6, <1>7, <1>8, <1>9, <1>10, Zenon DEF Step

\* For any number of threads, P and V implement the counting semaphore: the count changes by one for
\* the one thread whose call ends, no P passes at 0, and no unit is lost to a thread that tests at the
\* same time.
THEOREM ImplementsCounting == Spec => Promise!Init /\ [][Promise!Next]_(Promise!vars)
<1>1. Init => Promise!Init
  <2> SUFFICES ASSUME Init PROVE Promise!Init
    OBVIOUS
  <2>1. \A t \in Threads : pc[t] = "idle"
    BY DEF Init
  <2>2. \A t \in Threads : CallOf(t) = "none"
    BY <2>1, CallSeen
  <2>3. QED
    BY <2>2 DEF Init, Promise!Init, Calls
<1>2. SemInv /\ [Next]_vars => [Promise!Next]_(Promise!vars)
  BY StepPromised, Zenon
<1>3. QED
  BY <1>1, <1>2, SemInvariant, PTL DEF Spec
=============================================================================
