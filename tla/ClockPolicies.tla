--------------------------- MODULE ClockPolicies ---------------------------
(***************************************************************************)
(* The page replacement policies of kern/vm/addrspace.c as operators: each *)
(* takes the reference bits and the hands it reads and returns the frame   *)
(* it picks together with the bits and hands it leaves behind.             *)
(***************************************************************************)
EXTENDS Integers, TLAPS

CONSTANTS MAX_PM_SIZE,   \* frames managed by the page frame table (30)
          CLOCK_ANGLE    \* distance between the two hands (8)

ASSUME FramesAssumption == MAX_PM_SIZE \in Nat \ {0}

ASSUME AngleAssumption == CLOCK_ANGLE \in Nat /\ 0 < CLOCK_ANGLE /\ CLOCK_ANGLE < MAX_PM_SIZE

FrameIndex == 0 .. MAX_PM_SIZE - 1

Advance(hand, n) == (hand + n) % MAX_PM_SIZE

Least(S) == CHOOSE x \in S : \A y \in S : x <= y

(***************************************************************************)
(* second_chance_replace.  In round i of the loop the evicting hand looks  *)
(* at frame ep + i; in each earlier round the clearing hand has cleared    *)
(* the bit of one frame.  The loop gives up after CLOCK_ANGLE + 2 rounds.  *)
(***************************************************************************)
ClearedBefore(rp, i) == {Advance(rp, m) : m \in 0 .. i - 1}

StopsAt(ref, ep, rp, i) == ~ref[Advance(ep, i)] \/ Advance(ep, i) \in ClearedBefore(rp, i)

\* Variant: the loop gives up two rounds earlier.
SecondChanceFewRounds(ref, ep, rp) ==
    LET stops == {i \in 0 .. CLOCK_ANGLE - 1 : StopsAt(ref, ep, rp, i)}
    IN  IF stops = {} THEN CLOCK_ANGLE + 2 ELSE Least(stops)

SecondChanceRounds(ref, ep, rp) ==
    LET stops == {i \in 0 .. CLOCK_ANGLE + 1 : StopsAt(ref, ep, rp, i)}
    IN  IF stops = {} THEN CLOCK_ANGLE + 2 ELSE Least(stops)

\* Variant: after the choice only the evicting hand moves on.
SecondChanceOneHand(ref, ep, rp) ==
    LET k == SecondChanceRounds(ref, ep, rp)
    IN  [victim |-> Advance(ep, k),
         ref    |-> [f \in DOMAIN ref |-> ref[f] /\ f \notin ClearedBefore(rp, k)],
         ep     |-> Advance(ep, k + 1),
         rp     |-> Advance(rp, k)]

\* Variant: after the choice no hand moves on.
SecondChanceStuck(ref, ep, rp) ==
    LET k == SecondChanceRounds(ref, ep, rp)
    IN  [victim |-> Advance(ep, k),
         ref    |-> [f \in DOMAIN ref |-> ref[f] /\ f \notin ClearedBefore(rp, k)],
         ep     |-> Advance(ep, k),
         rp     |-> Advance(rp, k)]

SecondChance(ref, ep, rp) ==
    LET k == SecondChanceRounds(ref, ep, rp)
    IN  [victim |-> Advance(ep, k),
         ref    |-> [f \in DOMAIN ref |-> ref[f] /\ f \notin ClearedBefore(rp, k)],
         ep     |-> Advance(ep, k + 1),
         rp     |-> Advance(rp, k + 1)]

(***************************************************************************)
(* one_handed_replace.  The hand clears the bits it passes, steps over the *)
(* first frame whose bit is already clear, and picks the frame after it.   *)
(* The loop has MAX_PM_SIZE + 2 rounds, enough to come back to a frame     *)
(* whose bit this same call cleared.                                       *)
(***************************************************************************)
\* Variant: the hand does not wrap after the choice.
OneHandedUnwrapped(ref, hand) ==
    LET stops == {i \in 0 .. MAX_PM_SIZE - 1 : ~ref[Advance(hand, i)]}
        k     == IF stops = {} THEN MAX_PM_SIZE ELSE Least(stops)
    IN  [victim |-> Advance(hand, k + 1),
         ref    |-> [f \in DOMAIN ref |-> ref[f] /\ f \notin ClearedBefore(hand, k)],
         hand   |-> Advance(hand, k + 1) + 1]

OneHanded(ref, hand) ==
    LET stops == {i \in 0 .. MAX_PM_SIZE - 1 : ~ref[Advance(hand, i)]}
        k     == IF stops = {} THEN MAX_PM_SIZE ELSE Least(stops)
    IN  [victim |-> Advance(hand, k + 1),
         ref    |-> [f \in DOMAIN ref |-> ref[f] /\ f \notin ClearedBefore(hand, k)],
         hand   |-> Advance(hand, k + 2)]

(***************************************************************************)
(* lru_replace: the first frame whose bit is clear.  When there is none,   *)
(* the code indexes the table with the physical address that               *)
(* random_replace returns, which is past its end.                          *)
(***************************************************************************)
OutsideTable == MAX_PM_SIZE

Lru(ref) ==
    LET clear == {f \in FrameIndex : ~ref[f]}
    IN  IF clear = {} THEN OutsideTable ELSE Least(clear)

(***************************************************************************)
(* Lemmas about the hands, and about second_chance_replace when no         *)
(* reference bit is set.                                                   *)
(***************************************************************************)

(* Arithmetic of the hands. *)

\* A multiple of n that lies strictly between -n and n is zero.
LEMMA SmallMultiple ==
    ASSUME NEW n \in Nat \ {0}, NEW d \in Int, NEW r \in Int, d * n = r, -n < r, r < n
    PROVE  d = 0
<1>1. ~ (d >= 1)
  <2>1. SUFFICES ASSUME d >= 1 PROVE FALSE
    OBVIOUS
  <2>2. (d - 1) * n >= 0
    BY <2>1
  <2>3. QED
    BY <2>2
<1>2. ~ (d <= -1)
  <2>1. SUFFICES ASSUME d <= -1 PROVE FALSE
    OBVIOUS
  <2>2. (-1 - d) * n >= 0
    BY <2>1
  <2>3. QED
    BY <2>2
<1>3. QED
  BY <1>1, <1>2

\* Quotient and remainder.
LEMMA DivMod ==
    ASSUME NEW n \in Nat \ {0}, NEW x \in Nat
    PROVE  /\ x = ((x \div n) * n) + (x % n)
           /\ x \div n \in Int
           /\ x % n \in 0 .. n - 1
OBVIOUS

\* Taking a remainder before an addition does not change the remainder of the sum.
LEMMA ModPlus ==
    ASSUME NEW n \in Nat \ {0}, NEW x \in Nat, NEW y \in Nat
    PROVE  ((x % n) + y) % n = (x + y) % n
<1> DEFINE r == x % n
           s == (r + y) % n
           t == (x + y) % n
           q == x \div n
           u == (r + y) \div n
           v == (x + y) \div n
<1>1. x = q * n + r /\ q \in Int /\ r \in 0 .. n - 1
  BY DivMod
<1>2. r + y = u * n + s /\ u \in Int /\ s \in 0 .. n - 1
  <2>1. r + y \in Nat
    BY <1>1
  <2>2. QED
    BY <2>1, DivMod, Zenon
<1>3. x + y = v * n + t /\ v \in Int /\ t \in 0 .. n - 1
  <2>1. x + y \in Nat
    OBVIOUS
  <2>2. QED
    BY <2>1, DivMod, Zenon
<1> HIDE DEF r, s, t, q, u, v
<1>4. (v - q - u) * n = s - t
  BY <1>1, <1>2, <1>3
<1>5. v - q - u = 0
  BY <1>1, <1>2, <1>3, <1>4, SmallMultiple
<1>6. s = t
  BY <1>1, <1>2, <1>3, <1>4, <1>5
<1>7. QED
  BY <1>6 DEF s, t, r

\* A hand that moves on stays inside the table.
LEMMA AdvanceType ==
    ASSUME NEW h \in Nat, NEW n \in Nat
    PROVE  Advance(h, n) \in FrameIndex /\ Advance(h, n) \in Nat
BY FramesAssumption DEF Advance, FrameIndex

\* Two moves of a hand add up.
LEMMA AdvanceTwice ==
    ASSUME NEW h \in Nat, NEW m \in Nat, NEW n \in Nat
    PROVE  Advance(Advance(h, m), n) = Advance(h, m + n)
<1>1. h + m \in Nat /\ (h + m) + n = h + (m + n)
  OBVIOUS
<1>2. (((h + m) % MAX_PM_SIZE) + n) % MAX_PM_SIZE = ((h + m) + n) % MAX_PM_SIZE
  BY <1>1, FramesAssumption, ModPlus, Zenon
<1>3. QED
  BY <1>1, <1>2, Zenon DEF Advance

\* A hand inside the table that does not move stays where it is.
LEMMA AdvanceNone ==
    ASSUME NEW h \in FrameIndex
    PROVE  Advance(h, 0) = h
BY FramesAssumption DEF Advance, FrameIndex

\* second_chance_replace when no bit is set takes the frame at its hand, and moves both hands by one.
LEMMA SecondChanceAtOnce ==
    ASSUME NEW D, NEW ref \in [D -> BOOLEAN], FrameIndex \subseteq D,
           \A i \in FrameIndex : ~ref[i],
           NEW ep \in FrameIndex, NEW rp \in FrameIndex
    PROVE  /\ SecondChance(ref, ep, rp).victim = ep
           /\ SecondChance(ref, ep, rp).ep = Advance(ep, 1)
           /\ SecondChance(ref, ep, rp).rp = Advance(rp, 1)
           /\ SecondChance(ref, ep, rp).ref \in [D -> BOOLEAN]
           /\ \A i \in FrameIndex : ~SecondChance(ref, ep, rp).ref[i]
<1> DEFINE k == SecondChanceRounds(ref, ep, rp)
           stops == {i \in 0 .. CLOCK_ANGLE + 1 : StopsAt(ref, ep, rp, i)}
<1>1. Advance(ep, 0) = ep
  BY AdvanceNone
<1>2. 0 \in stops
  BY <1>1, AngleAssumption DEF StopsAt
<1>3. \A i \in stops : i \in Nat /\ 0 <= i
  BY AngleAssumption
<1>4. k = Least(stops)
  BY <1>2 DEF SecondChanceRounds
<1> HIDE DEF stops
<1>5. k \in stops /\ k <= 0
  BY <1>2, <1>3, <1>4, Zenon DEF Least
<1>6. k = 0
  BY <1>3, <1>5
<1>7. /\ SecondChance(ref, ep, rp).victim = Advance(ep, k)
      /\ SecondChance(ref, ep, rp).ep = Advance(ep, k + 1)
      /\ SecondChance(ref, ep, rp).rp = Advance(rp, k + 1)
      /\ SecondChance(ref, ep, rp).ref
           = [f \in DOMAIN ref |-> ref[f] /\ f \notin ClearedBefore(rp, k)]
  BY DEF SecondChance
<1> HIDE DEF k
<1>8. /\ SecondChance(ref, ep, rp).ref \in [D -> BOOLEAN]
      /\ \A i \in FrameIndex : ~SecondChance(ref, ep, rp).ref[i]
  BY <1>7, Zenon
<1>9. QED
  BY <1>1, <1>6, <1>7, <1>8
=============================================================================
