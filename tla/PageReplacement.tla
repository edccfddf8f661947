-------------------------- MODULE PageReplacement --------------------------
(***************************************************************************)
(* The four replacement policies at work on the reference bits of a page   *)
(* frame table whose frames are all in use: the fault handler sets bits    *)
(* and replace_page picks frames.  The kernel calls second_chance_replace; *)
(* the other three are what its authors compared it with.                  *)
(*                                                                         *)
(* This is the contract of the policies: every pattern of bits can come    *)
(* up.  In the kernel as built the fault handler sets the bits elsewhere   *)
(* (see physical_base_addr in VirtualMemory).                              *)
(***************************************************************************)
EXTENDS ClockPolicies, WellFoundedInduction

Policies == {"random", "one_handed", "second_chance", "lru"}

VARIABLES policy,              \* the policy replace_page was compiled to call
          ref_bit,             \* pft.table[i].ref_bit
          clock_hand,          \* the hand of one_handed_replace
          ep_hand, rp_hand,    \* the hands of second_chance_replace
          victim               \* the frame replace_page returned last

vars == <<policy, ref_bit, clock_hand, ep_hand, rp_hand, victim>>

\* page_frame_table_bootstrap
Init ==
    /\ policy \in Policies
    /\ ref_bit = [f \in FrameIndex |-> FALSE]
    /\ clock_hand = 0
    /\ ep_hand = 0
    /\ rp_hand = CLOCK_ANGLE
    /\ victim = OutsideTable

\* get_physical_address on a fault in the page that frame f holds.
Reference(f) ==
    /\ ref_bit' = [ref_bit EXCEPT ![f] = TRUE]
    /\ UNCHANGED <<policy, clock_hand, ep_hand, rp_hand, victim>>

\* The frame goes to another page, whose add_page_entry clears the bit.
Reused(ref, f) == [ref EXCEPT ![f] = FALSE]

ReplaceRandom ==
    /\ policy = "random"
    /\ \E n \in FrameIndex : victim' = n /\ ref_bit' = Reused(ref_bit, n)
    /\ UNCHANGED <<policy, clock_hand, ep_hand, rp_hand>>

ReplaceOneHanded ==
    /\ policy = "one_handed"
    /\ LET r == OneHanded(ref_bit, clock_hand)
       IN  /\ victim' = r.victim
           /\ ref_bit' = Reused(r.ref, r.victim)
           /\ clock_hand' = r.hand
    /\ UNCHANGED <<policy, ep_hand, rp_hand>>

ReplaceSecondChance ==
    /\ policy = "second_chance"
    /\ LET r == SecondChance(ref_bit, ep_hand, rp_hand)
       IN  /\ victim' = r.victim
           /\ ref_bit' = Reused(r.ref, r.victim)
           /\ ep_hand' = r.ep
           /\ rp_hand' = r.rp
    /\ UNCHANGED <<policy, clock_hand>>

\* lru_replace; when it leaves the table there is no frame to reuse.
ReplaceLru ==
    /\ policy = "lru"
    /\ victim' = Lru(ref_bit)
    /\ ref_bit' = IF victim' = OutsideTable THEN ref_bit ELSE Reused(ref_bit, victim')
    /\ UNCHANGED <<policy, clock_hand, ep_hand, rp_hand>>

replace_page == ReplaceRandom \/ ReplaceOneHanded \/ ReplaceSecondChance \/ ReplaceLru

Next == replace_page \/ \E f \in FrameIndex : Reference(f)

Spec == Init /\ [][Next]_vars

-----------------------------------------------------------------------------
\* Type invariant: the hands are indexes of the table after every call, although
\* one_handed_replace lets clock_hand reach MAX_PM_SIZE on the way.
TypeOK ==
    /\ policy \in Policies
    /\ ref_bit \in [FrameIndex -> BOOLEAN]
    /\ clock_hand \in FrameIndex /\ ep_hand \in FrameIndex /\ rp_hand \in FrameIndex
    /\ victim \in FrameIndex \cup {OutsideTable}

\* The hands of second_chance_replace stay CLOCK_ANGLE frames apart.
HandsApart == rp_hand = Advance(ep_hand, CLOCK_ANGLE)

\* second_chance_replace never gives up its search: the frame it would pick has its reference bit
\* clear, and it finds it after at most CLOCK_ANGLE of the CLOCK_ANGLE + 2 rounds it allows itself.
PicksUnreferenced ==
    LET r == SecondChance(ref_bit, ep_hand, rp_hand)
    IN  /\ ~r.ref[r.victim]
        /\ SecondChanceRounds(ref_bit, ep_hand, rp_hand) <= CLOCK_ANGLE

RefBits == [FrameIndex -> BOOLEAN]

\* The loop of second_chance_replace as it is written, with its limit on the rounds.
SecondChanceLoop[i \in 0 .. CLOCK_ANGLE + 2, ref \in RefBits, ep, rp \in FrameIndex] ==
    IF i <= CLOCK_ANGLE + 1 /\ ref[ep]
    THEN SecondChanceLoop[i + 1, [ref EXCEPT ![rp] = FALSE], (ep + 1) % MAX_PM_SIZE, (rp + 1) % MAX_PM_SIZE]
    ELSE [victim |-> ep, ref |-> ref,
          ep |-> (ep + 1) % MAX_PM_SIZE, rp |-> (rp + 1) % MAX_PM_SIZE]

\* The loop of one_handed_replace.
OneHandedLoop[i \in 0 .. MAX_PM_SIZE + 2, ref \in RefBits, hand \in FrameIndex] ==
    IF i <= MAX_PM_SIZE + 1 /\ ref[hand]
    THEN OneHandedLoop[i + 1, [ref EXCEPT ![hand] = FALSE], (hand + 1) % MAX_PM_SIZE]
    ELSE LET next == IF i <= MAX_PM_SIZE + 1 THEN hand + 1 ELSE hand
         IN  [victim |-> next % MAX_PM_SIZE, ref |-> ref, hand |-> (next + 1) % MAX_PM_SIZE]

\* The operators of ClockPolicies compute what the loops of second_chance_replace and
\* one_handed_replace compute, round limits included, on every pattern of bits and hands.
LoopsAgree ==
    /\ SecondChance(ref_bit, ep_hand, rp_hand) = SecondChanceLoop[0, ref_bit, ep_hand, rp_hand]
    /\ OneHanded(ref_bit, clock_hand) = OneHandedLoop[0, ref_bit, clock_hand]

SecondChanceUsed == policy = "second_chance"
Looked(f) == ref_bit[f] \/ victim = f
-----------------------------------------------------------------------------
(* Lemmas about the policies: what kinds of values they return, and why    *)
(* second_chance_replace never gives up its search.                        *)

\* A set of natural numbers that is not empty has a least element, and Least returns it.
LEMMA LeastIsLeast ==
    ASSUME NEW S \in SUBSET Nat, S # {}
    PROVE  Least(S) \in S /\ \A y \in S : Least(S) <= y
<1> DEFINE R == {ss \in Nat \X Nat : ss[1] < ss[2]}
<1>1. IsWellFoundedOn(R, Nat)
  BY NatLessThanWellFounded, Zenon DEF OpToRel
<1>2. \E x \in S : \A y \in S : ~ (<<y, x>> \in R)
  <2> HIDE DEF R
  <2>1. QED
    BY <1>1, WFMin, Zenon
<1>3. PICK x \in S : \A y \in S : ~ (<<y, x>> \in R)
  BY <1>2
<1>4. ASSUME NEW y \in S PROVE x <= y
  <2>1. <<y, x>> \in Nat \X Nat /\ <<y, x>>[1] = y /\ <<y, x>>[2] = x
    OBVIOUS
  <2>2. ~ (y < x)
    BY <1>3, <2>1, Zenon
  <2>3. QED
    BY <2>2
<1>5. QED
  BY <1>4, Zenon DEF Least

-----------------------------------------------------------------------------
(* second_chance_replace. *)

\* The loop makes at most CLOCK_ANGLE + 2 rounds.
LEMMA RoundsType ==
    ASSUME NEW ref, NEW ep, NEW rp
    PROVE  SecondChanceRounds(ref, ep, rp) \in 0 .. CLOCK_ANGLE + 2
<1> DEFINE stops == {i \in 0 .. CLOCK_ANGLE + 1 : StopsAt(ref, ep, rp, i)}
<1>1. stops \in SUBSET Nat /\ stops \subseteq 0 .. CLOCK_ANGLE + 1
  BY AngleAssumption
<1>2. CASE stops = {}
  BY <1>2, AngleAssumption DEF SecondChanceRounds
<1>3. CASE stops # {}
  <2>1. Least(stops) \in stops
    BY <1>1, <1>3, LeastIsLeast
  <2>2. SecondChanceRounds(ref, ep, rp) = Least(stops)
    BY <1>3 DEF SecondChanceRounds
  <2>3. QED
    BY <1>1, <2>1, <2>2, AngleAssumption
<1>4. QED
  BY <1>2, <1>3

\* The policy returns a frame of the table, leaves bits on the entries that had one, and leaves
\* its hands inside the table.
LEMMA SecondChanceType ==
    ASSUME NEW D, NEW ref \in [D -> BOOLEAN], NEW ep \in FrameIndex, NEW rp \in FrameIndex
    PROVE  /\ SecondChance(ref, ep, rp).victim \in FrameIndex
           /\ SecondChance(ref, ep, rp).ref \in [D -> BOOLEAN]
           /\ SecondChance(ref, ep, rp).ep \in FrameIndex
           /\ SecondChance(ref, ep, rp).rp \in FrameIndex
<1> DEFINE k == SecondChanceRounds(ref, ep, rp)
<1>1. k \in Nat /\ k + 1 \in Nat
  BY RoundsType, AngleAssumption
<1>2. ep \in Nat /\ rp \in Nat
  BY FramesAssumption DEF FrameIndex
<1>3. /\ Advance(ep, k) \in FrameIndex
      /\ Advance(ep, k + 1) \in FrameIndex
      /\ Advance(rp, k + 1) \in FrameIndex
  BY <1>1, <1>2, AdvanceType
<1>4. [f \in DOMAIN ref |-> ref[f] /\ f \notin ClearedBefore(rp, k)] \in [D -> BOOLEAN]
  OBVIOUS
<1> HIDE DEF k
<1>5. QED
  BY <1>3, <1>4 DEF SecondChance, k

\* The hands move together, so the distance between them stays what it is.
LEMMA SecondChanceKeepsAngle ==
    ASSUME NEW ref, NEW ep \in FrameIndex, NEW rp \in FrameIndex,
           rp = Advance(ep, CLOCK_ANGLE)
    PROVE  SecondChance(ref, ep, rp).rp = Advance(SecondChance(ref, ep, rp).ep, CLOCK_ANGLE)
<1> DEFINE k == SecondChanceRounds(ref, ep, rp)
<1>1. k + 1 \in Nat /\ ep \in Nat /\ CLOCK_ANGLE \in Nat
  BY RoundsType, AngleAssumption, FramesAssumption DEF FrameIndex
<1>2. /\ SecondChance(ref, ep, rp).rp = Advance(rp, k + 1)
      /\ SecondChance(ref, ep, rp).ep = Advance(ep, k + 1)
  BY DEF SecondChance
<1> HIDE DEF k
<1>3. Advance(Advance(ep, CLOCK_ANGLE), k + 1) = Advance(ep, CLOCK_ANGLE + (k + 1))
  BY <1>1, AdvanceTwice
<1>4. Advance(Advance(ep, k + 1), CLOCK_ANGLE) = Advance(ep, (k + 1) + CLOCK_ANGLE)
  BY <1>1, AdvanceTwice
<1>5. QED
  BY <1>1, <1>2, <1>3, <1>4

\* After CLOCK_ANGLE rounds the evicting hand is at the first frame the clearing hand cleared, so
\* the search ends there at the latest, at a frame whose bit is clear.
LEMMA SecondChanceFindsClear ==
    ASSUME NEW D, NEW ref \in [D -> BOOLEAN], FrameIndex \subseteq D,
           NEW ep \in FrameIndex, NEW rp \in FrameIndex,
           rp = Advance(ep, CLOCK_ANGLE)
    PROVE  /\ SecondChanceRounds(ref, ep, rp) <= CLOCK_ANGLE
           /\ ~ SecondChance(ref, ep, rp).ref[SecondChance(ref, ep, rp).victim]
<1> DEFINE k == SecondChanceRounds(ref, ep, rp)
           stops == {i \in 0 .. CLOCK_ANGLE + 1 : StopsAt(ref, ep, rp, i)}
<1>1. CLOCK_ANGLE \in stops
  <2>1. Advance(rp, 0) = rp
    BY AdvanceNone
  <2>2. rp \in ClearedBefore(rp, CLOCK_ANGLE)
    BY <2>1, AngleAssumption DEF ClearedBefore
  <2>3. QED
    BY <2>2, AngleAssumption DEF StopsAt
<1>2. stops \in SUBSET Nat
  BY AngleAssumption
<1>3. k = Least(stops)
  BY <1>1 DEF SecondChanceRounds
<1>4. k \in stops /\ k <= CLOCK_ANGLE
  BY <1>1, <1>2, <1>3, LeastIsLeast
<1>5. StopsAt(ref, ep, rp, k)
  BY <1>4
<1>6. Advance(ep, k) \in D
  BY <1>2, <1>4, AdvanceType, FramesAssumption DEF FrameIndex
<1>7. /\ SecondChance(ref, ep, rp).victim = Advance(ep, k)
      /\ SecondChance(ref, ep, rp).ref
           = [f \in DOMAIN ref |-> ref[f] /\ f \notin ClearedBefore(rp, k)]
  BY DEF SecondChance
<1> HIDE DEF k
<1>8. QED
  BY <1>4, <1>5, <1>6, <1>7, Zenon DEF StopsAt, k

-----------------------------------------------------------------------------
(* The other policies. *)

\* one_handed_replace returns a frame of the table and leaves its hand inside it.
LEMMA OneHandedType ==
    ASSUME NEW D, NEW ref \in [D -> BOOLEAN], NEW hand \in FrameIndex
    PROVE  /\ OneHanded(ref, hand).victim \in FrameIndex
           /\ OneHanded(ref, hand).ref \in [D -> BOOLEAN]
           /\ OneHanded(ref, hand).hand \in FrameIndex
<1> DEFINE stops == {i \in 0 .. MAX_PM_SIZE - 1 : ~ref[Advance(hand, i)]}
           k     == IF stops = {} THEN MAX_PM_SIZE ELSE Least(stops)
<1>1. stops \in SUBSET Nat
  BY FramesAssumption
<1>2. k \in Nat
  BY <1>1, LeastIsLeast, FramesAssumption
<1>3. hand \in Nat
  BY FramesAssumption DEF FrameIndex
<1>4. OneHanded(ref, hand)
        = [victim |-> Advance(hand, k + 1),
           ref    |-> [f \in DOMAIN ref |-> ref[f] /\ f \notin ClearedBefore(hand, k)],
           hand   |-> Advance(hand, k + 2)]
  BY DEF OneHanded
<1> HIDE DEF k
<1>5. Advance(hand, k + 1) \in FrameIndex /\ Advance(hand, k + 2) \in FrameIndex
  <2>1. k + 1 \in Nat /\ k + 2 \in Nat
    BY <1>2
  <2>2. QED
    BY <1>3, <2>1, AdvanceType, Zenon
<1>6. [f \in DOMAIN ref |-> ref[f] /\ f \notin ClearedBefore(hand, k)] \in [D -> BOOLEAN]
  OBVIOUS
<1>7. QED
  BY <1>4, <1>5, <1>6

\* lru_replace returns a frame of the table or leaves the table.
LEMMA LruType ==
    ASSUME NEW ref
    PROVE  Lru(ref) \in FrameIndex \cup {OutsideTable}
<1> DEFINE clear == {f \in FrameIndex : ~ref[f]}
<1>1. clear \in SUBSET Nat
  BY FramesAssumption DEF FrameIndex
<1>2. clear # {} => Least(clear) \in clear
  BY <1>1, LeastIsLeast
<1>3. QED
  BY <1>2 DEF Lru

-----------------------------------------------------------------------------
\* For every number of frames and every angle between the hands:

\* Type correctness: whatever replace_page does, the hands index the table.
THEOREM TypeCorrect == Spec => []TypeOK
<1>1. Init => TypeOK
  BY FramesAssumption, AngleAssumption DEF Init, TypeOK, FrameIndex
<1>2. TypeOK /\ [Next]_vars => TypeOK'
  <2> SUFFICES ASSUME TypeOK, [Next]_vars PROVE TypeOK'
    OBVIOUS
  <2>1. ASSUME NEW f \in FrameIndex, Reference(f) PROVE TypeOK'
    BY <2>1 DEF TypeOK, Reference
  <2>2. CASE ReplaceRandom
    BY <2>2 DEF TypeOK, ReplaceRandom, Reused
  <2>3. CASE ReplaceOneHanded
    <3> DEFINE r == OneHanded(ref_bit, clock_hand)
    <3>1. /\ r.victim \in FrameIndex
          /\ r.ref \in [FrameIndex -> BOOLEAN]
          /\ r.hand \in FrameIndex
      BY OneHandedType DEF TypeOK
    <3>2. /\ victim' = r.victim
          /\ ref_bit' = [r.ref EXCEPT ![r.victim] = FALSE]
          /\ clock_hand' = r.hand
          /\ UNCHANGED <<policy, ep_hand, rp_hand>>
      BY <2>3 DEF ReplaceOneHanded, Reused
    <3> HIDE DEF r
    <3>3. QED
      BY <3>1, <3>2 DEF TypeOK
  <2>4. CASE ReplaceSecondChance
    <3> DEFINE r == SecondChance(ref_bit, ep_hand, rp_hand)
    <3>1. /\ r.victim \in FrameIndex
          /\ r.ref \in [FrameIndex -> BOOLEAN]
          /\ r.ep \in FrameIndex
          /\ r.rp \in FrameIndex
      BY SecondChanceType DEF TypeOK
    <3>2. /\ victim' = r.victim
          /\ ref_bit' = [r.ref EXCEPT ![r.victim] = FALSE]
          /\ ep_hand' = r.ep
          /\ rp_hand' = r.rp
          /\ UNCHANGED <<policy, clock_hand>>
      BY <2>4 DEF ReplaceSecondChance, Reused
    <3> HIDE DEF r
    <3>3. QED
      BY <3>1, <3>2 DEF TypeOK
  <2>5. CASE ReplaceLru
    <3>1. victim' \in FrameIndex \cup {OutsideTable}
      BY <2>5, LruType DEF ReplaceLru
    <3>2. ref_bit' \in [FrameIndex -> BOOLEAN]
      BY <2>5, Zenon DEF TypeOK, ReplaceLru, Reused
    <3>3. QED
      BY <2>5, <3>1, <3>2 DEF TypeOK, ReplaceLru
  <2>6. CASE UNCHANGED vars
    BY <2>6 DEF TypeOK, vars
  <2>7. QED
    BY <2>1, <2>2, <2>3, <2>4, <2>5, <2>6 DEF Next, replace_page
<1>3. QED
  BY <1>1, <1>2, PTL DEF Spec

\* The hands of second_chance_replace never lose the distance they start with.
THEOREM HandsStayApart == Spec => []HandsApart
<1>1. Init => HandsApart
  BY FramesAssumption, AngleAssumption DEF Init, HandsApart, Advance
<1>2. TypeOK /\ HandsApart /\ [Next]_vars => HandsApart'
  <2> SUFFICES ASSUME TypeOK, HandsApart, [Next]_vars PROVE HandsApart'
    OBVIOUS
  <2>1. CASE ReplaceSecondChance
    <3> DEFINE r == SecondChance(ref_bit, ep_hand, rp_hand)
    <3>1. r.rp = Advance(r.ep, CLOCK_ANGLE)
      BY SecondChanceKeepsAngle DEF TypeOK, HandsApart
    <3>2. ep_hand' = r.ep /\ rp_hand' = r.rp
      BY <2>1 DEF ReplaceSecondChance
    <3>3. QED
      BY <3>1, <3>2 DEF HandsApart
  <2>2. CASE UNCHANGED <<ep_hand, rp_hand>>
    BY <2>2 DEF HandsApart
  <2>3. QED
    BY <2>1, <2>2
    DEF Next, replace_page, Reference, ReplaceRandom, ReplaceOneHanded, ReplaceLru, vars
<1>3. QED
  BY <1>1, <1>2, TypeCorrect, PTL DEF Spec

\* second_chance_replace always ends its search, within CLOCK_ANGLE rounds, at a frame whose
\* reference bit is clear: the limit of CLOCK_ANGLE + 2 rounds in its loop is never met.
THEOREM AlwaysPicksUnreferenced == Spec => []PicksUnreferenced
<1>1. TypeOK /\ HandsApart => PicksUnreferenced
  BY SecondChanceFindsClear DEF TypeOK, HandsApart, PicksUnreferenced
<1>2. QED
  BY <1>1, TypeCorrect, HandsStayApart, PTL
=============================================================================
