------------------------------ MODULE LongLong ------------------------------
(***************************************************************************)
(* common/gcc-millicode: arithmetic on `long long' for a machine that has  *)
(* only `int'.  The kernel and libc link it; gcc calls it for every 64-bit *)
(* sum, product, quotient, comparison and shift (file offsets, times, %qd).*)
(*                                                                         *)
(* A long long is a record of its two words (union uu); a word is a number *)
(* in 0 .. W-1, and a word operation wraps as unsigned arithmetic does.    *)
(* The code fixes nothing but "a long long is exactly twice as long as     *)
(* int": the number of bits in half a word is a parameter here too.        *)
(***************************************************************************)
EXTENDS Integers, FiniteSets, FiniteSetsExt, TLAPS

CONSTANTS
    HALF_BITS,     \* bits in half an int: 16 on the machine
    Parts          \* the words that the operands of a call are made of

VARIABLES
    a, b,      \* the operands of a call
    res        \* what the functions return for them, or NoResult

vars == <<a, b, res>>
-----------------------------------------------------------------------------
B == 2^HALF_BITS           \* digit base
W == B * B                 \* 2^INT_BITS
INT_BITS == 2 * HALF_BITS
LONGLONG_BITS == 4 * HALF_BITS
Q == W * W                 \* 2^LONGLONG_BITS

Digits == 0 .. B - 1
Words == 0 .. W - 1

WidthAssumption == HALF_BITS \in Nat \ {0} /\ Parts \subseteq Words

Quads == [h : Words, l : Words]
Quad(x) == [h |-> (x \div W) % W, l |-> x % W]

Unsigned(x) == x.h * W + x.l                           \* uu.ull
Int32(w) == IF 2 * w >= W THEN w - W ELSE w            \* ui[] read as si[]
Signed(x) == Int32(x.h) * W + x.l                      \* uu.ll

UI(n) == n % W                                         \* what an unsigned int keeps
HHALF(w) == w \div B
LHALF(w) == w % B
LHUP(w) == UI(w * B)
COMBINE(x, y) == UI(x * B) + y
Carry(cond) == IF cond THEN 1 ELSE 0                   \* a comparison used as a number

\* The bitwise operators, on the sets of bits that are one.
Bits(w) == {i \in 0 .. INT_BITS - 1 : (w \div 2^i) % 2 = 1}
Word(S) == FoldSet(LAMBDA i, sum : 2^i + sum, 0, S)
Or(x, y) == Word(Bits(x) \cup Bits(y))
-----------------------------------------------------------------------------
\* Sum, difference, negation: a carry or a borrow went out of the low word if the result wrapped.
adddi3(x, y) ==
    LET low == UI(x.l + y.l)
    IN  [h |-> UI(x.h + y.h + Carry(low < y.l)), l |-> low]

subdi3(x, y) ==
    LET low == UI(x.l - y.l)
    IN  [h |-> UI(x.h - y.h - Carry(low > x.l)), l |-> low]

negdi2(x) ==
    LET low == UI(-x.l)
    IN  [h |-> UI(-x.h - Carry(low > 0)), l |-> low]

\* 0, 1 or 2 as x is below, equal to or above y.
cmpdi2(x, y) ==
    IF Int32(x.h) < Int32(y.h) THEN 0 ELSE IF Int32(x.h) > Int32(y.h) THEN 2
    ELSE IF x.l < y.l THEN 0 ELSE IF x.l > y.l THEN 2 ELSE 1

ucmpdi2(x, y) ==
    IF x.h < y.h THEN 0 ELSE IF x.h > y.h THEN 2
    ELSE IF x.l < y.l THEN 0 ELSE IF x.l > y.l THEN 2 ELSE 1

anddi3(x, y) == [h |-> Word(Bits(x.h) \cap Bits(y.h)), l |-> Word(Bits(x.l) \cap Bits(y.l))]
iordi3(x, y) == [h |-> Or(x.h, y.h), l |-> Or(x.l, y.l)]
xordi3(x, y) == [h |-> Word(SymDiff(Bits(x.h), Bits(y.h))), l |-> Word(SymDiff(Bits(x.l), Bits(y.l)))]
notdi2(x) == [h |-> W - 1 - x.h, l |-> W - 1 - x.l]
-----------------------------------------------------------------------------
\* Shifts by less than the width: of one word into the other when the count reaches a word.
ashldi3(x, shift) ==
    IF shift = 0 THEN x
    ELSE IF shift >= INT_BITS THEN [h |-> UI(x.l * 2^(shift - INT_BITS)), l |-> 0]
    ELSE [h |-> Or(UI(x.h * 2^shift), x.l \div 2^(INT_BITS - shift)), l |-> UI(x.l * 2^shift)]

lshldi3(x, shift) == ashldi3(x, shift)

lshrdi3(x, shift) ==
    IF shift = 0 THEN x
    ELSE IF shift >= INT_BITS THEN [h |-> 0, l |-> x.h \div 2^(shift - INT_BITS)]
    ELSE [h |-> x.h \div 2^shift, l |-> Or(x.l \div 2^shift, UI(x.h * 2^(INT_BITS - shift)))]

\* The sign word comes from two shifts, because one of INT_BITS is undefined.
ashrdi3(x, shift) ==
    IF shift = 0 THEN x
    ELSE IF shift >= INT_BITS
         THEN [h |-> UI((Int32(x.h) \div 2^(INT_BITS - 1)) \div 2),
               l |-> UI(Int32(x.h) \div 2^(shift - INT_BITS))]
    ELSE [h |-> UI(Int32(x.h) \div 2^shift),
          l |-> Or(x.l \div 2^shift, UI(x.h * 2^(INT_BITS - shift)))]
-----------------------------------------------------------------------------
Distance(x, y) == IF x >= y THEN x - y ELSE y - x

\* The product (u1 - u0) * (v0 - v1), as its size and whether it is to be subtracted.
Middle(u1, u0, v1, v0) == Distance(u1, u0) * Distance(v0, v1)
Subtracts(u1, u0, v1, v0) == (u1 < u0) # (v0 < v1)

\* The sum of the parts of a product of two words whose halves are u1, u0 and v1, v0; the words of
\* a long long in turn, with a carry whenever the low one wraps.
LongProduct(high, mid, low, neg) ==
    LET l1 == LHUP(high)
        h1 == UI(high + HHALF(high))
        l2 == IF neg THEN UI(l1 - LHUP(mid)) ELSE UI(l1 + LHUP(mid))
        h2 == IF neg THEN UI(h1 - (HHALF(mid) + Carry(l2 > l1)))
              ELSE UI(h1 + HHALF(mid) + Carry(l2 < l1))
        l3 == UI(l2 + LHUP(low))
        h3 == UI(h2 + HHALF(low) + Carry(l3 < l2))
        l4 == UI(l3 + low)
        h4 == IF l4 < low THEN UI(h3 + 1) ELSE h3
    IN  [h |-> h4, l |-> l4]

\* int * int = long long, out of short * short = int.
lmulq(u, v) ==
    LET u1 == HHALF(u)  u0 == LHALF(u)  v1 == HHALF(v)  v0 == LHALF(v)
        low == UI(u0 * v0)
    IN  IF u1 = 0 /\ v1 = 0 THEN [h |-> 0, l |-> low]
        ELSE LongProduct(UI(u1 * v1), UI(Middle(u1, u0, v1, v0)), low, Subtracts(u1, u0, v1, v0))

\* The product of two long longs that are not negative: high and middle term only modulo a word.
QuadProduct(u, v) ==
    LET low == lmulq(u.l, v.l)
        mid == UI(Middle(u.h, u.l, v.h, v.l))
        neg == Subtracts(u.h, u.l, v.h, v.l)
    IN  IF u.h = 0 /\ v.h = 0 THEN low
        ELSE [h |-> UI(UI(u.h * v.h) + (IF neg THEN UI(-mid) ELSE mid) + low.l + low.h), l |-> low.l]

Negative(x) == Signed(x) < 0
Magnitude(x) == IF Negative(x) THEN negdi2(x) ELSE x

muldi3(x, y) ==
    LET prod == QuadProduct(Magnitude(x), Magnitude(y))
    IN  IF Negative(x) # Negative(y) THEN negdi2(prod) ELSE prod
-----------------------------------------------------------------------------
\* A long long as four digits, most significant first, and back.
DigitsOf(x) == <<HHALF(x.h), LHALF(x.h), HHALF(x.l), LHALF(x.l)>>
FromDigits(p, i) == [h |-> COMBINE(p[i], p[i + 1]), l |-> COMBINE(p[i + 2], p[i + 3])]

LeadingZeros(p) == Min({i \in 0 .. 3 : p[i + 1] # 0})

\* Division by one digit, unrolled: a remainder and the next digit at a time.
ShortDivide(u, t) ==
    LET rbj2 == COMBINE(u[1] % t, u[2])
        rbj3 == COMBINE(rbj2 % t, u[3])
        rbj4 == COMBINE(rbj3 % t, u[4])
    IN  [quot |-> FromDigits(<<u[1] \div t, rbj2 \div t, rbj3 \div t, rbj4 \div t>>, 1),
         rem |-> [h |-> 0, l |-> rbj4 % t]]

\* p[0]..p[len] shifted left by sh bits, ignoring what falls out.
shl(p, len, sh) ==
    [i \in DOMAIN p |->
        IF i \notin 0 .. len THEN p[i]
        ELSE LHALF(p[i] * 2^sh) + (IF i < len THEN p[i + 1] \div 2^(HALF_BITS - sh) ELSE 0)]

\* D3: the trial digit.  It goes down while it is too big, at least once when the first digits are
\* equal, until the remainder does not fit a digit.
TrialDigit(u0, u1, u2, v1, v2) ==
    LET qhat == IF u0 = v1 THEN B ELSE COMBINE(u0, u1) \div v1
        rhat == IF u0 = v1 THEN u1 ELSE COMBINE(u0, u1) % v1
        Stop(k) ==
            \/ k > 0 /\ rhat + k * v1 >= B
            \/ (k > 0 \/ u0 # v1) /\ UI(v2 * (qhat - k)) <= COMBINE(rhat + k * v1, u2)
    IN  qhat - Min({k \in 0 .. B : Stop(k)})

\* What a digit of the difference borrows from the one before it.
Borrow(t) == (B - HHALF(t)) % B

\* D4: u[j..j+n] - qhat * v[1..n], and the word that says whether there was a borrow at the end.
MultiplySubtract(u, v, n, j, qhat) ==
    LET t[i \in 1 .. n] ==
            UI(u[i + j] - v[i] * qhat - (IF i = n THEN 0 ELSE Borrow(t[i + 1])))
        last == UI(u[j] - Borrow(t[1]))
    IN  [u |-> [i \in DOMAIN u |-> IF i = j THEN LHALF(last)
                                   ELSE IF i - j \in 1 .. n THEN LHALF(t[i - j]) ELSE u[i]],
         borrow |-> HHALF(last) # 0]

\* D6: u[j..j+n] + v[1..n].
AddBack(u, v, n, j) ==
    LET t[i \in 1 .. n] == u[i + j] + v[i] + (IF i = n THEN 0 ELSE HHALF(t[i + 1]))
    IN  [i \in DOMAIN u |-> IF i = j THEN LHALF(u[j] + HHALF(t[1]))
                            ELSE IF i - j \in 1 .. n THEN LHALF(t[i - j]) ELSE u[i]]

\* D3 to D6: the digit of the quotient at j, and what is left of u.
QuotientDigit(u, v, n, j) ==
    LET qhat == TrialDigit(u[j], u[j + 1], u[j + 2], v[1], v[2])
        sub == MultiplySubtract(u, v, n, j, qhat)
    IN  IF sub.borrow THEN [digit |-> qhat - 1, u |-> AddBack(sub.u, v, n, j)]
        ELSE [digit |-> qhat, u |-> sub.u]

\* D1 to D7 on u[0..m+n] and v[1..n].  D8: the remainder is u[m..m+n] shifted back.
LongDivide(u, v, m, n) ==
    LET d == Min({k \in 0 .. HALF_BITS : 2 * v[1] * 2^k >= B})
        un == IF d > 0 THEN shl(u, m + n, d) ELSE u
        vn == IF d > 0 THEN [i \in 1 .. n |-> shl([k \in 0 .. n - 1 |-> v[k + 1]], n - 1, d)[i - 1]]
              ELSE v
        step[j \in 0 .. m] == QuotientDigit(IF j = 0 THEN un ELSE step[j - 1].u, vn, n, j)
        left == step[m].u
    IN  [q |-> [j \in 0 .. m |-> step[j].digit],
         r |-> [i \in 0 .. m + n |->
                   IF d = 0 THEN left[i]
                   ELSE IF i > m THEN left[i] \div 2^d + LHALF(left[i - 1] * 2^(HALF_BITS - d))
                   ELSE IF i = m THEN 0 ELSE left[i]]]

\* Quotient and remainder, for a divisor that is not zero.
qdivrem(x, y) ==
    LET u == DigitsOf(x)
        v == DigitsOf(y)
        n == 4 - LeadingZeros(v)
        skip == LeadingZeros(u)
        m == 4 - n - skip
        div == LongDivide([i \in 0 .. m + n |-> IF i = 0 THEN 0 ELSE u[i + skip]],
                          [i \in 1 .. n |-> v[i + 4 - n]], m, n)
    IN  IF ucmpdi2(x, y) = 0 THEN [quot |-> Quad(0), rem |-> x]
        ELSE IF n = 1 THEN ShortDivide(u, v[4])
        ELSE [quot |-> FromDigits([i \in 1 .. 4 |-> IF i < 4 - m THEN 0 ELSE div.q[i - (4 - m)]], 1),
              rem |-> FromDigits([i \in 1 .. 4 |-> IF i < skip THEN 0 ELSE div.r[i - skip]], 1)]

udivdi3(x, y) == qdivrem(x, y).quot
umoddi3(x, y) == qdivrem(x, y).rem

\* Division truncates toward zero; the remainder has the sign of the dividend.
divdi3(x, y) ==
    LET uq == qdivrem(Magnitude(x), Magnitude(y)).quot
    IN  IF Negative(x) # Negative(y) THEN negdi2(uq) ELSE uq

moddi3(x, y) ==
    LET ur == qdivrem(Magnitude(x), Magnitude(y)).rem
    IN  IF Negative(x) THEN negdi2(ur) ELSE ur
-----------------------------------------------------------------------------
NoResult == [kind |-> "none"]
Trapped == [kind |-> "trap"]

\* The count of a shift is below the width; one is taken from the second operand.
Shift(y) == Unsigned(y) % LONGLONG_BITS

Results(x, y) ==
    [kind |-> "modular", sum |-> adddi3(x, y), diff |-> subdi3(x, y), neg |-> negdi2(x),
     not |-> notdi2(x), and |-> anddi3(x, y), ior |-> iordi3(x, y), xor |-> xordi3(x, y),
     cmp |-> cmpdi2(x, y), ucmp |-> ucmpdi2(x, y), prod |-> muldi3(x, y),
     shl |-> ashldi3(x, Shift(y)), lshl |-> lshldi3(x, Shift(y)),
     lshr |-> lshrdi3(x, Shift(y)), ashr |-> ashrdi3(x, Shift(y))]

Quotients(x, y) ==
    [kind |-> "division", quot |-> divdi3(x, y), rem |-> moddi3(x, y),
     uquot |-> udivdi3(x, y), urem |-> umoddi3(x, y)]

Operands == [h : Parts, l : Parts]

Init == a \in Operands /\ b = Quad(0) /\ res = NoResult

Compute(y) ==
    /\ res = NoResult
    /\ b' = y /\ res' = Results(a, y)
    /\ UNCHANGED a

\* A zero divisor is divided by in an int first (1 / zero), which traps.
Divide(y) ==
    /\ res = NoResult
    /\ b' = y /\ res' = IF y = Quad(0) THEN Trapped ELSE Quotients(a, y)
    /\ UNCHANGED a

Next == \E y \in Operands : Compute(y) \/ Divide(y)

Spec == Init /\ [][Next]_vars
-----------------------------------------------------------------------------
\* The operands are long longs, and so is every number that is returned.
TypeOK ==
    /\ a \in Quads /\ b \in Quads
    /\ res.kind = "modular" =>
           {res.sum, res.diff, res.neg, res.prod, res.shl, res.lshr, res.ashr} \subseteq Quads
    /\ res.kind = "division" => {res.uquot, res.urem, res.quot, res.rem} \subseteq Quads

Abs(n) == IF n < 0 THEN -n ELSE n

\* Sums, differences, products and shifts to the left are those of the integers modulo the width;
\* comparisons and shifts to the right are exact, for signed and for unsigned operands.
ModularRight ==
    res.kind = "modular" =>
        LET x == Unsigned(a)  y == Unsigned(b)  s == Shift(b)
        IN  /\ Unsigned(res.sum) = (x + y) % Q
            /\ Unsigned(res.diff) = (x - y) % Q
            /\ Unsigned(res.neg) = (-x) % Q
            /\ Unsigned(res.prod) = (x * y) % Q
            /\ Unsigned(res.shl) = (x * 2^s) % Q /\ res.lshl = res.shl
            /\ Unsigned(res.lshr) = x \div 2^s
            /\ Signed(res.ashr) = Signed(a) \div 2^s
            /\ res.cmp - 1 = (IF Signed(a) < Signed(b) THEN -1 ELSE IF Signed(a) = Signed(b) THEN 0 ELSE 1)
            /\ res.ucmp - 1 = (IF x < y THEN -1 ELSE IF x = y THEN 0 ELSE 1)
            /\ Unsigned(res.not) = Q - 1 - x
            /\ res.sum = adddi3(res.ior, res.and)
            /\ res.xor = subdi3(res.ior, res.and)

\* Quotient and remainder are those of the integers: for unsigned operands by rounding down, for
\* signed ones toward zero, the remainder with the sign of the dividend (so that only the most
\* negative number divided by -1 wraps).
DivisionRight ==
    res.kind = "division" =>
             /\ Unsigned(res.uquot) = Unsigned(a) \div Unsigned(b)
             /\ Unsigned(res.urem) = Unsigned(a) % Unsigned(b)
             /\ LET q == (Abs(Signed(a)) \div Abs(Signed(b)))
                         * (IF Negative(a) # Negative(b) THEN -1 ELSE 1)
                IN  /\ Unsigned(res.quot) = q % Q
                    /\ Signed(res.rem) = Signed(a) - q * Signed(b)
-----------------------------------------------------------------------------
(* Lemmas about remainders. *)

\* A multiple of n that lies strictly between -n and n is zero.
LEMMA SmallMultiple ==
    ASSUME NEW n \in Nat \ {0}, NEW d \in Int, NEW r \in Int, d * n = r, -n < r, r < n
    PROVE  d = 0
<1>1. ~ (d >= 1)
  <2>1. SUFFICES ASSUME d >= 1 PROVE FALSE
    OBVIOUS
  <2>2. (d - 1) * n >= 0
    BY <2>1
  <2>3. QED
    BY <2>2
<1>2. ~ (d <= -1)
  <2>1. SUFFICES ASSUME d <= -1 PROVE FALSE
    OBVIOUS
  <2>2. (-1 - d) * n >= 0
    BY <2>1
  <2>3. QED
    BY <2>2
<1>3. QED
  BY <1>1, <1>2

\* Quotient and remainder of any integer.
LEMMA DivMod ==
    ASSUME NEW n \in Nat \ {0}, NEW x \in Int
    PROVE  /\ x = ((x \div n) * n) + (x % n)
           /\ x \div n \in Int
           /\ x % n \in 0 .. n - 1
OBVIOUS

\* What is left of a number after a multiple of n, when it is below n, is its remainder.
LEMMA Reduced ==
    ASSUME NEW n \in Nat \ {0}, NEW x \in Int, NEW k \in Int, NEW r \in 0 .. n - 1, x = k * n + r
    PROVE  x % n = r /\ x \div n = k
<1>1. PICK q \in Int, s \in 0 .. n - 1 : x = q * n + s /\ q = x \div n /\ s = x % n
  BY DivMod
<1>2. (k - q) * n = s - r
  BY <1>1
<1>3. k - q = 0
  BY <1>2, SmallMultiple
<1>4. QED
  BY <1>1, <1>3

\* Numbers that differ by a multiple of n have the same remainder.
LEMMA Congruent ==
    ASSUME NEW n \in Nat \ {0}, NEW x \in Int, NEW y \in Int, NEW k \in Int, x = y + k * n
    PROVE  x % n = y % n
<1>1. PICK q \in Int, s \in 0 .. n - 1 : y = q * n + s /\ s = y % n
  BY DivMod, Zenon
<1>2. x = (q + k) * n + s /\ q + k \in Int
  BY <1>1
<1>3. x % n = s
  BY <1>2, Reduced, Zenon
<1>4. QED
  BY <1>1, <1>3

\* The remainder of a number that n has to be taken from, or added to, at most once.
LEMMA WrapsOnce ==
    ASSUME NEW n \in Nat \ {0}, NEW x \in Int
    PROVE  /\ 0 <= x /\ x < n => x % n = x
           /\ n <= x /\ x < n + n => x % n = x - n
           /\ -n <= x /\ x < 0 => x % n = x + n
<1>1. ASSUME 0 <= x, x < n PROVE x % n = x
  <2>1. x = 0 * n + x /\ x \in 0 .. n - 1
    BY <1>1
  <2>2. QED
    BY <2>1, Reduced
<1>2. ASSUME n <= x, x < n + n PROVE x % n = x - n
  <2>1. x = 1 * n + (x - n) /\ x - n \in 0 .. n - 1
    BY <1>2
  <2>2. QED
    BY <2>1, Reduced
<1>3. ASSUME -n <= x, x < 0 PROVE x % n = x + n
  <2>1. x = (-1) * n + (x + n) /\ x + n \in 0 .. n - 1 /\ -1 \in Int
    BY <1>3
  <2>2. QED
    BY <2>1, Reduced
<1>4. QED
  BY <1>1, <1>2, <1>3

(* Lemmas about words. *)

\* The constants of the representation, for any base of at least two.
LEMMA Sizes ==
    ASSUME B \in Nat, B > 1
    PROVE  /\ W \in Nat \ {0} /\ W = B * B /\ B < W
           /\ Q \in Nat \ {0} /\ Q = W * W
<1>1. W \in Nat /\ W = B * B
  BY DEF W
<1>2. (B - 1) * B > 0
  OBVIOUS
<1>3. B < W
  BY <1>1, <1>2
<1>4. Q \in Nat /\ Q = W * W
  BY <1>1 DEF Q
<1>5. W * W > 0
  BY <1>1, <1>3
<1>6. QED
  BY <1>1, <1>3, <1>4, <1>5

\* Two words are the digits of a number below Q.
LEMMA QuadRange ==
    ASSUME NEW w \in Nat \ {0}, NEW h \in 0 .. w - 1, NEW l \in 0 .. w - 1
    PROVE  h * w + l \in 0 .. w * w - 1
<1>1. (w - 1 - h) * w >= 0
  OBVIOUS
<1>2. h * w >= 0
  OBVIOUS
<1>3. QED
  BY <1>1, <1>2

\* A long long is the number of its words.
LEMMA QuadValue ==
    ASSUME B \in Nat, B > 1, NEW x \in Quads
    PROVE  /\ x.h \in Words /\ x.l \in Words /\ x.h \in 0 .. W - 1 /\ x.l \in 0 .. W - 1
           /\ Unsigned(x) = x.h * W + x.l /\ Unsigned(x) \in 0 .. Q - 1
<1>1. x.h \in 0 .. W - 1 /\ x.l \in 0 .. W - 1
  BY DEF Quads, Words
<1>2. x.h * W + x.l \in 0 .. W * W - 1
  BY <1>1, QuadRange, Sizes
<1>3. QED
  BY <1>1, <1>2, Sizes DEF Unsigned, Words

\* The high word may be wrapped: it changes the number by a multiple of Q only.
LEMMA HighWord ==
    ASSUME B \in Nat, B > 1, NEW t \in Int, NEW low \in Words, NEW x, x = [h |-> UI(t), l |-> low],
           NEW n \in Int, n = t * W + low
    PROVE  x \in Quads /\ Unsigned(x) = n % Q
<1> USE Sizes
<1>1. PICK e \in Int, h \in 0 .. W - 1 : t = e * W + h /\ h = t % W
  BY DivMod, Zenon
<1>2. x.h = h /\ x.l = low /\ x \in Quads
  BY <1>1 DEF UI, Quads, Words
<1>3. n = e * Q + (h * W + low)
  <2>1. t * W = (e * W + h) * W
    BY <1>1
  <2>2. (e * W + h) * W = e * (W * W) + h * W
    OBVIOUS
  <2>3. QED
    BY <2>1, <2>2 DEF Words
<1>4. h * W + low \in 0 .. Q - 1
  BY <1>1, QuadRange, Zenon DEF Words
<1>5. n % Q = h * W + low
  <2>1. PICK r \in 0 .. Q - 1 : r = h * W + low
    BY <1>4, Zenon
  <2>2. n = e * Q + r
    BY <1>3, <2>1, Zenon
  <2>3. n % Q = r
    BY <2>2, Reduced, Zenon
  <2>4. QED
    BY <2>1, <2>3, Zenon
<1>6. QED
  BY <1>2, <1>5 DEF Unsigned

\* A sum of words wraps at most once, and then it is below each of them.
LEMMA LowSum ==
    ASSUME B \in Nat, B > 1, NEW p \in Words, NEW q \in Words, NEW low, low = UI(p + q)
    PROVE  /\ low \in Words
           /\ p + q = Carry(low < q) * W + low /\ p + q = Carry(low < p) * W + low
<1> USE Sizes DEF Words
<1>1. CASE p + q < W
  <2>1. low = p + q
    BY <1>1, WrapsOnce DEF UI
  <2>2. QED
    BY <1>1, <2>1 DEF Carry
<1>2. CASE p + q >= W
  <2>1. p + q \in Int /\ W <= p + q /\ p + q < W + W /\ W \in Nat \ {0}
    BY <1>2
  <2>2. PICK z \in Int : z = p + q
    BY <2>1
  <2>3. z % W = z - W
    BY <2>1, <2>2, WrapsOnce, Zenon
  <2>4. low = p + q - W
    BY <2>2, <2>3 DEF UI
  <2>5. QED
    BY <1>2, <2>4 DEF Carry
<1>3. QED
  BY <1>1, <1>2

\* A difference of words wraps at most once, and then it is above the first of them.
LEMMA LowDifference ==
    ASSUME B \in Nat, B > 1, NEW p \in Words, NEW q \in Words, NEW low, low = UI(p - q)
    PROVE  low \in Words /\ p - q = low - Carry(low > p) * W
<1> USE Sizes DEF Words
<1>1. CASE p >= q
  <2>1. low = p - q
    BY <1>1, WrapsOnce DEF UI
  <2>2. QED
    BY <1>1, <2>1 DEF Carry
<1>2. CASE p < q
  <2>1. p - q \in Int /\ -W <= p - q /\ p - q < 0 /\ W \in Nat \ {0}
    BY <1>2
  <2>2. (p - q) % W = p - q + W
    BY <2>1, WrapsOnce, Zenon
  <2>3. low = p - q + W
    BY <2>2 DEF UI
  <2>4. QED
    BY <1>2, <2>3 DEF Carry
<1>3. QED
  BY <1>1, <1>2
-----------------------------------------------------------------------------
\* __adddi3 adds modulo the width of a long long, whatever the width.
THEOREM SumRight ==
    ASSUME B \in Nat, B > 1, NEW x \in Quads, NEW y \in Quads
    PROVE  adddi3(x, y) \in Quads /\ Unsigned(adddi3(x, y)) = (Unsigned(x) + Unsigned(y)) % Q
<1> DEFINE low == UI(x.l + y.l)
           c == Carry(low < y.l)
           t == x.h + y.h + c
<1>1. low \in Words /\ x.l + y.l = c * W + low
  BY LowSum, QuadValue
<1>2. c \in 0 .. 1
  BY DEF Carry
<1>3. t \in Int /\ Unsigned(x) + Unsigned(y) \in Int
  BY <1>2, QuadValue, Sizes
<1>4. Unsigned(x) + Unsigned(y) = t * W + low
  <2>1. Unsigned(x) + Unsigned(y) = x.h * W + y.h * W + (x.l + y.l)
    BY QuadValue, Sizes
  <2>2. t * W = x.h * W + y.h * W + c * W
    BY <1>2, QuadValue, Sizes
  <2>3. x.h * W \in Int /\ y.h * W \in Int /\ c * W \in Int /\ low \in Int /\ t * W \in Int
    BY <1>1, <1>2, <1>3, QuadValue, Sizes DEF Words
  <2> HIDE DEF c, low, t
  <2>4. QED
    BY <2>1, <2>2, <2>3, <1>1
<1>5. adddi3(x, y) = [h |-> UI(t), l |-> low]
  BY DEF adddi3
<1> HIDE DEF t, low, c
<1>6. QED
  BY <1>1, <1>3, <1>4, <1>5, HighWord

\* __subdi3 subtracts modulo the width.
THEOREM DifferenceRight ==
    ASSUME B \in Nat, B > 1, NEW x \in Quads, NEW y \in Quads
    PROVE  subdi3(x, y) \in Quads /\ Unsigned(subdi3(x, y)) = (Unsigned(x) - Unsigned(y)) % Q
<1> DEFINE low == UI(x.l - y.l)
           c == Carry(low > x.l)
           t == x.h - y.h - c
<1>1. low \in Words /\ x.l - y.l = low - c * W
  BY LowDifference, QuadValue
<1>2. c \in 0 .. 1
  BY DEF Carry
<1>3. t \in Int /\ Unsigned(x) - Unsigned(y) \in Int
  BY <1>2, QuadValue, Sizes
<1>4. Unsigned(x) - Unsigned(y) = t * W + low
  <2>1. Unsigned(x) - Unsigned(y) = x.h * W - y.h * W + (x.l - y.l)
    BY QuadValue, Sizes
  <2>2. t * W = x.h * W - y.h * W - c * W
    BY <1>2, QuadValue, Sizes
  <2> HIDE DEF c, low, t
  <2>3. QED
    BY <2>1, <2>2, <1>1, <1>2, <1>3, QuadValue, Sizes DEF Words
<1>5. subdi3(x, y) = [h |-> UI(t), l |-> low]
  BY DEF subdi3
<1> HIDE DEF t, low, c
<1>6. QED
  BY <1>1, <1>3, <1>4, <1>5, HighWord

\* __negdi2 negates modulo the width.
THEOREM NegationRight ==
    ASSUME B \in Nat, B > 1, NEW x \in Quads
    PROVE  negdi2(x) \in Quads /\ Unsigned(negdi2(x)) = (-Unsigned(x)) % Q
<1> DEFINE low == UI(-x.l)
           c == Carry(low > 0)
           t == -x.h - c
<1>1. low \in Words /\ -x.l = low - c * W
  <2>1. 0 \in Words /\ x.l \in Words /\ 0 - x.l = -x.l
    BY Sizes, QuadValue DEF Words
  <2>2. low = UI(0 - x.l)
    BY <2>1
  <2> HIDE DEF low
  <2>3. QED
    BY <2>1, <2>2, LowDifference
<1>2. c \in 0 .. 1
  BY DEF Carry
<1>3. t \in Int /\ -Unsigned(x) \in Int
  BY <1>2, QuadValue, Sizes
<1>4. -Unsigned(x) = t * W + low
  <2>1. t * W = -(x.h * W) - c * W
    BY <1>2, QuadValue, Sizes
  <2> HIDE DEF c, low, t
  <2>2. QED
    BY <2>1, <1>1, <1>2, <1>3, QuadValue, Sizes DEF Words
<1>5. negdi2(x) = [h |-> UI(t), l |-> low]
  BY DEF negdi2
<1> HIDE DEF t, low, c
<1>6. QED
  BY <1>1, <1>3, <1>4, <1>5, HighWord

\* The first word decides, unless it is the same.
LEMMA FirstWordDecides ==
    ASSUME NEW w \in Nat \ {0}, NEW h1 \in Int, NEW h2 \in Int, NEW l1 \in 0 .. w - 1,
           NEW l2 \in 0 .. w - 1, h1 < h2
    PROVE  h1 * w + l1 < h2 * w + l2
<1>1. (h2 - h1 - 1) * w >= 0
  OBVIOUS
<1>2. QED
  BY <1>1

\* __cmpdi2 and __ucmpdi2 order the operands as numbers, with a sign and without.
THEOREM ComparisonRight ==
    ASSUME B \in Nat, B > 1, NEW x \in Quads, NEW y \in Quads
    PROVE  /\ cmpdi2(x, y) = IF Signed(x) < Signed(y) THEN 0 ELSE IF Signed(x) > Signed(y) THEN 2 ELSE 1
           /\ ucmpdi2(x, y) =
                  IF Unsigned(x) < Unsigned(y) THEN 0 ELSE IF Unsigned(x) > Unsigned(y) THEN 2 ELSE 1
<1> DEFINE Order(p, q) == IF p < q THEN 0 ELSE IF p > q THEN 2 ELSE 1
           Lex(h1, h2, l1, l2) == IF h1 < h2 THEN 0 ELSE IF h1 > h2 THEN 2
                                  ELSE IF l1 < l2 THEN 0 ELSE IF l1 > l2 THEN 2 ELSE 1
<1>1. ASSUME NEW h1 \in Int, NEW h2 \in Int, NEW l1 \in 0 .. W - 1, NEW l2 \in 0 .. W - 1
      PROVE  Lex(h1, h2, l1, l2) = Order(h1 * W + l1, h2 * W + l2)
  <2>1. W \in Nat \ {0} /\ h1 * W \in Int /\ h2 * W \in Int
    BY Sizes
  <2>2. CASE h1 < h2
    BY <2>1, <2>2, FirstWordDecides
  <2>3. CASE h2 < h1
    BY <2>1, <2>3, FirstWordDecides
  <2>4. CASE h1 = h2
    BY <2>1, <2>4
  <2>5. QED
    BY <2>2, <2>3, <2>4
<1>2. x.h \in 0 .. W - 1 /\ x.l \in 0 .. W - 1 /\ y.h \in 0 .. W - 1 /\ y.l \in 0 .. W - 1
  BY QuadValue
<1>3. Int32(x.h) \in Int /\ Int32(y.h) \in Int
  BY <1>2, Sizes DEF Int32
<1>4. cmpdi2(x, y) = Lex(Int32(x.h), Int32(y.h), x.l, y.l) /\ ucmpdi2(x, y) = Lex(x.h, y.h, x.l, y.l)
  BY DEF cmpdi2, ucmpdi2
<1> HIDE DEF Lex, Order
<1>5. Lex(Int32(x.h), Int32(y.h), x.l, y.l) = Order(Signed(x), Signed(y))
  BY <1>1, <1>2, <1>3 DEF Signed
<1>6. Lex(x.h, y.h, x.l, y.l) = Order(Unsigned(x), Unsigned(y))
  BY <1>1, <1>2 DEF Unsigned
<1>7. QED
  BY <1>4, <1>5, <1>6 DEF Order
-----------------------------------------------------------------------------
(* Products. *)

\* A word shifted up by half a word is a long long of its upper half and the word LHUP.
LEMMA ShiftedUp ==
    ASSUME B \in Nat, B > 1, NEW w \in Words
    PROVE  /\ HHALF(w) \in Digits /\ LHALF(w) \in Digits /\ w = HHALF(w) * B + LHALF(w)
           /\ LHUP(w) \in Words /\ w * B = HHALF(w) * W + LHUP(w)
<1>1. W \in Nat \ {0} /\ W = B * B /\ B \in Nat \ {0}
  BY Sizes
<1>2. PICK k \in Int, r \in 0 .. B - 1 : w = k * B + r /\ k = w \div B /\ r = w % B
  BY <1>1, DivMod DEF Words
<1>3. k \in 0 .. B - 1
  <2>1. k * B < B * B
    BY <1>1, <1>2 DEF Words
  <2>2. ~ (k >= B)
    <3>1. SUFFICES ASSUME k >= B PROVE FALSE
      OBVIOUS
    <3>2. (k - B) * B >= 0
      BY <3>1, <1>1
    <3>3. QED
      BY <3>2, <2>1, <1>1
  <2>3. ~ (k <= -1)
    <3>1. SUFFICES ASSUME k <= -1 PROVE FALSE
      OBVIOUS
    <3>2. (-1 - k) * B >= 0
      BY <3>1, <1>1
    <3>3. QED
      BY <3>2, <1>1, <1>2 DEF Words
  <2>4. QED
    BY <2>2, <2>3
<1>4. r * B \in 0 .. W - 1
  <2>1. (B - 1 - r) * B >= 0 /\ r * B >= 0
    BY <1>1
  <2>2. QED
    BY <2>1, <1>1
<1>5. w * B = k * W + r * B
  <2>1. w * B = (k * B + r) * B
    BY <1>2
  <2>2. (k * B + r) * B = k * (B * B) + r * B
    BY <1>1
  <2>3. QED
    BY <2>1, <2>2, <1>1
<1>6. w * B \in Int
  BY <1>1 DEF Words
<1>7. (w * B) % W = r * B
  BY <1>1, <1>4, <1>5, <1>6, Reduced, Zenon
<1>8. QED
  BY <1>2, <1>3, <1>4, <1>5, <1>7 DEF HHALF, LHALF, LHUP, UI, Digits, Words

\* The product of two digits fits a word.
LEMMA DigitProduct ==
    ASSUME B \in Nat, B > 1, NEW p \in Digits, NEW q \in Digits
    PROVE  p * q \in Words /\ UI(p * q) = p * q
<1>1. p \in 0 .. B - 1 /\ q \in 0 .. B - 1 /\ W = B * B /\ W \in Nat \ {0}
  BY Sizes DEF Digits
<1>2. p * q >= 0
  BY <1>1
<1>3. (B - p) * q >= 0 /\ (B - q) * B > 0
  BY <1>1
<1>4. p * q < W
  BY <1>1, <1>3
<1>5. PICK z \in Int : z = p * q
  BY <1>1
<1>6. z % W = z
  BY <1>1, <1>2, <1>4, <1>5, WrapsOnce, Zenon
<1>7. QED
  BY <1>1, <1>2, <1>4, <1>5, <1>6 DEF UI, Words

\* Adding p words and q to a long long of words h and l, with a carry when the low word wraps.
LEMMA AddStep ==
    ASSUME B \in Nat, B > 1, NEW h \in Words, NEW l \in Words, NEW p \in Int, NEW q \in Words,
           NEW low, low = UI(l + q), NEW high, high = UI(h + p + Carry(low < l))
    PROVE  /\ low \in Words /\ high \in Words
           /\ \E k \in Int : high * W + low = h * W + l + p * W + q + k * Q
<1> DEFINE c == Carry(low < l)
<1>1. low \in Words /\ l + q = c * W + low
  BY LowSum
<1>2. c \in 0 .. 1
  BY DEF Carry
<1> HIDE DEF c
<1>3. PICK t \in Int : t = h + p + c
  BY <1>2 DEF Words
<1>4. high = UI(t)
  BY <1>3 DEF c
<1>5. PICK e \in Int, r \in 0 .. W - 1 : t = e * W + r /\ r = t % W
  BY DivMod, Sizes, Zenon
<1>6. high = r
  BY <1>4, <1>5 DEF UI
<1>7. W \in Int /\ Q = W * W /\ h \in Int /\ l \in Int /\ low \in Int /\ c \in Int /\ q \in Int
  BY <1>1, <1>2, Sizes DEF Words
<1>8. r * W = h * W + p * W + c * W + (-e) * (W * W)
  <2>0. t = e * W + r /\ e * W \in Int /\ r \in Int
    BY <1>5, <1>7
  <2>1. r = h + p + c - e * W
    BY <1>3, <1>7, <2>0
  <2>2. r * W = (h + p + c - e * W) * W
    BY <2>1
  <2>3. (h + p + c - e * W) * W = h * W + p * W + c * W + (-e) * (W * W)
    BY <1>7
  <2>4. QED
    BY <2>2, <2>3
<1>9. high * W + low = h * W + l + p * W + q + (-e) * Q
  <2>1. h * W \in Int /\ p * W \in Int /\ c * W \in Int /\ (-e) * Q \in Int
    BY <1>7
  <2>2. r * W = h * W + p * W + c * W + (-e) * Q
    BY <1>7, <1>8
  <2>3. QED
    BY <1>1, <1>6, <1>7, <2>1, <2>2, SMTT(30)
<1>10. QED
  BY <1>1, <1>5, <1>6, <1>9 DEF Words

\* Subtracting p words and q, with a borrow when the low word wraps.
LEMMA SubtractStep ==
    ASSUME B \in Nat, B > 1, NEW h \in Words, NEW l \in Words, NEW p \in Int, NEW q \in Words,
           NEW low, low = UI(l - q), NEW high, high = UI(h - (p + Carry(low > l)))
    PROVE  /\ low \in Words /\ high \in Words
           /\ \E k \in Int : high * W + low = h * W + l - p * W - q + k * Q
<1> DEFINE c == Carry(low > l)
<1>1. low \in Words /\ l - q = low - c * W
  BY LowDifference
<1>2. c \in 0 .. 1
  BY DEF Carry
<1> HIDE DEF c
<1>3. PICK t \in Int : t = h - (p + c)
  BY <1>2 DEF Words
<1>4. high = UI(t)
  BY <1>3 DEF c
<1>5. PICK e \in Int, r \in 0 .. W - 1 : t = e * W + r /\ r = t % W
  BY DivMod, Sizes, Zenon
<1>6. high = r
  BY <1>4, <1>5 DEF UI
<1>7. W \in Int /\ Q = W * W /\ h \in Int /\ l \in Int /\ low \in Int /\ c \in Int /\ q \in Int
  BY <1>1, <1>2, Sizes DEF Words
<1>8. r * W = h * W - p * W - c * W + (-e) * (W * W)
  <2>0. t = e * W + r /\ e * W \in Int /\ r \in Int
    BY <1>5, <1>7
  <2>1. r = h - p - c - e * W
    BY <1>3, <1>7, <2>0
  <2>2. r * W = (h - p - c - e * W) * W
    BY <2>1
  <2>3. (h - p - c - e * W) * W = h * W - p * W - c * W + (-e) * (W * W)
    BY <1>7
  <2>4. QED
    BY <2>2, <2>3
<1>9. high * W + low = h * W + l - p * W - q + (-e) * Q
  <2>1. h * W \in Int /\ p * W \in Int /\ c * W \in Int /\ (-e) * Q \in Int
    BY <1>7
  <2>2. r * W = h * W - p * W - c * W + (-e) * Q
    BY <1>7, <1>8
  <2>3. low = l - q + c * W
    BY <1>1, <1>7, <2>1
  <2>4. high * W = r * W
    BY <1>6
  <2>5. PICK hw, pw, cw, eq \in Int : hw = h * W /\ pw = p * W /\ cw = c * W /\ eq = (-e) * Q
    BY <2>1
  <2>6. high * W = hw - pw - cw + eq /\ low = l - q + cw
    BY <2>2, <2>3, <2>4, <2>5
  <2>7. high * W + low = hw + l - pw - q + eq
    BY <1>7, <2>5, <2>6
  <2>8. QED
    BY <2>5, <2>7
<1>10. QED
  BY <1>1, <1>5, <1>6, <1>9 DEF Words

\* The last addition, of a word to the low word.
LEMMA LastStep ==
    ASSUME B \in Nat, B > 1, NEW h \in Words, NEW l \in Words, NEW q \in Words,
           NEW low, low = UI(l + q), NEW high, high = IF low < q THEN UI(h + 1) ELSE h
    PROVE  /\ low \in Words /\ high \in Words
           /\ \E k \in Int : high * W + low = h * W + l + q + k * Q
<1>1. W \in Nat \ {0} /\ Q = W * W /\ h \in 0 .. W - 1 /\ l \in Int /\ q \in Int
  BY Sizes DEF Words
<1>2. low \in Words /\ l + q = Carry(low < q) * W + low
  BY LowSum
<1>3. CASE low < q
  <2>1. l + q = W + low /\ low \in Int
    BY <1>1, <1>2, <1>3 DEF Carry, Words
  <2>2. PICK t \in Int : t = h + 1
    BY <1>1
  <2>3. PICK e \in Int, r \in 0 .. W - 1 : t = e * W + r /\ r = t % W
    BY <1>1, DivMod, Zenon
  <2>4. high = r
    BY <1>3, <2>2, <2>3, Zenon DEF UI
  <2>5. r = h + 1 - e * W
    <3>1. t = e * W + r /\ e * W \in Int
      BY <1>1, <2>3
    <3>2. QED
      BY <1>1, <2>2, <3>1
  <2>6. r * W = h * W + W + (-e) * (W * W)
    <3>1. r * W = (h + 1 - e * W) * W
      BY <2>5
    <3>2. (h + 1 - e * W) * W = h * W + W + (-e) * (W * W)
      BY <1>1
    <3>3. QED
      BY <3>1, <3>2
  <2>7. PICK hw, eq \in Int : hw = h * W /\ eq = (-e) * Q
    BY <1>1
  <2>8. high * W = hw + W + eq
    BY <1>1, <2>4, <2>6, <2>7
  <2>9. high * W + low = hw + l + q + eq
    BY <1>1, <2>1, <2>7, <2>8
  <2>10. high * W + low = h * W + l + q + (-e) * Q /\ -e \in Int
    BY <2>7, <2>9
  <2>11. QED
    BY <1>2, <2>4, <2>10 DEF Words
<1>4. CASE ~(low < q)
  <2>1. l + q = low
    BY <1>1, <1>2, <1>4 DEF Carry, Words
  <2>2. h * W \in Int /\ 0 * Q = 0
    BY <1>1
  <2>3. high = h /\ high * W + low = h * W + l + q + 0 * Q
    BY <1>1, <1>4, <2>1, <2>2
  <2>4. QED
    BY <1>2, <2>3
<1>5. QED
  BY <1>3, <1>4

\* LongProduct is the sum of its parts, if that fits a long long.
LEMMA PartsAddUp ==
    ASSUME B \in Nat, B > 1, NEW high \in Words, NEW mid \in Words, NEW low \in Words,
           NEW neg \in BOOLEAN, NEW n \in 0 .. Q - 1,
           n = high * W + high * B + (IF neg THEN -(mid * B) ELSE mid * B) + low * B + low
    PROVE  LongProduct(high, mid, low, neg) \in Quads /\ Unsigned(LongProduct(high, mid, low, neg)) = n
<1> DEFINE l1 == LHUP(high)
           h1 == UI(high + HHALF(high))
           l2 == IF neg THEN UI(l1 - LHUP(mid)) ELSE UI(l1 + LHUP(mid))
           h2 == IF neg THEN UI(h1 - (HHALF(mid) + Carry(l2 > l1)))
                 ELSE UI(h1 + HHALF(mid) + Carry(l2 < l1))
           l3 == UI(l2 + LHUP(low))
           h3 == UI(h2 + HHALF(low) + Carry(l3 < l2))
           l4 == UI(l3 + low)
           h4 == IF l4 < low THEN UI(h3 + 1) ELSE h3
<1>0. W \in Nat \ {0} /\ Q \in Nat \ {0} /\ Q = W * W /\ high \in Int /\ mid \in Int /\ low \in Int
  BY Sizes DEF Words
<1>1. /\ l1 \in Words /\ high * B = HHALF(high) * W + l1 /\ HHALF(high) \in Int
      /\ LHUP(mid) \in Words /\ mid * B = HHALF(mid) * W + LHUP(mid) /\ HHALF(mid) \in Int
      /\ LHUP(low) \in Words /\ low * B = HHALF(low) * W + LHUP(low) /\ HHALF(low) \in Int
  BY ShiftedUp DEF Digits
<1>2. h1 \in Words /\ \E k \in Int : h1 * W + l1 = high * W + high * B + k * Q
  <2>1. PICK t \in Int : t = high + HHALF(high)
    BY <1>0, <1>1
  <2>2. PICK e \in Int, r \in 0 .. W - 1 : t = e * W + r /\ r = t % W
    BY <1>0, DivMod, Zenon
  <2>3. h1 = r
    BY <2>1, <2>2, Zenon DEF UI
  <2>4. r = high + HHALF(high) - e * W
    <3>1. PICK ew \in Int : ew = e * W
      BY <1>0
    <3>2. t = ew + r /\ r \in Int
      BY <1>0, <2>2, <3>1
    <3>3. high \in Int /\ HHALF(high) \in Int
      BY <1>0, <1>1
    <3>4. r = high + HHALF(high) - ew
      BY <2>1, <3>2, <3>3
    <3>5. QED
      BY <3>1, <3>4
  <2>5. r * W = high * W + HHALF(high) * W + (-e) * (W * W)
    <3>1. r * W = (high + HHALF(high) - e * W) * W
      BY <2>4
    <3>2. (high + HHALF(high) - e * W) * W = high * W + HHALF(high) * W + (-e) * (W * W)
      BY <1>0, <1>1
    <3>3. QED
      BY <3>1, <3>2
  <2>6. PICK hw, hh, eq \in Int : hw = high * W /\ hh = HHALF(high) * W /\ eq = (-e) * Q
    BY <1>0, <1>1
  <2> HIDE DEF l1, h1
  <2>7. h1 * W = hw + hh + eq /\ high * B = hh + l1 /\ l1 \in Int
    BY <1>0, <1>1, <2>3, <2>5, <2>6 DEF Words
  <2>8. h1 * W + l1 = high * W + high * B + (-e) * Q
    BY <2>6, <2>7
  <2>9. -e \in Int /\ h1 \in Words
    BY <2>3, SMTT(30) DEF Words
  <2>10. QED
    BY <2>8, <2>9
<1> HIDE DEF l1, h1
<1>3. /\ l2 \in Words /\ h2 \in Words
      /\ \E k \in Int : h2 * W + l2 = h1 * W + l1 + (IF neg THEN -(mid * B) ELSE mid * B) + k * Q
  <2>1. h1 * W \in Int /\ l1 \in Int /\ HHALF(mid) * W \in Int /\ LHUP(mid) \in Int /\ mid * B \in Int
    BY <1>0, <1>1, <1>2 DEF Words
  <2>2. CASE neg
    <3>1. l2 = UI(l1 - LHUP(mid)) /\ h2 = UI(h1 - (HHALF(mid) + Carry(l2 > l1)))
      BY <2>2
    <3> HIDE DEF l2, h2
    <3>2. /\ l2 \in Words /\ h2 \in Words
          /\ \E k \in Int : h2 * W + l2 = h1 * W + l1 - HHALF(mid) * W - LHUP(mid) + k * Q
      BY <1>1, <1>2, <3>1, SubtractStep
    <3>3. PICK k \in Int : h2 * W + l2 = h1 * W + l1 - HHALF(mid) * W - LHUP(mid) + k * Q
      BY <3>2
    <3>4. k * Q \in Int
      BY <1>0
    <3>5. h2 * W + l2 = h1 * W + l1 + -(mid * B) + k * Q
      BY <1>1, <2>1, <3>3, <3>4
    <3>6. QED
      BY <2>2, <3>2, <3>5
  <2>3. CASE ~neg
    <3>1. l2 = UI(l1 + LHUP(mid)) /\ h2 = UI(h1 + HHALF(mid) + Carry(l2 < l1))
      BY <2>3
    <3> HIDE DEF l2, h2
    <3>2. /\ l2 \in Words /\ h2 \in Words
          /\ \E k \in Int : h2 * W + l2 = h1 * W + l1 + HHALF(mid) * W + LHUP(mid) + k * Q
      BY <1>1, <1>2, <3>1, AddStep
    <3>3. PICK k \in Int : h2 * W + l2 = h1 * W + l1 + HHALF(mid) * W + LHUP(mid) + k * Q
      BY <3>2
    <3>4. k * Q \in Int
      BY <1>0
    <3>5. h2 * W + l2 = h1 * W + l1 + mid * B + k * Q
      BY <1>1, <2>1, <3>3, <3>4
    <3>6. QED
      BY <2>3, <3>2, <3>5
  <2>4. QED
    BY <2>2, <2>3
<1> HIDE DEF l2, h2
<1>4. /\ l3 \in Words /\ h3 \in Words
      /\ \E k \in Int : h3 * W + l3 = h2 * W + l2 + HHALF(low) * W + LHUP(low) + k * Q
  BY <1>1, <1>3, AddStep
<1> HIDE DEF l3, h3
<1>5. /\ l4 \in Words /\ h4 \in Words
      /\ \E k \in Int : h4 * W + l4 = h3 * W + l3 + low + k * Q
  BY <1>4, LastStep
<1> HIDE DEF l4, h4
<1>6. PICK k1, k2, k3, k4 \in Int :
        /\ h1 * W + l1 = high * W + high * B + k1 * Q
        /\ h2 * W + l2 = h1 * W + l1 + (IF neg THEN -(mid * B) ELSE mid * B) + k2 * Q
        /\ h3 * W + l3 = h2 * W + l2 + HHALF(low) * W + LHUP(low) + k3 * Q
        /\ h4 * W + l4 = h3 * W + l3 + low + k4 * Q
  BY <1>2, <1>3, <1>4, <1>5
<1>7. PICK e1, e2, e3, e4 \in Int : e1 = k1 * Q /\ e2 = k2 * Q /\ e3 = k3 * Q /\ e4 = k4 * Q
  BY <1>0
<1>8. PICK m \in Int : m = IF neg THEN -(mid * B) ELSE mid * B
  BY <1>0
<1>9. PICK x1, x2, x3, x4, y1, y2, y3 \in Int :
        /\ x1 = h1 * W + l1 /\ x2 = h2 * W + l2 /\ x3 = h3 * W + l3 /\ x4 = h4 * W + l4
        /\ y1 = high * W /\ y2 = high * B /\ y3 = low * B
  BY <1>0, <1>1, <1>2, <1>3, <1>4, <1>5, SMTT(30) DEF Words
<1>10. y3 = HHALF(low) * W + LHUP(low) /\ HHALF(low) * W \in Int /\ LHUP(low) \in Int
  BY <1>0, <1>1, <1>9 DEF Words
<1>11. x1 = y1 + y2 + e1 /\ x2 = x1 + m + e2 /\ x4 = x3 + low + e4
  BY <1>6, <1>7, <1>8, <1>9
<1>12. x3 = x2 + y3 + e3
  <2>1. x3 = h2 * W + l2 + HHALF(low) * W + LHUP(low) + e3
    BY <1>6, <1>7, <1>9
  <2>2. h2 * W \in Int /\ l2 \in Int
    BY <1>0, <1>3 DEF Words
  <2>3. QED
    BY <1>9, <1>10, <2>1, <2>2
<1>13. n = y1 + y2 + m + y3 + low
  BY <1>8, <1>9
<1>14. x4 - n = e1 + e2 + e3 + e4
  BY <1>0, <1>11, <1>12, <1>13
<1>15. (k1 + k2 + k3 + k4) * Q = x4 - n
  <2>1. (k1 + k2 + k3 + k4) * Q = k1 * Q + k2 * Q + k3 * Q + k4 * Q
    BY <1>0
  <2>2. QED
    BY <1>7, <1>14, <2>1
<1>16. x4 \in 0 .. Q - 1
  BY <1>0, <1>5, <1>9, QuadRange DEF Words
<1>17. k1 + k2 + k3 + k4 = 0
  <2>1. PICK k \in Int : k = k1 + k2 + k3 + k4
    OBVIOUS
  <2>2. k * Q = x4 - n /\ x4 - n \in Int /\ -Q < x4 - n /\ x4 - n < Q
    BY <1>0, <1>15, <1>16, <2>1
  <2>3. QED
    BY <1>0, <2>1, <2>2, SmallMultiple
<1>18. x4 = n
  BY <1>0, <1>15, <1>16, <1>17, SMTT(30)
<1>19. LongProduct(high, mid, low, neg) = [h |-> h4, l |-> l4]
  BY DEF LongProduct, h4, l4, h3, l3, h2, l2, h1, l1
<1>20. QED
  BY <1>5, <1>9, <1>18, <1>19 DEF Quads, Unsigned

\* The distances and the sign that the code keeps apart make the product of the differences.
LEMMA SignOfProduct ==
    ASSUME NEW u1 \in Nat, NEW u0 \in Nat, NEW v1 \in Nat, NEW v0 \in Nat
    PROVE  /\ Subtracts(u1, u0, v1, v0) \in BOOLEAN
           /\ Middle(u1, u0, v1, v0)
                = IF Subtracts(u1, u0, v1, v0) THEN -((u1 - u0) * (v0 - v1)) ELSE (u1 - u0) * (v0 - v1)
<1>1. PICK x, y \in Int : x = u1 - u0 /\ y = v0 - v1
  OBVIOUS
<1>2. Distance(u1, u0) = IF u1 < u0 THEN -x ELSE x
  BY <1>1 DEF Distance
<1>3. Distance(v0, v1) = IF v0 < v1 THEN -y ELSE y
  BY <1>1 DEF Distance
<1>4. PICK z \in Int : /\ x * y = z /\ z = (u1 - u0) * (v0 - v1)
                       /\ (-x) * (-y) = z /\ (-x) * y = -z /\ x * (-y) = -z
  BY <1>1
<1>5. Middle(u1, u0, v1, v0) = IF (u1 < u0) # (v0 < v1) THEN -z ELSE z
  <2>1. CASE u1 < u0 /\ v0 < v1
    BY <1>2, <1>3, <1>4, <2>1 DEF Middle
  <2>2. CASE u1 < u0 /\ ~(v0 < v1)
    BY <1>2, <1>3, <1>4, <2>2 DEF Middle
  <2>3. CASE ~(u1 < u0) /\ v0 < v1
    BY <1>2, <1>3, <1>4, <2>3 DEF Middle
  <2>4. CASE ~(u1 < u0) /\ ~(v0 < v1)
    BY <1>2, <1>3, <1>4, <2>4 DEF Middle
  <2>5. QED
    BY <2>1, <2>2, <2>3, <2>4
<1>6. QED
  BY <1>4, <1>5 DEF Subtracts

\* The product of two words fits a long long.
LEMMA WordProduct ==
    ASSUME NEW w \in Nat \ {0}, NEW p \in 0 .. w - 1, NEW q \in 0 .. w - 1
    PROVE  p * q \in 0 .. w * w - 1
<1>1. p * q \in Int /\ p * q >= 0
  OBVIOUS
<1>2. (w - p) * q >= 0 /\ (w - q) * w > 0
  OBVIOUS
<1>3. (w - p) * q = w * q - p * q /\ (w - q) * w = w * w - w * q
  OBVIOUS
<1>4. PICK x, y, z \in Int : x = p * q /\ y = w * q /\ z = w * w
  OBVIOUS
<1>5. x >= 0 /\ y - x >= 0 /\ z - y > 0
  BY <1>1, <1>2, <1>3, <1>4
<1>6. x \in 0 .. z - 1
  BY <1>5
<1>7. QED
  BY <1>4, <1>6

\* __lmulq multiplies two unsigned ints of any width exactly: Knuth's three products of halves, put
\* together with the carries of three additions, give the product and not just its low word.
THEOREM WordProductRight ==
    ASSUME B \in Nat, B > 1, NEW u \in Words, NEW v \in Words
    PROVE  lmulq(u, v) \in Quads /\ Unsigned(lmulq(u, v)) = u * v
<1>1. W \in Nat \ {0} /\ W = B * B /\ Q = W * W /\ B \in Nat \ {0}
  BY Sizes
<1>2. PICK u1, u0, v1, v0 \in Digits :
        /\ u1 = HHALF(u) /\ u0 = LHALF(u) /\ v1 = HHALF(v) /\ v0 = LHALF(v)
        /\ u = u1 * B + u0 /\ v = v1 * B + v0
  BY ShiftedUp
<1>3. u1 \in Nat /\ u0 \in Nat /\ v1 \in Nat /\ v0 \in Nat
  BY <1>1 DEF Digits
<1>4. UI(u0 * v0) = u0 * v0 /\ u0 * v0 \in Words /\ UI(u1 * v1) = u1 * v1 /\ u1 * v1 \in Words
  BY DigitProduct
<1>5. CASE u1 = 0 /\ v1 = 0
  <2>1. u = u0 /\ v = v0
    BY <1>1, <1>2, <1>3, <1>5
  <2>2. lmulq(u, v) = [h |-> 0, l |-> u0 * v0]
    BY <1>2, <1>4, <1>5 DEF lmulq
  <2>3. 0 \in Words /\ 0 * W = 0 /\ u0 * v0 \in Int
    BY <1>1, <1>3 DEF Words
  <2>4. QED
    BY <1>4, <2>1, <2>2, <2>3 DEF Quads, Unsigned
<1>6. CASE ~(u1 = 0 /\ v1 = 0)
  <2>1. PICK neg \in BOOLEAN : neg = Subtracts(u1, u0, v1, v0)
    BY <1>3, SignOfProduct
  <2>2. Distance(u1, u0) \in Digits /\ Distance(v0, v1) \in Digits
    BY <1>1 DEF Distance, Digits
  <2>3. PICK mid \in Words : mid = Middle(u1, u0, v1, v0) /\ UI(Middle(u1, u0, v1, v0)) = mid
    BY <2>2, DigitProduct DEF Middle
  <2>4. mid = IF neg THEN -((u1 - u0) * (v0 - v1)) ELSE (u1 - u0) * (v0 - v1)
    BY <1>3, <2>1, <2>3, SignOfProduct
  <2>5. PICK m \in Int : m = (u1 - u0) * (v0 - v1)
    BY <1>3
  <2>6. (IF neg THEN -(mid * B) ELSE mid * B) = m * B
    <3>1. mid \in Int /\ m * B \in Int /\ (-m) * B = -(m * B) /\ -(-(m * B)) = m * B
      BY <1>1 DEF Words
    <3>2. mid = IF neg THEN -m ELSE m
      BY <2>4, <2>5
    <3>3. QED
      BY <3>1, <3>2
  <2>7. u * v = u1 * v1 * W + u1 * v1 * B + m * B + u0 * v0 * B + u0 * v0
    <3>1. u * v = (u1 * B + u0) * (v1 * B + v0)
      BY <1>2
    <3>2. (u1 * B + u0) * (v1 * B + v0)
            = u1 * v1 * (B * B) + (u1 * v0) * B + (u0 * v1) * B + u0 * v0
      BY <1>1, <1>3
    <3>3. m = u1 * v0 - u1 * v1 - u0 * v0 + u0 * v1
      BY <1>3, <2>5
    <3>4. PICK a1, a2, a3, a4 \in Int :
            a1 = u1 * v1 /\ a2 = u1 * v0 /\ a3 = u0 * v1 /\ a4 = u0 * v0
      BY <1>3
    <3>5. m = a2 - a1 - a4 + a3
      BY <3>3, <3>4
    <3>6. m * B = a2 * B - a1 * B - a4 * B + a3 * B
      BY <1>1, <3>5
    <3>7. u * v = a1 * W + a2 * B + a3 * B + a4
      BY <1>1, <3>1, <3>2, <3>4
    <3>8. PICK b1, b2, b3, b4, mb, aw \in Int :
            /\ b1 = a1 * B /\ b2 = a2 * B /\ b3 = a3 * B /\ b4 = a4 * B
            /\ mb = m * B /\ aw = a1 * W
      BY <1>1
    <3>9. mb = b2 - b1 - b4 + b3 /\ u * v = aw + b2 + b3 + a4
      BY <3>6, <3>7, <3>8
    <3>10. u * v = aw + b1 + mb + b4 + a4
      BY <3>9
    <3>11. QED
      BY <3>4, <3>8, <3>10
  <2>8. PICK n \in 0 .. Q - 1 : n = u * v
    BY <1>1, WordProduct DEF Words
  <2>9. PICK high, low \in Words : high = u1 * v1 /\ low = u0 * v0
    BY <1>4
  <2>10. n = high * W + high * B + (IF neg THEN -(mid * B) ELSE mid * B) + low * B + low
    BY <2>6, <2>7, <2>8, <2>9
  <2>11. LongProduct(high, mid, low, neg) \in Quads /\ Unsigned(LongProduct(high, mid, low, neg)) = n
    BY <2>10, PartsAddUp
  <2>12. lmulq(u, v) = LongProduct(high, mid, low, neg)
    <3>1. lmulq(u, v) = LongProduct(UI(u1 * v1), UI(Middle(u1, u0, v1, v0)), UI(u0 * v0),
                                    Subtracts(u1, u0, v1, v0))
      BY <1>2, <1>6, Zenon DEF lmulq
    <3>2. QED
      BY <1>4, <2>1, <2>3, <2>9, <3>1, Zenon
  <2>13. QED
    BY <2>8, <2>11, <2>12
<1>7. QED
  BY <1>5, <1>6

\* A remainder differs from the number by a multiple.
LEMMA RemainderIs ==
    ASSUME NEW n \in Nat \ {0}, NEW x \in Int
    PROVE  x % n \in 0 .. n - 1 /\ \E k \in Int : x % n = x + k * n
<1>1. PICK q \in Int, r \in 0 .. n - 1 : x = q * n + r /\ r = x % n
  BY DivMod, Zenon
<1>2. q * n \in Int /\ (-q) * n = -(q * n)
  OBVIOUS
<1>3. r = x + (-q) * n
  BY <1>1, <1>2
<1>4. -q \in Int
  OBVIOUS
<1>5. QED
  BY <1>1, <1>3, <1>4, Zenon

\* What an unsigned int keeps differs from the number by a multiple of its size.
LEMMA Kept ==
    ASSUME B \in Nat, B > 1, NEW x \in Int
    PROVE  UI(x) \in Int /\ \E k \in Int : UI(x) = x + k * W
<1>1. W \in Nat \ {0}
  BY Sizes
<1>2. x % W \in 0 .. W - 1 /\ \E k \in Int : x % W = x + k * W
  BY <1>1, RemainderIs, Zenon
<1>3. QED
  BY <1>1, <1>2 DEF UI

\* The product of two long longs without their signs, modulo what a long long holds.
LEMMA QuadProductRight ==
    ASSUME B \in Nat, B > 1, NEW u \in Quads, NEW v \in Quads
    PROVE  /\ QuadProduct(u, v) \in Quads
           /\ Unsigned(QuadProduct(u, v)) = (Unsigned(u) * Unsigned(v)) % Q
<1>1. W \in Nat \ {0} /\ Q \in Nat \ {0} /\ Q = W * W
  BY Sizes
<1>2. PICK uh, ul, vh, vl \in Words : uh = u.h /\ ul = u.l /\ vh = v.h /\ vl = v.l
  BY QuadValue
<1>3. uh \in Nat /\ ul \in Nat /\ vh \in Nat /\ vl \in Nat
  BY <1>1 DEF Words
<1>4. Unsigned(u) = uh * W + ul /\ Unsigned(v) = vh * W + vl
  BY <1>2 DEF Unsigned
<1>5. PICK low : low = lmulq(ul, vl) /\ low \in Quads /\ Unsigned(low) = ul * vl
  BY WordProductRight
<1>6. PICK lh, ll \in Words : lh = low.h /\ ll = low.l /\ lh * W + ll = ul * vl
  BY <1>5, QuadValue
<1>7. PICK n \in Int : n = Unsigned(u) * Unsigned(v)
  BY <1>1, <1>3, <1>4
<1>8. CASE uh = 0 /\ vh = 0
  <2>1. Unsigned(u) = ul /\ Unsigned(v) = vl
    BY <1>1, <1>3, <1>4, <1>8
  <2>2. QuadProduct(u, v) = low
    BY <1>2, <1>5, <1>8, Zenon DEF QuadProduct
  <2>3. n = Unsigned(low) /\ n \in 0 .. Q - 1
    BY <1>5, <1>7, <2>1, QuadValue
  <2>4. n % Q = n
    BY <1>1, <2>3, WrapsOnce
  <2>5. QED
    BY <1>5, <1>7, <2>2, <2>3, <2>4, Zenon
<1>9. CASE ~(uh = 0 /\ vh = 0)
  <2>1. PICK neg, mid : /\ neg \in BOOLEAN /\ neg = Subtracts(uh, ul, vh, vl)
                         /\ mid = UI(Middle(uh, ul, vh, vl))
    BY <1>3, SignOfProduct
  <2>2. PICK high, m : high = UI(uh * vh) /\ m = IF neg THEN UI(-mid) ELSE mid
    OBVIOUS
  <2>3. PICK p \in Int, d \in Int : p = uh * vh /\ d = (uh - ul) * (vl - vh)
    BY <1>3
  <2>4. high \in Int /\ \E e \in Int : high = p + e * W
    BY <2>2, <2>3, Kept
  <2>5. m \in Int /\ \E e \in Int : m = d + e * W
    <3>1. Middle(uh, ul, vh, vl) = IF neg THEN -d ELSE d
      BY <1>3, <2>1, <2>3, SignOfProduct
    <3>2. CASE ~neg
      <4>1. m = UI(d)
        BY <2>1, <2>2, <3>1, <3>2
      <4>2. QED
        BY <4>1, Kept
    <3>3. CASE neg
      <4>1. mid = (-d) % W /\ m = (-mid) % W
        BY <2>1, <2>2, <3>1, <3>3 DEF UI
      <4>2. PICK x \in Int : x = -d
        OBVIOUS
      <4>3. PICK e1 \in Int : mid = x + e1 * W
        BY <1>1, <4>1, <4>2, RemainderIs, Zenon
      <4>4. PICK f1 \in Int : f1 = e1 * W
        BY <1>1
      <4>5. PICK y \in Int : y = -mid /\ y = d - f1
        BY <4>2, <4>3, <4>4
      <4>6. m \in 0 .. W - 1 /\ \E k \in Int : m = y + k * W
        <5>1. m = y % W
          BY <4>1, <4>5, Zenon
        <5>2. y % W \in 0 .. W - 1 /\ \E k \in Int : y % W = y + k * W
          BY <1>1, RemainderIs, Zenon
        <5>3. QED
          BY <5>1, <5>2, Zenon
      <4>7. PICK e2 \in Int : m = y + e2 * W
        BY <4>6
      <4>8. (e2 - e1) * W = e2 * W - f1 /\ e2 * W \in Int
        BY <1>1, <4>4
      <4>9. m = d + (e2 - e1) * W
        BY <4>5, <4>7, <4>8
      <4>10. e2 - e1 \in Int /\ m \in Int
        BY <4>6
      <4>11. QED
        BY <4>9, <4>10, Zenon
    <3>4. QED
      BY <3>2, <3>3
  <2>6. PICK e1, e2 \in Int : high = p + e1 * W /\ m = d + e2 * W
    BY <2>4, <2>5
  <2>7. lh \in Int /\ ll \in Int
    BY <1>1 DEF Words
  <2>8. PICK t \in Int : t = high + m + ll + lh
    BY <2>4, <2>5, <2>7, SMTT(30)
  <2>9. t * W + ll = (uh * W + ul) * (vh * W + vl) + (e1 + e2 - lh - uh * vh) * (W * W)
    <3>0. /\ W \in Int /\ uh \in Int /\ ul \in Int /\ vh \in Int /\ vl \in Int
          /\ lh \in Int /\ ll \in Int
      BY <1>1, <1>3, <2>7
    <3>1. PICK q, r, s \in Int : q = uh * vl /\ r = ul * vh /\ s = ul * vl
      BY <3>0
    <3>2. d = q - p - s + r
      BY <3>0, <3>1, <2>3
    <3>3. PICK f1, f2, lw \in Int : f1 = e1 * W /\ f2 = e2 * W /\ lw = lh * W
      BY <3>0
    <3>4. lw + ll = s
      BY <1>6, <3>1, <3>3
    <3>5. t = q + r + f1 + f2 + lh - lw
      BY <3>0, <3>2, <3>3, <3>4, <2>6, <2>8
    <3>6. t * W = q * W + r * W + f1 * W + f2 * W + lh * W - lw * W
      BY <3>0, <3>5
    <3>7. (uh * W + ul) * (vh * W + vl) = p * (W * W) + q * W + r * W + s
      <4>1. (uh * W + ul) * (vh * W + vl)
              = (uh * vh) * (W * W) + (uh * vl) * W + (ul * vh) * W + ul * vl
        BY <3>0
      <4>2. QED
        BY <2>3, <3>1, <4>1
    <3>8. PICK sq, ps, qw, rw, g1, g2, g3 \in Int :
            /\ sq = W * W /\ ps = p * sq /\ qw = q * W /\ rw = r * W
            /\ g1 = f1 * W /\ g2 = f2 * W /\ g3 = lw * W
      BY <3>0
    <3>9. g1 = e1 * sq /\ g2 = e2 * sq /\ g3 = lh * sq
      BY <3>0, <3>3, <3>8
    <3>10. (e1 + e2 - lh - p) * sq = g1 + g2 - g3 - ps
      <4>1. (e1 + e2 - lh - p) * sq = e1 * sq + e2 * sq - lh * sq - p * sq
        BY <3>0
      <4>2. QED
        BY <3>8, <3>9, <4>1
    <3>11. t * W = qw + rw + g1 + g2 + lw - g3
      BY <3>3, <3>6, <3>8
    <3>12. (uh * W + ul) * (vh * W + vl) = ps + qw + rw + s
      BY <3>7, <3>8
    <3>13. t * W + ll = (ps + qw + rw + s) + (g1 + g2 - g3 - ps)
      BY <3>0, <3>4, <3>11
    <3>14. QED
      BY <2>3, <3>8, <3>10, <3>12, <3>13, SMTT(30)
  <2>10. PICK k \in Int : k = e1 + e2 - lh - uh * vh
    BY <1>3, <2>7
  <2>11. PICK z \in Int : z = t * W + ll /\ z = n + k * Q
    BY <1>1, <1>4, <1>7, <2>7, <2>9, <2>10
  <2>12. QuadProduct(u, v) = [h |-> UI(t), l |-> ll]
    <3>1. QuadProduct(u, v) = [h |-> UI(high + m + ll + lh), l |-> ll]
      BY <1>2, <1>5, <1>6, <1>9, <2>1, <2>2, Zenon DEF QuadProduct
    <3>2. QED
      BY <2>8, <3>1, Zenon
  <2>13. QuadProduct(u, v) \in Quads /\ Unsigned(QuadProduct(u, v)) = z % Q
    BY <2>11, <2>12, HighWord
  <2>14. z % Q = n % Q
    <3>1. z = n + k * Q
      BY <2>11
    <3>2. QED
      BY <1>1, <3>1, Congruent, Zenon
  <2>15. QED
    BY <1>7, <2>13, <2>14, Zenon
<1>10. QED
  BY <1>8, <1>9

\* A long long without its sign.
LEMMA MagnitudeIs ==
    ASSUME B \in Nat, B > 1, NEW x \in Quads
    PROVE  /\ Magnitude(x) \in Quads /\ Unsigned(Magnitude(x)) \in Int
           /\ ~Negative(x) => Unsigned(Magnitude(x)) = Unsigned(x)
           /\ Negative(x) => \E k \in Int : Unsigned(Magnitude(x)) = -Unsigned(x) + k * Q
<1>1. CASE ~Negative(x)
  BY <1>1, QuadValue DEF Magnitude
<1>2. CASE Negative(x)
  <2>1. Magnitude(x) = negdi2(x)
    BY <1>2, Zenon DEF Magnitude
  <2>2. PICK n \in Int : n = -Unsigned(x)
    BY QuadValue
  <2>3. Magnitude(x) \in Quads /\ Unsigned(Magnitude(x)) = n % Q
    BY <2>1, <2>2, NegationRight, Zenon
  <2>4. Q \in Nat \ {0}
    BY Sizes
  <2>5. n % Q \in 0 .. Q - 1 /\ \E k \in Int : n % Q = n + k * Q
    BY <2>4, RemainderIs, Zenon
  <2>6. Unsigned(Magnitude(x)) \in Int
    BY <2>3, QuadValue
  <2>7. QED
    BY <1>2, <2>2, <2>3, <2>5, <2>6, Zenon
<1>3. QED
  BY <1>1, <1>2

\* __muldi3 is multiplication modulo the numbers that a long long holds, for every width of a short
\* and every pair of operands: the signs taken off before the multiplication come back after it.
THEOREM ProductRight ==
    ASSUME B \in Nat, B > 1, NEW x \in Quads, NEW y \in Quads
    PROVE  muldi3(x, y) \in Quads /\ Unsigned(muldi3(x, y)) = (Unsigned(x) * Unsigned(y)) % Q
<1>1. Q \in Nat \ {0}
  BY Sizes
<1>2. PICK p, q, mp, mq \in Int : /\ p = Unsigned(x) /\ mp = Unsigned(Magnitude(x))
                                  /\ q = Unsigned(y) /\ mq = Unsigned(Magnitude(y))
  BY QuadValue, MagnitudeIs
<1>3. PICK prod : prod = QuadProduct(Magnitude(x), Magnitude(y))
  OBVIOUS
<1>4. prod \in Quads /\ Unsigned(prod) = (mp * mq) % Q
  BY <1>2, <1>3, MagnitudeIs, QuadProductRight
<1>5. PICK z \in Int : z = p * q
  OBVIOUS
<1>6. CASE ~(Negative(x) # Negative(y))
  <2>1. muldi3(x, y) = prod
    BY <1>3, <1>6, Zenon DEF muldi3
  <2>2. \E k \in Int : mp * mq = z + k * Q
    <3>1. CASE ~Negative(x) /\ ~Negative(y)
      <4>1. mp = p /\ mq = q
        BY <1>2, <3>1, MagnitudeIs
      <4>2. mp * mq = z + 0 * Q
        BY <1>1, <1>5, <4>1
      <4>3. QED
        BY <4>2
    <3>2. CASE Negative(x) /\ Negative(y)
      <4>1. PICK k, j \in Int : mp = -p + k * Q /\ mq = -q + j * Q
        BY <1>2, <3>2, MagnitudeIs
      <4>2. mp * mq = p * q + (k * j * Q - k * q - j * p) * Q
        <5>1. mp * mq = (-p + k * Q) * (-q + j * Q)
          BY <4>1
        <5>2. (-p + k * Q) * (-q + j * Q) = p * q + (k * j * Q - k * q - j * p) * Q
          BY <1>1
        <5>3. QED
          BY <5>1, <5>2
      <4>3. k * j * Q - k * q - j * p \in Int
        BY <1>1
      <4>4. QED
        BY <1>5, <4>2, <4>3, Zenon
    <3>3. QED
      BY <1>6, <3>1, <3>2, Zenon DEF Negative
  <2>3. PICK n \in Int, k \in Int : n = mp * mq /\ n = z + k * Q
    BY <2>2
  <2>4. n % Q = z % Q
    BY <1>1, <2>3, Congruent, Zenon
  <2>5. QED
    BY <1>2, <1>4, <1>5, <2>1, <2>3, <2>4
<1>7. CASE Negative(x) # Negative(y)
  <2>1. muldi3(x, y) = negdi2(prod)
    BY <1>3, <1>7, Zenon DEF muldi3
  <2>2. \E k \in Int : mp * mq = -z + k * Q
    <3>1. CASE Negative(x) /\ ~Negative(y)
      <4>1. PICK k \in Int : mp = -p + k * Q /\ mq = q
        BY <1>2, <3>1, MagnitudeIs
      <4>2. mp * mq = -(p * q) + (k * q) * Q /\ k * q \in Int
        <5>1. mp * mq = (-p + k * Q) * q
          BY <4>1
        <5>2. (-p + k * Q) * q = -(p * q) + (k * q) * Q
          BY <1>1
        <5>3. QED
          BY <5>1, <5>2
      <4>3. mp * mq = -z + (k * q) * Q
        BY <1>5, <4>2
      <4>4. PICK j \in Int : j = k * q
        OBVIOUS
      <4>5. QED
        BY <4>3, <4>4, Zenon
    <3>2. CASE ~Negative(x) /\ Negative(y)
      <4>1. PICK k \in Int : mq = -q + k * Q /\ mp = p
        BY <1>2, <3>2, MagnitudeIs
      <4>2. mp * mq = -(p * q) + (k * p) * Q /\ k * p \in Int
        <5>1. mp * mq = p * (-q + k * Q)
          BY <4>1
        <5>2. p * (-q + k * Q) = -(p * q) + (k * p) * Q
          BY <1>1
        <5>3. QED
          BY <5>1, <5>2
      <4>3. mp * mq = -z + (k * p) * Q
        BY <1>5, <4>2
      <4>4. PICK j \in Int : j = k * p
        OBVIOUS
      <4>5. QED
        BY <4>3, <4>4, Zenon
    <3>3. QED
      BY <1>7, <3>1, <3>2 DEF Negative
  <2>3. PICK n \in Int, k \in Int : n = mp * mq /\ n = -z + k * Q
    BY <2>2
  <2>4. PICK r \in Int, e \in Int : r = Unsigned(prod) /\ r = n + e * Q
    <3>1. n % Q \in 0 .. Q - 1 /\ \E e \in Int : n % Q = n + e * Q
      BY <1>1, RemainderIs, Zenon
    <3>2. Unsigned(prod) = n % Q
      BY <1>4, <2>3
    <3>3. Unsigned(prod) \in Int
      BY <1>4, QuadValue
    <3>4. \E e \in Int : Unsigned(prod) = n + e * Q
      BY <3>1, <3>2, Zenon
    <3>5. QED
      BY <3>3, <3>4, Zenon
  <2>5. PICK mr, c \in Int : mr = -r /\ c = (-k) - e
    <3>1. -r \in Int /\ (-k) - e \in Int
      OBVIOUS
    <3>2. QED
      BY <3>1, Zenon
  <2>6. mr = z + c * Q
    <3>1. PICK kq, eq \in Int : kq = k * Q /\ eq = e * Q
      BY <1>1
    <3>2. c * Q = -kq - eq
      BY <1>1, <2>5, <3>1
    <3>3. mr = z - kq - eq
      BY <2>3, <2>4, <2>5, <3>1
    <3>4. QED
      BY <3>2, <3>3
  <2>7. mr % Q = z % Q
    BY <1>1, <2>6, Congruent, Zenon
  <2>8. muldi3(x, y) \in Quads /\ Unsigned(muldi3(x, y)) = mr % Q
    BY <1>4, <2>1, <2>4, <2>5, NegationRight, Zenon
  <2>9. QED
    BY <1>2, <1>5, <2>7, <2>8, Zenon
<1>8. QED
  BY <1>6, <1>7

\* Two digits combined are a word, and nothing of it is lost.
LEMMA Combined ==
    ASSUME B \in Nat, B > 1, NEW p \in Digits, NEW q \in Digits
    PROVE  COMBINE(p, q) = p * B + q /\ COMBINE(p, q) \in Words
<1>1. W \in Nat \ {0} /\ W = B * B /\ B \in Nat \ {0}
  BY Sizes
<1>2. p \in 0 .. B - 1 /\ q \in 0 .. B - 1 /\ 0 \in 0 .. B - 1
  BY DEF Digits
<1>3. p * B + q \in 0 .. B * B - 1 /\ p * B + 0 \in 0 .. B * B - 1
  BY <1>1, <1>2, QuadRange
<1>4. p * B \in 0 .. W - 1
  BY <1>1, <1>2, <1>3
<1>5. PICK m \in 0 .. W - 1 : m = p * B
  BY <1>4
<1>6. m % W = m
  BY <1>1
<1>7. QED
  BY <1>1, <1>3, <1>5, <1>6 DEF COMBINE, UI, Words

\* A quotient of a number below t * n is below n.
LEMMA QuotientBelow ==
    ASSUME NEW n \in Nat \ {0}, NEW t \in Nat \ {0}, NEW c \in Nat, c < t * n
    PROVE  c \div t \in 0 .. n - 1 /\ c % t \in 0 .. t - 1 /\ c = ((c \div t) * t) + (c % t)
<1>1. PICK q \in Int, s \in 0 .. t - 1 : q = c \div t /\ s = c % t /\ c = (q * t) + s
  BY DivMod, SMTT(30)
<1>2. PICK qt, tn \in Int : qt = q * t /\ tn = t * n
  OBVIOUS
<1>3. q >= 0
  <2>1. SUFFICES ASSUME q <= -1 PROVE FALSE
    OBVIOUS
  <2>2. (-1 - q) * t >= 0 /\ (-1 - q) * t = -t - q * t
    BY <2>1
  <2>3. QED
    BY <1>1, <1>2, <2>2
<1>4. q < n
  <2>1. SUFFICES ASSUME q >= n PROVE FALSE
    OBVIOUS
  <2>2. (q - n) * t >= 0 /\ (q - n) * t = q * t - t * n
    BY <2>1
  <2>3. QED
    BY <1>1, <1>2, <2>2
<1>5. QED
  BY <1>1, <1>3, <1>4

\* One digit of a quotient: a remainder and the next digit, divided by t.
LEMMA NextDigit ==
    ASSUME B \in Nat, B > 1, NEW t \in 1 .. B - 1, NEW r \in 0 .. t - 1, NEW d \in Digits
    PROVE  /\ COMBINE(r, d) \in Nat /\ COMBINE(r, d) = r * B + d
           /\ COMBINE(r, d) \div t \in Digits /\ COMBINE(r, d) % t \in 0 .. t - 1
           /\ COMBINE(r, d) = ((COMBINE(r, d) \div t) * t) + (COMBINE(r, d) % t)
<1>1. r \in Digits /\ d \in 0 .. B - 1 /\ B \in Nat \ {0} /\ t \in Nat \ {0} /\ r \in Nat
  BY DEF Digits
<1>2. PICK c : c = COMBINE(r, d) /\ c = r * B + d
  BY <1>1, Combined
<1>3. r * B >= 0 /\ (t - 1 - r) * B >= 0 /\ (t - 1 - r) * B = t * B - B - r * B
  OBVIOUS
<1>4. PICK rb, tb \in Int : rb = r * B /\ tb = t * B
  OBVIOUS
<1>5. c \in Nat /\ c < t * B
  BY <1>1, <1>2, <1>3, <1>4
<1>6. c \div t \in 0 .. B - 1 /\ c % t \in 0 .. t - 1 /\ c = ((c \div t) * t) + (c % t)
  BY <1>1, <1>5, QuotientBelow, Zenon
<1>7. c \div t \in Digits
  BY <1>6, SMTT(30) DEF Digits
<1>8. QED
  BY <1>2, <1>5, <1>6, <1>7, Zenon

\* What one step of the short division computes from the remainder r and the digit d.
Divided(r, d, t, c, q, s) ==
    /\ c = COMBINE(r, d) /\ q = c \div t /\ s = c % t
    /\ c = r * B + d /\ c = q * t + s

\* NextDigit with the digit of the quotient and the remainder named.
LEMMA DigitStep ==
    ASSUME B \in Nat, B > 1, NEW t \in 1 .. B - 1, NEW r \in 0 .. t - 1, NEW d \in Digits
    PROVE  \E c \in Nat, q \in Digits, s \in 0 .. t - 1 : Divided(r, d, t, c, q, s)
<1>1. PICK c : c = COMBINE(r, d)
  OBVIOUS
<1>2. /\ c \in Nat /\ c = r * B + d
      /\ c \div t \in Digits /\ c % t \in 0 .. t - 1 /\ c = ((c \div t) * t) + (c % t)
  BY <1>1, NextDigit, SMTT(30)
<1>3. QED
  BY <1>1, <1>2, Zenon DEF Divided

\* A half-word digit is an integer.
LEMMA DigitIsInt ==
    ASSUME B \in Nat, NEW q \in Digits
    PROVE  q \in Int
BY DEF Digits

\* So is a remainder below t.
LEMMA RangeIsInt ==
    ASSUME NEW t, NEW r \in 0 .. t - 1
    PROVE  r \in Int
BY SMTT(30)

\* __qdivrem by a divisor of one digit: Knuth's "change of plan" gives quotient and remainder of the
\* whole dividend, and none of its digits overflows.
THEOREM ShortDivisionRight ==
    ASSUME B \in Nat, B > 1, NEW x \in Quads, NEW t \in 1 .. B - 1, NEW z, z = ShortDivide(DigitsOf(x), t)
    PROVE  /\ z.quot \in Quads /\ z.rem \in Quads
           /\ Unsigned(x) = Unsigned(z.quot) * t + Unsigned(z.rem)
           /\ Unsigned(z.rem) \in 0 .. t - 1
<1>1. W \in Nat \ {0} /\ W = B * B /\ Q = W * W /\ B < W /\ B \in Nat \ {0} /\ t \in Nat \ {0}
  BY Sizes
<1>2. PICK h, l \in Words : h = x.h /\ l = x.l /\ Unsigned(x) = h * W + l
  BY QuadValue, SMTT(30)
<1>3. PICK u1, u2, u3, u4 \in Digits :
        /\ u1 = HHALF(h) /\ u2 = LHALF(h) /\ u3 = HHALF(l) /\ u4 = LHALF(l)
        /\ h = u1 * B + u2 /\ l = u3 * B + u4
  BY ShiftedUp
<1>4. u1 \in Nat /\ u1 < B /\ u2 \in Nat /\ u3 \in Nat /\ u4 \in Nat /\ 0 \in 0 .. t - 1 /\ COMBINE(0, u1) = u1
  <2>1. u1 \in 0 .. B - 1 /\ u2 \in 0 .. B - 1 /\ u3 \in 0 .. B - 1 /\ u4 \in 0 .. B - 1 /\ 0 \in Digits
    BY <1>1 DEF Digits
  <2>2. COMBINE(0, u1) = 0 * B + u1
    BY <2>1, Combined
  <2>3. QED
    BY <1>1, <2>1, <2>2
<1>5. PICK c1 \in Nat, q1 \in Digits, r1 \in 0 .. t - 1 :
        /\ c1 = COMBINE(0, u1) /\ q1 = c1 \div t /\ r1 = c1 % t
        /\ c1 = 0 * B + u1 /\ c1 = q1 * t + r1
  <2>1. 0 \in 0 .. t - 1
    BY <1>4, Zenon
  <2>2. \E c \in Nat, q \in Digits, s \in 0 .. t - 1 : Divided(0, u1, t, c, q, s)
    BY <2>1, DigitStep, Zenon
  <2>3. QED
    BY <2>2, Zenon DEF Divided
<1>6. PICK c2 \in Nat, q2 \in Digits, r2 \in 0 .. t - 1 :
        /\ c2 = COMBINE(r1, u2) /\ q2 = c2 \div t /\ r2 = c2 % t
        /\ c2 = r1 * B + u2 /\ c2 = q2 * t + r2
  <2>1. r1 \in 0 .. t - 1
    BY <1>5, Zenon
  <2>2. \E c \in Nat, q \in Digits, s \in 0 .. t - 1 : Divided(r1, u2, t, c, q, s)
    BY <2>1, DigitStep, Zenon
  <2>3. QED
    BY <2>2, Zenon DEF Divided
<1>7. PICK c3 \in Nat, q3 \in Digits, r3 \in 0 .. t - 1 :
        /\ c3 = COMBINE(r2, u3) /\ q3 = c3 \div t /\ r3 = c3 % t
        /\ c3 = r2 * B + u3 /\ c3 = q3 * t + r3
  <2>1. r2 \in 0 .. t - 1
    BY <1>6, Zenon
  <2>2. \E c \in Nat, q \in Digits, s \in 0 .. t - 1 : Divided(r2, u3, t, c, q, s)
    BY <2>1, DigitStep, Zenon
  <2>3. QED
    BY <2>2, Zenon DEF Divided
<1>8. PICK c4 \in Nat, q4 \in Digits, r4 \in 0 .. t - 1 :
        /\ c4 = COMBINE(r3, u4) /\ q4 = c4 \div t /\ r4 = c4 % t
        /\ c4 = r3 * B + u4 /\ c4 = q4 * t + r4
  <2>1. r3 \in 0 .. t - 1
    BY <1>7, Zenon
  <2>2. \E c \in Nat, q \in Digits, s \in 0 .. t - 1 : Divided(r3, u4, t, c, q, s)
    BY <2>1, DigitStep, Zenon
  <2>3. QED
    BY <2>2, Zenon DEF Divided
<1>9. PICK qh, ql : qh = COMBINE(q1, q2) /\ ql = COMBINE(q3, q4)
  OBVIOUS
<1>10. /\ qh = q1 * B + q2 /\ ql = q3 * B + q4 /\ qh \in Words /\ ql \in Words
       /\ q1 \in Int /\ q2 \in Int /\ q3 \in Int /\ q4 \in Int
  <2>1. qh = q1 * B + q2 /\ qh \in Words
    BY <1>9, Combined, SMTT(30)
  <2>2. ql = q3 * B + q4 /\ ql \in Words
    BY <1>9, Combined, SMTT(30)
  <2>3. q1 \in Int /\ q2 \in Int /\ q3 \in Int /\ q4 \in Int
    BY DigitIsInt, Zenon
  <2>4. QED
    BY <2>1, <2>2, <2>3, Zenon
<1>11. z = [quot |-> [h |-> qh, l |-> ql], rem |-> [h |-> 0, l |-> r4]]
  <2>1. DigitsOf(x) = <<u1, u2, u3, u4>>
    BY <1>2, <1>3, SMTT(30) DEF DigitsOf
  <2>2. /\ DigitsOf(x)[1] = u1 /\ DigitsOf(x)[2] = u2 /\ DigitsOf(x)[3] = u3 /\ DigitsOf(x)[4] = u4
    BY <2>1, SMTT(30)
  <2>3. c1 = u1
    BY <1>4, <1>5
  <2>4. z = [quot |-> FromDigits(<<q1, q2, q3, q4>>, 1), rem |-> [h |-> 0, l |-> r4]]
    BY <1>5, <1>6, <1>7, <1>8, <2>2, <2>3, ZenonT(30) DEF ShortDivide
  <2>5. FromDigits(<<q1, q2, q3, q4>>, 1) = [h |-> qh, l |-> ql]
    BY <1>9, SMTT(30) DEF FromDigits
  <2>6. QED
    BY <2>4, <2>5, Zenon
<1>12. r1 \in Int /\ r2 \in Int /\ r3 \in Int /\ r4 \in Int /\ t \in Int /\ B \in Int
  <2>1. r1 \in Int /\ r2 \in Int /\ r3 \in Int /\ r4 \in Int
    BY RangeIsInt, Zenon
  <2>2. t \in Int /\ B \in Int
    BY SMTT(30)
  <2>3. QED
    BY <2>1, <2>2, Zenon
<1>13. h = qh * t + r2
  <2>1. h = (q1 * t + r1) * B + u2
    BY <1>3, <1>4, <1>5, SMTT(30)
  <2>2. (q1 * t + r1) * B = (q1 * B) * t + r1 * B
    BY <1>10, <1>12, SMTT(30)
  <2>3. qh * t = (q1 * B) * t + q2 * t
    BY <1>10, <1>12, SMTT(30)
  <2>4. PICK a1, a2, a3 \in Int : a1 = (q1 * B) * t /\ a2 = r1 * B /\ a3 = q2 * t
    BY <1>10, <1>12
  <2>5. h = a1 + a2 + u2 /\ a2 + u2 = a3 + r2 /\ qh * t = a1 + a3
    BY <1>6, <2>1, <2>2, <2>3, <2>4, Zenon
  <2>6. QED
    BY <1>4, <1>12, <2>5, SMTT(30)
<1>14. h * W + l = (qh * W + ql) * t + r4
  <2>1. PICK s1, s2, s3 \in Int : s1 = h * B + u3 /\ s2 = qh * B + q3 /\ s3 = s2 * t
    BY <1>1, <1>4, <1>10, SMTT(30) DEF Words
  <2>2. qh \in Int /\ h \in Int
    BY <1>1, <1>10, SMTT(30) DEF Words
  <2>3. s1 = s3 + r3
    <3>1. h * B = (qh * t + r2) * B
      BY <1>13
    <3>2. (qh * t + r2) * B = (qh * B) * t + r2 * B
      BY <1>12, <2>2, SMTT(30)
    <3>3. s3 = (qh * B) * t + q3 * t
      BY <1>10, <1>12, <2>1, <2>2, SMTT(30)
    <3>4. PICK a1, a2, a3 \in Int : a1 = (qh * B) * t /\ a2 = r2 * B /\ a3 = q3 * t
      BY <1>10, <1>12, <2>2
    <3>5. s1 = a1 + a2 + u3 /\ a2 + u3 = a3 + r3 /\ s3 = a1 + a3
      BY <1>7, <2>1, <3>1, <3>2, <3>3, <3>4, Zenon
    <3>6. QED
      BY <1>4, <1>12, <3>5, SMTT(30)
  <2>4. s1 * B + u4 = (s2 * B + q4) * t + r4
    <3>1. s1 * B = (s2 * t + r3) * B
      BY <2>1, <2>3
    <3>2. (s2 * t + r3) * B = (s2 * B) * t + r3 * B
      BY <1>12
    <3>3. (s2 * B + q4) * t = (s2 * B) * t + q4 * t
      BY <1>10, <1>12
    <3>4. PICK a1, a2, a3 \in Int : a1 = (s2 * B) * t /\ a2 = r3 * B /\ a3 = q4 * t
      BY <1>10, <1>12
    <3>5. s1 * B + u4 = a1 + a2 + u4 /\ a2 + u4 = a3 + r4 /\ (s2 * B + q4) * t = a1 + a3
      BY <1>8, <3>1, <3>2, <3>3, <3>4, Zenon
    <3>6. QED
      BY <1>4, <1>12, <3>5, SMTT(30)
  <2>5. s1 * B + u4 = h * W + l
    <3>1. s1 * B = h * (B * B) + u3 * B
      BY <1>4, <1>12, <2>1, <2>2, SMTT(30)
    <3>2. PICK a1, a2 \in Int : a1 = h * W /\ a2 = u3 * B
      BY <1>1, <1>4, <2>2
    <3>3. s1 * B = a1 + a2 /\ l = a2 + u4
      BY <1>1, <1>3, <3>1, <3>2, Zenon
    <3>4. QED
      BY <1>4, <3>2, <3>3, SMTT(30)
  <2>6. s2 * B + q4 = qh * W + ql
    <3>1. s2 * B = qh * (B * B) + q3 * B
      BY <1>10, <1>12, <2>1, <2>2, SMTT(30)
    <3>2. PICK a1, a2 \in Int : a1 = qh * W /\ a2 = q3 * B
      BY <1>1, <1>10, <2>2, SMTT(30)
    <3>3. s2 * B = a1 + a2 /\ ql = a2 + q4
      BY <1>1, <1>10, <3>1, <3>2, SMTT(30)
    <3>4. QED
      BY <1>10, <3>2, <3>3, SMTT(30)
  <2>7. QED
    BY <2>4, <2>5, <2>6, SMTT(30)
<1>15. 0 \in Words /\ r4 \in Words /\ 0 * W + r4 = r4
  BY <1>1, <1>8 DEF Words
<1>16. QED
  BY <1>2, <1>8, <1>10, <1>11, <1>14, <1>15, SMTT(30) DEF Unsigned, Quads
=============================================================================
