---------------------------- MODULE Floats_proofs ---------------------------
(***************************************************************************)
(* Floating-point slices, early limits and boosts, for every width of       *)
(* float, double and word: what an operation can lose by rounding.          *)
(***************************************************************************)
EXTENDS Floats, WellFoundedInduction, TLAPS

-----------------------------------------------------------------------------
\* Powers of 2

\* A set of natural numbers that is not empty has a least element.
LEMMA LeastNat ==
    ASSUME NEW T \in SUBSET Nat, T # {}
    PROVE  \E x \in T : \A y \in T : x <= y
  <1> DEFINE R == OpToRel(<, Nat)
  <1>1. IsWellFoundedOn(R, Nat)
    BY NatLessThanWellFounded, Zenon
  <1> HIDE DEF R
  <1>2. PICK m \in T : \A k \in T : ~ (<<k, m>> \in R)
    BY <1>1, WFMin, Zenon
  <1>3. ASSUME NEW k \in T, k < m PROVE FALSE
    <2>1. <<k, m>> \in R
      BY <1>3 DEF R, OpToRel
    <2> QED
      BY <1>2, <2>1
  <1> QED
    BY <1>2, <1>3

\* Powers(n, f): f is 2^i for every i up to n.
Powers(n, f) ==
    /\ f \in [0..n -> Nat]
    /\ f[0] = 1
    /\ \A i \in 1..n : f[i] = 2 * f[i - 1]

\* There are powers of 2 up to every number.
LEMMA PowersExist == \A n \in Nat : \E f : Powers(n, f)
  <1> DEFINE T == {n \in Nat : ~ \E f : Powers(n, f)}
  <1> SUFFICES ASSUME T # {} PROVE FALSE
    OBVIOUS
  <1>1. PICK n \in T : \A m \in T : n <= m
    <2> HIDE DEF T
    <2>1. T \in SUBSET Nat
      BY DEF T
    <2> QED
      BY <2>1, LeastNat
  <1>2. CASE n = 0
    <2>1. Powers(0, [i \in 0..0 |-> 1])
      BY DEF Powers
    <2> QED
      BY <1>1, <1>2, <2>1
  <1>3. CASE n > 0
    <2>1. n - 1 \in Nat /\ n - 1 \notin T
      BY <1>1, <1>3
    <2>2. PICK f : Powers(n - 1, f)
      BY <2>1
    <2> DEFINE g == [i \in 0..n |-> IF i = n THEN 2 * f[n - 1] ELSE f[i]]
    <2>3. Powers(n, g)
      BY <1>3, <2>2 DEF Powers
    <2> QED
      BY <1>1, <2>3
  <1> QED
    BY <1>2, <1>3

\* And they agree.
LEMMA PowersAgree ==
    ASSUME NEW n \in Nat, NEW m \in Nat, NEW f, NEW g, Powers(n, f), Powers(m, g)
    PROVE  \A i \in 0..n : i \in 0..m => f[i] = g[i]
  <1> DEFINE T == {i \in 0..n : i \in 0..m /\ f[i] # g[i]}
  <1> SUFFICES ASSUME T # {} PROVE FALSE
    OBVIOUS
  <1>1. PICK i \in T : \A j \in T : i <= j
    <2> HIDE DEF T
    <2>1. T \in SUBSET Nat
      BY DEF T
    <2> QED
      BY <2>1, LeastNat
  <1>2. i # 0
    BY <1>1 DEF Powers
  <1>3. i - 1 \in 0..n /\ i - 1 \in 0..m /\ i - 1 \notin T
    BY <1>1, <1>2
  <1>4. f[i] = 2 * f[i - 1] /\ g[i] = 2 * g[i - 1]
    BY <1>1, <1>2 DEF Powers
  <1> QED
    BY <1>1, <1>3, <1>4

\* The recursion of Pow2 has a solution, which is Pow2.
LEMMA Pow2Def ==
    Pow2 = [n \in Nat |-> IF n = 0 THEN 1 ELSE 2 * Pow2[n - 1]]
  <1> DEFINE F(n) == CHOOSE f : Powers(n, f)
             P == [n \in Nat |-> F(n)[n]]
  <1>1. \A n \in Nat : Powers(n, F(n))
    BY PowersExist
  <1>2. ASSUME NEW n \in Nat
        PROVE  P[n] = IF n = 0 THEN 1 ELSE 2 * P[n - 1]
    <2>1. Powers(n, F(n))
      BY <1>1
    <2>2. CASE n = 0
      BY <2>1, <2>2 DEF Powers
    <2>3. CASE n # 0
      <3>1. n - 1 \in Nat /\ Powers(n - 1, F(n - 1))
        BY <1>1, <2>3
      <3>2. F(n)[n - 1] = F(n - 1)[n - 1]
        <4> HIDE DEF F
        <4>1. n - 1 \in 0..n /\ n - 1 \in 0..(n - 1)
          BY <2>3
        <4> QED
          BY <2>1, <3>1, <4>1, PowersAgree
      <3> HIDE DEF F
      <3>3. F(n)[n] = 2 * F(n)[n - 1]
        BY <2>1, <2>3 DEF Powers
      <3> QED
        BY <2>3, <3>1, <3>2, <3>3
    <2> QED
      BY <2>2, <2>3
  <1>3. P = [n \in Nat |-> IF n = 0 THEN 1 ELSE 2 * P[n - 1]]
    <2> HIDE DEF P
    <2>1. P = [n \in Nat |-> P[n]]
      BY DEF P
    <2> QED
      BY <1>2, <2>1, Zenon
  <1> HIDE DEF P
  <1> QED
    BY <1>3, Zenon DEF Pow2

LEMMA Pow2Zero == Pow2[0] = 1
  BY Pow2Def

LEMMA Pow2Next == \A n \in Nat : Pow2[n + 1] = 2 * Pow2[n]
  <1> SUFFICES ASSUME NEW n \in Nat PROVE Pow2[n + 1] = 2 * Pow2[n]
    OBVIOUS
  <1>1. n + 1 \in Nat /\ n + 1 # 0 /\ (n + 1) - 1 = n
    OBVIOUS
  <1> QED
    BY <1>1, Pow2Def

LEMMA Pow2Type == \A n \in Nat : Pow2[n] \in Nat \ {0}
  <1> DEFINE T == {n \in Nat : Pow2[n] \notin Nat \ {0}}
  <1> SUFFICES ASSUME T # {} PROVE FALSE
    OBVIOUS
  <1>1. PICK n \in T : \A m \in T : n <= m
    <2> HIDE DEF T
    <2>1. T \in SUBSET Nat
      BY DEF T
    <2> QED
      BY <2>1, LeastNat
  <1>2. n # 0
    BY <1>1, Pow2Zero
  <1>3. n - 1 \in Nat /\ n - 1 \notin T
    BY <1>1, <1>2
  <1>4. Pow2[(n - 1) + 1] = 2 * Pow2[n - 1]
    BY <1>3, Pow2Next
  <1>5. (n - 1) + 1 = n
    BY <1>1
  <1> QED
    BY <1>1, <1>3, <1>4, <1>5

\* A product is known from its factor's predecessor.
LEMMA DoubleProduct ==
    \A a, b \in Nat : a * (2 * b) = 2 * (a * b)
  OBVIOUS

LEMMA Pow2Plus == \A m, n \in Nat : Pow2[m + n] = Pow2[m] * Pow2[n]
  <1> SUFFICES ASSUME NEW m \in Nat
               PROVE  \A n \in Nat : Pow2[m + n] = Pow2[m] * Pow2[n]
    OBVIOUS
  <1> DEFINE T == {n \in Nat : Pow2[m + n] # Pow2[m] * Pow2[n]}
  <1> SUFFICES ASSUME T # {} PROVE FALSE
    OBVIOUS
  <1>1. PICK n \in T : \A k \in T : n <= k
    <2> HIDE DEF T
    <2>1. T \in SUBSET Nat
      BY DEF T
    <2> QED
      BY <2>1, LeastNat
  <1>2. n # 0
    BY <1>1, Pow2Zero, Pow2Type
  <1>3. PICK k \in Nat : n = k + 1 /\ k \notin T
    <2>1. n - 1 \in Nat /\ n = (n - 1) + 1 /\ n - 1 \notin T
      BY <1>1, <1>2
    <2> QED
      BY <2>1
  <1>4. Pow2[m + k] = Pow2[m] * Pow2[k]
    BY <1>3
  <1>5. Pow2[k + 1] = 2 * Pow2[k] /\ Pow2[(m + k) + 1] = 2 * Pow2[m + k]
    BY Pow2Next
  <1>6. (m + k) + 1 = m + n
    BY <1>3
  <1>7. Pow2[m] * (2 * Pow2[k]) = 2 * (Pow2[m] * Pow2[k])
    BY Pow2Type, DoubleProduct
  <1> QED
    BY <1>1, <1>3, <1>4, <1>5, <1>6, <1>7

\* A larger exponent makes a larger power, at least twice as large.
LEMMA Pow2Grows ==
    \A m, n \in Nat : m < n => 2 * Pow2[m] <= Pow2[n]
  <1> SUFFICES ASSUME NEW m \in Nat, NEW n \in Nat, m < n
               PROVE  2 * Pow2[m] <= Pow2[n]
    OBVIOUS
  <1>1. PICK k \in Nat : n = (m + 1) + k
    <2>1. n - (m + 1) \in Nat /\ n = (m + 1) + (n - (m + 1))
      OBVIOUS
    <2> QED
      BY <2>1
  <1>2. Pow2[n] = Pow2[m + 1] * Pow2[k]
    BY <1>1, Pow2Plus
  <1>3. Pow2[m + 1] = 2 * Pow2[m]
    BY Pow2Next
  <1>4. \A a, b \in Nat \ {0} : a <= a * b
    OBVIOUS
  <1>5. Pow2[m + 1] <= Pow2[m + 1] * Pow2[k]
    BY <1>4, Pow2Type
  <1> QED
    BY <1>2, <1>3, <1>5

-----------------------------------------------------------------------------
\* Products and quotients

LEMMA ProductMonotone ==
    \A a, b, c \in Nat : a <= b => a * c <= b * c
  OBVIOUS

LEMMA ProductStrict ==
    \A a, b, c \in Nat : a < b => a * c + c <= b * c
  OBVIOUS

LEMMA ProductType ==
    \A a, b \in Nat : a * b \in Nat /\ (a > 0 /\ b > 0 => a * b > 0)
  OBVIOUS

LEMMA ProductAssociative ==
    \A a, b, c \in Nat : a * (b * c) = (a * b) * c /\ a * b = b * a
  OBVIOUS

LEMMA Quotient ==
    \A a \in Nat, b \in Nat \ {0} :
       /\ a \div b \in Nat
       /\ a % b \in 0..(b - 1)
       /\ a = (a \div b) * b + (a % b)
  <1> SUFFICES ASSUME NEW a \in Nat, NEW b \in Nat \ {0}
               PROVE  /\ a \div b \in Nat
                      /\ a % b \in 0..(b - 1)
                      /\ a = (a \div b) * b + (a % b)
    OBVIOUS
  <1>1. a % b \in 0..(b - 1)
    OBVIOUS
  <1>2. a = (a \div b) * b + (a % b)
    OBVIOUS
  <1>3. a \div b \in Nat
    OBVIOUS
  <1> QED
    BY <1>1, <1>2, <1>3

\* A quotient is rounded down.
LEMMA QuotientAtLeast ==
    \A a, k \in Nat, b \in Nat \ {0} : a \div b >= k <=> a >= k * b
  <1> SUFFICES ASSUME NEW a \in Nat, NEW k \in Nat, NEW b \in Nat \ {0}
               PROVE  a \div b >= k <=> a >= k * b
    OBVIOUS
  <1>1. PICK q \in Nat, r \in 0..(b - 1) : a \div b = q /\ a = q * b + r
    BY Quotient
  <1>2. k <= q => k * b <= q * b
    BY ProductMonotone
  <1>3. q < k => q * b + b <= k * b
    BY ProductStrict
  <1>4. k * b \in Nat /\ q * b \in Nat
    BY ProductType
  <1> QED
    BY <1>1, <1>2, <1>3, <1>4

-----------------------------------------------------------------------------
\* Rounding

\* The nearest whole number is at most half away, and rounding to it crosses no
\* whole number.
LEMMA Nearest ==
    ASSUME NEW a \in Nat, NEW b \in Nat \ {0}
    PROVE  /\ NearestEven(a, b) \in Nat
           /\ 2 * (NearestEven(a, b) * b) <= 2 * a + b
           /\ 2 * (NearestEven(a, b) * b) >= 2 * a - b
           /\ \A k \in Nat : a <= k * b => NearestEven(a, b) <= k
           /\ \A k \in Nat : a >= k * b => NearestEven(a, b) >= k
  <1>1. PICK q \in Nat, r \in 0..(b - 1) :
          q = a \div b /\ r = a % b /\ a = q * b + r
    BY Quotient
  <1>2. PICK p \in Nat : p = q * b
    BY ProductType
  <1>3. (q + 1) * b = p + b
    BY <1>2
  <1>4. \A k \in Nat : k <= q => k * b <= p
    BY <1>2, ProductMonotone
  <1>5. \A k \in Nat : q < k => p + b <= k * b
    BY <1>2, ProductStrict
  <1>6. \A k \in Nat : k * b \in Nat
    BY ProductType
  <1>7. CASE NearestEven(a, b) = q /\ 2 * r <= b
    <2>1. \A k \in Nat : a <= k * b => q <= k
      BY <1>1, <1>2, <1>5, <1>6
    <2>2. \A k \in Nat : a >= k * b => k <= q
      BY <1>1, <1>2, <1>5, <1>6
    <2> QED
      BY <1>1, <1>2, <1>7, <2>1, <2>2
  <1>8. CASE NearestEven(a, b) = q + 1 /\ 2 * r >= b
    <2>1. \A k \in Nat : a <= k * b => q + 1 <= k
      <3> SUFFICES ASSUME NEW k \in Nat, a <= k * b, k <= q PROVE FALSE
        OBVIOUS
      <3> QED
        BY <1>1, <1>2, <1>4, <1>6, <1>8
    <2>2. \A k \in Nat : a >= k * b => k <= q + 1
      BY <1>1, <1>2, <1>5, <1>6
    <2>3. NearestEven(a, b) * b = p + b
      BY <1>3, <1>8
    <2>4. /\ 2 * (p + b) <= 2 * a + b
          /\ 2 * (p + b) >= 2 * a - b
      BY <1>1, <1>2, <1>8
    <2> QED
      BY <1>8, <2>1, <2>2, <2>3, <2>4
  <1> QED
    BY <1>1, <1>7, <1>8 DEF NearestEven

\* What a scale does to a fraction whose significand it fills.
LEMMA FillsUp ==
    ASSUME NEW bits \in Nat \ {0}, NEW a \in Nat, NEW b \in Nat \ {0}, NEW e \in Int
    PROVE  Fills(bits, a, b, e) <=>
             IF e >= 0 THEN a * Pow2[e] >= b * Pow2[bits - 1]
                       ELSE a >= (b * Pow2[-e]) * Pow2[bits - 1]
  <1>1. CASE e >= 0
    BY <1>1 DEF Fills
  <1>2. CASE e < 0
    <2>1. -e \in Nat /\ bits - 1 \in Nat /\ bits - 1 - e = (-e) + (bits - 1)
      BY <1>2
    <2>2. Pow2[bits - 1 - e] = Pow2[-e] * Pow2[bits - 1]
      BY <2>1, Pow2Plus
    <2>3. Pow2[bits - 1 - e] \in Nat \ {0}
      BY <2>1, Pow2Type
    <2>4. a \div Pow2[bits - 1 - e] >= b <=> a >= b * Pow2[bits - 1 - e]
      BY <2>3, QuotientAtLeast
    <2>5. b * (Pow2[-e] * Pow2[bits - 1]) = (b * Pow2[-e]) * Pow2[bits - 1]
      BY <2>1, Pow2Type, ProductAssociative
    <2> QED
      BY <1>2, <2>2, <2>4, <2>5 DEF Fills
  <1> QED
    BY <1>1, <1>2

\* The fractions that the exponents of the module are meant for.
InReach(bits, a, b) ==
    /\ bits \in {FloatBits, DoubleBits}
    /\ a \in Nat \ {0} /\ b \in Nat \ {0}
    /\ b <= a * Pow2[DoubleBits + 4 - bits]
    /\ a < b * Pow2[WordBits + 7]

\* There is a scale for each of them.
LEMMA ScaleExists ==
    ASSUME NEW bits, NEW a, NEW b, InReach(bits, a, b)
    PROVE  \E e \in Exponents : Fills(bits, a, b, e) /\ ~Fills(bits, a, b, e - 1)
  <1> USE BitsAssumption
  <1> DEFINE low == FloatBits - WordBits - 7
             high == DoubleBits + 3
  <1>1. /\ bits \in Nat \ {0} /\ a \in Nat /\ b \in Nat \ {0}
        /\ low \in Int /\ high \in Nat /\ low <= high /\ low - 1 < 0
    BY DEF InReach
  <1>2. Fills(bits, a, b, high)
    <2>1. DoubleBits + 4 - bits \in Nat /\ bits - 1 \in Nat
          /\ high = (DoubleBits + 4 - bits) + (bits - 1)
      BY DEF InReach
    <2>2. PICK s \in Nat, p \in Nat :
            s = Pow2[DoubleBits + 4 - bits] /\ p = Pow2[bits - 1]
      BY <2>1, Pow2Type
    <2>3. Pow2[high] = s * p
      BY <2>1, <2>2, Pow2Plus
    <2>4. b * p <= (a * s) * p
      BY <1>1, <2>2, ProductType, ProductMonotone DEF InReach
    <2>5. a * (s * p) = (a * s) * p
      BY <1>1, ProductAssociative
    <2> QED
      BY <1>1, <2>2, <2>3, <2>4, <2>5 DEF Fills
  <1>3. ~Fills(bits, a, b, low - 1)
    <2>1. WordBits + 7 \in Nat /\ bits - FloatBits \in Nat
          /\ bits - 1 - (low - 1) = (WordBits + 7) + (bits - FloatBits)
          /\ bits - 1 - (low - 1) \in Nat
      BY DEF InReach
    <2>2. PICK w \in Nat, s \in Nat \ {0} :
            w = Pow2[WordBits + 7] /\ s = Pow2[bits - FloatBits]
      BY <2>1, Pow2Type
    <2>3. Pow2[bits - 1 - (low - 1)] = w * s
      BY <2>1, <2>2, Pow2Plus
    <2>4. a < b * w
      BY <2>2 DEF InReach
    <2>5. b * w <= (b * w) * s
      <3>1. \A i \in Nat, j \in Nat \ {0} : i <= i * j
        OBVIOUS
      <3> QED
        BY <1>1, <3>1, ProductType
    <2>6. b * (w * s) = (b * w) * s
      BY <1>1, ProductAssociative
    <2>7. a < b * Pow2[bits - 1 - (low - 1)]
      BY <1>1, <2>3, <2>4, <2>5, <2>6, ProductType
    <2>8. ~(a \div Pow2[bits - 1 - (low - 1)] >= b)
      BY <1>1, <2>1, <2>7, QuotientAtLeast, Pow2Type
    <2> HIDE DEF low
    <2> QED
      BY <1>1, <2>8 DEF Fills
  <1> DEFINE T == {i \in Nat : Fills(bits, a, b, low + i)}
  <1> HIDE DEF low, high
  <1>4. high - low \in T
    BY <1>1, <1>2
  <1>5. PICK i \in T : \A j \in T : i <= j
    <2> HIDE DEF T
    <2>1. T \in SUBSET Nat
      BY DEF T
    <2> QED
      BY <1>4, <2>1, LeastNat
  <1>6. low + i \in Exponents
    BY <1>1, <1>4, <1>5 DEF Exponents, low, high
  <1>7. ~Fills(bits, a, b, (low + i) - 1)
    <2>1. CASE i = 0
      <3>1. (low + i) - 1 = low - 1
        BY <1>1, <2>1
      <3> QED
        BY <1>3, <3>1
    <2>2. CASE i # 0
      <3>1. i - 1 \in Nat /\ i - 1 \notin T /\ (low + i) - 1 = low + (i - 1)
        BY <1>1, <1>5, <2>2
      <3> QED
        BY <3>1
    <2> QED
      BY <2>1, <2>2
  <1> QED
    BY <1>5, <1>6, <1>7

\* The scale and the significand of a rounded fraction.
LEMMA Scaled ==
    ASSUME NEW bits, NEW a, NEW b, InReach(bits, a, b)
    PROVE  \/ \E s \in {Pow2[e] : e \in Nat} :
                 /\ RoundTo(bits, a, b) = Fraction(NearestEven(a * s, b), s)
                 /\ a * s >= b * Pow2[bits - 1]
           \/ \E s \in {Pow2[e] : e \in Nat \ {0}} :
                 /\ RoundTo(bits, a, b) = Fraction(NearestEven(a, b * s) * s, 1)
                 /\ a >= (b * s) * Pow2[bits - 1]
  <1>1. bits \in Nat \ {0} /\ a \in Nat /\ b \in Nat \ {0}
    BY BitsAssumption DEF InReach
  <1> DEFINE e == CHOOSE i \in Exponents :
                    Fills(bits, a, b, i) /\ ~Fills(bits, a, b, i - 1)
  <1>2. e \in Exponents /\ Fills(bits, a, b, e)
    BY ScaleExists
  <1>3. e \in Int
    BY <1>2, BitsAssumption DEF Exponents
  <1>4. RoundTo(bits, a, b) =
          IF e >= 0 THEN Fraction(NearestEven(a * Pow2[e], b), Pow2[e])
                    ELSE Fraction(NearestEven(a, b * Pow2[-e]) * Pow2[-e], 1)
    <2>1. a # 0 /\ bits \in Nat /\ a \in Nat /\ b \in Nat
      BY BitsAssumption DEF InReach
    <2>2. RoundTo(bits, a, b) = Rounded[bits][a][b]
      BY DEF RoundTo
    <2> QED
      BY <2>1, <2>2 DEF Rounded
  <1> HIDE DEF e
  <1>5. CASE e >= 0
    BY <1>1, <1>2, <1>3, <1>4, <1>5, FillsUp
  <1>6. CASE e < 0
    <2>1. -e \in Nat \ {0}
      BY <1>3, <1>6
    <2> QED
      BY <1>1, <1>2, <1>3, <1>4, <1>6, <2>1, FillsUp
  <1> QED
    BY <1>3, <1>5, <1>6

LEMMA Pow2Half ==
    \A n \in Nat \ {0} : Pow2[n] = 2 * Pow2[n - 1] /\ Pow2[n - 1] \in Nat \ {0}
  <1> SUFFICES ASSUME NEW n \in Nat \ {0}
               PROVE  Pow2[n] = 2 * Pow2[n - 1] /\ Pow2[n - 1] \in Nat \ {0}
    OBVIOUS
  <1>1. n - 1 \in Nat /\ (n - 1) + 1 = n
    OBVIOUS
  <1>2. Pow2[(n - 1) + 1] = 2 * Pow2[n - 1]
    BY <1>1, Pow2Next
  <1> QED
    BY <1>1, <1>2, Pow2Type

LEMMA FractionFields ==
    \A a, b : Fraction(a, b).n = a /\ Fraction(a, b).d = b
  BY DEF Fraction

\* What is off by half of b is off by little of what b is little of.
LEMMA ErrorScales ==
    \A x, y, b, h \in Nat :
       y >= b * h => /\ 2 * x <= 2 * y + b => (2 * h) * x <= (2 * h) * y + y
                     /\ 2 * x >= 2 * y - b => (2 * h) * x >= (2 * h) * y - y
  <1> SUFFICES ASSUME NEW x \in Nat, NEW y \in Nat, NEW b \in Nat, NEW h \in Nat,
                      y >= b * h
               PROVE  /\ 2 * x <= 2 * y + b => (2 * h) * x <= (2 * h) * y + y
                      /\ 2 * x >= 2 * y - b => (2 * h) * x >= (2 * h) * y - y
    OBVIOUS
  <1>1. PICK hx \in Nat, hy \in Nat, hb \in Nat : hx = x * h /\ hy = y * h /\ hb = b * h
    BY ProductType
  <1>2. (2 * h) * x = 2 * hx /\ (2 * h) * y = 2 * hy
    BY <1>1
  <1>3. (2 * x) * h = 2 * hx /\ (2 * y + b) * h = 2 * hy + hb
        /\ (2 * y) * h = 2 * hy /\ (2 * x + b) * h = 2 * hx + hb
    BY <1>1
  <1>4. 2 * x <= 2 * y + b => 2 * hx <= 2 * hy + hb
    BY <1>3, ProductMonotone
  <1>5. 2 * y <= 2 * x + b => 2 * hy <= 2 * hx + hb
    BY <1>3, ProductMonotone
  <1> QED
    BY <1>1, <1>2, <1>4, <1>5

\* A rounded fraction is a positive fraction.
LEMMA RoundType ==
    ASSUME NEW bits, NEW a, NEW b, InReach(bits, a, b)
    PROVE  \E n, d \in Nat \ {0} : RoundTo(bits, a, b) = Fraction(n, d)
  <1>1. bits \in Nat \ {0} /\ a \in Nat /\ b \in Nat \ {0}
    BY BitsAssumption DEF InReach
  <1>2. PICK h \in Nat \ {0} : h = Pow2[bits - 1]
    BY <1>1, Pow2Half
  <1>3. ASSUME NEW e \in Nat, a * Pow2[e] >= b * h,
               RoundTo(bits, a, b) = Fraction(NearestEven(a * Pow2[e], b), Pow2[e])
        PROVE  \E n, d \in Nat \ {0} : RoundTo(bits, a, b) = Fraction(n, d)
    <2>1. PICK s \in Nat \ {0} : s = Pow2[e]
      BY Pow2Type
    <2>2. a * s \in Nat /\ a * s >= h * b
      BY <1>1, <1>3, <2>1, ProductType, ProductAssociative
    <2>3. NearestEven(a * s, b) \in Nat /\ NearestEven(a * s, b) >= h
      BY <1>1, <2>2, Nearest
    <2> QED
      BY <1>3, <2>1, <2>3
  <1>4. ASSUME NEW e \in Nat \ {0}, a >= (b * Pow2[e]) * h,
               RoundTo(bits, a, b) = Fraction(NearestEven(a, b * Pow2[e]) * Pow2[e], 1)
        PROVE  \E n, d \in Nat \ {0} : RoundTo(bits, a, b) = Fraction(n, d)
    <2>1. PICK s \in Nat \ {0} : s = Pow2[e]
      BY Pow2Type
    <2>2. b * s \in Nat \ {0}
      BY <1>1, ProductType
    <2>3. a >= h * (b * s)
      BY <1>4, <2>1, <2>2, ProductAssociative
    <2>4. NearestEven(a, b * s) \in Nat /\ NearestEven(a, b * s) >= h
      BY <1>1, <2>2, <2>3, Nearest
    <2>5. NearestEven(a, b * s) * s \in Nat \ {0}
      BY <2>4, ProductType
    <2> QED
      BY <1>4, <2>1, <2>5
  <1> QED
    BY <1>2, <1>3, <1>4, Scaled

\* Rounding crosses no whole number that the significand holds.
LEMMA RoundOrder ==
    ASSUME NEW bits, NEW a, NEW b, InReach(bits, a, b),
           NEW n, NEW d, RoundTo(bits, a, b) = Fraction(n, d),
           NEW k \in 0..Pow2[bits]
    PROVE  /\ a <= k * b => n <= k * d
           /\ a >= k * b => n >= k * d
  <1>1. bits \in Nat \ {0} /\ a \in Nat /\ b \in Nat \ {0}
    BY BitsAssumption DEF InReach
  <1>2. PICK h \in Nat \ {0} : h = Pow2[bits - 1] /\ Pow2[bits] = 2 * h
    BY <1>1, Pow2Half
  <1>3. k \in Nat /\ k <= 2 * h
    BY <1>2
  <1>4. ASSUME NEW e \in Nat, a * Pow2[e] >= b * h,
               Fraction(n, d) = Fraction(NearestEven(a * Pow2[e], b), Pow2[e])
        PROVE  /\ a <= k * b => n <= k * d
               /\ a >= k * b => n >= k * d
    <2>1. PICK s \in Nat \ {0} : s = Pow2[e]
      BY Pow2Type
    <2>2. n = NearestEven(a * s, b) /\ d = s
      BY <1>4, <2>1 DEF Fraction
    <2>3. a * s \in Nat /\ k * s \in Nat /\ k * b \in Nat
      BY <1>1, <1>3, <2>1, ProductType
    <2>4. (k * b) * s = (k * s) * b
      BY <1>1, <1>3, <2>1
    <2>5. /\ a <= k * b => a * s <= (k * s) * b
          /\ a >= k * b => a * s >= (k * s) * b
      BY <1>1, <2>1, <2>3, <2>4, ProductMonotone
    <2> QED
      BY <1>1, <2>2, <2>3, <2>5, Nearest
  <1>5. ASSUME NEW e \in Nat \ {0}, a >= (b * Pow2[e]) * h,
               Fraction(n, d) = Fraction(NearestEven(a, b * Pow2[e]) * Pow2[e], 1)
        PROVE  /\ a <= k * b => n <= k * d
               /\ a >= k * b => n >= k * d
    <2>1. PICK s \in Nat : s = Pow2[e] /\ s >= 2
      BY <1>5, Pow2Half
    <2>2. PICK q \in Nat, c \in Nat \ {0} : c = b * s /\ q = NearestEven(a, c)
      <3>1. b * s \in Nat \ {0}
        BY <1>1, <2>1, ProductType
      <3> QED
        BY <1>1, <3>1, Nearest
    <2>3. n = q * s /\ d = 1
      BY <1>5, <2>1, <2>2 DEF Fraction
    <2>4. a >= h * c
      BY <1>2, <1>5, <2>1, <2>2, ProductAssociative
    <2>5. q >= h
      BY <1>1, <1>2, <2>2, <2>4, Nearest
    <2>6. h * s \in Nat /\ 2 * h <= h * s /\ h * s <= q * s /\ q * s \in Nat
      BY <1>2, <2>1, <2>2, <2>5, ProductType, ProductMonotone, ProductAssociative
    <2>7. n >= k * d
      BY <1>3, <2>3, <2>6
    <2>8. ASSUME a <= k * b
          PROVE  n <= k * d
      <3>1. h * c = (h * s) * b
        BY <1>1, <1>2, <2>1, <2>2
      <3>2. (h * s) * b <= k * b
        BY <1>1, <1>3, <2>4, <2>6, <2>8, <3>1, ProductType
      <3>3. h * s <= k
        <4>1. k < h * s => k * b + b <= (h * s) * b
          BY <1>1, <1>3, <2>6, ProductStrict
        <4> QED
          BY <1>1, <1>3, <2>6, <3>2, <4>1, ProductType
      <3>4. k = h * s
        BY <1>3, <2>6, <3>3
      <3>5. a <= h * c
        BY <2>8, <3>1, <3>4
      <3>6. q <= h
        BY <1>1, <1>2, <2>2, <3>5, Nearest
      <3>7. q * s <= h * s
        BY <1>2, <2>1, <2>2, <3>6, ProductMonotone
      <3> QED
        BY <1>3, <2>3, <2>6, <3>4, <3>7
    <2> QED
      BY <2>7, <2>8
  <1>6. \A s \in {Pow2[e] : e \in Nat} :
           RoundTo(bits, a, b) = Fraction(NearestEven(a * s, b), s) /\ a * s >= b * h
             => /\ a <= k * b => n <= k * d
                /\ a >= k * b => n >= k * d
    BY <1>4
  <1>7. \A s \in {Pow2[e] : e \in Nat \ {0}} :
           RoundTo(bits, a, b) = Fraction(NearestEven(a, b * s) * s, 1) /\ a >= (b * s) * h
             => /\ a <= k * b => n <= k * d
                /\ a >= k * b => n >= k * d
    BY <1>5
  <1> QED
    BY <1>2, <1>6, <1>7, Scaled, Zenon

\* Rounding is off by at most half a unit u in the last place of a significand;
\* times b * d, which makes everything whole.
LEMMA RoundUnit ==
    ASSUME NEW bits, NEW a, NEW b, InReach(bits, a, b),
           NEW n, NEW d, RoundTo(bits, a, b) = Fraction(n, d)
    PROVE  \E u \in Nat \ {0} :
             /\ 2 * (n * b) <= 2 * (a * d) + u
             /\ 2 * (n * b) >= 2 * (a * d) - u
             /\ u * Pow2[bits - 1] <= a * d
             /\ \/ u = b /\ \E e \in Nat : d = Pow2[e]
                \/ u >= 2 * b /\ d = 1
  <1>1. bits \in Nat \ {0} /\ a \in Nat /\ b \in Nat \ {0}
    BY BitsAssumption DEF InReach
  <1> DEFINE h == Pow2[bits - 1]
             Unit(u) == /\ 2 * (n * b) <= 2 * (a * d) + u
                        /\ 2 * (n * b) >= 2 * (a * d) - u
                        /\ u * h <= a * d
                        /\ \/ u = b /\ \E e \in Nat : d = Pow2[e]
                           \/ u >= 2 * b /\ d = 1
  <1>2. h \in Nat \ {0}
    BY <1>1, Pow2Half
  <1>3. ASSUME NEW e \in Nat, a * Pow2[e] >= b * h,
               Fraction(n, d) = Fraction(NearestEven(a * Pow2[e], b), Pow2[e])
        PROVE  Unit(b)
    <2>1. d \in Nat \ {0} /\ d = Pow2[e] /\ n = NearestEven(a * d, b)
      BY <1>3, Pow2Type DEF Fraction
    <2>2. a * d \in Nat
      BY <1>1, <2>1, ProductType
    <2>3. 2 * (n * b) <= 2 * (a * d) + b /\ 2 * (n * b) >= 2 * (a * d) - b
      BY <1>1, <2>1, <2>2, Nearest
    <2>4. b * h <= a * d
      BY <1>1, <1>2, <1>3, <2>1, <2>2, ProductType
    <2> QED
      BY <2>1, <2>3, <2>4
  <1>4. ASSUME NEW e \in Nat \ {0}, a >= (b * Pow2[e]) * h,
               Fraction(n, d) = Fraction(NearestEven(a, b * Pow2[e]) * Pow2[e], 1)
        PROVE  Unit(b * Pow2[e]) /\ b * Pow2[e] \in Nat \ {0}
    <2>1. PICK s \in Nat : s = Pow2[e] /\ s >= 2
      BY <1>4, Pow2Half
    <2>2. PICK u \in Nat \ {0} : u = b * s /\ u >= 2 * b
      <3>1. b * s \in Nat \ {0} /\ b * s >= 2 * b
        BY <1>1, <2>1, ProductType, ProductMonotone, ProductAssociative
      <3> QED
        BY <3>1
    <2>3. PICK q \in Nat : q = NearestEven(a, u)
      BY <1>1, <2>2, Nearest
    <2>4. n = q * s /\ d = 1
      BY <1>4, <2>1, <2>2, <2>3 DEF Fraction
    <2>5. n * b = q * u
      BY <1>1, <2>1, <2>2, <2>3, <2>4
    <2>6. a * d = a
      BY <1>1, <2>4
    <2>7. 2 * (q * u) <= 2 * a + u /\ 2 * (q * u) >= 2 * a - u
      BY <1>1, <2>2, <2>3, Nearest
    <2>8. u * h <= a
      BY <1>1, <1>2, <1>4, <2>1, <2>2, ProductType
    <2> HIDE DEF h
    <2> QED
      BY <2>1, <2>2, <2>4, <2>5, <2>6, <2>7, <2>8
  <1> HIDE DEF Unit
  <1>5. b \in Nat \ {0}
    BY <1>1
  <1>6. \E u \in Nat \ {0} : Unit(u)
    <2>1. \A s \in {Pow2[e] : e \in Nat} :
             RoundTo(bits, a, b) = Fraction(NearestEven(a * s, b), s) /\ a * s >= b * h
               => \E u \in Nat \ {0} : Unit(u)
      BY <1>3, <1>5
    <2>2. \A s \in {Pow2[e] : e \in Nat \ {0}} :
             RoundTo(bits, a, b) = Fraction(NearestEven(a, b * s) * s, 1)
               /\ a >= (b * s) * h
               => \E u \in Nat \ {0} : Unit(u)
      BY <1>4
    <2> QED
      BY <2>1, <2>2, Scaled, Zenon
  <1> QED
    BY <1>6 DEF Unit

\* It is off by at most one in 2^bits.
LEMMA RoundError ==
    ASSUME NEW bits, NEW a, NEW b, InReach(bits, a, b),
           NEW n \in Nat, NEW d \in Nat, RoundTo(bits, a, b) = Fraction(n, d)
    PROVE  /\ Pow2[bits] * (n * b) <= Pow2[bits] * (a * d) + a * d
           /\ Pow2[bits] * (n * b) >= Pow2[bits] * (a * d) - a * d
  <1>1. bits \in Nat \ {0} /\ a \in Nat /\ b \in Nat \ {0}
    BY BitsAssumption DEF InReach
  <1>2. PICK h \in Nat \ {0} : h = Pow2[bits - 1] /\ Pow2[bits] = 2 * h
    BY <1>1, Pow2Half
  <1>3. PICK x \in Nat, y \in Nat : x = n * b /\ y = a * d
    BY <1>1, ProductType
  <1>4. PICK u \in Nat : 2 * x <= 2 * y + u /\ 2 * x >= 2 * y - u /\ u * h <= y
    BY <1>2, <1>3, RoundUnit
  <1>5. (2 * h) * x <= (2 * h) * y + y /\ (2 * h) * x >= (2 * h) * y - y
    BY <1>4, ErrorScales
  <1> QED
    BY <1>2, <1>3, <1>5

\* A rounded fraction is never off by a factor of 2.
LEMMA RoundRoughly ==
    ASSUME NEW bits, NEW a, NEW b, InReach(bits, a, b),
           NEW n \in Nat, NEW d \in Nat, RoundTo(bits, a, b) = Fraction(n, d)
    PROVE  a * d <= 2 * (n * b) /\ n * b <= 2 * (a * d)
  <1>1. bits \in Nat \ {0} /\ a \in Nat /\ b \in Nat \ {0}
    BY BitsAssumption DEF InReach
  <1>2. PICK h \in Nat \ {0} : Pow2[bits] = 2 * h
    BY <1>1, Pow2Half
  <1>3. PICK x \in Nat, y \in Nat : x = n * b /\ y = a * d
    BY <1>1, ProductType
  <1>4. (2 * h) * x <= (2 * h) * y + y /\ (2 * h) * x >= (2 * h) * y - y
    BY <1>2, <1>3, RoundError
  <1>5. PICK hx \in Nat, hy \in Nat : hx = x * h /\ hy = y * h
    BY <1>2, ProductType
  <1>6. 2 * hx <= 2 * hy + y /\ 2 * hy <= 2 * hx + y
    BY <1>4, <1>5
  <1>7. 1 <= h => 1 * y <= h * y
    BY <1>2, ProductMonotone
  <1>8. y <= hy
    BY <1>2, <1>5, <1>7
  <1>9. 2 * y < x => (2 * y) * h + h <= x * h
    BY <1>2, ProductStrict
  <1>10. 2 * x < y => (2 * x) * h + h <= y * h
    BY <1>2, ProductStrict
  <1>11. (2 * y) * h = 2 * hy /\ (2 * x) * h = 2 * hx
    BY <1>5
  <1>12. x <= 2 * y
    BY <1>2, <1>5, <1>6, <1>8, <1>9, <1>11
  <1>13. y <= 2 * x
    BY <1>2, <1>5, <1>6, <1>8, <1>10, <1>11
  <1> QED
    BY <1>3, <1>12, <1>13

-----------------------------------------------------------------------------
\* The operations of the code

LEMMA SmallPowers == Pow2[4] = 16 /\ Pow2[7] = 128 /\ Pow2[6] = 64
  <1>1. Pow2[0 + 1] = 2 * Pow2[0] /\ Pow2[1 + 1] = 2 * Pow2[1]
        /\ Pow2[2 + 1] = 2 * Pow2[2] /\ Pow2[3 + 1] = 2 * Pow2[3]
        /\ Pow2[4 + 1] = 2 * Pow2[4] /\ Pow2[5 + 1] = 2 * Pow2[5]
        /\ Pow2[6 + 1] = 2 * Pow2[6]
    BY Pow2Next
  <1> QED
    BY <1>1, Pow2Zero

\* How the three widths compare.
LEMMA Widths ==
    /\ FloatExact \in Nat /\ FloatExact >= 128
    /\ UintMax \in Nat /\ FloatExact <= UintMax
    /\ Pow2[DoubleBits] \in Nat /\ Pow2[DoubleBits] >= 64 * FloatExact
    /\ UintMax < Pow2[DoubleBits]
    /\ Pow2[WordBits + 7] = 128 * (UintMax + 1)
    /\ Pow2[DoubleBits + 4 - FloatBits] \in Nat
    /\ Pow2[DoubleBits + 4 - FloatBits] >= 1024
  <1> USE BitsAssumption
  <1>1. FloatBits \in Nat /\ DoubleBits \in Nat /\ WordBits \in Nat
    OBVIOUS
  <1>2. PICK f \in Nat \ {0}, g \in Nat \ {0}, w \in Nat \ {0} :
          f = Pow2[FloatBits] /\ g = Pow2[DoubleBits] /\ w = Pow2[WordBits]
    BY <1>1, Pow2Type
  <1>3. f >= 128
    <2>1. 7 < FloatBits => 2 * Pow2[7] <= f
      BY <1>1, <1>2, Pow2Grows
    <2> QED
      BY <1>1, <1>2, <2>1, SmallPowers
  <1>4. 2 * f <= w
    BY <1>1, <1>2, Pow2Grows
  <1>5. w <= g
    <2>1. WordBits < DoubleBits => 2 * w <= g
      BY <1>1, <1>2, Pow2Grows
    <2> QED
      BY <1>1, <1>2, <2>1
  <1>6. g >= 64 * f
    <2>1. Pow2[FloatBits + 6] = f * 64
      <3>1. Pow2[FloatBits + 6] = Pow2[FloatBits] * Pow2[6]
        BY <1>1, 6 \in Nat, Pow2Plus, Zenon
      <3> QED
        BY <1>2, <3>1, SmallPowers
    <2>2. FloatBits + 6 < DoubleBits => 2 * Pow2[FloatBits + 6] <= g
      BY <1>1, <1>2, Pow2Grows
    <2> QED
      BY <1>1, <1>2, <2>1, <2>2
  <1>7. Pow2[WordBits + 7] = w * 128
    <2>1. Pow2[WordBits + 7] = Pow2[WordBits] * Pow2[7]
      BY <1>1, 7 \in Nat, Pow2Plus, Zenon
    <2> QED
      BY <1>2, <2>1, SmallPowers
  <1>8. Pow2[DoubleBits + 4 - FloatBits] \in Nat /\ Pow2[DoubleBits + 4 - FloatBits] >= 1024
    <2>1. Pow2[6 + 4] = 64 * 16
      <3>1. Pow2[6 + 4] = Pow2[6] * Pow2[4]
        BY 6 \in Nat, 4 \in Nat, Pow2Plus, Zenon
      <3> QED
        BY <3>1, SmallPowers
    <2>2. DoubleBits + 4 - FloatBits \in Nat /\ DoubleBits + 4 - FloatBits >= 10
      BY <1>1
    <2>3. 10 < DoubleBits + 4 - FloatBits
            => 2 * Pow2[10] <= Pow2[DoubleBits + 4 - FloatBits]
      BY <2>2, Pow2Grows
    <2> QED
      BY <2>1, <2>2, <2>3, Pow2Type
  <1> QED
    BY <1>2, <1>3, <1>4, <1>5, <1>6, <1>7, <1>8 DEF FloatExact, UintMax

LEMMA FloatReach ==
    ASSUME NEW a \in Nat \ {0}, NEW b \in Nat \ {0},
           b <= 1024 * a, a < b * (128 * (UintMax + 1))
    PROVE  InReach(FloatBits, a, b)
  <1>1. 1024 * a <= Pow2[DoubleBits + 4 - FloatBits] * a
    BY Widths, ProductMonotone
  <1>2. Pow2[DoubleBits + 4 - FloatBits] * a = a * Pow2[DoubleBits + 4 - FloatBits]
        /\ Pow2[DoubleBits + 4 - FloatBits] * a \in Nat
    BY Widths, ProductAssociative, ProductType
  <1> QED
    BY <1>1, <1>2, Widths DEF InReach

LEMMA DoubleReach ==
    ASSUME NEW a \in Nat \ {0}, NEW b \in Nat \ {0},
           b <= 16 * a, a < b * (128 * (UintMax + 1))
    PROVE  InReach(DoubleBits, a, b)
  <1>1. DoubleBits + 4 - DoubleBits = 4
    BY BitsAssumption
  <1> QED
    BY <1>1, Widths, SmallPowers DEF InReach

\* The smallest whole number above a fraction.
LEMMA CeilBounds ==
    ASSUME NEW n \in Nat, NEW d \in Nat \ {0}
    PROVE  /\ Ceil(Fraction(n, d)) \in Nat
           /\ Ceil(Fraction(n, d)) * d >= n
           /\ \A k \in Nat : n <= k * d => Ceil(Fraction(n, d)) <= k
  <1>1. Ceil(Fraction(n, d)) = (n + d - 1) \div d /\ n + d - 1 \in Nat
    BY DEF Ceil, Fraction
  <1>2. PICK q \in Nat, r \in 0..(d - 1) :
          q = (n + d - 1) \div d /\ n + d - 1 = q * d + r
    BY <1>1, Quotient
  <1>3. PICK p \in Nat : p = q * d
    BY ProductType
  <1>4. p >= n
    BY <1>2, <1>3
  <1>5. \A k \in Nat : k < q => k * d + d <= p
    BY <1>3, ProductStrict
  <1>6. ASSUME NEW k \in Nat, n <= k * d
        PROVE  q <= k
    <2>1. k * d \in Nat
      BY ProductType
    <2> QED
      BY <1>2, <1>3, <1>5, <1>6, <2>1
  <1> QED
    BY <1>1, <1>2, <1>3, <1>4, <1>6

\* A fraction rounded to the nearest whole number.
LEMMA RoundBounds ==
    ASSUME NEW n \in Nat, NEW d \in Nat \ {0}
    PROVE  /\ Round(Fraction(n, d)) \in Nat
           /\ 2 * (Round(Fraction(n, d)) * d) <= 2 * n + d
           /\ 2 * (Round(Fraction(n, d)) * d) >= 2 * n - d
           /\ \A k \in Nat : n >= k * d => Round(Fraction(n, d)) >= k
  <1> DEFINE e == 2 * d
  <1>1. Round(Fraction(n, d)) = (2 * n + d) \div e /\ e \in Nat \ {0}
    BY DEF Round, Fraction
  <1>2. PICK q \in Nat, r \in Nat :
          q = (2 * n + d) \div e /\ 2 * n + d = q * e + r /\ r < e
    <2>1. PICK m \in Nat : m = 2 * n + d
      OBVIOUS
    <2> HIDE DEF e
    <2>2. e \in Nat \ {0}
      BY <1>1
    <2>3. m \div e \in Nat /\ m % e \in 0..(e - 1) /\ m = (m \div e) * e + (m % e)
      BY <2>1, <2>2, Quotient, Zenon
    <2>4. m % e \in Nat /\ m % e < e
      BY <2>2, <2>3
    <2> QED
      BY <2>1, <2>3, <2>4
  <1>3. PICK p \in Nat : p = q * d
    BY ProductType
  <1>4. q * (2 * d) = 2 * p
    BY <1>3
  <1>5. 2 * p <= 2 * n + d /\ 2 * p >= 2 * n - d
    BY <1>2, <1>4
  <1>6. \A k \in Nat : q < k => p + d <= k * d
    BY <1>3, ProductStrict
  <1>7. ASSUME NEW k \in Nat, n >= k * d
        PROVE  q >= k
    <2>1. k * d \in Nat
      BY ProductType
    <2> QED
      BY <1>2, <1>3, <1>4, <1>6, <1>7, <2>1
  <1> QED
    BY <1>1, <1>2, <1>3, <1>5, <1>7

\* A word as a float.
LEMMA WordAsFloat ==
    ASSUME NEW a \in 1..UintMax
    PROVE  \E n, d \in Nat \ {0} :
             /\ ToFloat(a) = Fraction(n, d)
             /\ d <= n
             /\ n <= (2 * a) * d
             /\ a <= FloatExact => n = a /\ d = 1
  <1>1. CASE a <= FloatExact
    <2>1. ToFloat(a) = Fraction(a, 1) /\ a \in Nat \ {0} /\ 1 \in Nat \ {0}
      BY <1>1, Widths DEF ToFloat
    <2>2. 1 <= a /\ a <= (2 * a) * 1
      OBVIOUS
    <2> QED
      BY <2>1, <2>2
  <1>2. CASE a > FloatExact
    <2>1. ToFloat(a) = RoundTo(FloatBits, a, 1)
      BY <1>2, Widths DEF ToFloat
    <2>2. InReach(FloatBits, a, 1)
      BY Widths, FloatReach
    <2>3. PICK n \in Nat \ {0}, d \in Nat \ {0} : ToFloat(a) = Fraction(n, d)
      BY <2>1, <2>2, RoundType
    <2>4. 1 \in 0..Pow2[FloatBits]
      BY Widths DEF FloatExact
    <2>5. n >= 1 * d
      BY <2>1, <2>2, <2>3, <2>4, RoundOrder
    <2>6. n * 1 <= 2 * (a * d)
      BY <2>1, <2>2, <2>3, RoundRoughly
    <2>7. d <= n /\ n <= (2 * a) * d
      BY <2>5, <2>6
    <2> QED
      BY <1>2, <2>3, <2>7, Widths
  <1> QED
    BY <1>1, <1>2, Widths

\* A smaller factor loses less.
LEMMA ErrorShrinks ==
    ASSUME NEW p \in Nat, NEW q \in Nat, p <= q,
           NEW x \in Nat, NEW y \in Nat, NEW z \in Nat
    PROVE  /\ q * x <= q * y + z => p * x <= p * y + z
           /\ q * x >= q * y - z => p * x >= p * y - z
  <1>1. ASSUME NEW u \in Nat, NEW v \in Nat, q * u <= q * v + z
        PROVE  p * u <= p * v + z
    <2>1. CASE u <= v
      <3>1. p * u <= p * v
        BY <2>1, ProductMonotone, ProductAssociative
      <3> QED
        BY <3>1, ProductType
    <2>2. CASE u > v
      <3>1. PICK k \in Nat : u = v + k
        <4>1. u - v \in Nat /\ u = v + (u - v)
          BY <2>2
        <4> QED
          BY <4>1
      <3>2. PICK pv \in Nat, qv \in Nat, pk \in Nat, qk \in Nat :
              pv = p * v /\ qv = q * v /\ pk = p * k /\ qk = q * k
        BY ProductType
      <3>3. p * u = pv + pk /\ q * u = qv + qk
        BY <3>1, <3>2
      <3>4. pk <= qk
        BY <3>2, ProductMonotone
      <3> QED
        BY <1>1, <3>2, <3>3, <3>4
    <2> QED
      BY <2>1, <2>2
  <1>2. p * x \in Nat /\ p * y \in Nat /\ q * x \in Nat /\ q * y \in Nat
    BY ProductType
  <1>3. q * x >= q * y - z => q * y <= q * x + z
    BY <1>2
  <1>4. q * x >= q * y - z => p * y <= p * x + z
    BY <1>1, <1>3
  <1> QED
    BY <1>1, <1>2, <1>4

LEMMA Cancel ==
    \A a, b \in Nat, c \in Nat \ {0} : a * c <= b * c => a <= b
  <1> SUFFICES ASSUME NEW a \in Nat, NEW b \in Nat, NEW c \in Nat \ {0}, b < a
               PROVE  ~(a * c <= b * c)
    OBVIOUS
  <1>1. b * c + c <= a * c /\ a * c \in Nat /\ b * c \in Nat
    BY ProductStrict, ProductType
  <1> QED
    BY <1>1

\* The double that is read for a yield.
LEMMA YieldReadReach ==
    ASSUME NEW y \in 10..100
    PROVE  InReach(DoubleBits, y, 100)
  BY Widths, DoubleReach

LEMMA YieldRead ==
    ASSUME NEW y \in 10..100
    PROVE  \E n, d \in Nat \ {0} :
             /\ RoundTo(DoubleBits, y, 100) = Fraction(n, d)
             /\ n <= d
             /\ d <= 20 * n
             /\ y = 100 => n = d
  <1>1. InReach(DoubleBits, y, 100)
    BY YieldReadReach
  <1>2. PICK n \in Nat \ {0}, d \in Nat \ {0} :
          RoundTo(DoubleBits, y, 100) = Fraction(n, d)
    BY <1>1, RoundType
  <1>3. 1 \in 0..Pow2[DoubleBits]
    BY Widths
  <1>4. n <= 1 * d
    BY <1>1, <1>2, <1>3, RoundOrder
  <1>5. y = 100 => n >= 1 * d
    BY <1>1, <1>2, <1>3, RoundOrder
  <1>6. y * d <= 2 * (n * 100)
    BY <1>1, <1>2, RoundRoughly
  <1>7. 10 * d <= y * d
    BY ProductMonotone
  <1>8. y * d \in Nat
    BY ProductType
  <1>9. d <= 20 * n
    BY <1>6, <1>7, <1>8
  <1> QED
    BY <1>2, <1>4, <1>5, <1>9

LEMMA YieldFloatReach ==
    ASSUME NEW n \in Nat \ {0}, NEW d \in Nat \ {0}, n <= d, d <= 20 * n
    PROVE  InReach(FloatBits, n, d)
  <1>1. d * (128 * (UintMax + 1)) = 128 * (d * UintMax) + 128 * d /\ d * UintMax \in Nat
    BY Widths, ProductType
  <1>2. n < d * (128 * (UintMax + 1))
    BY <1>1
  <1> QED
    BY <1>2, FloatReach

\* And the float made of it.
LEMMA YieldFloat ==
    ASSUME NEW y \in 10..100
    PROVE  \E m, c, n, d \in Nat \ {0} :
             /\ RoundTo(DoubleBits, y, 100) = Fraction(m, c)
             /\ m <= c
             /\ InReach(FloatBits, m, c)
             /\ RoundTo(FloatBits, m, c) = Fraction(n, d)
             /\ YieldFraction(y) = Fraction(n, d)
             /\ n <= d
             /\ d <= 40 * n
             /\ y = 100 => m = c /\ n = d
  <1>1. PICK m \in Nat \ {0}, c \in Nat \ {0} :
          /\ RoundTo(DoubleBits, y, 100) = Fraction(m, c)
          /\ m <= c
          /\ c <= 20 * m
          /\ y = 100 => m = c
    BY YieldRead
  <1>2. InReach(FloatBits, m, c)
    BY <1>1, YieldFloatReach
  <1>3. PICK n \in Nat \ {0}, d \in Nat \ {0} : RoundTo(FloatBits, m, c) = Fraction(n, d)
    BY <1>2, RoundType
  <1>4. YieldFraction(y) = Fraction(n, d)
    BY <1>1, <1>3, FractionFields DEF YieldFraction
  <1>5. 1 \in 0..Pow2[FloatBits]
    BY Widths DEF FloatExact
  <1>6. m <= 1 * c => n <= 1 * d
    BY <1>2, <1>3, <1>5, RoundOrder
  <1>7. m >= 1 * c => n >= 1 * d
    BY <1>2, <1>3, <1>5, RoundOrder
  <1>8. m * d <= 2 * (n * c)
    BY <1>2, <1>3, RoundRoughly
  <1>9. d <= 40 * n
    <2>1. PICK nm \in Nat, nc \in Nat, dm \in Nat : nm = n * m /\ nc = n * c /\ dm = d * m
      BY ProductType
    <2>2. nc <= 20 * nm
      <3>1. c * n <= (20 * m) * n
        BY <1>1, ProductMonotone
      <3> QED
        BY <2>1, <3>1
    <2>3. d * m <= (40 * n) * m
      BY <1>8, <2>1, <2>2
    <2> QED
      BY <2>3, Cancel
  <1> QED
    BY <1>1, <1>2, <1>3, <1>4, <1>6, <1>7, <1>9

\* How far it is from the percentage, relative to the percentage.
RatioNear(y, n, d) ==
    /\ 6400 * (FloatExact * n) <= 64 * (FloatExact * (y * d)) + 66 * (y * d)
    /\ 6400 * (FloatExact * n) + 66 * (y * d) >= 64 * (FloatExact * (y * d))

LEMMA YieldRelativeError ==
    ASSUME NEW y \in 10..100, NEW n \in Nat \ {0}, NEW d \in Nat \ {0},
           YieldFraction(y) = Fraction(n, d)
    PROVE  RatioNear(y, n, d)
  <1>1. PICK m \in Nat \ {0}, c \in Nat \ {0} :
          /\ RoundTo(DoubleBits, y, 100) = Fraction(m, c)
          /\ InReach(FloatBits, m, c)
          /\ RoundTo(FloatBits, m, c) = Fraction(n, d)
    <2>1. PICK m, c, n2, d2 \in Nat \ {0} :
            /\ RoundTo(DoubleBits, y, 100) = Fraction(m, c)
            /\ m <= c
            /\ InReach(FloatBits, m, c)
            /\ RoundTo(FloatBits, m, c) = Fraction(n2, d2)
            /\ YieldFraction(y) = Fraction(n2, d2)
            /\ n2 <= d2
            /\ d2 <= 40 * n2
            /\ y = 100 => m = c /\ n2 = d2
      BY YieldFloat, Zenon
    <2>2. n = n2 /\ d = d2
      BY <2>1 DEF Fraction
    <2> QED
      BY <2>1, <2>2, Zenon
  <1>2. PICK f \in Nat : f = FloatExact /\ f >= 128
    BY Widths
  <1>3. PICK mc \in Nat, yc \in Nat : mc = m * 100 /\ yc = y * c
    BY ProductType
  <1>4. (64 * f) * mc <= (64 * f) * yc + yc /\ (64 * f) * mc >= (64 * f) * yc - yc
    <2>1. InReach(DoubleBits, y, 100)
      BY YieldReadReach
    <2>2. Pow2[DoubleBits] * mc <= Pow2[DoubleBits] * yc + yc
          /\ Pow2[DoubleBits] * mc >= Pow2[DoubleBits] * yc - yc
      BY <1>1, <1>3, <2>1, RoundError
    <2>3. 64 * f \in Nat /\ 64 * f <= Pow2[DoubleBits] /\ Pow2[DoubleBits] \in Nat
      BY <1>2, Widths
    <2> QED
      BY <2>2, <2>3, ErrorShrinks
  <1>5. f * (n * c) <= f * (m * d) + m * d /\ f * (n * c) >= f * (m * d) - m * d
    BY <1>1, <1>2, RoundError DEF FloatExact
  <1>6. PICK md \in Nat, fmd \in Nat, fnc \in Nat, yd \in Nat, fyd \in Nat, fn \in Nat :
          /\ md = m * d /\ fmd = f * md /\ fnc = fn * c
          /\ yd = y * d /\ fyd = f * yd /\ fn = f * n
    <2>1. m * d \in Nat /\ y * d \in Nat /\ f * n \in Nat
      BY ProductType
    <2>2. f * (m * d) \in Nat /\ f * (y * d) \in Nat /\ (f * n) * c \in Nat
      BY <2>1, ProductType
    <2> QED
      BY <2>1, <2>2
  <1>7. fnc <= fmd + md /\ fnc + md >= fmd
    <2>1. f * (n * c) = fnc /\ f * (m * d) = fmd
      BY <1>6, ProductAssociative
    <2> QED
      BY <1>5, <1>6, <2>1
  \* Both errors times d and f.
  <1>8. PICK ffmd \in Nat, fydc \in Nat, ydc \in Nat, ffydc \in Nat :
          ffmd = f * fmd /\ fydc = fyd * c /\ ydc = yd * c /\ ffydc = f * fydc
    <2>1. f * fmd \in Nat /\ fyd * c \in Nat /\ yd * c \in Nat
      BY ProductType
    <2> QED
      BY <2>1, ProductType
  <1>9. 6400 * fmd <= 64 * fydc + ydc /\ 6400 * fmd + ydc >= 64 * fydc
    <2>1. PICK mm \in Nat, yy \in Nat : mm = (64 * f) * mc /\ yy = (64 * f) * yc
      BY <1>3, ProductType
    <2>2. mm <= yy + yc /\ yy <= mm + yc
      BY <1>4, <2>1
    <2>3. mm * d <= (yy + yc) * d /\ yy * d <= (mm + yc) * d
      BY <2>2, ProductMonotone
    <2>4. mm * d = 6400 * fmd
      BY <1>3, <1>6, <2>1
    <2>5. yy * d = 64 * fydc /\ yc * d = ydc
      BY <1>3, <1>6, <1>8, <2>1
    <2>6. (yy + yc) * d = yy * d + yc * d /\ (mm + yc) * d = mm * d + yc * d
      OBVIOUS
    <2> QED
      BY <2>3, <2>4, <2>5, <2>6
  <1>10. 6400 * ffmd <= 64 * ffydc + fydc /\ 6400 * ffmd + fydc >= 64 * ffydc
    <2>1. (6400 * fmd) * f <= (64 * fydc + ydc) * f
          /\ (64 * fydc) * f <= (6400 * fmd + ydc) * f
      BY <1>9, ProductMonotone
    <2>2. f * ydc = fydc
      BY <1>6, <1>8
    <2>3. /\ (6400 * fmd) * f = 6400 * ffmd
          /\ (64 * fydc + ydc) * f = 64 * ffydc + f * ydc
          /\ (64 * fydc) * f = 64 * ffydc
          /\ (6400 * fmd + ydc) * f = 6400 * ffmd + f * ydc
      BY <1>8
    <2> QED
      BY <2>1, <2>2, <2>3
  <1>11. ydc <= fydc
    <2>1. f * ydc = fydc
      BY <1>6, <1>8
    <2>2. 1 * ydc <= f * ydc
      BY <1>2, ProductMonotone
    <2> QED
      BY <2>1, <2>2
  <1>12. PICK ffnc \in Nat : ffnc = f * fnc /\ ffnc <= ffmd + fmd /\ ffnc + fmd >= ffmd
    <2>1. fnc * f <= (fmd + md) * f /\ fmd * f <= (fnc + md) * f
      BY <1>7, ProductMonotone
    <2>2. (fmd + md) * f = ffmd + fmd /\ (fnc + md) * f = f * fnc + fmd /\ fmd * f = ffmd
      BY <1>6, <1>8
    <2>3. f * fnc \in Nat /\ fnc * f = f * fnc
      BY ProductType, ProductAssociative
    <2> QED
      BY <2>1, <2>2, <2>3
  <1>13. 6400 * ffnc <= 64 * ffydc + 66 * fydc /\ 6400 * ffnc + 66 * fydc >= 64 * ffydc
    BY <1>9, <1>10, <1>11, <1>12
  <1>14. /\ 6400 * ffnc = (6400 * fn) * (f * c)
         /\ 64 * ffydc = (64 * fyd) * (f * c)
         /\ fydc = yd * (f * c)
    BY <1>6, <1>8, <1>12
  <1>15. f * c \in Nat \ {0}
    BY <1>2, ProductType
  <1>16. /\ (6400 * fn) * (f * c) <= (64 * fyd + 66 * yd) * (f * c)
         /\ (64 * fyd) * (f * c) <= (6400 * fn + 66 * yd) * (f * c)
    <2>1. PICK g \in Nat : g = f * c
      BY <1>15
    <2>2. PICK i \in Nat, j \in Nat, k \in Nat : i = fyd * g /\ j = yd * g /\ k = fn * g
      BY <2>1, ProductType
    <2>3. /\ (64 * fyd) * g = 64 * i
          /\ (6400 * fn) * g = 6400 * k
          /\ (64 * fyd + 66 * yd) * g = 64 * i + 66 * j
          /\ (6400 * fn + 66 * yd) * g = 6400 * k + 66 * j
      BY <2>2
    <2> QED
      BY <1>13, <1>14, <2>1, <2>2, <2>3
  <1>17. 6400 * fn <= 64 * fyd + 66 * yd /\ 64 * fyd <= 6400 * fn + 66 * yd
    BY <1>15, <1>16, Cancel
  <1> QED
    BY <1>2, <1>6, <1>17 DEF RatioNear

\* The units of a dispatch whose allotment is a float: at most the allotment, the
\* share that is not yielded, and all of it when nothing is.
LEMMA LimitKeepsShare ==
    ASSUME NEW a \in 1..FloatExact, NEW y \in 10..100
    PROVE  \E limit \in 1..a :
             /\ EarlyLimits(a, y) = {limit}
             /\ KeepsShare(limit, a, y)
             /\ y = 100 => limit = a
  <1>1. PICK n \in Nat \ {0}, d \in Nat \ {0} :
          /\ YieldFraction(y) = Fraction(n, d)
          /\ n <= d
          /\ d <= 40 * n
          /\ y = 100 => n = d
    BY YieldFloat
  <1>2. PICK f \in Nat : f = FloatExact /\ f >= 128 /\ f <= UintMax
    BY Widths
  <1>3. PICK an \in Nat \ {0} : an = a * n
    BY ProductType
  <1>4. Times(ToFloat(a), YieldFraction(y)) = RoundTo(FloatBits, an, d)
    <2>1. ToFloat(a) = Fraction(a, 1)
      BY DEF ToFloat
    <2>2. 1 * d = d
      OBVIOUS
    <2> QED
      BY <1>1, <1>3, <2>1, <2>2 DEF Times, Fraction
  <1>5. an <= a * d /\ a * d <= f * d /\ a * d \in Nat /\ f * d \in Nat
    <2>1. n * a <= d * a
      BY <1>1, ProductMonotone
    <2> QED
      BY <1>2, <1>3, <2>1, ProductMonotone, ProductType, ProductAssociative
  <1>6. InReach(FloatBits, an, d)
    <2>1. n <= an
      <3>1. 1 * n <= a * n
        BY ProductMonotone
      <3> QED
        BY <1>3, <3>1
    <2>2. f * d <= UintMax * d /\ UintMax * d \in Nat
      BY <1>2, Widths, ProductMonotone, ProductType
    <2>3. d * (128 * (UintMax + 1)) = 128 * (UintMax * d) + 128 * d
      BY Widths
    <2>4. d <= 1024 * an /\ an < d * (128 * (UintMax + 1))
      BY <1>1, <1>5, <2>1, <2>2, <2>3
    <2> QED
      BY <2>4, FloatReach
  <1>7. PICK vn \in Nat \ {0}, vd \in Nat \ {0} : RoundTo(FloatBits, an, d) = Fraction(vn, vd)
    BY <1>6, RoundType
  <1>8. a \in 0..Pow2[FloatBits] /\ a \in Nat
    BY Widths DEF FloatExact
  <1>9. vn <= a * vd
    BY <1>5, <1>6, <1>7, <1>8, RoundOrder
  <1>10. y = 100 => vn >= a * vd
    <2>1. y = 100 => an >= a * d
      BY <1>1, <1>3
    <2> QED
      BY <1>6, <1>7, <1>8, <2>1, RoundOrder
  <1>11. PICK c \in Nat : /\ c = Ceil(Fraction(vn, vd))
                          /\ c * vd >= vn
                          /\ \A k \in Nat : vn <= k * vd => c <= k
    BY <1>7, CeilBounds
  <1>12. c \in 1..a
    <2>1. c <= a
      BY <1>8, <1>9, <1>11
    <2>2. c # 0
      BY <1>7, <1>11
    <2> QED
      BY <2>1, <2>2
  <1>13. EarlyLimits(a, y) = {c}
    <2>1. ToUint(c) = {c}
      <3>1. c <= UintMax
        BY <1>2, <1>12, Widths
      <3> QED
        BY <3>1 DEF ToUint
    <2>2. AtLeastOne(c) = c
      BY <1>12 DEF AtLeastOne
    <2> QED
      BY <1>4, <1>7, <1>11, <2>1, <2>2 DEF EarlyLimits
  <1>14. y = 100 => c = a
    <2>1. y = 100 => a * vd <= c * vd
      BY <1>9, <1>10, <1>11, ProductType
    <2>2. y = 100 => a <= c
      BY <1>8, <2>1, Cancel
    <2> QED
      BY <1>12, <2>2
  <1>15. KeepsShare(c, a, y)
    <2>1. PICK share \in Nat : share = a * y
      BY ProductType
    <2>2. PICK shared \in Nat, fan \in Nat, fshared \in Nat :
            shared = share * d /\ fan = f * an /\ fshared = f * shared
      <3>1. share * d \in Nat
        BY ProductType
      <3> QED
        BY <3>1, ProductType
    \* The exact product of the two floats.
    <2>3. 6400 * fan <= 64 * fshared + 66 * shared
          /\ 64 * fshared <= 6400 * fan + 66 * shared
      <3>1. PICK fn \in Nat, yd \in Nat, fyd \in Nat :
              fn = f * n /\ yd = y * d /\ fyd = f * yd
        BY ProductType
      <3>2. 6400 * fn <= 64 * fyd + 66 * yd /\ 64 * fyd <= 6400 * fn + 66 * yd
        <4>1. RatioNear(y, n, d)
          BY <1>1, YieldRelativeError, Zenon
        <4> QED
          BY <1>2, <3>1, <4>1 DEF RatioNear
      <3>3. (6400 * fn) * a <= (64 * fyd + 66 * yd) * a
            /\ (64 * fyd) * a <= (6400 * fn + 66 * yd) * a
        BY <1>8, <3>2, ProductMonotone
      <3>4. fn * a = fan /\ yd * a = shared /\ fyd * a = fshared
        BY <1>3, <1>8, <2>1, <2>2, <3>1
      <3>5. /\ (6400 * fn) * a = 6400 * (fn * a)
            /\ (64 * fyd + 66 * yd) * a = 64 * (fyd * a) + 66 * (yd * a)
            /\ (64 * fyd) * a = 64 * (fyd * a)
            /\ (6400 * fn + 66 * yd) * a = 6400 * (fn * a) + 66 * (yd * a)
        BY <1>8
      <3> QED
        BY <3>3, <3>4, <3>5
    \* Its rounding to a float, and to a whole number.
    <2>4. PICK cd \in Nat, fcd \in Nat, fd \in Nat : cd = c * d /\ fcd = f * cd /\ fd = f * d
      BY ProductType
    <2>5. fan <= fcd + an /\ fcd <= fan + an + fd
      <3>1. PICK anv \in Nat, vnd \in Nat, cdv \in Nat, dv \in Nat :
              anv = an * vd /\ vnd = vn * d /\ cdv = cd * vd /\ dv = d * vd
        BY ProductType
      <3>2. PICK fanv \in Nat, fvnd \in Nat, fcdv \in Nat, fdv \in Nat :
              fanv = f * anv /\ fvnd = f * vnd /\ fcdv = f * cdv /\ fdv = f * dv
        BY ProductType
      <3>3. fvnd <= fanv + anv /\ fanv <= fvnd + anv
        <4>1. /\ f * (vn * d) <= f * (an * vd) + an * vd
              /\ f * (vn * d) >= f * (an * vd) - an * vd
          BY <1>2, <1>6, <1>7, RoundError DEF FloatExact
        <4> QED
          BY <3>1, <3>2, <4>1
      <3>4. vnd <= cdv /\ cdv <= vnd + dv
        <4>1. PICK cv \in Nat : cv = c * vd
          BY ProductType
        <4>2. cv <= vn + vd
          <5>1. c - 1 \in Nat /\ (c - 1) * vd = cv - vd
            BY <1>12, <4>1
          <5>2. ~(vn <= (c - 1) * vd)
            BY <1>11, <5>1
          <5> QED
            BY <4>1, <5>1, <5>2
        <4>3. vn * d <= cv * d /\ cv * d <= (vn + vd) * d
          BY <1>11, <4>1, <4>2, ProductMonotone
        <4>4. cv * d = cdv /\ (vn + vd) * d = vnd + dv
          BY <2>4, <3>1, <4>1
        <4> QED
          BY <3>1, <4>3, <4>4
      <3>5. fvnd <= fcdv /\ fcdv <= fvnd + fdv
        <4>1. vnd * f <= cdv * f /\ cdv * f <= (vnd + dv) * f
          BY <1>2, <3>4, ProductMonotone
        <4>2. (vnd + dv) * f = fvnd + fdv /\ vnd * f = fvnd /\ cdv * f = fcdv
          BY <1>2, <3>2
        <4> QED
          BY <4>1, <4>2
      <3>6. fanv <= fcdv + anv /\ fcdv <= fanv + anv + fdv
        BY <3>3, <3>5
      <3>7. fan * vd = fanv /\ fcd * vd = fcdv /\ fd * vd = fdv
        BY <1>2, <2>2, <2>4, <3>1, <3>2
      <3>8. (fcd + an) * vd = fcd * vd + anv /\ (fan + an + fd) * vd = fan * vd + anv + fd * vd
        BY <3>1
      <3> QED
        BY <3>6, <3>7, <3>8, Cancel
    <2>6. 6400 * an <= 65 * shared
      <3>1. 66 * shared <= fshared
        BY <1>2, <2>2, ProductMonotone
      <3>2. 6400 * fan <= 65 * fshared
        BY <2>3, <3>1
      <3>3. (6400 * an) * f = 6400 * fan /\ (65 * shared) * f = 65 * fshared
        BY <1>2, <2>2
      <3> QED
        BY <1>2, <3>2, <3>3, Cancel
    <2>7. 64 * fshared <= 6400 * fcd + 131 * shared
          /\ 6400 * fcd <= 64 * fshared + 131 * shared + 6400 * fd
      BY <2>3, <2>5, <2>6
    <2>8. PICK fc \in Nat, fs \in Nat : fc = f * c /\ fs = f * share
      BY <1>2, ProductType
    <2>9. fcd = fc * d /\ fshared = fs * d
      BY <1>2, <2>2, <2>4, <2>8
    <2>10. 64 * fs <= 6400 * fc + 131 * share /\ 6400 * fc <= 64 * fs + 131 * share + 6400 * f
      <3>1. /\ (64 * fs) * d = 64 * fshared
            /\ (6400 * fc + 131 * share) * d = 6400 * fcd + 131 * shared
            /\ (6400 * fc) * d = 6400 * fcd
            /\ (64 * fs + 131 * share + 6400 * f) * d = 64 * fshared + 131 * shared + 6400 * fd
        BY <1>2, <2>2, <2>4, <2>9
      <3> QED
        BY <1>2, <2>7, <3>1, Cancel
    <2>11. f * (100 * c - share) = 100 * fc - fs
      BY <1>2, <2>8
    <2>12. f * (100 * c - share) \in -(3 * share) .. 100 * f + 3 * share
      BY <2>10, <2>11
    <2> QED
      BY <1>2, <2>1, <2>12 DEF KeepsShare
  <1> QED
    BY <1>12, <1>13, <1>14, <1>15

\* The quotient of the tickets by the yield.
LEMMA BoostQuotient ==
    ASSUME NEW t \in 1..UintMax, NEW y \in 10..100
    PROVE  \E n, d, vn, vd \in Nat \ {0} :
             /\ YieldFraction(y) = Fraction(n, d)
             /\ n <= d
             /\ InReach(DoubleBits, t * d, n)
             /\ RoundTo(DoubleBits, t * d, n) = Fraction(vn, vd)
             /\ Over(DoubleBits, Fraction(t, 1), YieldFraction(y)) = Fraction(vn, vd)
  <1>1. PICK n \in Nat \ {0}, d \in Nat \ {0} :
          YieldFraction(y) = Fraction(n, d) /\ n <= d /\ d <= 40 * n
    BY YieldFloat
  <1>2. t \in Nat \ {0} /\ t <= UintMax /\ UintMax \in Nat
    BY Widths
  <1>3. PICK td \in Nat \ {0} : td = t * d
    BY <1>2, ProductType
  <1>4. InReach(DoubleBits, td, n)
    <2>1. d <= td
      <3>1. 1 * d <= t * d
        BY <1>2, ProductMonotone
      <3> QED
        BY <1>3, <3>1
    <2>2. PICK un \in Nat : un = UintMax * n
      BY <1>2, ProductType
    <2>3. td <= 40 * un
      <3>1. t * d <= UintMax * d
        BY <1>2, ProductMonotone
      <3>2. d * UintMax <= (40 * n) * UintMax
        BY <1>1, <1>2, ProductMonotone
      <3>3. UintMax * d = d * UintMax /\ (40 * n) * UintMax = 40 * un
        BY <1>2, <2>2
      <3>4. UintMax * d \in Nat
        BY <1>2, ProductType
      <3> QED
        BY <1>3, <3>1, <3>2, <3>3, <3>4
    <2>4. n * (128 * (UintMax + 1)) = 128 * un + 128 * n
      BY <1>2, <2>2
    <2>5. n <= 16 * td /\ td < n * (128 * (UintMax + 1))
      BY <1>1, <2>1, <2>3, <2>4
    <2> QED
      BY <2>5, DoubleReach
  <1>5. PICK vn \in Nat \ {0}, vd \in Nat \ {0} : RoundTo(DoubleBits, td, n) = Fraction(vn, vd)
    BY <1>4, RoundType
  <1>6. Over(DoubleBits, Fraction(t, 1), YieldFraction(y)) = RoundTo(DoubleBits, td, n)
    <2>1. 1 * n = n
      OBVIOUS
    <2> QED
      BY <1>1, <1>3, <2>1 DEF Over, Fraction
  <1> QED
    BY <1>1, <1>3, <1>4, <1>5, <1>6, Zenon

\* A boost is a word, and no less than the tickets.
LEMMA BoostType ==
    ASSUME NEW t \in 1..UintMax, NEW y \in 10..100
    PROVE  Boost(t, y) \in t..UintMax
  <1>1. PICK n, d, vn, vd \in Nat \ {0} :
          /\ YieldFraction(y) = Fraction(n, d)
          /\ n <= d
          /\ InReach(DoubleBits, t * d, n)
          /\ RoundTo(DoubleBits, t * d, n) = Fraction(vn, vd)
          /\ Over(DoubleBits, Fraction(t, 1), YieldFraction(y)) = Fraction(vn, vd)
    BY BoostQuotient, Zenon
  <1>2. t \in Nat /\ t \in 0..Pow2[DoubleBits] /\ UintMax \in Nat
    BY Widths
  <1>3. t * d >= t * n
    BY <1>1, <1>2, ProductMonotone, ProductAssociative
  <1>4. vn >= t * vd
    BY <1>1, <1>2, <1>3, RoundOrder
  <1>5. Round(Fraction(vn, vd)) \in Nat /\ Round(Fraction(vn, vd)) >= t
    BY <1>1, <1>2, <1>4, RoundBounds
  <1> QED
    BY <1>1, <1>2, <1>5 DEF Boost

\* The two errors of a quotient close to 100 q / y make it one close to
\* 107 q / f; p is y times the quotient.
LEMMA QuotientNear ==
    ASSUME NEW f \in Nat, f >= 128, NEW p \in Nat, NEW q \in Nat,
           (64 * f - 66) * p <= 100 * ((64 * f + 1) * q),
           (64 * f + 66) * p >= 100 * ((64 * f - 1) * q)
    PROVE  f * p <= 100 * (f * q) + 107 * q /\ f * p + 107 * q >= 100 * (f * q)
  <1>1. PICK fp \in Nat, fq \in Nat : fp = f * p /\ fq = f * q
    BY ProductType
  <1>2. 64 * fp - 66 * p <= 6400 * fq + 100 * q
    <2>1. (64 * f - 66) * p = 64 * fp - 66 * p /\ 100 * ((64 * f + 1) * q) = 6400 * fq + 100 * q
      BY <1>1
    <2> QED
      BY <2>1
  <1>3. 64 * fp + 66 * p >= 6400 * fq - 100 * q
    <2>1. (64 * f + 66) * p = 64 * fp + 66 * p /\ 100 * ((64 * f - 1) * q) = 6400 * fq - 100 * q
      BY <1>1
    <2> QED
      BY <2>1
  <1>4. CASE p <= 100 * q
    <2>1. p * f <= (100 * q) * f
      BY <1>4, ProductMonotone
    <2>2. fp <= 100 * fq
      BY <1>1, <2>1
    <2>3. 64 * fp + 6700 * q >= 6400 * fq
      BY <1>3, <1>4
    <2> QED
      BY <1>1, <2>2, <2>3
  <1>5. CASE p > 100 * q
    <2>1. PICK k \in Nat : p = 100 * q + k
      <3>1. p - 100 * q \in Nat /\ p = 100 * q + (p - 100 * q)
        BY <1>5
      <3> QED
        BY <3>1
    <2>2. PICK fk \in Nat : fk = f * k
      BY ProductType
    <2>3. fp = 100 * fq + fk
      BY <1>1, <2>1, <2>2
    <2>4. 128 * k <= fk
      BY <2>2, ProductMonotone
    <2>5. 64 * fk - 66 * k <= 6700 * q
      BY <1>2, <2>1, <2>3
    <2>6. fk <= 107 * q
      BY <2>4, <2>5
    <2> QED
      BY <1>1, <2>3, <2>6
  <1> QED
    BY <1>4, <1>5

\* How far a boost is from the percentage of the tickets, before rounding.
NearShare(t, y, vn, vd) ==
    \E f, p, q \in Nat :
       /\ f = FloatExact /\ p = y * vn /\ q = t * vd
       /\ f * p <= 100 * (f * q) + 107 * q
       /\ f * p + 107 * q >= 100 * (f * q)

LEMMA BoostNear ==
    ASSUME NEW t \in 1..UintMax, NEW y \in 10..100,
           NEW n \in Nat \ {0}, NEW d \in Nat \ {0},
           NEW vn \in Nat \ {0}, NEW vd \in Nat \ {0},
           YieldFraction(y) = Fraction(n, d),
           InReach(DoubleBits, t * d, n),
           RoundTo(DoubleBits, t * d, n) = Fraction(vn, vd)
    PROVE  NearShare(t, y, vn, vd)
  <1>1. PICK f \in Nat : f = FloatExact /\ f >= 128
    BY Widths
  <1>2. PICK p \in Nat, q \in Nat, x \in Nat, td \in Nat, yd \in Nat, fn \in Nat :
          /\ p = y * vn /\ q = t * vd /\ x = vn * n
          /\ td = t * d /\ yd = y * d /\ fn = f * n
    BY Widths, ProductType
  <1>3. PICK z \in Nat : z = td * vd
    BY ProductType
  <1>4. (64 * f) * x <= (64 * f) * z + z /\ (64 * f) * x >= (64 * f) * z - z
    <2>1. Pow2[DoubleBits] * x <= Pow2[DoubleBits] * z + z
          /\ Pow2[DoubleBits] * x >= Pow2[DoubleBits] * z - z
      BY <1>2, <1>3, RoundError
    <2>2. 64 * f \in Nat /\ 64 * f <= Pow2[DoubleBits] /\ Pow2[DoubleBits] \in Nat
      BY <1>1, Widths
    <2> QED
      BY <2>1, <2>2, ErrorShrinks
  <1>5. 6400 * fn <= 64 * (f * yd) + 66 * yd /\ 6400 * fn + 66 * yd >= 64 * (f * yd)
    <2>1. RatioNear(y, n, d)
      BY YieldRelativeError, Zenon
    <2> QED
      BY <1>1, <1>2, <2>1 DEF RatioNear
  <1> DEFINE L == 64 * f - 66
             K == 64 * f + 66
             M == 64 * f + 1
             N == 64 * f - 1
  <1>6. L \in Nat /\ K \in Nat /\ M \in Nat /\ N \in Nat
    BY <1>1
  <1>7. (64 * f) * x <= M * z /\ N * z <= (64 * f) * x
    <2>1. M * z = (64 * f) * z + z /\ N * z = (64 * f) * z - z
      OBVIOUS
    <2> QED
      BY <1>4, <2>1
  <1>8. L * yd <= 6400 * fn /\ 6400 * fn <= K * yd
    <2>1. L * yd = 64 * (f * yd) - 66 * yd /\ K * yd = 64 * (f * yd) + 66 * yd
      OBVIOUS
    <2>2. f * yd \in Nat
      BY ProductType
    <2> QED
      BY <1>5, <2>1, <2>2
  <1> HIDE DEF L, K, M, N
  <1>9. PICK g \in Nat \ {0} : g = (64 * f) * n
    BY <1>1, ProductType
  <1>10. z * y = yd * q /\ ((64 * f) * x) * y = g * p /\ 6400 * fn = 100 * g
    BY <1>2, <1>3, <1>9
  <1>11. L * p <= 100 * (M * q)
    <2>1. PICK Ly \in Nat, Mq \in Nat, Mz \in Nat, Lp \in Nat, gx \in Nat :
            Ly = L * y /\ Mq = M * q /\ Mz = M * z /\ Lp = L * p /\ gx = (64 * f) * x
      BY <1>6, ProductType
    <2>2. gx * Ly <= Mz * Ly
      BY <1>7, <2>1, ProductMonotone
    <2>3. gx * Ly = Lp * g
      <3>1. gx * Ly = L * (gx * y)
        BY <1>6, <2>1
      <3>2. L * (g * p) = Lp * g
        BY <1>6, <2>1
      <3> QED
        BY <1>10, <2>1, <3>1, <3>2
    <2>4. Mz * Ly = (L * yd) * Mq
      <3>1. Mz * Ly = (M * L) * (z * y)
        BY <1>6, <2>1
      <3>2. (M * L) * (yd * q) = (L * yd) * Mq
        BY <1>6, <2>1
      <3> QED
        BY <1>10, <3>1, <3>2
    <2>5. (L * yd) * Mq <= (100 * g) * Mq
      BY <1>6, <1>8, <1>10, <2>1, ProductType, ProductMonotone
    <2>6. (100 * g) * Mq = (100 * Mq) * g
      OBVIOUS
    <2>7. (L * yd) * Mq \in Nat /\ Lp * g \in Nat /\ (100 * Mq) * g \in Nat
      BY <1>6, ProductType
    <2>8. Lp * g <= (100 * Mq) * g
      BY <2>2, <2>3, <2>4, <2>5, <2>6, <2>7
    <2>9. Lp <= 100 * Mq
      BY <2>8, Cancel
    <2> QED
      BY <2>1, <2>9
  <1>12. 100 * (N * q) <= K * p
    <2>1. PICK Ky \in Nat, Nq \in Nat, Nz \in Nat, Kp \in Nat, gx \in Nat :
            Ky = K * y /\ Nq = N * q /\ Nz = N * z /\ Kp = K * p /\ gx = (64 * f) * x
      BY <1>6, ProductType
    <2>2. Nz * Ky <= gx * Ky
      BY <1>7, <2>1, ProductMonotone
    <2>3. gx * Ky = Kp * g
      <3>1. gx * Ky = K * (gx * y)
        BY <1>6, <2>1
      <3>2. K * (g * p) = Kp * g
        BY <1>6, <2>1
      <3> QED
        BY <1>10, <2>1, <3>1, <3>2
    <2>4. Nz * Ky = (K * yd) * Nq
      <3>1. Nz * Ky = (N * K) * (z * y)
        BY <1>6, <2>1
      <3>2. (N * K) * (yd * q) = (K * yd) * Nq
        BY <1>6, <2>1
      <3> QED
        BY <1>10, <3>1, <3>2
    <2>5. (100 * g) * Nq <= (K * yd) * Nq
      BY <1>6, <1>8, <1>10, <2>1, ProductType, ProductMonotone
    <2>6. (100 * g) * Nq = (100 * Nq) * g
      OBVIOUS
    <2>7. (K * yd) * Nq \in Nat /\ Kp * g \in Nat /\ (100 * Nq) * g \in Nat
      BY <1>6, ProductType
    <2>8. (100 * Nq) * g <= Kp * g
      BY <2>2, <2>3, <2>4, <2>5, <2>6, <2>7
    <2>9. 100 * Nq <= Kp
      BY <2>8, Cancel
    <2> QED
      BY <2>1, <2>9
  <1>13. f * p <= 100 * (f * q) + 107 * q /\ f * p + 107 * q >= 100 * (f * q)
    BY <1>1, <1>11, <1>12, QuotientNear DEF L, K, M, N
  <1> QED
    BY <1>1, <1>2, <1>13 DEF NearShare

\* A boost is fair.
LEMMA BoostFair ==
    ASSUME NEW t \in 1..UintMax, NEW y \in 10..100
    PROVE  FairlyBoosted(Boost(t, y), t, y)
  <1>1. PICK n, d, vn, vd \in Nat \ {0} :
          /\ YieldFraction(y) = Fraction(n, d)
          /\ n <= d
          /\ InReach(DoubleBits, t * d, n)
          /\ RoundTo(DoubleBits, t * d, n) = Fraction(vn, vd)
          /\ Over(DoubleBits, Fraction(t, 1), YieldFraction(y)) = Fraction(vn, vd)
    BY BoostQuotient, Zenon
  <1>2. PICK f, p, q \in Nat :
          /\ f = FloatExact /\ p = y * vn /\ q = t * vd
          /\ f * p <= 100 * (f * q) + 107 * q
          /\ f * p + 107 * q >= 100 * (f * q)
    <2>1. NearShare(t, y, vn, vd)
      BY <1>1, BoostNear
    <2> QED
      BY <2>1 DEF NearShare
  <1>3. t \in Nat /\ f >= 128 /\ UintMax \in Nat
    BY <1>2, Widths
  <1>4. PICK r \in Nat : /\ r = Round(Fraction(vn, vd))
                         /\ 2 * (r * vd) <= 2 * vn + vd
                         /\ 2 * (r * vd) >= 2 * vn - vd
    BY <1>1, RoundBounds
  <1>5. Boost(t, y) < UintMax => Boost(t, y) = r
    BY <1>1, <1>3, <1>4 DEF Boost
  <1>6. PICK ry \in Nat, ryv \in Nat, yv \in Nat, fv \in Nat \ {0} :
          ry = r * y /\ ryv = ry * vd /\ yv = y * vd /\ fv = f * vd
    <2>1. r * y \in Nat /\ y * vd \in Nat /\ f * vd \in Nat \ {0}
      BY <1>3, ProductType
    <2> QED
      BY <2>1, ProductType
  <1>7. 2 * ryv <= 2 * p + yv /\ 2 * p <= 2 * ryv + yv
    <2>1. PICK rv \in Nat : rv = r * vd
      BY ProductType
    <2>2. (2 * rv) * y <= (2 * vn + vd) * y /\ (2 * vn) * y <= (2 * rv + vd) * y
      BY <1>4, <2>1, ProductMonotone
    <2>3. /\ (2 * rv) * y = 2 * ryv
          /\ (2 * vn + vd) * y = 2 * p + yv
          /\ (2 * vn) * y = 2 * p
          /\ (2 * rv + vd) * y = 2 * ryv + yv
      BY <1>2, <1>6, <2>1
    <2> QED
      BY <2>2, <2>3
  <1>8. PICK fry \in Nat, fy \in Nat, ft \in Nat : fry = f * ry /\ fy = y * f /\ ft = f * t
    BY <1>3, ProductType
  \* All of it times the denominator of the quotient.
  <1>9. PICK fryv \in Nat, fp \in Nat, fyv \in Nat, ftv \in Nat :
          fryv = ryv * f /\ fp = f * p /\ fyv = yv * f /\ ftv = f * q
    BY ProductType
  <1>10. 2 * fryv <= 2 * fp + fyv /\ 2 * fp <= 2 * fryv + fyv
    <2>1. (2 * ryv) * f <= (2 * p + yv) * f /\ (2 * p) * f <= (2 * ryv + yv) * f
      BY <1>7, ProductMonotone
    <2>2. /\ (2 * ryv) * f = 2 * fryv
          /\ (2 * p + yv) * f = 2 * fp + fyv
          /\ (2 * p) * f = 2 * fp
          /\ (2 * ryv + yv) * f = 2 * fryv + fyv
      BY <1>9
    <2> QED
      BY <2>1, <2>2
  <1>11. 2 * fryv <= 200 * ftv + 214 * q + fyv /\ 200 * ftv <= 2 * fryv + 214 * q + fyv
    BY <1>2, <1>9, <1>10
  <1>12. 2 * fry <= 200 * ft + 214 * t + fy /\ 200 * ft <= 2 * fry + 214 * t + fy
    <2>1. fry * vd = fryv /\ fy * vd = fyv /\ ft * vd = ftv
      BY <1>2, <1>3, <1>6, <1>8, <1>9
    <2>2. /\ (2 * fry) * vd = 2 * (fry * vd)
          /\ (200 * ft + 214 * t + fy) * vd = 200 * (ft * vd) + 214 * q + fy * vd
          /\ (200 * ft) * vd = 200 * (ft * vd)
          /\ (2 * fry + 214 * t + fy) * vd = 2 * (fry * vd) + 214 * q + fy * vd
      BY <1>2, <1>3
    <2> QED
      BY <1>3, <1>11, <2>1, <2>2, Cancel
  <1>13. (f * 2) * (ry - 100 * t) = 2 * fry - 200 * ft
    BY <1>3, <1>8
  <1>14. (f * 2) * (ry - 100 * t) \in -(fy + 250 * t)..(fy + 250 * t)
    BY <1>3, <1>12, <1>13
  <1>15. Boost(t, y) \in t..UintMax
    BY BoostType
  <1> QED
    BY <1>2, <1>5, <1>6, <1>8, <1>14, <1>15 DEF FairlyBoosted

\* So are the tickets of a task that yields nothing.
LEMMA UnboostedFair ==
    ASSUME NEW t \in 1..UintMax
    PROVE  FairlyBoosted(t, t, 100)
  <1>1. FloatExact \in Nat /\ UintMax \in Nat /\ t \in Nat
    BY Widths
  <1>2. t * 100 - 100 * t = 0
    BY <1>1
  <1>3. (FloatExact * 2) * 0 = 0
    BY <1>1
  <1>4. PICK lost \in Nat : lost = 100 * FloatExact + 250 * t
    BY <1>1
  <1>5. 0 \in -lost..lost
    OBVIOUS
  <1> QED
    BY <1>1, <1>2, <1>3, <1>4, <1>5 DEF FairlyBoosted

\* The float of a slice's share of the work, before it is rounded up.
LEMMA SliceShare ==
    ASSUME NEW w \in 1..UintMax, NEW s \in 1..100
    PROVE  \E n, d \in Nat \ {0} :
             /\ Over(FloatBits, Times(ToFloat(w), Fraction(s, 1)), Fraction(100, 1))
                  = Fraction(n, d)
             /\ w * s < FloatExact =>
                  /\ \A k \in 0..Pow2[FloatBits] : w * s <= k * 100 => n <= k * d
                  /\ 100 * n > (w * s - 1) * d
  <1>1. PICK an \in Nat \ {0}, ad \in Nat \ {0} :
          /\ ToFloat(w) = Fraction(an, ad)
          /\ ad <= an
          /\ an <= (2 * w) * ad
          /\ w <= FloatExact => an = w /\ ad = 1
    BY WordAsFloat
  <1>2. PICK u \in Nat : u = UintMax /\ w <= u /\ w \in Nat /\ u >= 128
    BY Widths
  <1>3. PICK ap \in Nat \ {0} : ap = an * s
    BY ProductType
  <1>4. Times(ToFloat(w), Fraction(s, 1)) = RoundTo(FloatBits, ap, ad)
    <2>1. ad * 1 = ad
      OBVIOUS
    <2> QED
      BY <1>1, <1>3, <2>1 DEF Times, Fraction
  \* The work is rounded up by no more than one in 128.
  <1>5. 128 * an <= (129 * w) * ad
    <2>1. CASE w <= FloatExact
      BY <1>1, <1>2, <2>1
    <2>2. CASE w > FloatExact
      <3>1. ToFloat(w) = RoundTo(FloatBits, w, 1) /\ InReach(FloatBits, w, 1)
        <4>1. ToFloat(w) = RoundTo(FloatBits, w, 1)
          BY <1>2, <2>2, Widths DEF ToFloat
        <4>2. InReach(FloatBits, w, 1)
          BY <1>2, FloatReach
        <4> QED
          BY <4>1, <4>2
      <3>2. PICK wd \in Nat : wd = w * ad
        BY <1>2, ProductType
      <3>3. PICK f \in Nat : f = FloatExact /\ 128 <= f
        BY Widths
      <3>4. f * (an * 1) <= f * wd + wd
        BY <1>1, <3>1, <3>2, <3>3, RoundError DEF FloatExact
      <3>5. f * an <= f * wd + wd
        BY <3>4
      <3>6. 128 * an <= 128 * wd + wd
        BY <3>3, <3>5, ErrorShrinks
      <3> QED
        BY <1>2, <3>2, <3>6
    <2> QED
      BY <1>2, <2>1, <2>2, Widths
  <1>6. PICK cap \in Nat \ {0} : cap = u * ad /\ 128 * ap <= 12900 * cap
    <2>1. u * ad \in Nat \ {0}
      BY <1>2, ProductType
    <2>2. PICK wd \in Nat : wd = w * ad
      BY <1>2, ProductType
    <2>3. wd <= u * ad
      BY <1>2, <2>2, ProductMonotone
    <2>4. s * an <= 100 * an
      BY ProductMonotone
    <2>5. 128 * an <= 129 * wd
      BY <1>2, <1>5, <2>2
    <2>6. ap <= 100 * an
      BY <1>3, <2>4
    <2>7. PICK cap \in Nat \ {0} : cap = u * ad
      BY <2>1
    <2>8. 128 * ap <= 12900 * cap
      BY <2>3, <2>5, <2>6, <2>7
    <2> QED
      BY <2>7, <2>8
  <1>7. InReach(FloatBits, ap, ad)
    <2>1. ad <= ap
      <3>1. 1 * an <= s * an
        BY ProductMonotone
      <3> QED
        BY <1>1, <1>3, <3>1
    <2>2. ad * (128 * (UintMax + 1)) = 128 * cap + 128 * ad
      BY <1>2, <1>6
    <2>3. ad <= 1024 * ap /\ ap < 128 * cap + 128 * ad
      BY <1>6, <2>1
    <2> QED
      BY <2>2, <2>3, FloatReach
  <1>8. PICK vn \in Nat \ {0}, vd \in Nat \ {0} : RoundTo(FloatBits, ap, ad) = Fraction(vn, vd)
    BY <1>7, RoundType
  <1>9. PICK vh \in Nat \ {0} : vh = vd * 100
    BY ProductType
  <1>10. Over(FloatBits, Fraction(vn, vd), Fraction(100, 1)) = RoundTo(FloatBits, vn, vh)
    <2>1. vn * 1 = vn
      OBVIOUS
    <2> QED
      BY <1>9, <2>1 DEF Over, Fraction
  <1>11. InReach(FloatBits, vn, vh)
    <2>1. PICK av \in Nat, va \in Nat : av = ap * vd /\ va = vn * ad
      BY ProductType
    <2>2. av <= 2 * va /\ va <= 2 * av
      BY <1>7, <1>8, <2>1, RoundRoughly
    <2>3. ad <= ap
      <3>1. 1 * an <= s * an
        BY ProductMonotone
      <3> QED
        BY <1>1, <1>3, <3>1
    <2>4. vd <= 2 * vn
      <3>1. ad * vd <= ap * vd
        BY <2>3, ProductMonotone
      <3>2. vd * ad <= (2 * vn) * ad
        <4>1. ad * vd <= 2 * va
          BY <2>1, <2>2, <3>1, ProductType
        <4>2. (2 * vn) * ad = 2 * va /\ vd * ad = ad * vd
          BY <2>1
        <4> QED
          BY <4>1, <4>2
      <3> QED
        BY <3>2, Cancel
    <2>5. 64 * vn <= (12900 * u) * vd
      <3>1. PICK i \in Nat, j \in Nat : i = 128 * ap /\ j = 12900 * cap /\ i <= j
        BY <1>6
      <3>2. PICK capv \in Nat : capv = cap * vd
        BY ProductType
      <3>3. 128 * av <= 12900 * capv
        <4>1. i * vd <= j * vd
          BY <3>1, ProductMonotone
        <4>2. i * vd = 128 * av /\ j * vd = 12900 * capv
          BY <2>1, <3>1, <3>2
        <4> QED
          BY <4>1, <4>2
      <3>4. 64 * va <= 12900 * capv
        BY <2>2, <3>3
      <3>5. (64 * vn) * ad <= ((12900 * u) * vd) * ad
        <4>1. (64 * vn) * ad = 64 * va
          BY <2>1
        <4>2. ((12900 * u) * vd) * ad = 12900 * capv
          BY <1>6, <3>2
        <4> QED
          BY <3>4, <4>1, <4>2
      <3>6. (12900 * u) * vd \in Nat
        BY ProductType
      <3> QED
        BY <3>5, <3>6, Cancel
    <2>6. PICK uv \in Nat : uv = u * vd
      BY ProductType
    <2>7. vh * (128 * (UintMax + 1)) = 12800 * uv + 12800 * vd
      BY <1>2, <1>9, <2>6
    <2>8. 64 * vn <= 12900 * uv
      BY <2>5, <2>6
    <2>9. vh <= 1024 * vn /\ vn < vh * (128 * (UintMax + 1))
      BY <1>9, <2>4, <2>7, <2>8
    <2> QED
      BY <2>9, FloatReach
  <1>12. PICK n \in Nat \ {0}, d \in Nat \ {0} : RoundTo(FloatBits, vn, vh) = Fraction(n, d)
    BY <1>11, RoundType
  \* Small enough work times the percentage is a float.
  <1>13. ASSUME w * s < FloatExact
         PROVE  /\ \A k \in 0..Pow2[FloatBits] : w * s <= k * 100 => n <= k * d
                /\ 100 * n > (w * s - 1) * d
    <2>1. PICK ws \in Nat : ws = w * s /\ w <= ws
      <3>1. 1 * w <= s * w
        BY <1>2, ProductMonotone
      <3> QED
        BY <1>2, <3>1, ProductType
    <2>2. ap = ws /\ ad = 1
      BY <1>1, <1>2, <1>3, <1>13, <2>1, Widths
    <2>3. ws \in 0..Pow2[FloatBits]
      BY <1>13, <2>1, Widths DEF FloatExact
    <2>4. ap <= ws * ad /\ ap >= ws * ad
      BY <2>2
    <2>5. vn = ws * vd
      <3>1. vn <= ws * vd /\ vn >= ws * vd
        BY <1>7, <1>8, <2>3, <2>4, RoundOrder
      <3>2. ws * vd \in Nat
        BY ProductType
      <3> QED
        BY <3>1, <3>2
    <2>6. ASSUME NEW k \in 0..Pow2[FloatBits], ws <= k * 100
          PROVE  n <= k * d
      <3>1. k \in Nat
        OBVIOUS
      <3>2. ws * vd <= (k * 100) * vd
        BY <2>6, <3>1, ProductMonotone
      <3>3. (k * 100) * vd = k * vh
        BY <1>9, <3>1
      <3>4. vn <= k * vh
        BY <2>5, <3>2, <3>3
      <3> QED
        BY <1>11, <1>12, <3>4, RoundOrder
    <2>7. 100 * n > (ws - 1) * d
      <3>1. PICK f \in Nat : f = FloatExact /\ f >= 128 /\ ws < f
        BY <1>13, <2>1, Widths
      <3>2. f * (n * vh) >= f * (vn * d) - vn * d
        BY <1>11, <1>12, <3>1, RoundError DEF FloatExact
      <3>3. PICK nv \in Nat, dv \in Nat, wdv \in Nat :
              nv = n * vd /\ dv = d * vd /\ wdv = ws * dv
        <4>1. d * vd \in Nat
          BY ProductType
        <4> QED
          BY <4>1, ProductType
      <3>4. n * vh = 100 * nv /\ vn * d = wdv
        BY <1>9, <2>5, <3>3
      <3>5. PICK fnv \in Nat, fwdv \in Nat, fdv \in Nat :
              fnv = f * nv /\ fwdv = f * wdv /\ fdv = f * dv
        BY ProductType
      <3>6. 100 * fnv + wdv >= fwdv
        BY <3>2, <3>4, <3>5
      <3>7. wdv < fdv
        <4>1. dv \in Nat \ {0}
          BY <3>3, ProductType
        <4>2. ws * dv + dv <= f * dv
          BY <3>1, ProductStrict
        <4> QED
          BY <3>3, <3>5, <4>1, <4>2
      <3>8. 100 * fnv + fdv > fwdv
        BY <3>6, <3>7
      <3>9. SUFFICES ASSUME 100 * n <= (ws - 1) * d PROVE FALSE
        <4>1. (ws - 1) * d \in Int
          OBVIOUS
        <4> QED
          BY <4>1
      <3>10. PICK wd \in Nat, fv \in Nat : wd = ws * d /\ fv = f * vd
        BY ProductType
      <3>11. 100 * n + d <= wd
        <4>1. (ws - 1) * d = wd - d
          BY <3>10
        <4> QED
          BY <3>9, <4>1
      <3>12. (100 * n + d) * fv <= wd * fv
        BY <3>11, ProductMonotone
      <3>13. (100 * n + d) * fv = 100 * fnv + fdv /\ wd * fv = fwdv
        BY <3>3, <3>5, <3>10
      <3> QED
        BY <3>8, <3>12, <3>13
    <2> QED
      BY <2>1, <2>6, <2>7
  <1> QED
    <2>1. Over(FloatBits, Times(ToFloat(w), Fraction(s, 1)), Fraction(100, 1)) = Fraction(n, d)
      BY <1>4, <1>8, <1>10, <1>12
    <2> QED
      BY <1>13, <2>1, Zenon

LEMMA NoWrap ==
    \A k \in 0..UintMax : Truncate(k) = k
  <1> SUFFICES ASSUME NEW k \in 0..UintMax PROVE Truncate(k) = k
    OBVIOUS
  <1>1. PICK u \in Nat : u = UintMax
    BY Widths
  <1>2. PICK m \in Nat \ {0} : m = u + 1
    OBVIOUS
  <1>3. PICK q \in Nat, r \in Nat : r = k % m /\ k = q * m + r
    <2>1. k \in Nat
      BY <1>1
    <2>2. k \div m \in Nat /\ k % m \in 0..(m - 1) /\ k = (k \div m) * m + (k % m)
      BY <2>1, Quotient, Zenon
    <2> QED
      BY <2>2
  <1>4. 0 < q => 0 * m + m <= q * m
    BY <1>2, ProductStrict
  <1>5. q = 0
    BY <1>1, <1>2, <1>3, <1>4
  <1> QED
    BY <1>1, <1>2, <1>3, <1>5 DEF Truncate

\* A slice is a word; of small enough work, exactly the share that was asked for.
LEMMA Slice ==
    ASSUME NEW w \in 1..UintMax, NEW s \in 1..100
    PROVE  /\ SliceSize(w, s) \in 1..UintMax
           /\ w * s < FloatExact =>
                SliceSize(w, s) = CeilDiv(w * s, 100) /\ SliceSize(w, s) \in 1..FloatExact
  <1>1. PICK n, d \in Nat \ {0} :
          /\ Over(FloatBits, Times(ToFloat(w), Fraction(s, 1)), Fraction(100, 1))
               = Fraction(n, d)
          /\ w * s < FloatExact =>
               /\ \A k \in 0..Pow2[FloatBits] : w * s <= k * 100 => n <= k * d
               /\ 100 * n > (w * s - 1) * d
    BY SliceShare, Zenon
  <1>2. PICK u \in Nat, f \in Nat :
          u = UintMax /\ f = FloatExact /\ f <= u /\ f >= 128 /\ w \in Nat /\ w <= u
    BY Widths
  <1>3. PICK raw \in Nat : /\ raw = Ceil(Fraction(n, d))
                           /\ raw * d >= n
                           /\ \A k \in Nat : n <= k * d => raw <= k
    BY <1>1, CeilBounds
  <1>4. SliceSize(w, s) = AtLeastOne(Truncate(raw))
    BY <1>1, <1>3, Zenon DEF SliceSize
  <1>5. Truncate(raw) \in 0..u
    <2>1. raw % (u + 1) \in 0..((u + 1) - 1)
      BY Quotient
    <2> QED
      BY <1>2, <2>1 DEF Truncate
  <1>6. SliceSize(w, s) \in 1..UintMax
    BY <1>2, <1>4, <1>5 DEF AtLeastOne
  <1>7. ASSUME w * s < FloatExact
        PROVE  SliceSize(w, s) = CeilDiv(w * s, 100) /\ SliceSize(w, s) \in 1..FloatExact
    <2>1. PICK ws \in Nat : ws = w * s /\ 1 <= ws /\ ws <= w * 100 /\ ws < f
      <3>1. w * s \in Nat /\ w * s > 0
        BY <1>2, ProductType
      <3>2. s * w <= 100 * w
        BY <1>2, ProductMonotone
      <3> QED
        BY <1>2, <1>7, <3>1, <3>2
    <2>2. CeilDiv(ws, 100) = Ceil(Fraction(ws, 100))
      BY DEF CeilDiv, Ceil, Fraction
    <2>3. PICK c \in Nat : /\ c = CeilDiv(ws, 100)
                           /\ c * 100 >= ws
                           /\ \A k \in Nat : ws <= k * 100 => c <= k
      <3>1. PICK h \in Nat \ {0} : h = 100
        OBVIOUS
      <3>2. /\ Ceil(Fraction(ws, h)) \in Nat
            /\ Ceil(Fraction(ws, h)) * h >= ws
            /\ \A k \in Nat : ws <= k * h => Ceil(Fraction(ws, h)) <= k
        BY CeilBounds
      <3> QED
        BY <2>2, <3>1, <3>2
    <2>4. c <= ws /\ c <= w /\ 1 <= c
      BY <1>2, <2>1, <2>3
    <2>5. raw <= c
      <3>1. c \in 0..Pow2[FloatBits]
        BY <1>2, <2>1, <2>4 DEF FloatExact
      <3> QED
        BY <1>1, <1>3, <1>7, <2>1, <2>3, <3>1
    <2>6. c <= raw
      <3>1. PICK rd \in Nat : rd = raw * d
        BY ProductType
      <3>2. (ws - 1) * d < 100 * rd
        <4>1. 100 * n <= 100 * rd
          BY <1>3, <3>1
        <4>2. 100 * n > (ws - 1) * d
          BY <1>1, <1>7, <2>1
        <4>3. ws - 1 \in Nat /\ (ws - 1) * d \in Nat
          BY <2>1, ProductType
        <4> QED
          BY <4>1, <4>2, <4>3
      <3>3. 100 * raw <= ws - 1 => (100 * raw) * d <= (ws - 1) * d
        BY <2>1, ProductMonotone
      <3>4. (100 * raw) * d = 100 * rd /\ (ws - 1) * d \in Nat
        BY <2>1, <3>1, ProductType
      <3>5. ws <= raw * 100
        BY <2>1, <3>2, <3>3, <3>4
      <3> QED
        BY <2>3, <3>5
    <2>7. raw = c
      BY <2>5, <2>6
    <2>8. Truncate(c) = c
      BY <1>2, <2>4, NoWrap
    <2> QED
      BY <1>2, <1>4, <2>1, <2>3, <2>4, <2>7, <2>8 DEF AtLeastOne
  <1> QED
    BY <1>6, <1>7

\* Zero stays zero.
LEMMA RoundsZero ==
    \A b \in Nat : RoundTo(FloatBits, 0, b) = Fraction(0, 1)
  <1>1. FloatBits \in Nat /\ 0 \in Nat
    BY BitsAssumption
  <1> QED
    BY <1>1 DEF RoundTo, Rounded

\* Any slice is a word, also that of a percentage of 0.
LEMMA SliceType ==
    ASSUME NEW w \in 1..UintMax, NEW s \in 0..100
    PROVE  SliceSize(w, s) \in 1..UintMax
  <1>1. CASE s = 0
    <2>1. PICK an \in Nat \ {0}, ad \in Nat \ {0} : ToFloat(w) = Fraction(an, ad)
      BY WordAsFloat
    <2>2. Times(ToFloat(w), Fraction(0, 1)) = Fraction(0, 1)
      BY <2>1, RoundsZero DEF Times, Fraction
    <2>3. Over(FloatBits, Fraction(0, 1), Fraction(100, 1)) = Fraction(0, 1)
      BY RoundsZero DEF Over, Fraction
    <2>4. Ceil(Fraction(0, 1)) = 0
      BY CeilBounds
    <2>5. Truncate(0) = 0
      BY Widths, NoWrap
    <2>6. SliceSize(w, 0) = AtLeastOne(0)
      BY <2>2, <2>3, <2>4, <2>5 DEF SliceSize
    <2> QED
      BY <1>1, <2>6, Widths DEF AtLeastOne
  <1>2. CASE s # 0
    <2>1. s \in 1..100
      BY <1>2
    <2>2. \A v \in 1..UintMax, p \in 1..100 : SliceSize(v, p) \in 1..UintMax
      BY Slice, Zenon
    <2> QED
      BY <2>1, <2>2
  <1> QED
    BY <1>1, <1>2

\* Whatever the processor makes of a float, at least one unit.
LEMMA LimitType ==
    \A i \in Nat : \A limit \in {AtLeastOne(j) : j \in ToUint(i)} : limit \in Nat \ {0}
  <1> SUFFICES ASSUME NEW i \in Nat, NEW j \in ToUint(i)
               PROVE  AtLeastOne(j) \in Nat \ {0}
    OBVIOUS
  <1>1. PICK m \in Nat \ {0} : m = UintMax + 1
    BY Widths
  <1>2. i % m \in 0..(m - 1)
    BY <1>1, Quotient, Zenon
  <1>3. j \in Nat
    BY <1>1, <1>2, Widths DEF ToUint, Truncate
  <1> QED
    BY <1>3 DEF AtLeastOne

\* Whatever the allotment, a dispatch does something.
LEMMA LimitsPositive ==
    ASSUME NEW a \in 1..UintMax, NEW y \in 10..100
    PROVE  EarlyLimits(a, y) \subseteq Nat \ {0}
  <1>1. PICK n \in Nat \ {0}, d \in Nat \ {0} :
          YieldFraction(y) = Fraction(n, d) /\ n <= d /\ d <= 40 * n
    BY YieldFloat
  <1>2. PICK an \in Nat \ {0}, ad \in Nat \ {0} :
          ToFloat(a) = Fraction(an, ad) /\ ad <= an /\ an <= (2 * a) * ad
    BY WordAsFloat
  <1>3. PICK u \in Nat : u = UintMax /\ a <= u /\ a \in Nat
    BY Widths
  <1>4. PICK x \in Nat \ {0}, z \in Nat \ {0} : x = an * n /\ z = ad * d
    <2>1. an * n \in Nat \ {0} /\ ad * d \in Nat \ {0}
      BY ProductType
    <2> QED
      BY <2>1
  <1>5. z <= 40 * x
    <2>1. ad * d <= an * d
      BY <1>2, ProductMonotone
    <2>2. d * an <= (40 * n) * an
      BY <1>1, ProductMonotone
    <2>3. d * an = an * d /\ (40 * n) * an = 40 * x /\ an * d \in Nat
      BY <1>4, ProductType, ProductAssociative
    <2> QED
      BY <1>4, <2>1, <2>2, <2>3
  <1>6. PICK uz \in Nat : uz = u * z
    BY ProductType
  <1>7. x <= 2 * uz
    <2>1. an * n <= an * d
      BY <1>1, ProductMonotone, ProductAssociative
    <2>2. PICK adz \in Nat : adz = a * z
      BY <1>3, ProductType
    <2>3. an * d <= ((2 * a) * ad) * d
      BY <1>2, <1>3, ProductMonotone, ProductType
    <2>4. ((2 * a) * ad) * d = 2 * adz
      BY <1>3, <1>4, <2>2
    <2>5. adz <= uz
      BY <1>3, <1>6, <2>2, ProductMonotone
    <2>6. an * d \in Nat
      BY ProductType
    <2> QED
      BY <1>4, <2>1, <2>3, <2>4, <2>5, <2>6
  <1>8. InReach(FloatBits, x, z)
    <2>1. z * (128 * (UintMax + 1)) = 128 * uz + 128 * z
      BY <1>3, <1>6
    <2>2. z <= 1024 * x /\ x < 128 * uz + 128 * z
      BY <1>5, <1>7
    <2> QED
      BY <2>1, <2>2, FloatReach
  <1>9. PICK vn \in Nat \ {0}, vd \in Nat \ {0} : RoundTo(FloatBits, x, z) = Fraction(vn, vd)
    BY <1>8, RoundType
  <1>10. Times(ToFloat(a), YieldFraction(y)) = Fraction(vn, vd)
    BY <1>1, <1>2, <1>4, <1>9 DEF Times, Fraction
  <1>11. Ceil(Fraction(vn, vd)) \in Nat
    BY CeilBounds
  <1> QED
    BY <1>10, <1>11, LimitType DEF EarlyLimits

\* Nor is it without a mode.
LEMMA NoModeLimit ==
    ASSUME NEW y \in 10..100
    PROVE  EarlyLimits(0, y) = {1}
  <1>1. PICK n \in Nat \ {0}, d \in Nat \ {0} : YieldFraction(y) = Fraction(n, d)
    BY YieldFloat
  <1>2. ToFloat(0) = Fraction(0, 1)
    BY Widths DEF ToFloat
  <1>3. PICK e \in Nat : e = 1 * d
    OBVIOUS
  <1>4. 0 * n = 0
    BY <1>1
  <1>5. Times(ToFloat(0), YieldFraction(y)) = RoundTo(FloatBits, 0, e)
    BY <1>1, <1>2, <1>3, <1>4 DEF Times, Fraction
  <1>6. Ceil(Fraction(0, 1)) = 0
    BY CeilBounds
  <1>7. ToUint(0) = {0}
    BY Widths DEF ToUint
  <1>8. EarlyLimits(0, y) = {AtLeastOne(i) : i \in {0}}
    BY <1>3, <1>5, <1>6, <1>7, RoundsZero DEF EarlyLimits
  <1> QED
    BY <1>8 DEF AtLeastOne

\* There is a limit, and it is positive.
LEMMA LimitsExist ==
    ASSUME NEW a \in 0..UintMax, NEW y \in 10..100
    PROVE  EarlyLimits(a, y) # {} /\ EarlyLimits(a, y) \subseteq Nat \ {0}
  <1>1. EarlyLimits(a, y) # {}
    BY DEF EarlyLimits, ToUint
  <1>2. a = 0 => EarlyLimits(a, y) \subseteq Nat \ {0}
    BY NoModeLimit
  <1>3. a # 0 => a \in 1..UintMax
    BY Widths
  <1>4. \A b \in 1..UintMax, x \in 10..100 : EarlyLimits(b, x) \subseteq Nat \ {0}
    BY LimitsPositive, Zenon
  <1> QED
    BY <1>1, <1>2, <1>3, <1>4

=============================================================================
