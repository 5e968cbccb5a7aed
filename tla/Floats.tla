------------------------------- MODULE Floats -------------------------------
(***************************************************************************)
(* The float, double and 32-bit arithmetic of the scheduler: the size of a  *)
(* slice, the units of a dispatch and the tickets of a task that yields.    *)
(*                                                                         *)
(* A floating-point number is a fraction [n, d].  Every operation rounds to  *)
(* the nearest number with a significand of so many bits, ties to even;     *)
(* the exponents are not bounded, as none of the values comes near theirs.  *)
(*                                                                         *)
(* An operator whose comment starts with "Wrong:" is used nowhere: it is a   *)
(* mistake one could make in the definition that follows it, kept to show   *)
(* that the properties notice.                                             *)
(***************************************************************************)
EXTENDS Integers

CONSTANTS
    FloatBits, DoubleBits,  \* 24 and 53
    WordBits                \* 32

\* A percentage is a float, not every word is one, and every word is a double.
ASSUME BitsAssumption ==
    /\ {FloatBits, DoubleBits, WordBits} \subseteq Nat
    /\ 7 <= FloatBits /\ FloatBits < WordBits /\ WordBits <= DoubleBits
    /\ FloatBits + 6 <= DoubleBits

Pow2[n \in Nat] == IF n = 0 THEN 1 ELSE 2 * Pow2[n - 1]

\* UINT32_MAX
UintMax == Pow2[WordBits] - 1

Fraction(a, b) == [n |-> a, d |-> b]

NearestEven(a, b) ==
    LET q == a \div b
        r == a % b
    IN  IF 2 * r < b \/ (2 * r = b /\ q % 2 = 0) THEN q ELSE q + 1

\* Enough for floats from 1/100 to 100 words, and doubles from 1/16 on.
Exponents == (FloatBits - WordBits - 7)..(DoubleBits + 3)

\* a/b times 2^e fills a significand of bits bits.
Fills(bits, a, b, e) ==
    IF e >= 0 THEN a * Pow2[e] >= b * Pow2[bits - 1]
              ELSE a \div Pow2[bits - 1 - e] >= b

\* a/b with a significand of bits bits; TLC computes the arguments of a function
\* only once.
Rounded == [bits \in Nat |-> [a \in Nat |-> [b \in Nat |->
    LET e == CHOOSE i \in Exponents : Fills(bits, a, b, i) /\ ~Fills(bits, a, b, i - 1)
    IN  IF a = 0 THEN Fraction(0, 1)
        ELSE IF e >= 0 THEN Fraction(NearestEven(a * Pow2[e], b), Pow2[e])
        ELSE Fraction(NearestEven(a, b * Pow2[-e]) * Pow2[-e], 1)]]]

RoundTo(bits, a, b) == Rounded[bits][a][b]

\* Every whole number up to here is a float.
FloatExact == Pow2[FloatBits]

ToFloat(a) == IF a <= FloatExact THEN Fraction(a, 1) ELSE RoundTo(FloatBits, a, 1)

Times(x, y) == RoundTo(FloatBits, x.n * y.n, x.d * y.d)

Over(bits, x, y) == RoundTo(bits, x.n * y.d, x.d * y.n)

\* Wrong: one more than the floor, also of a whole number.
NextWhole(x) == (x.n \div x.d) + 1

\* ceilf
Ceil(x) == (x.n + x.d - 1) \div x.d

\* round: halves away from zero.
Round(x) == (2 * x.n + x.d) \div (2 * x.d)

Truncate(i) == i % (UintMax + 1)

AtLeastOne(i) == IF i >= 1 THEN i ELSE 1

\* The double read by sscanf, converted to the float of task_t.
YieldFraction(y) ==
    LET read == RoundTo(DoubleBits, y, 100) IN RoundTo(FloatBits, read.n, read.d)

\* Wrong: the nearest whole number.
NearestSlice(work, percent) ==
    LET raw == Round(Over(FloatBits, Times(ToFloat(work), Fraction(percent, 1)), Fraction(100, 1)))
    IN  AtLeastOne(Truncate(raw))

\* scheduler_configure_cooperative and task_set_slice.
SliceSize(work, percent) ==
    LET raw == Ceil(Over(FloatBits, Times(ToFloat(work), Fraction(percent, 1)), Fraction(100, 1)))
    IN  AtLeastOne(Truncate(raw))

\* The conversion of a float that is no uint32_t is undefined: the processor
\* wraps or saturates.
ToUint(i) == IF i <= UintMax THEN {i} ELSE {Truncate(i), UintMax}

\* Wrong: rounds down.
FlooredLimits(units, y) ==
    LET limit == Times(ToFloat(units), YieldFraction(y))
    IN  {AtLeastOne(i) : i \in ToUint(limit.n \div limit.d)}

\* task_compute_early_limit.
EarlyLimits(units, y) ==
    {AtLeastOne(i) : i \in ToUint(Ceil(Times(ToFloat(units), YieldFraction(y))))}

\* Wrong: without the clamp to UINT32_MAX.
UnclampedBoost(tickets, y) == Round(Over(DoubleBits, Fraction(tickets, 1), YieldFraction(y)))

\* Wrong: rounds down.
FlooredBoost(tickets, y) ==
    LET comp == Over(DoubleBits, Fraction(tickets, 1), YieldFraction(y))
    IN  IF comp.n \div comp.d > UintMax THEN UintMax ELSE comp.n \div comp.d

\* What task_apply_compensation makes of the tickets of a task that yields.
Boost(tickets, y) ==
    LET comp == Round(Over(DoubleBits, Fraction(tickets, 1), YieldFraction(y)))
    IN  IF comp > UintMax THEN UintMax ELSE comp

-----------------------------------------------------------------------------
\* What rounding leaves of the intentions.

CeilDiv(a, b) == (a + b - 1) \div b

\* The share of an allotment that is not yielded, rounded up, but for three parts
\* in FloatExact: exactly share .. share + 100 hundredths of a unit as long as
\* three times the share is below FloatExact.
KeepsShare(units, allotment, y) ==
    LET share == allotment * y
    IN  FloatExact * (100 * units - share) \in -(3 * share) .. 100 * FloatExact + 3 * share

\* A boost costs no tickets.  Unless it is as many as a word holds, the boosted
\* tickets times the yield are the tickets again, but for half a ticket and 1.25
\* parts in FloatExact: to the nearest ticket as long as 250 times the tickets
\* are below FloatExact.
FairlyBoosted(boosted, tickets, y) ==
    /\ boosted \in tickets..UintMax
    /\ boosted < UintMax =>
          LET error == boosted * y - 100 * tickets
              lost == y * FloatExact + 250 * tickets
          IN  FloatExact * 2 * error \in -lost..lost
=============================================================================
