----------------------------- MODULE XorShift32 -----------------------------
(***************************************************************************)
(* rng.c.  A word is the set of the positions of its 1 bits, so that the    *)
(* exclusive or is a symmetric difference and a shift drops what leaves     *)
(* the word.                                                               *)
(***************************************************************************)
EXTENDS Integers

CONSTANTS WordSize,                 \* 32
          Shift1, Shift2, Shift3    \* 13, 17 and 5

ASSUME WordSizeAssumption == WordSize \in Nat \ {0}
ASSUME ShiftAssumption == {Shift1, Shift2, Shift3} \subseteq Nat \ {0}

VARIABLE rng_seed

Bit == 0..(WordSize - 1)

BitWord == SUBSET Bit

Zero == {}

Xor(a, b) == (a \ b) \cup (b \ a)

ShiftLeft(x, n) == {i + n : i \in x} \cap Bit

ShiftRight(x, n) == {i - n : i \in x} \cap Bit

\* Wrong: an assignment in place of the exclusive or.
OnlyShiftLeft(x, n) == ShiftLeft(x, n)

\* x ^= x << n
XorLeft(x, n) == Xor(x, ShiftLeft(x, n))

\* x ^= x >> n
XorRight(x, n) == Xor(x, ShiftRight(x, n))

\* The word after x in rng_xorshift32_get.
NextWord(x) == XorLeft(XorRight(XorLeft(x, Shift1), Shift2), Shift3)

-----------------------------------------------------------------------------
Unseeded == rng_seed = Zero

\* rng_xorshift32_seed stores 0 as well, and returns whether it did not.
SeedWith(seed) == rng_seed' = seed

\* rng_xorshift32_get draws the next word.
Get == ~Unseeded /\ rng_seed' = NextWord(rng_seed)

\* Without a seed it returns false and draws nothing.
GetRefused == Unseeded /\ UNCHANGED rng_seed
=============================================================================
