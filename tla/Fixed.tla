------------------------------- MODULE Fixed -------------------------------
(***************************************************************************)
(* The fixed-point formats of the FV-1 (src/src/fixed.rs) and the delay-RAM *)
(* word (compress14 in src/src/vm.rs).                                     *)
(*                                                                         *)
(* A shift of the source by k bits appears here as a multiplication by,    *)
(* a floor division by or a remainder modulo 2^k, and the power of two is  *)
(* a constant, so that a small instance keeps the shape of the arithmetic  *)
(* with fewer values.  The value of each constant in the source is beside  *)
(* its declaration.                                                        *)
(***************************************************************************)
EXTENDS Integers

CONSTANTS
  AccOne,    \* ONE_S23: 1.0 in S.23                               2^23
  S114,      \* 1.0 in S1.14, the coefficients of RDAX, SOF, ...   2^14
  S19,       \* 1.0 in S1.9, the coefficients of RDA, WRA, ...     2^9
  S10,       \* 1.0 in S.10, the D field of SOF, EXP, LOG          2^10
  S15,       \* 1.0 in S.15, the D field of CHO SOF, LFO rates     2^15
  Steps,     \* the quantization steps of the delay word           {2^6..2^13}
  Mantissa   \* magnitudes that one step of the word can hold      2^10

ASSUME FormatAssumption ==
  /\ {AccOne, S114, S19, S10, S15, Mantissa} \subseteq Nat \ {0}
  /\ Steps \subseteq Nat \ {0}

-----------------------------------------------------------------------------
AccMax == AccOne - 1
AccMin == -AccOne

\* The values a 24-bit register can hold.
Acc == AccMin .. AccMax

\* Saturation to the accumulator range.
Sat(v) == IF v > AccMax THEN AccMax ELSE IF v < AccMin THEN AccMin ELSE v

\* The low 24 bits of v read as a two's complement number.
SignExtend(v) == LET low == v % (2 * AccOne)
                 IN  IF low >= AccOne THEN low - 2 * AccOne ELSE low

\* The 24-bit pattern of an accumulator value.
Pattern(v) == v % (2 * AccOne)

\* The multipliers shift the product right, so they round down.
MulS114(x, c) == (x * c) \div S114
MulS19(x, c)  == (x * c) \div S19
MulS23(x, y)  == (x * y) \div AccOne

\* A slip for the mutation runs: an arithmetic shift in place of a division.
FloorDiv(a, d) == a \div d

\* Rust's integer division rounds toward zero.
TruncDiv(a, d) == IF a >= 0 THEN a \div d ELSE -((-a) \div d)

Clamp(v, lo, hi) == IF v < lo THEN lo ELSE IF v > hi THEN hi ELSE v
Abs(v) == IF v < 0 THEN -v ELSE v

-----------------------------------------------------------------------------
\* The step that stores magnitude m: the finest one whose mantissa holds m.
StepFor(m) == CHOOSE st \in Steps : /\ m < st * Mantissa
                                    /\ \A t \in Steps : t < st => m >= t * Mantissa

ASSUME StepsAssumption ==
  \A m \in 0 .. AccMax : \E st \in Steps : /\ m < st * Mantissa
                                           /\ \A t \in Steps : t < st => m >= t * Mantissa

\* What delay RAM keeps of v in 14 bits: the sign, and the magnitude with
\* what is below the step cut off.
Compress14(v) == LET m == IF Abs(v) > AccMax THEN AccMax ELSE Abs(v)
                     q == m - (m % StepFor(m))
                 IN  IF v < 0 THEN -q ELSE q
=============================================================================
