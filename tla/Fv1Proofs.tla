----------------------------- MODULE Fv1Proofs -----------------------------
(***************************************************************************)
(* What holds of the virtual machine of Fv1 for every program, every host  *)
(* and every width of the formats: its types, the lag of PACC and the      *)
(* place of the ramps; and what holds of it and its history: delay RAM     *)
(* under its moving base pointer implements the line of samples of         *)
(* DelayLine, the first pass after a restart is told from the others, a    *)
(* restart leaves no trace, and the noise of the ADCs is a function of its *)
(* seed.                                                                   *)
(***************************************************************************)
EXTENDS Fv1Audit, WellFoundedInduction, TLAPS

-----------------------------------------------------------------------------
(* Iteration.                                                              *)

\* A set of naturals that is not empty has a least element.
LEMMA Least ==
  ASSUME NEW T \in SUBSET Nat, T # {}
  PROVE  \E x \in T : \A y \in T : x <= y
<1> DEFINE R == {ss \in Nat \X Nat : ss[1] < ss[2]}
<1>1. IsWellFoundedOn(R, Nat)
  BY NatLessThanWellFounded DEF OpToRel
<1>2. PICK x \in T : \A y \in T : ~(<<y, x>> \in R)
  <2> HIDE DEF R
  <2> QED BY <1>1, WFMin
<1>3. \A y \in T : ~(y < x)
  BY <1>2
<1> QED BY <1>2, <1>3

\* Induction over a set of naturals: none is the least one missing.
LEMMA Induct ==
  ASSUME NEW S, 0 \in S, \A n \in Nat : n \in S => n + 1 \in S
  PROVE  Nat \subseteq S
<1> DEFINE T == Nat \ S
<1>1. ASSUME T # {} PROVE FALSE
  <2>1. PICK x \in T : \A y \in T : x <= y
    BY <1>1, Least
  <2>2. x - 1 \in Nat /\ x - 1 < x /\ (x - 1) + 1 = x
    BY <2>1
  <2>3. x - 1 \in S
    BY <2>1, <2>2
  <2> QED BY <2>1, <2>2, <2>3
<1> QED BY <1>1

\* f counts the iterations of F from v0.
Iterates(f, F, v0, V) ==
  f \in [Nat -> V] /\ f[0] = v0 /\ \A n \in Nat : f[n + 1] = F[f[n]]

\* A function iterated from a value is a function of the number of times.
LEMMA Iterated ==
  ASSUME NEW V, NEW v0, v0 \in V, NEW F, F \in [V -> V]
  PROVE  \E f : Iterates(f, F, v0, V)
<1> DEFINE Follows(g, n) == /\ g \in [0 .. n -> V] /\ g[0] = v0
                            /\ \A k \in 1 .. n : g[k] = F[g[k - 1]]
           S == {n \in Nat : \E g : Follows(g, n)}
           run(n) == CHOOSE g : Follows(g, n)
           f == [n \in Nat |-> run(n)[n]]
<1>1. 0 \in S
  <2> DEFINE g == [k \in 0 .. 0 |-> v0]
  <2>1. Follows(g, 0)
    OBVIOUS
  <2> QED BY <2>1
<1>2. ASSUME NEW n \in Nat, NEW g, Follows(g, n)
      PROVE  Follows([k \in 0 .. n + 1 |-> IF k <= n THEN g[k] ELSE F[g[n]]], n + 1)
  <2> DEFINE h == [k \in 0 .. n + 1 |-> IF k <= n THEN g[k] ELSE F[g[n]]]
  <2>1. \A k \in 0 .. n : g[k] \in V
    BY <1>2
  <2>2. F[g[n]] \in V
    BY <2>1
  <2>3. h \in [0 .. n + 1 -> V] /\ h[0] = v0
    BY <1>2, <2>1, <2>2
  <2>4. \A k \in 1 .. n + 1 : h[k] = F[h[k - 1]]
    BY <1>2, <2>3
  <2> QED BY <2>3, <2>4
<1>3. ASSUME NEW n \in Nat, n \in S PROVE n + 1 \in S
  <2>1. PICK g : Follows(g, n)
    BY <1>3
  <2> HIDE DEF Follows
  <2>2. \E h : Follows(h, n + 1)
    BY <1>2, <2>1
  <2> QED BY <2>2
<1>4. \A n \in Nat : Follows(run(n), n)
  <2> HIDE DEF Follows
  <2>1. Nat \subseteq S
    <3> HIDE DEF S
    <3> QED BY <1>1, <1>3, Induct
  <2> QED BY <2>1
<1>5. ASSUME NEW n \in Nat, NEW g, NEW h, Follows(g, n), Follows(h, n + 1)
      PROVE  g[n] = h[n]
  <2> DEFINE A == {k \in Nat : k <= n => g[k] = h[k]}
  <2>1. 0 \in A
    BY <1>5
  <2>2. ASSUME NEW k \in Nat, k \in A PROVE k + 1 \in A
    <3>1. CASE k + 1 <= n
      <4>1. k + 1 \in 1 .. n /\ k + 1 \in 1 .. n + 1 /\ (k + 1) - 1 = k /\ k <= n
        BY <3>1
      <4>2. g[k] = h[k]
        BY <2>2, <4>1
      <4>3. g[k + 1] = F[g[(k + 1) - 1]] /\ h[k + 1] = F[h[(k + 1) - 1]]
        BY <1>5, <4>1
      <4> QED BY <4>1, <4>2, <4>3
    <3>2. CASE ~(k + 1 <= n)
      BY <3>2
    <3> QED BY <3>1, <3>2
  <2>3. Nat \subseteq A
    <3> HIDE DEF A
    <3> QED BY <2>1, <2>2, Induct
  <2> QED BY <2>3
<1> HIDE DEF S, run
<1>6. f[0] = v0
  BY <1>4
<1>7. ASSUME NEW n \in Nat PROVE f[n + 1] = F[f[n]]
  <2>1. Follows(run(n), n) /\ Follows(run(n + 1), n + 1)
    BY <1>4
  <2>2. run(n)[n] = run(n + 1)[n]
    <3> HIDE DEF Follows
    <3> QED BY <1>5, <2>1
  <2>3. run(n + 1)[n + 1] = F[run(n + 1)[(n + 1) - 1]]
    BY <2>1
  <2>4. (n + 1) - 1 = n
    OBVIOUS
  <2> QED BY <2>2, <2>3, <2>4
<1>8. f \in [Nat -> V]
  <2>1. \A n \in Nat : run(n)[n] \in V
    BY <1>4
  <2> QED BY <2>1
<1> HIDE DEF f
<1> QED BY <1>6, <1>7, <1>8 DEF Iterates

-----------------------------------------------------------------------------
(* Arithmetic.                                                             *)

\* The formats as numbers, and the divisors that stand for shifts.
LEMMA Formats ==
  /\ AccOne \in Nat \ {0} /\ S114 \in Nat \ {0} /\ S19 \in Nat \ {0}
  /\ S10 \in Nat \ {0} /\ S15 \in Nat \ {0} /\ RampLen \in Nat \ {0}
  /\ RampDiv \in Nat \ {0} /\ FracLen \in Nat \ {0} /\ DelayLen \in Nat \ {0}
  /\ ProgLen \in Nat \ {0} /\ RateLen \in Nat \ {0} /\ LcgMod \in Nat \ {0}
  /\ LcgMul \in Nat \ {0} /\ LcgAdd \in Nat /\ DitherSpan \in Nat \ {0}
  /\ AccMax \in Nat /\ AccMin \in Int /\ Acc \subseteq Int /\ 0 \in Acc
  /\ AccMin < 0 /\ AccMax = AccOne - 1 /\ AccMin = -AccOne
  BY FormatAssumption, LfoAssumption, ChipAssumption DEF AccMax, AccMin, Acc

\* A floor quotient is between 0 and a nonnegative dividend, and between a
\* negative one and -1.
LEMMA Quotient ==
  ASSUME NEW a \in Int, NEW d \in Nat \ {0}
  PROVE  /\ a \div d \in Int
         /\ a >= 0 => 0 <= a \div d /\ a \div d <= a
         /\ a < 0 => a <= a \div d /\ a \div d < 0
         /\ a % d \in 0 .. d - 1
         /\ a >= 0 => a % d <= a
<1> DEFINE q == a \div d
<1>1. /\ q \in Int /\ a % d \in Int /\ a = d * q + (a % d)
      /\ 0 <= a % d /\ a % d < d
  OBVIOUS
<1>2. CASE q >= 0
  <2>1. d * q >= q /\ d * q >= 0
    BY <1>1, <1>2
  <2> QED BY <1>1, <1>2, <2>1
<1>3. CASE q <= -1
  <2>1. d * (-q) >= -q /\ d * (-q) = -(d * q)
    BY <1>1, <1>3
  <2>2. d * (-q - 1) >= 0 * d /\ d * (-q - 1) = d * (-q) - d
    BY <1>1, <1>3
  <2>3. d * (-q - 1) >= -q - 1
    BY <1>1, <1>3
  <2> QED BY <1>1, <1>3, <2>1, <2>2, <2>3
<1> QED BY <1>1, <1>2, <1>3

LEMMA QuotientPositive ==
  ASSUME NEW m \in Nat, NEW b \in Nat \ {0}, m >= b
  PROVE  m \div b \in Nat \ {0}
<1>1. m = b * (m \div b) + (m % b) /\ m % b < b /\ m \div b \in Int
  OBVIOUS
<1>2. m \div b >= 0 /\ m \div b # 0
  BY <1>1, Quotient
<1> QED BY <1>1, <1>2

\* Saturation and sign extension end in the accumulator's range.
LEMMA SatAcc == \A v \in Int : Sat(v) \in Acc
  BY Formats DEF Sat, Acc

LEMMA SignExtendAcc == \A v \in Int : SignExtend(v) \in Acc
<1> SUFFICES ASSUME NEW v \in Int PROVE SignExtend(v) \in Acc
  OBVIOUS
<1>1. v % (2 * AccOne) \in 0 .. 2 * AccOne - 1
  BY Formats, Quotient
<1> QED BY <1>1, Formats DEF SignExtend, Acc

\* A word shifted right is a word.
LEMMA ShiftAcc == \A v \in Acc, d \in Nat \ {0} : v \div d \in Acc
<1> SUFFICES ASSUME NEW v \in Acc, NEW d \in Nat \ {0} PROVE v \div d \in Acc
  OBVIOUS
<1>1. v \in Int /\ AccMin <= v /\ v <= AccMax
  BY Formats DEF Acc
<1>2. /\ v \div d \in Int
      /\ v >= 0 => 0 <= v \div d /\ v \div d <= v
      /\ v < 0 => v <= v \div d /\ v \div d < 0
  BY <1>1, Quotient
<1> QED BY <1>1, <1>2, Formats DEF Acc

\* The delay word keeps values in the accumulator's range.
LEMMA CompressAcc == \A v \in Acc : Compress14(v) \in Acc
<1> SUFFICES ASSUME NEW v \in Acc PROVE Compress14(v) \in Acc
  OBVIOUS
<1> DEFINE m == IF Abs(v) > AccMax THEN AccMax ELSE Abs(v)
           st == StepFor(m)
<1>1. m \in 0 .. AccMax
  BY Formats DEF Abs, Acc
<1>2. st \in Steps
  BY <1>1, StepsAssumption DEF StepFor
<1>3. st \in Nat \ {0}
  BY <1>2, FormatAssumption
<1> HIDE DEF st, m
<1>4. m \in Int /\ m >= 0 /\ m <= AccMax
  BY <1>1, Formats
<1>5. m % st \in 0 .. st - 1 /\ m % st <= m
  BY <1>3, <1>4, Quotient
<1>7. m - (m % st) \in 0 .. AccMax
  BY <1>3, <1>4, <1>5, Formats
<1>6. Compress14(v) = IF v < 0 THEN -(m - (m % st)) ELSE m - (m % st)
  BY DEF Compress14, m, st
<1> QED BY <1>6, <1>7, Formats DEF Acc

\* Products and quotients of integers are integers.
LEMMA MulInt ==
  \A x, y \in Int : MulS114(x, y) \in Int /\ MulS19(x, y) \in Int /\ MulS23(x, y) \in Int
<1> SUFFICES ASSUME NEW x \in Int, NEW y \in Int
             PROVE  MulS114(x, y) \in Int /\ MulS19(x, y) \in Int /\ MulS23(x, y) \in Int
  OBVIOUS
<1>1. x * y \in Int
  OBVIOUS
<1> QED BY <1>1, Formats, Quotient DEF MulS114, MulS19, MulS23

LEMMA MulAddInt ==
  \A x, y, z \in Int :
     MulS114(x, y) + z \in Int /\ MulS19(x, y) + z \in Int /\ MulS23(x, y) + z \in Int
<1> SUFFICES ASSUME NEW x \in Int, NEW y \in Int, NEW z \in Int
             PROVE  /\ MulS114(x, y) + z \in Int /\ MulS19(x, y) + z \in Int
                    /\ MulS23(x, y) + z \in Int
  OBVIOUS
<1>1. MulS114(x, y) \in Int /\ MulS19(x, y) \in Int /\ MulS23(x, y) \in Int
  BY MulInt
<1> QED BY <1>1

LEMMA PatternRange == \A v \in Int : Pattern(v) \in 0 .. 2 * AccOne - 1
<1> SUFFICES ASSUME NEW v \in Int PROVE Pattern(v) \in 0 .. 2 * AccOne - 1
  OBVIOUS
<1> QED BY Formats, Quotient DEF Pattern

-----------------------------------------------------------------------------
(* The oscillators.                                                        *)

LEMMA SinTickAcc ==
  ASSUME NEW lfo \in [sin : Acc, cos : Acc], NEW rate \in Acc
  PROVE  SinTick(lfo, rate) \in [sin : Acc, cos : Acc]
<1> DEFINE k == rate \div (AccOne \div S15)
           c == Clamp(lfo.cos + MulS23(lfo.sin, k), -AccOne, AccMax)
           s == Clamp(lfo.sin - MulS23(c, k), -AccOne, AccMax)
<1>1. \A v \in Int : Clamp(v, -AccOne, AccMax) \in Acc
  BY Formats DEF Clamp, Acc
<1>2. AccOne \div S15 \in Nat \ {0}
  <2>1. S15 <= AccOne
    BY ChipAssumption
  <2>2. AccOne = S15 * (AccOne \div S15) + (AccOne % S15) /\ AccOne % S15 < S15
    BY Formats
  <2>3. AccOne \div S15 # 0 /\ AccOne \div S15 \in Int /\ AccOne \div S15 >= 0
    BY <2>1, <2>2, Formats, Quotient
  <2> QED BY <2>3
<1>3. k \in Int
  BY <1>2, Formats, Quotient
<1>4. lfo.sin \in Int /\ lfo.cos \in Int
  BY Formats
<1> HIDE DEF k
<1>5. c \in Acc
  <2>1. MulS23(lfo.sin, k) \in Int
    BY <1>3, <1>4, MulInt
  <2>2. lfo.cos + MulS23(lfo.sin, k) \in Int
    BY <2>1, <1>4
  <2> QED BY <2>2, <1>1
<1> HIDE DEF c
<1>6. s \in Acc
  <2>1. MulS23(c, k) \in Int
    BY <1>3, <1>5, MulInt, Formats
  <2>2. lfo.sin - MulS23(c, k) \in Int
    BY <2>1, <1>4
  <2> QED BY <2>2, <1>1
<1>7. SinTick(lfo, rate) = [sin |-> s, cos |-> c]
  BY DEF SinTick, c, k
<1> HIDE DEF s
<1> QED BY <1>5, <1>6, <1>7

\* Whatever a range register holds, it selects a window.
LEMMA WindowBounds ==
  ASSUME NEW w \in Acc
  PROVE  /\ AmpShift(w) \in 0 .. 3
         /\ Shrink[AmpShift(w) + 1] \in {1, 2, 4, 8}
         /\ Window(w) \in 1 .. RampLen
<1>1. AccOne \div 4 \in Nat \ {0}
  BY Formats, ChipAssumption
<1>2. w \div (AccOne \div 4) \in Int
  BY <1>1, Formats, Quotient
<1>3. AmpShift(w) \in 0 .. 3
  <2> DEFINE q == w \div (AccOne \div 4)
  <2> HIDE DEF q
  <2>1. q % 4 \in 0 .. 3
    BY <1>2 DEF q
  <2> QED BY <2>1 DEF AmpShift, q
<1>4. Shrink[AmpShift(w) + 1] \in {1, 2, 4, 8}
  BY <1>3 DEF Shrink
<1>5. \A k \in {1, 2, 4, 8} : RampLen \div k \in 1 .. RampLen
  <2>1. RampLen \in Nat /\ RampLen >= 8
    BY Formats, LfoAssumption
  <2>2. RampLen \div 1 \in 1 .. RampLen /\ RampLen \div 2 \in 1 .. RampLen
    BY <2>1
  <2>3. RampLen \div 4 \in 1 .. RampLen /\ RampLen \div 8 \in 1 .. RampLen
    BY <2>1
  <2> QED BY <2>2, <2>3
<1> QED BY <1>3, <1>4, <1>5 DEF Window

\* After a tick the phase lies in the window of the range register.
LEMMA RampTickWindow ==
  ASSUME NEW p \in Int, NEW rate \in Acc, NEW w \in Acc
  PROVE  RampTick(p, rate, w) \in 0 .. Window(w) - 1
<1>1. TruncDiv(rate, RampDiv) \in Int
  BY Formats, Quotient DEF TruncDiv
<1>2. Window(w) \in Nat \ {0}
  BY WindowBounds, Formats
<1>3. p - TruncDiv(rate, RampDiv) \in Int
  BY <1>1
<1> QED BY <1>2, <1>3, Quotient DEF RampTick

\* What an access gets from an oscillator are integers.
LEMMA Complements ==
  ASSUME NEW c \in Int, NEW fl
  PROVE  Complement(c, fl) \in Int
  BY Formats DEF Complement

LEMMA Fractions ==
  ASSUME NEW v \in Int
  PROVE  Fraction(v) \in Int
<1>1. v % FracLen \in Int /\ AccOne \div FracLen \in Int
  BY Formats, Quotient
<1> QED BY <1>1 DEF Fraction

LEMMA SinChoInt ==
  ASSUME NEW lfo \in [sin : Acc, cos : Acc], NEW w \in Acc, NEW fl
  PROVE  SinCho(lfo, w, fl).offset \in Int /\ SinCho(lfo, w, fl).coeff \in Int
<1> DEFINE v == SinValue(lfo, w, "COS" \in fl)
<1>1. v \in Int
  BY Formats, MulInt DEF SinValue
<1>2. SinCho(lfo, w, fl) = [offset |-> (IF "COMPA" \in fl THEN -v ELSE v) \div FracLen,
                            coeff  |-> Complement(Fraction(v), fl)]
  BY DEF SinCho
<1> HIDE DEF v
<1>3. (IF "COMPA" \in fl THEN -v ELSE v) \div FracLen \in Int
  BY <1>1, Formats, Quotient
<1>4. Complement(Fraction(v), fl) \in Int
  BY <1>1, Fractions, Complements
<1> QED BY <1>2, <1>3, <1>4

LEMMA RampChoInt ==
  ASSUME NEW p \in Int, NEW w \in Acc, NEW fl
  PROVE  RampCho(p, w, fl).offset \in Int /\ RampCho(p, w, fl).coeff \in Int
<1>1. Window(w) \in Nat \ {0} /\ Shrink[AmpShift(w) + 1] \in Int
  BY WindowBounds, Formats
<1>2. CASE "NA" \in fl
  <2>1. AccOne \div 2 \in Int
    BY Formats, Quotient
  <2>2. Crossfade(p, w) \in Int
    <3> DEFINE tri == IF p < Window(w) - 1 - p THEN p ELSE Window(w) - 1 - p
    <3>1. tri \in Int
      BY <1>1
    <3> HIDE DEF tri
    <3>2. tri * 8 * Shrink[AmpShift(w) + 1] - AccOne \div 2 \in Int
      BY <1>1, <2>1, <3>1
    <3>3. Crossfade(p, w) = Clamp(tri * 8 * Shrink[AmpShift(w) + 1] - AccOne \div 2, 0, AccMax)
      BY DEF Crossfade, tri
    <3> QED BY <3>2, <3>3, Formats DEF Clamp
  <2>3. RampCho(p, w, fl) = [offset |-> 0, coeff |-> Complement(Crossfade(p, w), fl)]
    BY <1>2 DEF RampCho
  <2>4. Complement(Crossfade(p, w), fl) \in Int
    BY <2>2, Complements
  <2> QED BY <2>3, <2>4
<1>3. CASE "NA" \notin fl
  <2> DEFINE v == TapPhase(p, w, fl)
             o == IF "COMPA" \in fl THEN Window(w) - 1 - v ELSE v
  <2>1. v \in Int
    <3>1. (Window(w) - 1) \div 2 \in Int
      BY <1>1, Quotient
    <3>2. (p + (Window(w) - 1) \div 2) % Window(w) \in Int
      BY <1>1, <3>1, Quotient
    <3> QED BY <3>2 DEF TapPhase
  <2>2. RampCho(p, w, fl) = [offset |-> o \div FracLen, coeff |-> Complement(Fraction(v), fl)]
    BY <1>3 DEF RampCho
  <2> HIDE DEF v
  <2>3. o \in Int
    BY <1>1, <2>1
  <2> HIDE DEF o
  <2>4. o \div FracLen \in Int
    BY <2>3, Formats, Quotient
  <2>5. Complement(Fraction(v), fl) \in Int
    BY <2>1, Fractions, Complements
  <2> QED BY <2>2, <2>4, <2>5
<1> QED BY <1>2, <1>3

-----------------------------------------------------------------------------
(* Instructions, and what the host's calls compute.                        *)

\* The fields an instruction has, by its operation.
LEMMA Fields ==
  ASSUME NEW i \in Instruction
  PROVE  /\ i.op \in {"RDA", "WRA", "WRAP"} => i.addr \in Int /\ i.c \in Int
         /\ i.op = "RMPA" => i.c \in Int
         /\ i.op \in {"RDAX", "RDFX", "WRAX", "WRHX", "WRLX", "MAXX"}
              => i.reg \in Reg /\ i.c \in Int
         /\ i.op = "MULX" => i.reg \in Reg
         /\ i.op \in {"LOG", "EXP", "SOF"} => i.c \in Int /\ i.d \in Int
         /\ i.op \in {"AND", "OR", "XOR"} => i.mask \in 0 .. 2 * AccOne - 1
         /\ i.op = "SKP" => i.n \in Nat
         /\ i.op = "WLDS" => /\ i.lfo \in {"SIN0", "SIN1"}
                             /\ i.freq \in 0 .. RateLen - 1 /\ i.amp \in 0 .. S15 - 1
         /\ i.op = "WLDR" => /\ i.lfo \in {"RMP0", "RMP1"}
                             /\ i.freq \in -S15 .. S15 - 1 /\ i.amp \in 0 .. 3
         /\ i.op = "JAM" => i.lfo \in {"RMP0", "RMP1"}
         /\ i.op = "CHO_RDA" => i.lfo \in Lfos /\ i.addr \in Int
         /\ i.op = "CHO_SOF" => i.lfo \in Lfos /\ i.d \in Int
         /\ i.op = "CHO_RDAL" => i.lfo \in Lfos
  BY DEF Instruction

\* The instruction a pass has reached.
LEMMA Reached ==
  ASSUME TypeOK, NEW op, Fetched(op)
  PROVE  Ins \in Instruction /\ Ins.op = op
<1>1. ic \in Nat /\ instructions \in [Slots -> Instruction]
  BY DEF TypeOK
<1>2. ic < ProgLen /\ instructions[ic].op = op
  BY DEF Fetched
<1>3. ic \in Slots
  BY <1>1, <1>2, Formats DEF Slots
<1> QED BY <1>1, <1>2, <1>3 DEF Ins

\* A program padded to the memory's length.
LEMMA PaddedType ==
  ASSUME NEW p \in Seq(Instruction)
  PROVE  Padded(p) \in [Slots -> Instruction]
<1>1. Nop \in Instruction
  BY DEF Nop, Instruction
<1>2. \A i \in Slots : i < Len(p) => p[i + 1] \in Instruction
  BY Formats DEF Slots
<1> QED BY <1>1, <1>2 DEF Padded

\* The generator's states are natural numbers.
LEMMA LcgNat == \A s \in Nat : Lcg(s) \in Nat
<1> SUFFICES ASSUME NEW s \in Nat PROVE Lcg(s) \in Nat
  OBVIOUS
<1>1. s * LcgMul + LcgAdd \in Int
  BY Formats
<1>2. (s * LcgMul + LcgAdd) % LcgMod \in 0 .. LcgMod - 1
  BY <1>1, Formats, Quotient
<1> QED BY <1>2, Formats DEF Lcg

\* A seed made odd is one too.
LEMMA OddNat == \A s \in Nat : Odd(s) \in Nat
  BY DEF Odd

\* A run of the generator draws each state from the one before.
LEMMA LcgRunIs ==
  ASSUME NEW s \in Nat
  PROVE  /\ LcgRun(s)[0] = s
         /\ \A k \in Nat : LcgRun(s)[k] \in Nat /\ LcgRun(s)[k + 1] = Lcg(LcgRun(s)[k])
<1> DEFINE F == [x \in Nat |-> Lcg(x)]
           By(f) == f = [k \in Nat |-> IF k = 0 THEN s ELSE Lcg(f[k - 1])]
           run == LcgRun(s)
<1>1. F \in [Nat -> Nat]
  BY LcgNat
<1>2. PICK f : Iterates(f, F, s, Nat)
  <2> HIDE DEF F
  <2> QED BY <1>1, Iterated
<1>3. f \in [Nat -> Nat] /\ f[0] = s /\ \A k \in Nat : f[k + 1] = F[f[k]]
  BY <1>2 DEF Iterates
<1>4. By(f)
  <2> DEFINE g == [k \in Nat |-> IF k = 0 THEN s ELSE Lcg(f[k - 1])]
  <2>1. \A k \in Nat : f[k] = g[k]
    <3> TAKE k \in Nat
    <3>1. CASE k = 0
      BY <1>3, <3>1
    <3>2. CASE k # 0
      <4>1. k - 1 \in Nat /\ (k - 1) + 1 = k
        BY <3>2
      <4>2. f[k] = F[f[k - 1]]
        BY <1>3, <4>1
      <4>3. f[k - 1] \in Nat
        BY <1>3, <4>1
      <4>4. f[k] = Lcg(f[k - 1])
        BY <4>2, <4>3
      <4> QED BY <3>2, <4>4
    <3> QED BY <3>1, <3>2
  <2>2. f = [k \in Nat |-> f[k]]
    BY <1>3
  <2>3. g = [k \in Nat |-> g[k]]
    OBVIOUS
  <2> HIDE DEF g
  <2>4. f = g
    BY <2>1, <2>2, <2>3
  <2> QED BY <2>4 DEF g
<1>5. By(run)
  <2>1. run = CHOOSE g : By(g)
    BY DEF LcgRun
  <2> HIDE DEF By, run
  <2> QED BY <1>4, <2>1
<1>6. \A k \in Nat : run[k] = IF k = 0 THEN s ELSE Lcg(run[k - 1])
  <2> HIDE DEF run
  <2> QED BY <1>5
<1> HIDE DEF run, F
<1>7. run[0] = s
  BY <1>6
<1>8. \A k \in Nat : run[k + 1] = Lcg(run[k])
  <2> TAKE k \in Nat
  <2>1. k + 1 \in Nat /\ k + 1 # 0 /\ (k + 1) - 1 = k
    OBVIOUS
  <2> QED BY <1>6, <2>1
<1>9. \A k \in Nat : run[k] \in Nat
  <2> DEFINE A == {k \in Nat : run[k] \in Nat}
  <2>1. 0 \in A
    BY <1>7
  <2>2. ASSUME NEW k \in Nat, k \in A PROVE k + 1 \in A
    BY <1>8, <2>2, LcgNat
  <2>3. Nat \subseteq A
    <3> HIDE DEF A
    <3> QED BY <2>1, <2>2, Induct
  <2> QED BY <2>3
<1> QED BY <1>7, <1>8, <1>9 DEF run

\* A word of the noise floor, taken from a state of the generator.
LEMMA RandomWordAcc == \A s \in Nat : RandomWord(s) \in Acc
<1> SUFFICES ASSUME NEW s \in Nat PROVE RandomWord(s) \in Acc
  OBVIOUS
<1> DEFINE d == LcgMod \div (2 * AccOne)
<1>1. d \in Nat \ {0}
  <2>1. 2 * AccOne \in Nat \ {0} /\ LcgMod >= 2 * AccOne /\ LcgMod \in Nat
    BY Formats, ChipAssumption
  <2> HIDE DEF d
  <2> QED BY <2>1, QuotientPositive DEF d
<1> HIDE DEF d
<1>2. s \div d \in Int
  BY <1>1, Quotient
<1>3. SignExtend(s \div d) \in Acc
  BY <1>2, SignExtendAcc
<1>4. SignExtend(s \div d) \div S10 \in Acc
  BY <1>3, ShiftAcc, Formats
<1> QED BY <1>4 DEF RandomWord, d

LEMMA NoiseFloorType ==
  ASSUME NEW seed \in RamSeeds
  PROVE  NoiseFloor(seed) \in [Addr -> Acc]
<1>1. \A a \in Addr : a + 1 \in 1 .. DelayLen
  BY Formats DEF Addr
<1>2. \A a \in Addr : LcgRun(Odd(seed))[a + 1] \in Nat
  <2>1. Odd(seed) \in Nat
    BY HostAssumption, OddNat
  <2>2. \A k \in Nat : LcgRun(Odd(seed))[k] \in Nat
    BY <2>1, LcgRunIs
  <2>3. \A a \in Addr : a + 1 \in Nat
    BY <1>1
  <2> QED BY <2>2, <2>3
<1>3. \A a \in Addr : RandomWord(LcgRun(Odd(seed))[a + 1]) \in Acc
  BY <1>2, RandomWordAcc
<1> QED BY <1>3 DEF NoiseFloor

LEMMA NoiseRegsType ==
  ASSUME NEW r \in [Reg -> Acc], NEW seed \in RamSeeds
  PROVE  NoiseRegs(r, seed) \in [Reg -> Acc]
<1> DEFINE i(name) == CHOOSE j \in DOMAIN GP : GP[j] = name
           w(name) == RandomWord(LcgRun(BitXor(seed, SeedMask))[i(name)])
<1>1. \A name \in GPRegs : i(name) \in DOMAIN GP
  BY DEF GPRegs
<1> HIDE DEF i
<1>2. \A name \in GPRegs : w(name) \in Acc
  <2>1. BitXor(seed, SeedMask) \in Nat
    BY UnitAssumption
  <2>2. \A k \in Nat : LcgRun(BitXor(seed, SeedMask))[k] \in Nat
    BY <2>1, LcgRunIs
  <2>3. DOMAIN GP \subseteq Nat
    BY RegisterAssumption
  <2>4. \A name \in GPRegs : LcgRun(BitXor(seed, SeedMask))[i(name)] \in Nat
    BY <1>1, <2>2, <2>3
  <2> QED BY <2>4, RandomWordAcc
<1>3. NoiseRegs(r, seed) = [name \in Reg |-> IF name \in GPRegs THEN w(name) ELSE r[name]]
  BY DEF NoiseRegs, w, i
<1> HIDE DEF w
<1> QED BY <1>2, <1>3

\* The dither of one sample is an integer.
LEMMA DitherInt == \A s \in Nat : Dither(s) \in Int
<1> SUFFICES ASSUME NEW s \in Nat PROVE Dither(s) \in Int
  OBVIOUS
<1> DEFINE q == s \div (LcgMod \div (2 * AccOne))
<1>1. q \in Int
  <2>1. LcgMod \div (2 * AccOne) \in Nat \ {0}
    <3>1. 2 * AccOne \in Nat \ {0} /\ LcgMod >= 2 * AccOne /\ LcgMod \in Nat
      BY Formats, ChipAssumption
    <3> QED BY <3>1, QuotientPositive
  <2> QED BY <2>1, Quotient
<1> HIDE DEF q
<1>2. q % DitherSpan \in Int /\ DitherSpan \div 2 \in Int
  BY <1>1, Formats, Quotient
<1> QED BY <1>2 DEF Dither, q

-----------------------------------------------------------------------------
(* Type correctness: what an instruction leaves behind.                    *)

\* Retiring an instruction keeps the types when its value fits the
\* accumulator and the state it wrote fits too.
LEMMA RetireType ==
  ASSUME TypeOK, NEW v \in Acc, NEW n \in Nat, Retire(v, n),
         delay' \in [Addr -> Acc], regs' \in [Reg -> Acc], lr' \in Acc,
         rmp_lfo' \in [{"RMP0", "RMP1"} -> 0 .. RampLen - 1]
  PROVE  TypeOK'
  BY DEF TypeOK, Retire, flags, noise

LEMMA ComputeType ==
  ASSUME TypeOK, NEW op, NEW v \in Int, Compute(op, v)
  PROVE  TypeOK'
<1>1. Sat(v) \in Acc
  BY SatAcc
<1>2. Retire(Sat(v), 0) /\ UNCHANGED <<delay, regs, lr, rmp_lfo>>
  BY DEF Compute
<1>3. /\ delay' \in [Addr -> Acc] /\ regs' \in [Reg -> Acc] /\ lr' \in Acc
      /\ rmp_lfo' \in [{"RMP0", "RMP1"} -> 0 .. RampLen - 1]
  BY <1>2 DEF TypeOK
<1> QED BY <1>1, <1>2, <1>3, RetireType

LEMMA StoreType ==
  ASSUME TypeOK, NEW op, NEW v \in Int, Store(op, v)
  PROVE  TypeOK'
<1>1. Sat(v) \in Acc
  BY SatAcc
<1>2. Retire(Sat(v), 0) /\ UNCHANGED <<delay, lr, rmp_lfo>>
  BY DEF Store
<1>3. /\ delay' \in [Addr -> Acc] /\ lr' \in Acc
      /\ rmp_lfo' \in [{"RMP0", "RMP1"} -> 0 .. RampLen - 1]
  BY <1>2 DEF TypeOK
<1>4. regs' \in [Reg -> Acc]
  BY DEF TypeOK, Store
<1> QED BY <1>1, <1>2, <1>3, <1>4, RetireType

LEMMA LoadLfoType ==
  ASSUME TypeOK, NEW op, NEW rate \in Acc, NEW range \in Acc, LoadLfo(op, rate, range)
  PROVE  TypeOK'
<1>1. acc \in Acc
  BY DEF TypeOK
<1>2. Retire(acc, 0) /\ UNCHANGED <<delay, lr, rmp_lfo>>
  BY DEF LoadLfo
<1>3. /\ delay' \in [Addr -> Acc] /\ lr' \in Acc
      /\ rmp_lfo' \in [{"RMP0", "RMP1"} -> 0 .. RampLen - 1]
  BY <1>2 DEF TypeOK
<1>4. regs' \in [Reg -> Acc]
  BY DEF TypeOK, LoadLfo
<1> QED BY <1>1, <1>2, <1>3, <1>4, RetireType

\* Any offset reaches a cell of the delay RAM.
LEMMA CellAddr ==
  ASSUME TypeOK, NEW at \in Int
  PROVE  /\ Cell(at) \in Addr
         /\ DelayRead(at) \in Acc /\ DelayRead(at) \in Int
<1>1. cursor \in Int /\ delay \in [Addr -> Acc]
  BY Formats DEF TypeOK, Addr
<1>2. cursor + at \in Int
  BY <1>1
<1>3. Cell(at) \in Addr
  BY <1>2, Formats, Quotient DEF Cell, Addr
<1> QED BY <1>1, <1>3, Formats DEF DelayRead

\* An instruction that reads the delay RAM at an offset and latches the value.
LEMMA ReadType ==
  ASSUME TypeOK, NEW at \in Int, NEW v \in Int, LatchRead(at), Retire(Sat(v), 0),
         UNCHANGED <<delay, regs, rmp_lfo>>
  PROVE  TypeOK'
<1>1. Sat(v) \in Acc
  BY SatAcc
<1>2. lr' \in Acc
  BY CellAddr DEF LatchRead
<1>3. /\ delay' \in [Addr -> Acc] /\ regs' \in [Reg -> Acc]
      /\ rmp_lfo' \in [{"RMP0", "RMP1"} -> 0 .. RampLen - 1]
  BY DEF TypeOK
<1> QED BY <1>1, <1>2, <1>3, RetireType

\* An instruction that writes the accumulator to the delay RAM.
LEMMA WriteType ==
  ASSUME TypeOK, NEW at \in Int, NEW v \in Int, DelayWrite(at, acc), Retire(Sat(v), 0),
         UNCHANGED <<regs, lr, rmp_lfo>>
  PROVE  TypeOK'
<1>1. Sat(v) \in Acc
  BY SatAcc
<1>2. acc \in Acc /\ delay \in [Addr -> Acc]
  BY DEF TypeOK
<1>3. (IF quantize_delay_14bit THEN Compress14(acc) ELSE acc) \in Acc
  BY <1>2, CompressAcc
<1>4. delay' \in [Addr -> Acc]
  BY <1>2, <1>3 DEF DelayWrite
<1>5. /\ lr' \in Acc /\ regs' \in [Reg -> Acc]
      /\ rmp_lfo' \in [{"RMP0", "RMP1"} -> 0 .. RampLen - 1]
  BY DEF TypeOK
<1> QED BY <1>1, <1>4, <1>5, RetireType

\* The words an instruction computes with.
LEMMA Words ==
  ASSUME TypeOK
  PROVE  /\ acc \in Int /\ pacc \in Int /\ lr \in Int
         /\ acc \in Acc /\ \A r \in Reg : regs[r] \in Int /\ regs[r] \in Acc
  BY Formats DEF TypeOK

\* The address in ADDR_PTR.
LEMMA AddrPtrInt == ASSUME TypeOK PROVE AddrPtr \in Int
<1>1. regs["ADDR_PTR"] \in Int
  BY Words DEF Reg, IORegs
<1>2. AccOne \div DelayLen \in Nat \ {0}
  BY Formats, ChipAssumption, QuotientPositive
<1>3. regs["ADDR_PTR"] \div (AccOne \div DelayLen) \in Int
  BY <1>1, <1>2, Quotient
<1> QED BY <1>3, Formats, Quotient DEF AddrPtr

\* What CHO reads of an oscillator.
LEMMA ChoInt ==
  ASSUME TypeOK, NEW l \in Lfos, NEW fl
  PROVE  /\ ChoValue(l, fl).offset \in Int /\ ChoValue(l, fl).coeff \in Int
         /\ LfoLevel(l, fl) \in Int
<1>1. regs[RangeReg[l]] \in Acc
  <2>1. RangeReg[l] \in Reg
    BY DEF Lfos, RangeReg, Reg, LfoRegs
  <2> QED BY <2>1, Words
<1>2. CASE l \in {"SIN0", "SIN1"}
  <2>1. l \in DOMAIN sin_lfo /\ sin_lfo[l] \in [sin : Acc, cos : Acc]
    BY <1>2 DEF TypeOK
  <2>2. ChoValue(l, fl) = SinCho(sin_lfo[l], regs[RangeReg[l]], fl)
    BY <2>1 DEF ChoValue
  <2>3. LfoLevel(l, fl) = SinValue(sin_lfo[l], regs[RangeReg[l]], "COS" \in fl)
    BY <2>1 DEF LfoLevel
  <2>4. \A lf \in [sin : Acc, cos : Acc] :
          SinValue(lf, regs[RangeReg[l]], "COS" \in fl) \in Int
    BY <1>1, Formats, MulInt DEF SinValue
  <2> QED BY <1>1, <2>1, <2>2, <2>3, <2>4, SinChoInt
<1>3. CASE l \in {"RMP0", "RMP1"}
  <2>1. l \notin DOMAIN sin_lfo /\ rmp_lfo[l] \in Int
    BY <1>3, Formats DEF TypeOK
  <2>2. ChoValue(l, fl) = RampCho(rmp_lfo[l], regs[RangeReg[l]], fl)
    BY <2>1 DEF ChoValue
  <2>3. LfoLevel(l, fl) = rmp_lfo[l]
    BY <2>1 DEF LfoLevel
  <2> QED BY <1>1, <2>1, <2>2, <2>3, RampChoInt
<1> QED BY <1>2, <1>3 DEF Lfos

\* A field of WLDS or WLDR, placed in the word the oscillator reads, fits it.
LEMMA FieldWord ==
  ASSUME NEW d \in Nat \ {0}, AccOne % d = 0, NEW f \in -d .. d - 1
  PROVE  f * (AccOne \div d) \in Acc
<1> DEFINE q == AccOne \div d
<1>1. /\ q \in Int /\ AccOne = d * q + (AccOne % d) /\ q >= 0
      /\ AccOne \in Int /\ AccOne > 0 /\ d \in Int /\ d > 0 /\ f \in Int
  BY Formats, Quotient
<1>2. AccOne = d * q
  BY <1>1
<1> HIDE DEF q
<1>3. q >= 1
  BY <1>1, <1>2
<1>4. (d - 1 - f) * q >= 0 /\ (f + d) * q >= 0
  BY <1>1, <1>3
<1>5. (d - 1 - f) * q = d * q - q - f * q /\ (f + d) * q = f * q + d * q
  BY <1>1
<1>6. f * q \in Int
  BY <1>1
<1>7. f * q <= AccOne - 1 /\ f * q >= -AccOne
  BY <1>1, <1>2, <1>3, <1>4, <1>5, <1>6
<1>8. f * q \in Acc
  BY <1>6, <1>7, Formats DEF Acc
<1> QED BY <1>8 DEF q

-----------------------------------------------------------------------------
(* Type correctness: the initial states and every step.                    *)

LEMMA TypeInit == Init => TypeOK
<1> SUFFICES ASSUME Init PROVE TypeOK
  OBVIOUS
<1>1. instructions \in [Slots -> Instruction]
  <2>1. <<>> \in Seq(Instruction)
    OBVIOUS
  <2>2. Padded(<<>>) \in [Slots -> Instruction]
    BY <2>1, PaddedType
  <2> QED BY <2>2 DEF Init
<1>2. delay \in [Addr -> Acc] /\ regs \in [Reg -> Acc] /\ cursor \in Addr
  BY Formats DEF Init, Silence, RegsZero, Addr
<1>3. sin_lfo \in [{"SIN0", "SIN1"} -> [sin : Acc, cos : Acc]]
  BY Formats DEF Init, SinNew, Acc
<1>4. /\ rmp_lfo \in [{"RMP0", "RMP1"} -> 0 .. RampLen - 1]
      /\ pots \in [{"POT0", "POT1", "POT2"} -> 0 .. AccMax]
  BY Formats DEF Init, RampNew
<1>5. phase \in {"idle", "pass"} /\ ic \in Nat /\ {acc, pacc, prev_acc, lr} \subseteq Acc
  BY Formats DEF Init
<1>6. {noise_seed, noise_state} \subseteq Nat
  BY DEF Init
<1>7. {first_run, quantize_delay_14bit, clear_delay_on_load, adc_noise} \subseteq BOOLEAN
  BY Zenon DEF Init
<1> QED BY <1>1, <1>2, <1>3, <1>4, <1>5, <1>6, <1>7 DEF TypeOK

LEMMA ResetType ==
  ASSUME TypeOK, ResetRegistersAndLfos, instructions' \in [Slots -> Instruction],
         delay' \in [Addr -> Acc],
         UNCHANGED <<phase, ic, pots, flags, adc_noise, noise_seed>>
  PROVE  TypeOK'
<1>1. regs' \in [Reg -> Acc] /\ cursor' \in Addr
  BY Formats DEF ResetRegistersAndLfos, RegsZero, Addr
<1>2. sin_lfo' \in [{"SIN0", "SIN1"} -> [sin : Acc, cos : Acc]]
  BY Formats DEF ResetRegistersAndLfos, SinNew, Acc
<1>3. rmp_lfo' \in [{"RMP0", "RMP1"} -> 0 .. RampLen - 1]
  BY Formats DEF ResetRegistersAndLfos, RampNew
<1>4. acc' \in Acc /\ pacc' \in Acc /\ prev_acc' \in Acc /\ lr' \in Acc
  BY Formats DEF ResetRegistersAndLfos, ResetPipeline
<1>5. noise_state' \in Nat /\ first_run' \in BOOLEAN
  BY OddNat DEF ResetRegistersAndLfos, ResetNoise, TypeOK
<1> QED BY <1>1, <1>2, <1>3, <1>4, <1>5 DEF TypeOK, flags

LEMMA HostCallType ==
  ASSUME TypeOK, HostCall
  PROVE  TypeOK'
<1>1. ASSUME NEW p \in Programs, LoadProgram(p) PROVE TypeOK'
  <2>1. instructions' \in [Slots -> Instruction]
    BY <1>1, PaddedType, HostAssumption DEF LoadProgram
  <2>2. delay' \in [Addr -> Acc]
    BY <1>1, Formats DEF LoadProgram, Silence, TypeOK
  <2> QED BY <1>1, <2>1, <2>2, ResetType DEF LoadProgram
<1>2. CASE Reset
  <2>1. instructions' \in [Slots -> Instruction] /\ delay' \in [Addr -> Acc]
    BY <1>2, Formats DEF Reset, Silence, TypeOK
  <2> QED BY <1>2, <2>1, ResetType DEF Reset
<1>3. ASSUME NEW s \in RamSeeds, RandomizeDelayRam(s) PROVE TypeOK'
  BY <1>3, NoiseFloorType
  DEF RandomizeDelayRam, TypeOK, control, alu, lfos, flags, noise
<1>4. ASSUME NEW s \in RamSeeds, RandomizeRegisters(s) PROVE TypeOK'
  <2>1. regs' \in [Reg -> Acc]
    BY <1>4, NoiseRegsType DEF RandomizeRegisters, TypeOK
  <2> QED BY <1>4, <2>1
      DEF RandomizeRegisters, TypeOK, control, ram, alu, lfos, flags, noise
<1>5. ASSUME NEW b \in BOOLEAN, NEW s \in AdcSeeds, SetAdcNoise(b, s) PROVE TypeOK'
  <2>1. s \in Nat /\ Odd(s) \in Nat
    BY HostAssumption, OddNat
  <2> QED BY <1>5, <2>1 DEF SetAdcNoise, TypeOK, control, ram, alu, lfos, flags
<1>6. ASSUME NEW b \in BOOLEAN, SetClearDelayOnLoad(b) PROVE TypeOK'
  BY <1>6 DEF SetClearDelayOnLoad, TypeOK, control, ram, alu, lfos, noise
<1>7. ASSUME NEW b \in BOOLEAN, SetDelayQuantization(b) PROVE TypeOK'
  BY <1>7 DEF SetDelayQuantization, TypeOK, control, ram, alu, lfos, noise
<1>8. ASSUME NEW p \in DOMAIN pots, NEW l \in PotLevels, SetPot(p, l) PROVE TypeOK'
  <2>1. Sat(Clamp(l, 0, AccOne)) \in 0 .. AccMax
    BY HostAssumption, Formats DEF Sat, Clamp
  <2> QED BY <1>8, <2>1 DEF SetPot, TypeOK, control, ram, alu, lfos, flags, noise
<1> QED BY <1>1, <1>2, <1>3, <1>4, <1>5, <1>6, <1>7, <1>8 DEF HostCall

LEMMA StartPassType ==
  ASSUME TypeOK, NEW l \in Int, NEW r \in Int, StartPass(l, r)
  PROVE  TypeOK'
<1> DEFINE nl == Lcg(noise_state)
           nr == Lcg(nl)
           x  == IF adc_noise THEN [l |-> l + Dither(nl), r |-> r + Dither(nr)]
                              ELSE [l |-> l, r |-> r]
<1>1. nl \in Nat /\ nr \in Nat
  BY LcgNat DEF TypeOK
<1>2. /\ phase' = "pass" /\ ic' = 0
      /\ noise_state' = IF adc_noise THEN nr ELSE noise_state
      /\ regs' = [regs EXCEPT !["ADCL"] = Sat(x.l), !["ADCR"] = Sat(x.r),
                              !["POT0"] = pots["POT0"], !["POT1"] = pots["POT1"],
                              !["POT2"] = pots["POT2"]]
      /\ UNCHANGED <<instructions, ram, alu, lr, first_run, lfos, pots, flags,
                     adc_noise, noise_seed>>
  BY DEF StartPass
<1> HIDE DEF nl, nr
<1>3. Dither(nl) \in Int /\ Dither(nr) \in Int
  BY <1>1, DitherInt
<1>4. x.l \in Int /\ x.r \in Int
  BY <1>3
<1> HIDE DEF x
<1>5. Sat(x.l) \in Acc /\ Sat(x.r) \in Acc
  BY <1>4, SatAcc
<1>6. pots["POT0"] \in Acc /\ pots["POT1"] \in Acc /\ pots["POT2"] \in Acc
  BY Formats DEF TypeOK, Acc
<1>7. regs \in [Reg -> Acc]
  BY DEF TypeOK
<1>8. regs' \in [Reg -> Acc]
  BY <1>2, <1>5, <1>6, <1>7
<1>9. noise_state' \in Nat
  BY <1>1, <1>2 DEF TypeOK
<1> QED BY <1>2, <1>8, <1>9 DEF TypeOK, ram, alu, lfos, flags

LEMMA EndPassType ==
  ASSUME TypeOK, EndPass
  PROVE  TypeOK'
<1>1. \A l \in Lfos : RateReg[l] \in Reg /\ RangeReg[l] \in Reg
  BY DEF Lfos, RateReg, RangeReg, Reg, LfoRegs
<1>2. sin_lfo' \in [{"SIN0", "SIN1"} -> [sin : Acc, cos : Acc]]
  <2>1. ASSUME NEW l \in {"SIN0", "SIN1"}
        PROVE  SinTick(sin_lfo[l], regs[RateReg[l]]) \in [sin : Acc, cos : Acc]
    <3>1. sin_lfo[l] \in [sin : Acc, cos : Acc] /\ l \in Lfos
      BY DEF TypeOK, Lfos
    <3> QED BY <1>1, <3>1, Words, SinTickAcc
  <2>2. DOMAIN sin_lfo = {"SIN0", "SIN1"}
    BY DEF TypeOK
  <2> QED BY <2>1, <2>2 DEF EndPass
<1>3. rmp_lfo' \in [{"RMP0", "RMP1"} -> 0 .. RampLen - 1]
  <2>1. ASSUME NEW l \in {"RMP0", "RMP1"}
        PROVE  RampTick(rmp_lfo[l], regs[RateReg[l]], regs[RangeReg[l]]) \in 0 .. RampLen - 1
    <3>1. rmp_lfo[l] \in Int /\ l \in Lfos
      BY Formats DEF TypeOK, Lfos
    <3>2. regs[RateReg[l]] \in Acc /\ regs[RangeReg[l]] \in Acc
      BY <1>1, <3>1, Words
    <3>3. Window(regs[RangeReg[l]]) \in 1 .. RampLen
      BY <3>2, WindowBounds
    <3>4. RampTick(rmp_lfo[l], regs[RateReg[l]], regs[RangeReg[l]])
            \in 0 .. Window(regs[RangeReg[l]]) - 1
      BY <3>1, <3>2, RampTickWindow
    <3> QED BY <3>3, <3>4, Formats
  <2>2. DOMAIN rmp_lfo = {"RMP0", "RMP1"}
    BY DEF TypeOK
  <2> QED BY <2>1, <2>2 DEF EndPass
<1>4. cursor' \in Addr
  <2>1. cursor - 1 \in Int
    BY Formats DEF TypeOK, Addr
  <2> QED BY <2>1, Formats, Quotient DEF EndPass, NextCursor, Addr
<1>5. phase' \in {"idle", "pass"} /\ ic' \in Nat
  BY DEF EndPass
<1>6. /\ instructions' \in [Slots -> Instruction] /\ delay' \in [Addr -> Acc]
      /\ regs' \in [Reg -> Acc] /\ {acc, pacc, prev_acc, lr}' \subseteq Acc
      /\ pots' \in [{"POT0", "POT1", "POT2"} -> 0 .. AccMax]
  BY DEF EndPass, TypeOK, alu
<1>7. /\ {first_run, quantize_delay_14bit, clear_delay_on_load, adc_noise}' \subseteq BOOLEAN
      /\ {noise_seed, noise_state}' \subseteq Nat
  BY DEF EndPass, TypeOK, flags, noise
<1> QED BY <1>2, <1>3, <1>4, <1>5, <1>6, <1>7 DEF TypeOK

\* Every instruction keeps the types.
LEMMA ExecType ==
  ASSUME TypeOK, Exec
  PROVE  TypeOK'
<1> USE Words
<1>1. CASE Rda
  <2>1. Ins.addr \in Int /\ Ins.c \in Int
    BY <1>1, Reached, Fields DEF Rda
  <2>2. MulS19(DelayRead(Ins.addr), Ins.c) + acc \in Int
    BY <2>1, CellAddr, MulAddInt
  <2> QED BY <1>1, <2>1, <2>2, ReadType DEF Rda
<1>2. CASE Rmpa
  <2>1. Ins.c \in Int
    BY <1>2, Reached, Fields DEF Rmpa
  <2>2. AddrPtr \in Int
    BY AddrPtrInt
  <2>3. MulS19(DelayRead(AddrPtr), Ins.c) + acc \in Int
    BY <2>1, <2>2, CellAddr, MulAddInt
  <2> QED BY <1>2, <2>2, <2>3, ReadType DEF Rmpa
<1>3. CASE Wra
  <2>1. Ins.addr \in Int /\ Ins.c \in Int
    BY <1>3, Reached, Fields DEF Wra
  <2>2. MulS19(acc, Ins.c) \in Int
    BY <2>1, MulInt
  <2> QED BY <1>3, <2>1, <2>2, WriteType DEF Wra
<1>4. CASE Wrap
  <2>1. Ins.addr \in Int /\ Ins.c \in Int
    BY <1>4, Reached, Fields DEF Wrap
  <2>2. MulS19(acc, Ins.c) + lr \in Int
    BY <2>1, MulAddInt
  <2> QED BY <1>4, <2>1, <2>2, WriteType DEF Wrap
<1>5. CASE Rdax
  <2>1. Ins.reg \in Reg /\ Ins.c \in Int
    BY <1>5, Reached, Fields DEF Rdax, Compute
  <2>2. MulS114(regs[Ins.reg], Ins.c) + acc \in Int
    BY <2>1, MulAddInt
  <2> QED BY <1>5, <2>2, ComputeType DEF Rdax
<1>6. CASE Rdfx
  <2>1. Ins.reg \in Reg /\ Ins.c \in Int
    BY <1>6, Reached, Fields DEF Rdfx, Compute
  <2>2. acc - regs[Ins.reg] \in Int /\ regs[Ins.reg] \in Int
    BY <2>1
  <2>3. MulS114(acc - regs[Ins.reg], Ins.c) + regs[Ins.reg] \in Int
    BY <2>1, <2>2, MulAddInt
  <2> QED BY <1>6, <2>3, ComputeType DEF Rdfx
<1>7. CASE Wrax
  <2>1. Ins.c \in Int
    BY <1>7, Reached, Fields DEF Wrax, Store
  <2>2. MulS114(acc, Ins.c) \in Int
    BY <2>1, MulInt
  <2> QED BY <1>7, <2>2, StoreType DEF Wrax
<1>8. CASE Wrhx
  <2>1. Ins.c \in Int
    BY <1>8, Reached, Fields DEF Wrhx, Store
  <2>2. MulS114(acc, Ins.c) + pacc \in Int
    BY <2>1, MulAddInt
  <2> QED BY <1>8, <2>2, StoreType DEF Wrhx
<1>9. CASE Wrlx
  <2>1. Ins.c \in Int
    BY <1>9, Reached, Fields DEF Wrlx, Store
  <2>2. pacc - acc \in Int
    OBVIOUS
  <2>3. MulS114(pacc - acc, Ins.c) + pacc \in Int
    BY <2>1, <2>2, MulAddInt
  <2> QED BY <1>9, <2>3, StoreType DEF Wrlx
<1>10. CASE Maxx
  <2> DEFINE rxc == Abs(MulS114(regs[Ins.reg], Ins.c))
             v   == IF rxc > Abs(acc) THEN rxc ELSE Abs(acc)
  <2>1. Ins.reg \in Reg /\ Ins.c \in Int
    BY <1>10, Reached, Fields DEF Maxx, Compute
  <2>2. MulS114(regs[Ins.reg], Ins.c) \in Int
    BY <2>1, MulInt
  <2>3. v \in Int
    BY <2>2 DEF Abs
  <2>4. Compute("MAXX", v)
    BY <1>10 DEF Maxx
  <2> HIDE DEF v
  <2> QED BY <2>3, <2>4, ComputeType
<1>11. CASE Mulx
  <2>1. Ins.reg \in Reg
    BY <1>11, Reached, Fields DEF Mulx, Compute
  <2>2. MulS23(acc, regs[Ins.reg]) \in Int
    BY <2>1, MulInt
  <2> QED BY <1>11, <2>2, ComputeType DEF Mulx
<1>12. ASSUME NEW v \in Int, Ins.d \in Int PROVE WithD(v) \in Int
  <2>1. AccOne \div S10 \in Int
    BY Formats, Quotient
  <2> QED BY <1>12, <2>1 DEF WithD
<1>13. CASE Log
  <2> DEFINE m == IF acc = 0 THEN AccMin ELSE Sat(LogOf(Abs(acc)))
  <2>1. Ins.c \in Int /\ Ins.d \in Int
    BY <1>13, Reached, Fields DEF Log, Compute
  <2>2. m \in Int
    <3>1. CASE acc = 0
      BY <3>1, Formats
    <3>2. CASE acc # 0
      <4>1. Abs(acc) \in 1 .. AccOne
        BY <3>2, Formats DEF Abs, Acc
      <4>2. LogOf(Abs(acc)) \in Int
        BY <4>1, UnitAssumption
      <4> QED BY <3>2, <4>2, SatAcc, Formats
    <3> QED BY <3>1, <3>2
  <2>3. Compute("LOG", WithD(MulS114(m, Ins.c)))
    BY <1>13 DEF Log
  <2> HIDE DEF m
  <2>4. MulS114(m, Ins.c) \in Int
    BY <2>1, <2>2, MulInt
  <2>5. WithD(MulS114(m, Ins.c)) \in Int
    BY <1>12, <2>1, <2>4
  <2> QED BY <2>3, <2>5, ComputeType
<1>14. CASE Exp
  <2> DEFINE m == IF acc >= 0 THEN AccMax ELSE ExpOf(acc)
  <2>1. Ins.c \in Int /\ Ins.d \in Int
    BY <1>14, Reached, Fields DEF Exp, Compute
  <2>2. m \in Int
    <3>1. CASE acc >= 0
      BY <3>1, Formats
    <3>2. CASE ~(acc >= 0)
      <4>1. acc \in AccMin .. -1
        BY <3>2, Formats DEF Acc
      <4>2. ExpOf(acc) \in Int
        BY <4>1, UnitAssumption
      <4> QED BY <3>2, <4>2
    <3> QED BY <3>1, <3>2
  <2>3. Compute("EXP", WithD(MulS114(m, Ins.c)))
    BY <1>14 DEF Exp
  <2> HIDE DEF m
  <2>4. MulS114(m, Ins.c) \in Int
    BY <2>1, <2>2, MulInt
  <2>5. WithD(MulS114(m, Ins.c)) \in Int
    BY <1>12, <2>1, <2>4
  <2> QED BY <2>3, <2>5, ComputeType
<1>15. CASE Sof
  <2>1. Ins.c \in Int /\ Ins.d \in Int
    BY <1>15, Reached, Fields DEF Sof, Compute
  <2>2. MulS114(acc, Ins.c) \in Int
    BY <2>1, MulInt
  <2>3. WithD(MulS114(acc, Ins.c)) \in Int
    BY <1>12, <2>1, <2>2
  <2> QED BY <1>15, <2>3, ComputeType DEF Sof
<1>16. Pattern(acc) \in 0 .. 2 * AccOne - 1
  BY PatternRange
<1>17. CASE AndMask
  <2>1. Ins.mask \in 0 .. 2 * AccOne - 1
    BY <1>17, Reached, Fields DEF AndMask, Compute
  <2>2. BitAnd(Pattern(acc), Ins.mask) \in Int
    BY <1>16, <2>1, UnitAssumption
  <2>3. SignExtend(BitAnd(Pattern(acc), Ins.mask)) \in Int
    BY <2>2, SignExtendAcc, Formats
  <2> QED BY <1>17, <2>3, ComputeType DEF AndMask
<1>18. CASE OrMask
  <2>1. Ins.mask \in 0 .. 2 * AccOne - 1
    BY <1>18, Reached, Fields DEF OrMask, Compute
  <2>2. BitOr(Pattern(acc), Ins.mask) \in Int
    BY <1>16, <2>1, UnitAssumption
  <2>3. SignExtend(BitOr(Pattern(acc), Ins.mask)) \in Int
    BY <2>2, SignExtendAcc, Formats
  <2> QED BY <1>18, <2>3, ComputeType DEF OrMask
<1>19. CASE XorMask
  <2>1. Ins.mask \in 0 .. 2 * AccOne - 1
    BY <1>19, Reached, Fields DEF XorMask, Compute
  <2>2. BitXor(Pattern(acc), Ins.mask) \in Int
    BY <1>16, <2>1, UnitAssumption
  <2>3. SignExtend(BitXor(Pattern(acc), Ins.mask)) \in Int
    BY <2>2, SignExtendAcc, Formats
  <2> QED BY <1>19, <2>3, ComputeType DEF XorMask
<1>20. /\ delay \in [Addr -> Acc] /\ regs \in [Reg -> Acc] /\ lr \in Acc
       /\ rmp_lfo \in [{"RMP0", "RMP1"} -> 0 .. RampLen - 1]
  BY DEF TypeOK
<1>21. CASE Skp
  <2> DEFINE n == IF SkpTaken(Ins.cond) THEN Ins.n ELSE 0
  <2>1. n \in Nat
    BY <1>21, Reached, Fields DEF Skp
  <2>2. Retire(acc, n) /\ UNCHANGED <<delay, regs, lr, rmp_lfo>>
    BY <1>21 DEF Skp
  <2> HIDE DEF n
  <2> QED BY <1>20, <2>1, <2>2, RetireType
<1>22. CASE Wlds
  <2>1. Ins.freq \in -RateLen .. RateLen - 1 /\ Ins.amp \in -S15 .. S15 - 1
    BY <1>22, Reached, Fields, Formats DEF Wlds, LoadLfo
  <2>2. Ins.freq * (AccOne \div RateLen) \in Acc /\ Ins.amp * (AccOne \div S15) \in Acc
    BY <2>1, FieldWord, Formats, ChipAssumption
  <2> QED BY <1>22, <2>2, LoadLfoType DEF Wlds
<1>23. CASE Wldr
  <2>1. Ins.freq \in -S15 .. S15 - 1 /\ Ins.amp \in -4 .. 3
    BY <1>23, Reached, Fields, Formats DEF Wldr, LoadLfo
  <2>2. Ins.freq * (AccOne \div S15) \in Acc /\ Ins.amp * (AccOne \div 4) \in Acc
    <3>1. Ins.freq * (AccOne \div S15) \in Acc
      BY <2>1, FieldWord, Formats, ChipAssumption
    <3>2. 4 \in Nat \ {0} /\ AccOne % 4 = 0
      BY ChipAssumption
    <3>3. Ins.amp * (AccOne \div 4) \in Acc
      BY <2>1, <3>2, FieldWord
    <3> QED BY <3>1, <3>3
  <2> QED BY <1>23, <2>2, LoadLfoType DEF Wldr
<1>24. CASE Jam
  <2>1. rmp_lfo' \in [{"RMP0", "RMP1"} -> 0 .. RampLen - 1]
    <3>1. 0 \in 0 .. RampLen - 1
      BY Formats
    <3>2. rmp_lfo' = [rmp_lfo EXCEPT ![Ins.lfo] = 0]
      BY <1>24 DEF Jam, RampNew
    <3> QED BY <1>20, <3>1, <3>2
  <2>2. Retire(acc, 0) /\ UNCHANGED <<delay, regs, lr>>
    BY <1>24 DEF Jam
  <2> QED BY <1>20, <2>1, <2>2, RetireType
<1>25. CASE ChoRda
  <2> DEFINE cv == ChoValue(Ins.lfo, Ins.flags)
             at == Ins.addr + cv.offset
  <2>1. Ins.lfo \in Lfos /\ Ins.addr \in Int
    BY <1>25, Reached, Fields DEF ChoRda
  <2>2. /\ LatchRead(at) /\ UNCHANGED <<delay, regs, rmp_lfo>>
        /\ Retire(Sat(MulS23(DelayRead(at), cv.coeff) + acc), 0)
    BY <1>25 DEF ChoRda
  <2>3. cv.offset \in Int /\ cv.coeff \in Int
    BY <2>1, ChoInt
  <2> HIDE DEF cv
  <2>4. at \in Int
    BY <2>1, <2>3
  <2> HIDE DEF at
  <2>5. MulS23(DelayRead(at), cv.coeff) + acc \in Int
    BY <2>3, <2>4, CellAddr, MulAddInt
  <2> QED BY <2>2, <2>4, <2>5, ReadType
<1>26. CASE ChoSof
  <2>1. Ins.lfo \in Lfos /\ Ins.d \in Int
    BY <1>26, Reached, Fields DEF ChoSof, Compute
  <2>2. MulS23(acc, ChoValue(Ins.lfo, Ins.flags).coeff) \in Int
    BY <2>1, ChoInt, MulInt
  <2>3. AccOne \div S15 \in Int
    BY Formats, Quotient
  <2>4. MulS23(acc, ChoValue(Ins.lfo, Ins.flags).coeff) + Ins.d * (AccOne \div S15) \in Int
    BY <2>1, <2>2, <2>3
  <2> QED BY <1>26, <2>4, ComputeType DEF ChoSof
<1>27. CASE ChoRdal
  <2>1. Ins.lfo \in Lfos
    BY <1>27, Reached, Fields DEF ChoRdal, Compute
  <2>2. acc + LfoLevel(Ins.lfo, Ins.flags) \in Int
    BY <2>1, ChoInt
  <2> QED BY <1>27, <2>2, ComputeType DEF ChoRdal
<1>28. CASE Raw
  BY <1>28, ComputeType DEF Raw
<1> QED BY <1>1, <1>2, <1>3, <1>4, <1>5, <1>6, <1>7, <1>8, <1>9, <1>10, <1>11, <1>13,
           <1>14, <1>15, <1>17, <1>18, <1>19, <1>21, <1>22, <1>23, <1>24, <1>25, <1>26,
           <1>27, <1>28 DEF Exec

\* Every step of the machine keeps the types.
LEMMA TypeStep == TypeOK /\ [Next]_vars => TypeOK'
<1> SUFFICES ASSUME TypeOK, [Next]_vars PROVE TypeOK'
  OBVIOUS
<1>1. CASE HostCall
  BY <1>1, HostCallType
<1>2. ASSUME NEW in \in Frames, StartPass(in[1], in[2]) PROVE TypeOK'
  <2>1. in[1] \in Int /\ in[2] \in Int
    BY HostAssumption
  <2> QED BY <1>2, <2>1, StartPassType
<1>3. CASE Exec
  BY <1>3, ExecType
<1>4. CASE EndPass
  BY <1>4, EndPassType
<1>5. CASE UNCHANGED vars
  BY <1>5 DEF TypeOK, vars, control, ram, alu, lfos, flags, noise
<1> QED BY <1>1, <1>2, <1>3, <1>4, <1>5 DEF Next

\* Whatever the program and the host do, every architectural value fits the
\* word the chip keeps it in and every pointer its memory (vm.rs saturates or
\* sign-extends at each write of acc, regs, lr and the delay RAM).
THEOREM Fv1TypeCorrect == Spec => []TypeOK
  BY TypeInit, TypeStep, PTL DEF Spec

-----------------------------------------------------------------------------
(* The accumulator pipeline, the advance of a pass, the ramps.             *)

\* Every instruction ends by retiring, and skips forward if at all.
LEMMA Retires ==
  ASSUME TypeOK, Exec
  PROVE  \E v : \E n \in Nat : Retire(v, n)
<1> DEFINE Retired == \E v : \E n \in Nat : Retire(v, n)
<1>1. ASSUME NEW v, NEW n \in Nat, Retire(v, n) PROVE Retired
  BY <1>1
<1> HIDE DEF Retired
<1>2. 0 \in Nat
  OBVIOUS
<1>3. ASSUME Rda \/ Rmpa \/ Wra \/ Wrap PROVE Retired
  BY Zenon, <1>1, <1>2, <1>3 DEF Rda, Rmpa, Wra, Wrap
<1>4. ASSUME NEW op, NEW v, Compute(op, v) PROVE Retired
  BY Zenon, <1>1, <1>2, <1>4 DEF Compute
<1>5. ASSUME NEW op, NEW v, Store(op, v) PROVE Retired
  BY Zenon, <1>1, <1>2, <1>5 DEF Store
<1>6. ASSUME NEW op, NEW rate, NEW range, LoadLfo(op, rate, range) PROVE Retired
  BY Zenon, <1>1, <1>2, <1>6 DEF LoadLfo
<1>7. ASSUME Rdax \/ Rdfx \/ Maxx \/ Mulx \/ Log \/ Exp \/ Sof \/ AndMask \/ OrMask
             \/ XorMask \/ ChoSof \/ ChoRdal \/ Raw
      PROVE  Retired
  <2>1. CASE Rdax
    BY SMT, <1>4, <2>1 DEF Rdax
  <2>2. CASE Rdfx
    BY SMT, <1>4, <2>2 DEF Rdfx
  <2>3. CASE Maxx
    BY SMT, <1>4, <2>3 DEF Maxx
  <2>4. CASE Mulx
    BY SMT, <1>4, <2>4 DEF Mulx
  <2>5. CASE Log
    BY SMT, <1>4, <2>5 DEF Log
  <2>6. CASE Exp
    BY SMT, <1>4, <2>6 DEF Exp
  <2>7. CASE Sof
    BY SMT, <1>4, <2>7 DEF Sof
  <2>8. CASE AndMask
    BY SMT, <1>4, <2>8 DEF AndMask
  <2>9. CASE OrMask
    BY SMT, <1>4, <2>9 DEF OrMask
  <2>10. CASE XorMask
    BY SMT, <1>4, <2>10 DEF XorMask
  <2>11. CASE ChoSof
    BY SMT, <1>4, <2>11 DEF ChoSof
  <2>12. CASE ChoRdal
    BY SMT, <1>4, <2>12 DEF ChoRdal
  <2>13. CASE Raw
    BY SMT, <1>4, <2>13 DEF Raw
  <2> QED BY Zenon, <1>7, <2>1, <2>2, <2>3, <2>4, <2>5, <2>6, <2>7, <2>8, <2>9, <2>10, <2>11, <2>12, <2>13
<1>8. ASSUME Wrax \/ Wrhx \/ Wrlx PROVE Retired
  <2>1. CASE Wrax
    BY SMT, <1>5, <2>1 DEF Wrax
  <2>2. CASE Wrhx
    BY SMT, <1>5, <2>2 DEF Wrhx
  <2>3. CASE Wrlx
    BY SMT, <1>5, <2>3 DEF Wrlx
  <2> QED BY <1>8, <2>1, <2>2, <2>3
<1>9. ASSUME Wlds \/ Wldr PROVE Retired
  <2>1. CASE Wlds
    BY SMT, <1>6, <2>1 DEF Wlds
  <2>2. CASE Wldr
    BY SMT, <1>6, <2>2 DEF Wldr
  <2> QED BY <1>9, <2>1, <2>2
<1>10. ASSUME Jam PROVE Retired
  BY Zenon, <1>1, <1>2, <1>10 DEF Jam
<1>11. ASSUME ChoRda PROVE Retired
  BY Zenon, <1>1, <1>2, <1>11 DEF ChoRda
<1>12. ASSUME Skp PROVE Retired
  <2> DEFINE n == IF SkpTaken(Ins.cond) THEN Ins.n ELSE 0
  <2>1. Ins.n \in Nat
    BY <1>12, Reached, Fields DEF Skp
  <2>2. n \in Nat
    BY <2>1
  <2>3. Retire(acc, n)
    BY <1>12 DEF Skp
  <2> HIDE DEF n
  <2> QED BY <1>1, <2>2, <2>3
<1>13. Retired
  BY Zenon, <1>3, <1>7, <1>8, <1>9, <1>10, <1>11, <1>12 DEF Exec
<1> QED BY <1>13 DEF Retired

\* A host call leaves the pass counter and an idle machine idle.
LEMMA HostControl == HostCall => phase = "idle" /\ UNCHANGED <<phase, ic>>
  BY DEF HostCall, LoadProgram, Reset, RandomizeDelayRam, RandomizeRegisters,
     SetAdcNoise, SetClearDelayOnLoad, SetDelayQuantization, SetPot, control

\* Between two instructions the pipeline register is the accumulator.  It is
\* what makes PACC lag by one: Retire moves prev_acc, not acc, to PACC.
PipelineFull == prev_acc = acc

LEMMA PipelineStep == TypeOK /\ PipelineFull /\ [Next]_vars => PipelineFull'
<1> SUFFICES ASSUME TypeOK, PipelineFull, [Next]_vars PROVE PipelineFull'
  OBVIOUS
<1>1. CASE HostCall
  BY <1>1 DEF HostCall, LoadProgram, Reset, ResetRegistersAndLfos, ResetPipeline,
     RandomizeDelayRam, RandomizeRegisters, SetAdcNoise, SetClearDelayOnLoad,
     SetDelayQuantization, SetPot, alu, PipelineFull
<1>2. ASSUME NEW l, NEW r, StartPass(l, r) PROVE PipelineFull'
  BY <1>2 DEF StartPass, alu, PipelineFull
<1>3. CASE Exec
  BY <1>3, Retires DEF Retire, PipelineFull
<1>4. CASE EndPass
  BY <1>4 DEF EndPass, alu, PipelineFull
<1>5. CASE UNCHANGED vars
  BY <1>5 DEF vars, alu, PipelineFull
<1> QED BY <1>1, <1>2, <1>3, <1>4, <1>5 DEF Next

\* PACC holds what ACC was before the last instruction, whatever was skipped
\* and whatever the host did in between (the tail of process_raw's loop).
THEOREM PaccLags == Spec => PaccLagsByOne
<1>1. Init => PipelineFull
  BY DEF Init, PipelineFull
<1>2. TypeOK /\ PipelineFull /\ [Next]_vars => [ic' > ic => pacc' = acc]_vars
  <2> SUFFICES ASSUME TypeOK, PipelineFull, Next, ic' > ic PROVE pacc' = acc
    OBVIOUS
  <2>1. ic \in Nat
    BY DEF TypeOK
  <2>2. ~HostCall
    BY <2>1, HostControl
  <2>3. \A l, r : ~StartPass(l, r)
    BY <2>1 DEF StartPass
  <2>4. ~EndPass
    BY <2>1 DEF EndPass
  <2>5. Exec
    BY <2>2, <2>3, <2>4 DEF Next
  <2> QED BY <2>5, Retires DEF Retire, PipelineFull
<1> QED BY <1>1, <1>2, PipelineStep, Fv1TypeCorrect, PTL DEF Spec, PaccLagsByOne

\* The registers that hold the ramps' ranges are none that the noise reaches.
LEMMA RangeRegs ==
  ASSUME NEW l \in {"RMP0", "RMP1"}
  PROVE  RangeReg[l] \in Reg /\ RangeReg[l] \notin GPRegs
  BY RegisterAssumption DEF RangeReg, Reg, LfoRegs

LEMMA WindowZero == 0 < Window(0)
  BY WindowBounds, Formats

LEMMA RampStep == TypeOK /\ RampInWindow /\ [Next]_vars => RampInWindow'
<1> SUFFICES ASSUME TypeOK, RampInWindow, [Next]_vars PROVE RampInWindow'
  OBVIOUS
<1>1. DOMAIN rmp_lfo' = {"RMP0", "RMP1"}
  BY TypeStep DEF TypeOK
<1> SUFFICES ASSUME phase' = "idle", NEW l \in {"RMP0", "RMP1"}
             PROVE  rmp_lfo'[l] < Window(regs'[RangeReg[l]])
  BY <1>1 DEF RampInWindow, Window, AmpShift
<1>2. /\ DOMAIN rmp_lfo = {"RMP0", "RMP1"} /\ regs \in [Reg -> Acc] /\ rmp_lfo[l] \in Int
      /\ RangeReg[l] \in Reg
  BY RangeRegs, Formats DEF TypeOK
<1>3. CASE UNCHANGED <<phase, rmp_lfo, regs>>
  BY <1>2, <1>3 DEF RampInWindow
<1>4. CASE HostCall
  <2>1. ASSUME NEW p, LoadProgram(p) \/ Reset
        PROVE  rmp_lfo'[l] < Window(regs'[RangeReg[l]])
    <3>1. rmp_lfo'[l] = 0 /\ regs'[RangeReg[l]] = 0
      BY <1>2, <2>1 DEF LoadProgram, Reset, ResetRegistersAndLfos, RampNew, RegsZero
    <3> QED BY <3>1, WindowZero
  <2>2. ASSUME NEW s, RandomizeRegisters(s)
        PROVE  rmp_lfo'[l] < Window(regs'[RangeReg[l]])
    <3>1. rmp_lfo' = rmp_lfo /\ phase = "idle"
      BY <2>2 DEF RandomizeRegisters, lfos
    <3>2. regs'[RangeReg[l]] = regs[RangeReg[l]]
      BY <1>2, <2>2, RangeRegs DEF RandomizeRegisters, NoiseRegs
    <3> QED BY <1>2, <3>1, <3>2 DEF RampInWindow
  <2>3. CASE ~((\E p : LoadProgram(p)) \/ Reset \/ \E s : RandomizeRegisters(s))
    <3>1. UNCHANGED <<phase, rmp_lfo, regs>>
      BY <1>4, <2>3 DEF HostCall, RandomizeDelayRam, SetAdcNoise, SetClearDelayOnLoad,
         SetDelayQuantization, SetPot, control, lfos
    <3> QED BY <1>3, <3>1
  <2> QED BY <2>1, <2>2, <2>3
<1>5. ASSUME NEW x, NEW y, StartPass(x, y) PROVE FALSE
  BY <1>5 DEF StartPass
<1>6. CASE Exec
  <2>1. phase = "pass"
    BY <1>6 DEF Exec, Rda, Rmpa, Wra, Wrap, Rdax, Rdfx, Wrax, Wrhx, Wrlx, Maxx, Mulx,
       Log, Exp, Sof, AndMask, OrMask, XorMask, Skp, Wlds, Wldr, Jam, ChoRda, ChoSof,
       ChoRdal, Raw, Compute, Store, LoadLfo, Fetched
  <2>2. phase' = phase
    BY <1>6, Retires DEF Retire
  <2> QED BY <2>1, <2>2
<1>7. CASE EndPass
  <2>1. rmp_lfo'[l] = RampTick(rmp_lfo[l], regs[RateReg[l]], regs[RangeReg[l]])
    BY <1>2, <1>7 DEF EndPass
  <2>2. regs' = regs
    BY <1>7 DEF EndPass
  <2>3. regs[RateReg[l]] \in Acc /\ regs[RangeReg[l]] \in Acc
    BY <1>2 DEF RateReg, Reg, LfoRegs
  <2>4. /\ RampTick(rmp_lfo[l], regs[RateReg[l]], regs[RangeReg[l]])
             \in 0 .. Window(regs[RangeReg[l]]) - 1
        /\ Window(regs[RangeReg[l]]) \in Int
    BY <1>2, <2>3, RampTickWindow, WindowBounds
  <2> QED BY <2>1, <2>2, <2>4
<1>8. CASE UNCHANGED vars
  BY <1>3, <1>8 DEF vars, control, lfos
<1> QED BY <1>4, <1>5, <1>6, <1>7, <1>8 DEF Next

\* Between two passes every ramp lies in the window that its range register
\* selects, however programs and hosts move the two: so a CHO access of the
\* next pass reads inside the window (RampLfo::tick, cho_value).
THEOREM RampsInWindow == Spec => []RampInWindow
<1>1. Init => RampInWindow
  <2> SUFFICES ASSUME Init, NEW l \in {"RMP0", "RMP1"}
               PROVE  rmp_lfo[l] < Window(regs[RangeReg[l]])
    BY DEF Init, RampInWindow
  <2>1. rmp_lfo[l] = 0 /\ regs[RangeReg[l]] = 0
    BY RangeRegs DEF Init, RampNew, RegsZero
  <2> QED BY <2>1, WindowZero
<1> QED BY <1>1, RampStep, Fv1TypeCorrect, PTL DEF Spec

-----------------------------------------------------------------------------
(* Addresses modulo the size of delay RAM.                                 *)

\* Numbers that differ by a multiple of d have the same remainder, and only
\* they do.
LEMMA ModUnique ==
  ASSUME NEW d \in Nat \ {0}, NEW x \in Int, NEW q \in Int, NEW r \in 0 .. d - 1, x = d * q + r
  PROVE  x % d = r
<1> DEFINE p == x \div d
           s == x % d
<1>1. p \in Int /\ s \in Int /\ x = d * p + s /\ 0 <= s /\ s < d
  OBVIOUS
<1> HIDE DEF p, s
<1>2. d * (p - q) = r - s
  BY <1>1
<1>3. ~(p - q >= 1)
  <2>1. ASSUME p - q >= 1 PROVE FALSE
    <3>1. d * (p - q) >= d
      BY <1>1, <2>1
    <3> QED BY <3>1, <1>1, <1>2
  <2> QED BY <2>1
<1>4. ~(q - p >= 1)
  <2>1. ASSUME q - p >= 1 PROVE FALSE
    <3>1. d * (q - p) >= d /\ d * (q - p) = -(d * (p - q))
      BY <1>1, <2>1
    <3> QED BY <3>1, <1>1, <1>2
  <2> QED BY <2>1
<1>5. p = q
  BY <1>1, <1>3, <1>4
<1>6. s = r
  BY <1>1, <1>2, <1>5
<1> QED BY <1>6 DEF s

\* A remainder may be taken first or last.
LEMMA ModInside ==
  ASSUME NEW d \in Nat \ {0}, NEW x \in Int, NEW y \in Int
  PROVE  /\ (x + (y % d)) % d = (x + y) % d
         /\ ((x % d) + y) % d = (x + y) % d
<1>1. ASSUME NEW a \in Int, NEW b \in Int PROVE (a + (b % d)) % d = (a + b) % d
  <2> DEFINE q == b \div d
             m == b % d
             p == (a + m) \div d
             r == (a + m) % d
  <2>1. q \in Int /\ m \in Int /\ b = d * q + m
    OBVIOUS
  <2> HIDE DEF q, m
  <2>2. p \in Int /\ r \in 0 .. d - 1 /\ a + m = d * p + r
    BY <2>1
  <2> HIDE DEF p, r
  <2>3. a + b = d * (p + q) + r
    BY <2>1, <2>2
  <2>4. (a + b) % d = r
    <3>1. a + b \in Int /\ p + q \in Int
      BY <2>1, <2>2
    <3> QED BY <3>1, <2>2, <2>3, ModUnique
  <2> QED BY <2>4 DEF r, m
<1>2. (x + (y % d)) % d = (x + y) % d
  BY <1>1
<1>3. (y + (x % d)) % d = (y + x) % d
  BY <1>1
<1>4. x % d \in Int /\ (x % d) + y = y + (x % d) /\ x + y = y + x
  OBVIOUS
<1> QED BY <1>2, <1>3, <1>4

\* A remainder is its own remainder.
LEMMA ModSmall == ASSUME NEW d \in Nat \ {0}, NEW r \in 0 .. d - 1 PROVE r % d = r
<1>1. r = d * 0 + r /\ r \in Int
  OBVIOUS
<1> QED BY <1>1, ModUnique

\* Two addresses of the line lie in the same cell only if they are the same.
LEMMA ModApart ==
  ASSUME NEW d \in Nat \ {0}, NEW c \in Int, NEW a \in 0 .. d - 1, NEW b \in 0 .. d - 1,
         (c + a) % d = (c + b) % d
  PROVE  a = b
<1> DEFINE p == (c + a) \div d
           q == (c + b) \div d
           r == (c + a) % d
<1>1. /\ p \in Int /\ q \in Int /\ r \in Int
      /\ c + a = d * p + r /\ c + b = d * q + r
  OBVIOUS
<1> HIDE DEF p, q, r
<1>2. a - b = d * (p - q)
  BY <1>1
<1>3. ~(p - q >= 1)
  <2>1. ASSUME p - q >= 1 PROVE FALSE
    <3>1. d * (p - q) >= d
      BY <1>1, <2>1
    <3> QED BY <3>1, <1>2
  <2> QED BY <2>1
<1>4. ~(q - p >= 1)
  <2>1. ASSUME q - p >= 1 PROVE FALSE
    <3>1. d * (q - p) >= d /\ d * (q - p) = -(d * (p - q))
      BY <1>1, <2>1
    <3> QED BY <3>1, <1>2
  <2> QED BY <2>1
<1>5. p = q
  BY <1>1, <1>3, <1>4
<1> QED BY <1>1, <1>2, <1>5

-----------------------------------------------------------------------------
(* The line a program sees.                                                *)

Cells == [a \in Addr |-> delay[(cursor + a) % DelayLen]]

\* The addresses of delay RAM.
LEMMA AddrIs ==
  /\ DelayLen \in Nat \ {0} /\ Addr = 0 .. DelayLen - 1 /\ Addr \subseteq Int /\ 0 \in Addr
  /\ \A x \in Int : x % DelayLen \in Addr
<1>1. DelayLen \in Nat \ {0} /\ Addr = 0 .. DelayLen - 1
  BY Formats DEF Addr
<1>2. \A x \in Int : x % DelayLen \in Addr
  BY <1>1, Quotient
<1> QED BY <1>1, <1>2

\* What the instruction a pass has reached asks of the line.
LEMMA AccessIs ==
  ASSUME TypeOK, NEW op, Fetched(op)
  PROVE  /\ op \in {"RDA", "RMPA", "CHO_RDA"}
              => Access = [kind |-> "read", slot |-> ic, at |-> Offset]
         /\ op \in {"WRA", "WRAP"}
              => Access = [kind |-> "write", slot |-> ic, at |-> Offset,
                           v |-> IF quantize_delay_14bit THEN Compress14(acc) ELSE acc]
         /\ op \notin {"RDA", "RMPA", "CHO_RDA", "WRA", "WRAP"} => Access.kind = "none"
<1>1. phase = "pass" /\ ic \in Int /\ ic < ProgLen /\ ProgLen \in Int
  BY Formats DEF Fetched, TypeOK
<1>2. ~(phase = "idle") /\ ~(ic >= ProgLen)
  BY <1>1
<1>3. Ins.op = op
  BY Reached
<1> QED BY <1>2, <1>3 DEF Access

\* A read latches what the cell at the address it asks for holds.
LEMMA ReadAsks ==
  ASSUME TypeOK, Rda \/ Rmpa \/ ChoRda
  PROVE  /\ Access.kind = "read" /\ Access.at \in Int
         /\ lr' = delay[Cell(Access.at)] /\ UNCHANGED delay
<1>1. ASSUME NEW op \in {"RDA", "RMPA", "CHO_RDA"}, Fetched(op), NEW at \in Int, Offset = at,
             LatchRead(at), UNCHANGED delay
      PROVE  /\ Access.kind = "read" /\ Access.at \in Int
             /\ lr' = delay[Cell(Access.at)] /\ UNCHANGED delay
  <2>1. Access = [kind |-> "read", slot |-> ic, at |-> at]
    BY <1>1, AccessIs
  <2> QED BY <1>1, <2>1 DEF LatchRead, DelayRead
<1>2. CASE Rda
  <2>1. Fetched("RDA") /\ LatchRead(Ins.addr) /\ UNCHANGED delay
    BY <1>2 DEF Rda
  <2>2. Ins.op = "RDA" /\ Ins.addr \in Int
    BY <2>1, Reached, Fields
  <2>3. Offset = Ins.addr
    BY <2>2 DEF Offset
  <2> QED BY <1>1, <2>1, <2>2, <2>3
<1>3. CASE Rmpa
  <2>1. Fetched("RMPA") /\ LatchRead(AddrPtr) /\ UNCHANGED delay
    BY <1>3 DEF Rmpa
  <2>2. Ins.op = "RMPA"
    BY <2>1, Reached
  <2>3. Offset = AddrPtr
    BY <2>2 DEF Offset
  <2>4. AddrPtr \in Int
    BY AddrPtrInt
  <2> QED BY <1>1, <2>1, <2>3, <2>4
<1>4. CASE ChoRda
  <2> DEFINE at == Ins.addr + ChoValue(Ins.lfo, Ins.flags).offset
  <2>1. Fetched("CHO_RDA") /\ LatchRead(at) /\ UNCHANGED delay
    BY <1>4 DEF ChoRda
  <2>2. Ins.op = "CHO_RDA" /\ Ins.addr \in Int /\ Ins.lfo \in Lfos
    BY <2>1, Reached, Fields
  <2>3. Offset = at
    BY <2>2 DEF Offset
  <2>4. at \in Int
    BY <2>2, ChoInt
  <2> HIDE DEF at
  <2> QED BY <1>1, <2>1, <2>3, <2>4
<1> QED BY <1>2, <1>3, <1>4

\* A write stores what it asks for in the cell at its address and in no other.
LEMMA WriteAsks ==
  ASSUME TypeOK, Wra \/ Wrap
  PROVE  /\ Access.kind = "write" /\ Access.at \in Int
         /\ delay' = [delay EXCEPT ![Cell(Access.at)] = Access.v] /\ UNCHANGED lr
<1>1. PICK op \in {"WRA", "WRAP"} : Fetched(op)
  BY DEF Wra, Wrap
<1>2. DelayWrite(Ins.addr, acc) /\ UNCHANGED lr
  BY DEF Wra, Wrap
<1>3. Ins.op = op /\ Ins.addr \in Int
  BY <1>1, Reached, Fields
<1>4. Offset = Ins.addr
  BY <1>3 DEF Offset
<1>5. Access = [kind |-> "write", slot |-> ic, at |-> Offset,
                v |-> IF quantize_delay_14bit THEN Compress14(acc) ELSE acc]
  BY <1>1, AccessIs
<1> QED BY <1>2, <1>3, <1>4, <1>5 DEF DelayWrite

\* No other instruction asks for anything, or touches delay RAM or its latch.
LEMMA NoneAsks ==
  ASSUME TypeOK, Exec, ~Rda, ~Rmpa, ~ChoRda, ~Wra, ~Wrap
  PROVE  Access.kind = "none" /\ UNCHANGED <<delay, lr>>
<1> DEFINE Still == Access.kind = "none" /\ UNCHANGED <<delay, lr>>
<1>1. ASSUME NEW op, op \notin {"RDA", "RMPA", "CHO_RDA", "WRA", "WRAP"}, Fetched(op),
             UNCHANGED <<delay, lr>>
      PROVE  Still
  BY <1>1, AccessIs
<1> HIDE DEF Still
<1>2. ASSUME NEW op, op \notin {"RDA", "RMPA", "CHO_RDA", "WRA", "WRAP"}, NEW v, Compute(op, v)
      PROVE  Still
  BY <1>1, <1>2 DEF Compute
<1>3. ASSUME NEW op, op \notin {"RDA", "RMPA", "CHO_RDA", "WRA", "WRAP"}, NEW v, Store(op, v)
      PROVE  Still
  BY <1>1, <1>3 DEF Store
<1>4. ASSUME NEW op, op \notin {"RDA", "RMPA", "CHO_RDA", "WRA", "WRAP"}, NEW v, NEW w,
             LoadLfo(op, v, w)
      PROVE  Still
  BY <1>1, <1>4 DEF LoadLfo
<1>5. ASSUME Rdax \/ Rdfx \/ Maxx \/ Mulx \/ Log \/ Exp \/ Sof PROVE Still
  <2>1. CASE Rdax
    BY SMT, <1>2, <2>1 DEF Rdax
  <2>2. CASE Rdfx
    BY SMT, <1>2, <2>2 DEF Rdfx
  <2>3. CASE Maxx
    BY SMT, <1>2, <2>3 DEF Maxx
  <2>4. CASE Mulx
    BY SMT, <1>2, <2>4 DEF Mulx
  <2>5. CASE Log
    BY SMT, <1>2, <2>5 DEF Log
  <2>6. CASE Exp
    BY SMT, <1>2, <2>6 DEF Exp
  <2>7. CASE Sof
    BY SMT, <1>2, <2>7 DEF Sof
  <2> QED BY Zenon, <1>5, <2>1, <2>2, <2>3, <2>4, <2>5, <2>6, <2>7
<1>6. ASSUME AndMask \/ OrMask \/ XorMask \/ ChoSof \/ ChoRdal \/ Raw PROVE Still
  <2>1. CASE AndMask
    BY SMT, <1>2, <2>1 DEF AndMask
  <2>2. CASE OrMask
    BY SMT, <1>2, <2>2 DEF OrMask
  <2>3. CASE XorMask
    BY SMT, <1>2, <2>3 DEF XorMask
  <2>4. CASE ChoSof
    BY SMT, <1>2, <2>4 DEF ChoSof
  <2>5. CASE ChoRdal
    BY SMT, <1>2, <2>5 DEF ChoRdal
  <2>6. CASE Raw
    BY SMT, <1>2, <2>6 DEF Raw
  <2> QED BY Zenon, <1>6, <2>1, <2>2, <2>3, <2>4, <2>5, <2>6
<1>7. ASSUME Wrax \/ Wrhx \/ Wrlx PROVE Still
  <2>1. CASE Wrax
    BY SMT, <1>3, <2>1 DEF Wrax
  <2>2. CASE Wrhx
    BY SMT, <1>3, <2>2 DEF Wrhx
  <2>3. CASE Wrlx
    BY SMT, <1>3, <2>3 DEF Wrlx
  <2> QED BY <1>7, <2>1, <2>2, <2>3
<1>8. ASSUME Wlds \/ Wldr PROVE Still
  <2>1. CASE Wlds
    BY SMT, <1>4, <2>1 DEF Wlds
  <2>2. CASE Wldr
    BY SMT, <1>4, <2>2 DEF Wldr
  <2> QED BY <1>8, <2>1, <2>2
<1>9. ASSUME Jam \/ Skp PROVE Still
  <2>1. CASE Jam
    BY <1>1, <2>1 DEF Jam
  <2>2. CASE Skp
    BY <1>1, <2>2 DEF Skp
  <2> QED BY <1>9, <2>1, <2>2
<1>10. Still
  BY Zenon, <1>5, <1>6, <1>7, <1>8, <1>9 DEF Exec
<1> QED BY <1>10 DEF Still

-----------------------------------------------------------------------------
(* Each step maps to a step of the line or to none.                        *)

\* Neither the line nor whether a load keeps it changes.
LEMMA Stutters ==
  ASSUME UNCHANGED <<delay, cursor, clear_delay_on_load>>
  PROVE  Cells' = Cells /\ (~clear_delay_on_load)' = ~clear_delay_on_load
BY DEF Cells

\* The cell of an address is the line's sample at that address.
LEMMA CellMaps ==
  ASSUME TypeOK, NEW at \in Int
  PROVE  at % DelayLen \in Addr /\ Cell(at) = (cursor + (at % DelayLen)) % DelayLen
<1>1. cursor \in Int
  BY AddrIs DEF TypeOK
<1> QED BY <1>1, AddrIs, ModInside DEF Cell

LEMMA ReadMaps ==
  ASSUME TypeOK, NEW at \in Int
  PROVE  Cells[at % DelayLen] = delay[Cell(at)]
BY CellMaps DEF Cells

LEMMA WriteMaps ==
  ASSUME TypeOK, NEW at \in Int, NEW v, delay' = [delay EXCEPT ![Cell(at)] = v], cursor' = cursor
  PROVE  Cells' = [Cells EXCEPT ![at % DelayLen] = v]
<1> DEFINE a0 == at % DelayLen
<1>1. a0 \in Addr /\ Cell(at) = (cursor + a0) % DelayLen
  BY CellMaps
<1>2. cursor \in Int /\ DOMAIN delay = Addr
  BY AddrIs DEF TypeOK
<1> HIDE DEF a0
<1>3. \A a \in Addr : (cursor + a) % DelayLen \in Addr
  <2> TAKE a \in Addr
  <2>1. cursor + a \in Int
    BY <1>2, AddrIs
  <2> QED BY <2>1, AddrIs
<1>4. \A a \in Addr : (cursor + a) % DelayLen = (cursor + a0) % DelayLen => a = a0
  BY <1>1, <1>2, AddrIs, ModApart
<1>5. \A a \in Addr : Cells'[a] = IF a = a0 THEN v ELSE Cells[a]
  BY <1>1, <1>2, <1>3, <1>4 DEF Cells
<1>6. Cells' = [Cells EXCEPT ![a0] = v]
  BY <1>5 DEF Cells
<1> QED BY <1>6 DEF a0

\* The end of a pass moves every sample one address away.
LEMMA PassMaps ==
  ASSUME TypeOK, delay' = delay, cursor' = (cursor - 1) % DelayLen
  PROVE  Cells' = [a \in Addr |-> Cells[(a - 1) % DelayLen]]
<1>1. cursor \in Int
  BY AddrIs DEF TypeOK
<1>2. ASSUME NEW a \in Addr PROVE Cells'[a] = Cells[(a - 1) % DelayLen]
  <2>1. a \in Int /\ a - 1 \in Int /\ cursor - 1 \in Int
    BY <1>1, AddrIs
  <2>2. (a - 1) % DelayLen \in Addr
    BY <2>1, AddrIs
  <2>3. (((cursor - 1) % DelayLen) + a) % DelayLen = (cursor - 1 + a) % DelayLen
    BY <2>1, AddrIs, ModInside
  <2>4. (cursor + ((a - 1) % DelayLen)) % DelayLen = (cursor + (a - 1)) % DelayLen
    BY <1>1, <2>1, AddrIs, ModInside
  <2>5. cursor - 1 + a = cursor + (a - 1)
    BY <1>1, <2>1
  <2>6. Cells'[a] = delay[(((cursor - 1) % DelayLen) + a) % DelayLen]
    BY DEF Cells
  <2>7. Cells[(a - 1) % DelayLen] = delay[(cursor + ((a - 1) % DelayLen)) % DelayLen]
    BY <2>2 DEF Cells
  <2> QED BY <2>3, <2>4, <2>5, <2>6, <2>7
<1> QED BY <1>2 DEF Cells

\* A load that keeps the samples lets the program see them from another one on.
LEMMA KeepMaps ==
  ASSUME TypeOK, delay' = delay, cursor' = 0
  PROVE  \E k \in Addr : Cells' = [a \in Addr |-> Cells[(a + k) % DelayLen]]
<1> DEFINE k == (-cursor) % DelayLen
<1>1. cursor \in Int /\ -cursor \in Int
  BY AddrIs DEF TypeOK
<1>2. k \in Addr /\ k \in Int
  BY <1>1, AddrIs
<1>3. ASSUME NEW a \in Addr PROVE Cells'[a] = Cells[(a + k) % DelayLen]
  <2>1. a \in Int
    BY AddrIs
  <2>2. (a + k) % DelayLen = (a + (-cursor)) % DelayLen /\ a + (-cursor) \in Int
    <3> DEFINE back == -cursor
    <3>1. back \in Int
      BY <1>1
    <3> HIDE DEF back
    <3>2. (a + (back % DelayLen)) % DelayLen = (a + back) % DelayLen
      BY <2>1, <3>1, AddrIs, ModInside
    <3>3. a + back \in Int
      BY <2>1, <3>1
    <3> QED BY <3>2, <3>3 DEF back
  <2>3. (cursor + ((a + (-cursor)) % DelayLen)) % DelayLen = (cursor + (a + (-cursor))) % DelayLen
    BY <1>1, <2>2, AddrIs, ModInside
  <2>4. cursor + (a + (-cursor)) = a /\ 0 + a = a
    BY <1>1, <2>1
  <2>5. Cells'[a] = delay[(0 + a) % DelayLen]
    BY DEF Cells
  <2>6. (a + k) % DelayLen \in Addr
    BY <2>2, AddrIs
  <2>7. Cells[(a + k) % DelayLen] = delay[(cursor + ((a + k) % DelayLen)) % DelayLen]
    BY <2>6 DEF Cells
  <2> QED BY <2>2, <2>3, <2>4, <2>5, <2>7
<1> HIDE DEF k
<1>4. Cells' = [a \in Addr |-> Cells[(a + k) % DelayLen]]
  BY <1>3 DEF Cells
<1> QED BY <1>2, <1>4

\* Silent delay RAM is an empty line.
LEMMA SilenceMaps ==
  ASSUME NEW c \in Addr
  PROVE  \A a \in Addr : Silence[(c + a) % DelayLen] = 0
<1> TAKE a \in Addr
<1>1. c + a \in Int
  BY AddrIs
<1> QED BY <1>1, AddrIs DEF Silence

\* The line's own definitions, over the line Fv1 keeps.
LEMMA LineIs ==
  /\ Line!Empty = [a \in Addr |-> 0]
  /\ Line!At = Addr
  /\ \A l, k : Line!From(l, k) = [a \in Addr |-> l[(a + k) % DelayLen]]
BY DEF Line!Empty, Line!At, Line!From, Addr

LEMMA LineInit == ASSUME Init PROVE Line!Init
<1>1. cursor \in Addr /\ delay = Silence
  BY AddrIs DEF Init
<1>2. \A a \in Addr : delay[(cursor + a) % DelayLen] = 0
  BY <1>1, SilenceMaps
<1>3. Cells = Line!Empty
  BY <1>2, LineIs DEF Cells
<1>4. ~clear_delay_on_load = FALSE /\ lr = 0
  BY DEF Init
<1> QED BY <1>3, <1>4 DEF Line!Init, Cells

\* Between passes the line is the host's; at a pass's end it moves.
LEMMA HostAsks == ASSUME phase = "idle" PROVE Access.kind = "host"
  BY DEF Access

LEMMA EndAsks == ASSUME phase = "pass", ic >= ProgLen PROVE Access.kind = "end"
  BY DEF Access

\* Loading a program empties the line or leaves its samples in their order.
LEMMA LoadMaps == ASSUME TypeOK, NEW p \in Programs, LoadProgram(p) PROVE Line!Load
<1>1. /\ delay' = IF clear_delay_on_load THEN Silence ELSE delay
      /\ cursor' = 0 /\ clear_delay_on_load' = clear_delay_on_load /\ lr' = 0
  BY DEF LoadProgram, ResetRegistersAndLfos, ResetPipeline, flags
<1>2. CASE clear_delay_on_load
  <2>1. \A a \in Addr : Silence[(0 + a) % DelayLen] = 0
    BY AddrIs, SilenceMaps
  <2>2. Cells' = Line!Empty
    BY <1>1, <1>2, <2>1, LineIs DEF Cells
  <2> QED BY <1>1, <1>2, <2>2 DEF Line!Load, Cells
<1>3. CASE ~clear_delay_on_load
  <2>1. PICK k \in Addr : Cells' = [a \in Addr |-> Cells[(a + k) % DelayLen]]
    BY <1>1, <1>3, KeepMaps
  <2>2. Cells' = Line!From(Cells, k) /\ k \in Line!At
    BY <2>1, LineIs
  <2> QED BY <1>1, <1>3, <2>2 DEF Line!Load, Cells
<1> QED BY <1>2, <1>3 DEF TypeOK

LEMMA ResetMaps == ASSUME TypeOK, Reset PROVE Line!Clear
<1>1. delay' = Silence /\ cursor' = 0 /\ clear_delay_on_load' = clear_delay_on_load /\ lr' = 0
  BY DEF Reset, ResetRegistersAndLfos, ResetPipeline, flags
<1>2. \A a \in Addr : Silence[(0 + a) % DelayLen] = 0
  BY AddrIs, SilenceMaps
<1>3. Cells' = Line!Empty
  BY <1>1, <1>2, LineIs DEF Cells
<1> QED BY <1>1, <1>3 DEF Line!Clear, Cells

\* Power-up noise is a noise floor read from wherever the pointer is.
LEMMA RandomizeMaps ==
  ASSUME TypeOK, NEW s \in RamSeeds, RandomizeDelayRam(s)
  PROVE  Line!PowerUp
<1>1. /\ delay' = NoiseFloor(s) /\ cursor' = cursor
      /\ clear_delay_on_load' = clear_delay_on_load /\ lr' = lr
  BY DEF RandomizeDelayRam, flags
<1>2. cursor \in Addr /\ cursor \in Int
  BY AddrIs DEF TypeOK
<1>3. \A a \in Addr : cursor + a = a + cursor
  BY <1>2, AddrIs
<1>4. Cells' = [a \in Addr |-> NoiseFloor(s)[(a + cursor) % DelayLen]]
  BY <1>1, <1>3 DEF Cells
<1>5. Cells' = Line!From(NoiseFloor(s), cursor) /\ cursor \in Line!At
  BY <1>2, <1>4, LineIs
<1> QED BY <1>1, <1>5 DEF Line!PowerUp, Cells

\* Each instruction is granted what it asks for.
LEMMA ExecMaps == ASSUME TypeOK, Exec PROVE Line!Next
<1>1. UNCHANGED <<cursor, clear_delay_on_load>>
  <2>1. PICK v : \E n \in Nat : Retire(v, n)
    BY Retires
  <2> QED BY <2>1 DEF Retire, flags
<1>2. CASE Rda \/ Rmpa \/ ChoRda
  <2>1. /\ Access.kind = "read" /\ Access.at \in Int
        /\ lr' = delay[Cell(Access.at)] /\ UNCHANGED delay
    BY <1>2, ReadAsks
  <2>2. lr' = Cells[Access.at % DelayLen]
    BY <2>1, ReadMaps
  <2>3. Cells' = Cells /\ (~clear_delay_on_load)' = ~clear_delay_on_load
    BY <1>1, <2>1, Stutters
  <2>4. Line!Read
    BY <2>1, <2>2, <2>3 DEF Line!Read, Cells
  <2> QED BY <2>4 DEF Line!Next
<1>3. CASE Wra \/ Wrap
  <2>1. /\ Access.kind = "write" /\ Access.at \in Int
        /\ delay' = [delay EXCEPT ![Cell(Access.at)] = Access.v] /\ UNCHANGED lr
    BY <1>3, WriteAsks
  <2>2. Cells' = [Cells EXCEPT ![Access.at % DelayLen] = Access.v]
    BY <1>1, <2>1, WriteMaps
  <2>3. Line!Write
    BY <1>1, <2>1, <2>2 DEF Line!Write, Cells
  <2> QED BY <2>3 DEF Line!Next
<1>4. CASE ~Rda /\ ~Rmpa /\ ~ChoRda /\ ~Wra /\ ~Wrap
  <2>1. Access.kind = "none" /\ UNCHANGED <<delay, lr>>
    BY <1>4, NoneAsks
  <2>2. Cells' = Cells /\ (~clear_delay_on_load)' = ~clear_delay_on_load
    BY <1>1, <2>1, Stutters
  <2>3. Line!Pass
    BY <2>1, <2>2 DEF Line!Pass, Cells
  <2> QED BY <2>3 DEF Line!Next
<1> QED BY <1>2, <1>3, <1>4

\* The end of a pass moves the pointer back, and so each sample forward.
LEMMA PassAdvancesLine == ASSUME TypeOK, EndPass PROVE Line!Advance
<1>1. /\ delay' = delay /\ cursor' = (cursor - 1) % DelayLen
      /\ clear_delay_on_load' = clear_delay_on_load /\ lr' = lr
  BY DEF EndPass, NextCursor, flags
<1>2. Cells' = [a \in Addr |-> Cells[(a - 1) % DelayLen]]
  BY <1>1, PassMaps
<1>3. \A a \in Addr : a - 1 = a + (-1)
  BY AddrIs
<1>4. Cells' = Line!From(Cells, -1)
  BY <1>2, <1>3, LineIs
<1>5. Access.kind = "end"
  BY EndAsks DEF EndPass
<1> QED BY <1>1, <1>4, <1>5 DEF Line!Advance, Cells

\* What a host does between passes, the start of the next one included.
LEMMA HostMaps ==
  ASSUME TypeOK, HostCall \/ \E in \in Frames : StartPass(in[1], in[2])
  PROVE  Line!Next
<1>1. Access.kind = "host"
  BY HostAsks, HostControl DEF StartPass
<1>2. ASSUME Line!Load \/ Line!Clear \/ Line!PowerUp \/ Line!Other \/ \E b \in BOOLEAN : Line!Keep(b)
      PROVE  Line!Next
  BY <1>1, <1>2 DEF Line!Next, Line!Host
<1>3. ASSUME UNCHANGED <<delay, cursor, clear_delay_on_load, lr>> PROVE Line!Next
  <2>1. Cells' = Cells /\ (~clear_delay_on_load)' = ~clear_delay_on_load
    BY <1>3, Stutters
  <2>2. Line!Other
    BY <1>3, <2>1 DEF Line!Other, Cells
  <2> QED BY <1>2, <2>2
<1>4. ASSUME NEW in \in Frames, StartPass(in[1], in[2]) PROVE Line!Next
  BY <1>3, <1>4 DEF StartPass, ram, flags
<1>5. ASSUME NEW p \in Programs, LoadProgram(p) PROVE Line!Next
  BY <1>2, <1>5, LoadMaps
<1>6. ASSUME Reset PROVE Line!Next
  BY <1>2, <1>6, ResetMaps
<1>7. ASSUME NEW s \in RamSeeds, RandomizeDelayRam(s) PROVE Line!Next
  BY <1>2, <1>7, RandomizeMaps
<1>8. ASSUME NEW b \in BOOLEAN, SetClearDelayOnLoad(b) PROVE Line!Next
  <2>1. UNCHANGED <<delay, cursor, lr>> /\ clear_delay_on_load' = b
    BY <1>8 DEF SetClearDelayOnLoad, ram
  <2>2. Cells' = Cells
    BY <2>1 DEF Cells
  <2>3. Line!Keep(~b)
    BY <2>1, <2>2 DEF Line!Keep, Cells
  <2> QED BY <1>2, <2>3
<1>9. ASSUME \/ \E s \in RamSeeds : RandomizeRegisters(s)
             \/ \E b \in BOOLEAN, s \in AdcSeeds : SetAdcNoise(b, s)
             \/ \E b \in BOOLEAN : SetDelayQuantization(b)
             \/ \E p \in DOMAIN pots, l \in PotLevels : SetPot(p, l)
      PROVE  Line!Next
  BY <1>3, <1>9 DEF RandomizeRegisters, SetAdcNoise, SetDelayQuantization, SetPot, ram, flags
<1> QED BY <1>4, <1>5, <1>6, <1>7, <1>8, <1>9 DEF HostCall

\* A step of the machine and its history is a step of the machine.
LEMMA AuditIsNext == ASSUME [AuditNext]_<<vars, hist>> PROVE [Next]_vars
<1>1. ASSUME Restart PROVE HostCall
  BY <1>1 DEF Restart, HostCall
<1> QED BY <1>1 DEF AuditNext, Next, HostCall

\* A step of the machine is a step of the line, or changes neither the line nor
\* what is asked of it.
LEMMA LineStep ==
  ASSUME TypeOK, [Next]_vars
  PROVE  Line!Next \/ UNCHANGED <<Cells, ~clear_delay_on_load, lr, Access>>
<1>1. ASSUME HostCall \/ \E in \in Frames : StartPass(in[1], in[2]) PROVE Line!Next
  BY <1>1, HostMaps
<1>2. ASSUME Exec PROVE Line!Next
  BY <1>2, ExecMaps
<1>3. ASSUME EndPass PROVE Line!Next
  BY <1>3, PassAdvancesLine DEF Line!Next
<1>4. ASSUME UNCHANGED vars PROVE UNCHANGED <<Cells, ~clear_delay_on_load, lr, Access>>
  <2>1. UNCHANGED <<delay, cursor, clear_delay_on_load, lr>>
    BY <1>4 DEF vars, ram, flags
  <2>2. UNCHANGED <<phase, ic, instructions, acc, regs, sin_lfo, rmp_lfo, quantize_delay_14bit>>
    BY <1>4 DEF vars, control, alu, lfos, flags
  <2>3. UNCHANGED Ins
    BY <2>2 DEF Ins
  <2>4. UNCHANGED Offset
    BY <2>2, <2>3 DEF Offset, AddrPtr, ChoValue
  <2>5. UNCHANGED Access
    BY <2>2, <2>3, <2>4 DEF Access
  <2> QED BY <2>1, <2>5, Stutters
<1> QED BY <1>1, <1>2, <1>3, <1>4 DEF Next

\* Seen through its moving base pointer, delay RAM is the line a program is
\* promised: each read finds and each write leaves its sample where the
\* instruction says, each pass moves every sample by one address, and a load
\* leaves the samples in order or the line empty.
THEOREM DelayRamIsALine == AuditSpec => IsDelayLine
<1>1. AuditInit => Line!Init
  BY LineInit DEF AuditInit
<1>2. AuditInit => TypeOK
  BY TypeInit DEF AuditInit
<1>3. TypeOK /\ [AuditNext]_<<vars, hist>> => TypeOK'
  BY TypeStep, AuditIsNext
<1>4. TypeOK /\ [AuditNext]_<<vars, hist>>
        => [Line!Next]_<<[a \in Addr |-> delay[(cursor + a) % DelayLen]], ~clear_delay_on_load,
                         lr, Access>>
  <2>1. ASSUME TypeOK, [AuditNext]_<<vars, hist>>
        PROVE  Line!Next \/ UNCHANGED <<Cells, ~clear_delay_on_load, lr, Access>>
    BY <2>1, AuditIsNext, LineStep
  <2> QED BY <2>1 DEF Cells
<1> QED BY <1>1, <1>2, <1>3, <1>4, PTL DEF AuditSpec, IsDelayLine, Line!Spec

-----------------------------------------------------------------------------
(* Restarts.                                                               *)

\* The first-run flag is set exactly until the first pass ends.
FirstInv == passes \in 0 .. 2 /\ first_run \in BOOLEAN /\ (first_run <=> passes = 0)

\* The flag is set by a restart and cleared by the end of a pass.
LEMMA FirstStep ==
  ASSUME TypeOK, FirstInv, [AuditNext]_<<vars, hist>>
  PROVE  FirstInv'
<1>1. ASSUME Restart, passes' = 0 PROVE FirstInv'
  <2>1. first_run' = TRUE
    BY <1>1 DEF Restart, LoadProgram, Reset, ResetRegistersAndLfos
  <2> QED BY <1>1, <2>1 DEF FirstInv
<1>2. ASSUME first_run' = first_run, passes' = passes PROVE FirstInv'
  BY <1>2 DEF FirstInv
<1>3. ASSUME NEW b \in BOOLEAN, NEW s \in AdcSeeds, SetAdcNoise(b, s) PROVE first_run' = first_run
  BY <1>3 DEF SetAdcNoise
<1>4. ASSUME \/ \E s \in RamSeeds : RandomizeDelayRam(s) \/ RandomizeRegisters(s)
             \/ \E b \in BOOLEAN : SetClearDelayOnLoad(b) \/ SetDelayQuantization(b)
             \/ \E p \in DOMAIN pots, l \in PotLevels : SetPot(p, l)
      PROVE  first_run' = first_run
  BY <1>4 DEF RandomizeDelayRam, RandomizeRegisters, SetClearDelayOnLoad,
              SetDelayQuantization, SetPot
<1>5. ASSUME Exec PROVE first_run' = first_run
  <2>1. PICK v : \E n \in Nat : Retire(v, n)
    BY <1>5, Retires
  <2> QED BY <2>1 DEF Retire
<1>6. ASSUME NEW in \in Frames, StartPass(in[1], in[2]) PROVE first_run' = first_run
  BY <1>6 DEF StartPass
<1>7. ASSUME EndPass, passes' = IF passes < 2 THEN passes + 1 ELSE 2 PROVE FirstInv'
  <2>1. first_run' = FALSE
    BY <1>7 DEF EndPass
  <2>2. passes \in 0 .. 2
    BY DEF FirstInv
  <2>3. passes' \in 0 .. 2 /\ ~(passes' = 0)
    BY <1>7, <2>2
  <2> QED BY <2>1, <2>3 DEF FirstInv
<1>8. ASSUME UNCHANGED <<vars, hist>> PROVE first_run' = first_run /\ passes' = passes
  BY <1>8 DEF vars, hist
<1> QED BY <1>1, <1>2, <1>3, <1>4, <1>5, <1>6, <1>7, <1>8 DEF AuditNext, hist

LEMMA AuditTypeFirst == AuditSpec => [](TypeOK /\ FirstInv)
<1>1. AuditInit => TypeOK /\ FirstInv
  BY TypeInit DEF AuditInit, Init, FirstInv
<1>2. TypeOK /\ FirstInv /\ [AuditNext]_<<vars, hist>> => (TypeOK /\ FirstInv)'
  BY TypeStep, AuditIsNext, FirstStep
<1> QED BY <1>1, <1>2, PTL DEF AuditSpec

\* SKP RUN is not taken in the first pass after a load or a reset and is taken
\* in every later one, however many instructions and host calls lie between.
THEOREM RunsOncePerLoad == AuditSpec => RunOncePerLoad
<1>1. ASSUME TypeOK, FirstInv, Skp, Ins.cond = {"RUN"}, Ins.n > 0
      PROVE  ic' = ic + 1 <=> passes = 0
  <2>1. SkpTaken(Ins.cond) <=> ~first_run
    BY <1>1 DEF SkpTaken
  <2>2. Ins.n \in Nat /\ ic \in Nat
    BY <1>1, Reached, Fields DEF Skp, TypeOK
  <2>3. ic' = ic + 1 + (IF SkpTaken(Ins.cond) THEN Ins.n ELSE 0)
    BY <1>1 DEF Skp, Retire
  <2> QED BY <1>1, <2>1, <2>2, <2>3 DEF FirstInv
<1>2. TypeOK /\ FirstInv /\ [AuditNext]_<<vars, hist>>
        => [Skp /\ Ins.cond = {"RUN"} /\ Ins.n > 0 => (ic' = ic + 1 <=> passes = 0)]_vars
  BY <1>1
<1> QED BY <1>2, AuditTypeFirst, PTL DEF AuditSpec, RunOncePerLoad

\* A load or a reset leaves the machine as one just built, whether or not the
\* host lets a load clear the delay; the delay is silent, except after a load
\* that keeps it, which changes no sample of it.
THEOREM RestartsFresh == AuditSpec => FreshAfterRestart
<1> DEFINE Fresh == /\ regs' = RegsZero /\ cursor' = 0
                    /\ alu' = <<0, 0, 0>> /\ lr' = 0 /\ first_run'
                    /\ \A l \in DOMAIN sin_lfo : sin_lfo'[l] = SinNew
                    /\ \A l \in DOMAIN rmp_lfo : rmp_lfo'[l] = RampNew
                    /\ noise_state' = Odd(noise_seed)
                    /\ delay' = IF clear_delay_on_load \/ Reset THEN Silence ELSE delay
                    /\ passes' = 0
<1>1. ASSUME TypeOK, FirstInv', Restart PROVE Fresh
  <2>1. ResetRegistersAndLfos
    BY <1>1 DEF Restart, LoadProgram, Reset
  <2>2. first_run' = TRUE /\ noise_state' = Odd(noise_seed)
    BY <2>1 DEF ResetRegistersAndLfos, ResetNoise
  <2>3. passes' = 0
    BY <1>1, <2>2 DEF FirstInv
  <2>4. /\ \A l \in DOMAIN sin_lfo : sin_lfo'[l] = SinNew
        /\ \A l \in DOMAIN rmp_lfo : rmp_lfo'[l] = RampNew
    BY <1>1, <2>1 DEF ResetRegistersAndLfos, TypeOK
  <2>5. delay' = IF clear_delay_on_load \/ Reset THEN Silence ELSE delay
    <3>1. CASE Reset
      BY <3>1 DEF Reset
    <3>2. ASSUME ~Reset, NEW p \in Programs, LoadProgram(p)
          PROVE  delay' = IF clear_delay_on_load \/ Reset THEN Silence ELSE delay
      BY <3>2 DEF LoadProgram
    <3> QED BY <1>1, <3>1, <3>2 DEF Restart
  <2> QED BY <2>1, <2>2, <2>3, <2>4, <2>5 DEF ResetRegistersAndLfos, ResetPipeline, alu
<1>2. (TypeOK /\ FirstInv) /\ (TypeOK /\ FirstInv)' /\ [AuditNext]_<<vars, hist>>
        => [Restart => Fresh]_vars
  BY <1>1
<1> QED BY <1>2, AuditTypeFirst, PTL DEF AuditSpec, FreshAfterRestart

-----------------------------------------------------------------------------
(* The noise of the ADCs.                                                  *)

\* The generator has drawn as often as the history says since its seed.
NoiseInv == /\ draws \in Nat /\ noise_seed = origin
            /\ NoiseRestarts

\* A step draws twice, draws nothing or seeds anew.
LEMMA NoiseStep ==
  ASSUME TypeOK, NoiseInv, [AuditNext]_<<vars, hist>>
  PROVE  NoiseInv'
<1>1. ASSUME noise_state' = Odd(noise_seed'), origin' = noise_seed', draws' = 0,
             noise_seed' \in Nat
      PROVE  NoiseInv'
  <2>1. Odd(noise_seed') \in Nat
    BY <1>1, OddNat
  <2>2. LcgRun(Odd(noise_seed'))[0] = Odd(noise_seed')
    BY <2>1, LcgRunIs
  <2> QED BY <1>1, <2>2 DEF NoiseInv, NoiseRestarts
<1>2. ASSUME UNCHANGED <<noise, draws, origin>> PROVE NoiseInv'
  BY <1>2 DEF NoiseInv, NoiseRestarts, noise
<1>3. ASSUME Restart, draws' = 0, origin' = noise_seed PROVE NoiseInv'
  <2>1. noise_state' = Odd(noise_seed) /\ noise_seed' = noise_seed
    BY <1>3 DEF Restart, LoadProgram, Reset, ResetRegistersAndLfos, ResetNoise
  <2> QED BY <1>1, <1>3, <2>1 DEF TypeOK
<1>4. ASSUME NEW b \in BOOLEAN, NEW s \in AdcSeeds, SetAdcNoise(b, s), origin' = s, draws' = 0
      PROVE  NoiseInv'
  BY <1>1, <1>4, HostAssumption DEF SetAdcNoise
<1>5. ASSUME \/ \E s \in RamSeeds : RandomizeDelayRam(s) \/ RandomizeRegisters(s)
             \/ \E b \in BOOLEAN : SetClearDelayOnLoad(b) \/ SetDelayQuantization(b)
             \/ \E p \in DOMAIN pots, l \in PotLevels : SetPot(p, l)
      PROVE  UNCHANGED noise
  BY <1>5 DEF RandomizeDelayRam, RandomizeRegisters, SetClearDelayOnLoad,
              SetDelayQuantization, SetPot
<1>6. ASSUME Exec PROVE UNCHANGED noise
  <2>1. PICK v : \E n \in Nat : Retire(v, n)
    BY <1>6, Retires
  <2> QED BY <2>1 DEF Retire
<1>7. ASSUME NEW in \in Frames, StartPass(in[1], in[2]), origin' = origin,
             draws' = IF adc_noise /\ draws <= MaxDraws THEN draws + 2 ELSE draws
      PROVE  NoiseInv'
  <2>1. /\ noise_state' = IF adc_noise THEN Lcg(Lcg(noise_state)) ELSE noise_state
        /\ noise_seed' = noise_seed
    BY <1>7 DEF StartPass
  <2>2. CASE ~adc_noise
    BY <1>7, <2>1, <2>2 DEF NoiseInv, NoiseRestarts
  <2>3. CASE adc_noise /\ draws <= MaxDraws
    <3> DEFINE run == LcgRun(Odd(origin))
    <3>1. Odd(origin) \in Nat
      BY OddNat DEF NoiseInv, TypeOK
    <3>2. \A k \in Nat : run[k + 1] = Lcg(run[k])
      BY <3>1, LcgRunIs
    <3>3. draws \in Nat /\ noise_state = run[draws]
      BY <2>3 DEF NoiseInv, NoiseRestarts
    <3>4. run' = run
      BY <1>7
    <3> HIDE DEF run
    <3>5. draws + 1 \in Nat /\ (draws + 1) + 1 = draws + 2
      BY <3>3
    <3>6. Lcg(Lcg(noise_state)) = run[draws + 2]
      BY <3>2, <3>3, <3>5
    <3>7. draws' = draws + 2 /\ noise_state' = run[draws + 2]
      BY <1>7, <2>1, <2>3, <3>6
    <3>8. noise_state' = LcgRun(Odd(origin'))[draws']
      BY <1>7, <3>7 DEF run
    <3> QED BY <1>7, <2>1, <3>3, <3>7, <3>8 DEF NoiseInv, NoiseRestarts
  <2>4. CASE adc_noise /\ ~(draws <= MaxDraws)
    BY <1>7, <2>1, <2>4 DEF NoiseInv, NoiseRestarts
  <2> QED BY <2>2, <2>3, <2>4
<1>8. ASSUME EndPass PROVE UNCHANGED noise
  BY <1>8 DEF EndPass
<1>9. ASSUME UNCHANGED <<vars, hist>> PROVE UNCHANGED <<noise, draws, origin>>
  BY <1>9 DEF vars, hist
<1> QED BY <1>2, <1>3, <1>4, <1>5, <1>6, <1>7, <1>8, <1>9 DEF AuditNext, hist

\* The dither of the ADCs is what the generator gives from its seed for the
\* samples taken since, for every seed: a load or a reset starts it anew.
THEOREM NoiseAlwaysRestarts == AuditSpec => []NoiseRestarts
<1>1. AuditInit => TypeOK /\ NoiseInv
  <2> SUFFICES ASSUME AuditInit PROVE TypeOK /\ NoiseInv
    OBVIOUS
  <2>1. Odd(1) = 1
    BY DEF Odd
  <2>2. LcgRun(1)[0] = 1
    BY LcgRunIs
  <2> QED BY <2>1, <2>2, TypeInit DEF AuditInit, Init, NoiseInv, NoiseRestarts
<1>2. TypeOK /\ NoiseInv /\ [AuditNext]_<<vars, hist>> => (TypeOK /\ NoiseInv)'
  BY TypeStep, AuditIsNext, NoiseStep
<1>3. NoiseInv => NoiseRestarts
  BY DEF NoiseInv
<1> QED BY <1>1, <1>2, <1>3, PTL DEF AuditSpec
=============================================================================
