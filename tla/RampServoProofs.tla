-------------------------- MODULE RampServoProofs --------------------------
(***************************************************************************)
(* The servo of RampServo never lets its pointer wrap, whatever the widths *)
(* of the formats.  The phase's range is inductive by itself: the target   *)
(* lies at most one past the last phase, the distance to it fits the rate  *)
(* register, and the truncated division moves the phase at most that far,  *)
(* and not at all from the last phase to the target beyond it.             *)
(***************************************************************************)
EXTENDS RampServo, TLAPS

\* A floor division is at least any quotient that fits, and has the sign of
\* the dividend (MulS114's shift).
LEMMA DivBounds ==
  ASSUME NEW a \in Int, NEW d \in Nat \ {0}, NEW q \in Int, q * d <= a, a <= 0
  PROVE  /\ a \div d \in Int
         /\ q <= a \div d /\ a \div d <= 0
<1>1. /\ a \div d \in Int
      /\ a = d * (a \div d) + (a % d)
      /\ 0 <= a % d /\ a % d < d
  OBVIOUS
<1> DEFINE z == a \div d
<1>2. z <= 0
  <2>1. SUFFICES ASSUME z >= 1 PROVE FALSE
    BY <1>1
  <2>2. d * z >= d
    BY <1>1, <2>1
  <2> QED BY <1>1, <2>2
<1>3. q <= z
  <2>1. SUFFICES ASSUME z + 1 <= q PROVE FALSE
    BY <1>1
  <2>2. d * (z + 1) <= d * q
    BY <1>1, <2>1
  <2>3. d * (z + 1) = d * z + d
    BY <1>1
  <2> QED BY <1>1, <2>2, <2>3
<1> QED BY <1>1, <1>2, <1>3

\* A natural number divided is a natural number, smaller unless it is 0.
LEMMA DivShrinks ==
  ASSUME NEW a \in Nat, NEW d \in Nat, d >= 2
  PROVE  /\ a \div d \in Nat
         /\ a \div d <= a
         /\ a > 0 => a \div d < a
<1>1. /\ a \div d \in Int
      /\ a = d * (a \div d) + (a % d)
      /\ 0 <= a % d /\ a % d < d
  OBVIOUS
<1> DEFINE z == a \div d
<1>2. z >= 0
  <2>1. SUFFICES ASSUME z <= -1 PROVE FALSE
    BY <1>1
  <2>2. d * z <= d * (-1)
    BY <1>1, <2>1
  <2> QED BY <1>1, <2>2
<1>3. 2 * z <= d * z
  BY <1>1, <1>2
<1> QED BY <1>1, <1>2, <1>3

\* The pot points between the first phase and one past the last.
LEMMA TargetRange ==
  ASSUME pot \in 0 .. AccMax
  PROVE  Target \in 0 .. RampLen /\ Pull = -Target
<1> DEFINE h == S114 \div 2
<1>1. S114 = 2 * h /\ h \in Nat \ {0} /\ RampLen \in Nat /\ S114 \in Nat \ {0}
  BY ServoAssumption, FormatAssumption, LfoAssumption
<1>2. pot \in Nat /\ pot <= 2 * RampLen
  BY ServoAssumption, LfoAssumption DEF AccMax
<1>3. /\ pot * (-h) \in Int
      /\ pot * (-h) = -(h * pot)
      /\ h * pot >= 0
      /\ h * pot <= h * (2 * RampLen)
  BY <1>1, <1>2
<1>4. (-RampLen) * S114 = -(h * (2 * RampLen))
  BY <1>1
<1>5. (-RampLen) * S114 <= pot * (-h) /\ pot * (-h) <= 0
  BY <1>3, <1>4, <1>1
<1>6. Pull \in -RampLen .. 0
  BY <1>1, <1>3, <1>5, DivBounds DEF Pull, MulS114
<1> QED BY <1>1, <1>6 DEF Target

\* What a pass does to the phase.
LEMMA SampleStep ==
  ASSUME TypeOK, Sample
  PROVE  /\ phase' \in 0 .. RampLen - 1
         /\ \/ phase <= phase' /\ phase' <= Target
            \/ Target <= phase' /\ phase' <= phase
<1>1. Target \in 0 .. RampLen /\ Pull = -Target /\ phase \in 0 .. RampLen - 1
  BY TargetRange DEF TypeOK
<1>2. RampLen \in Nat \ {0} /\ RampDiv \in Nat /\ RampDiv >= 2 /\ AccOne = 2 * RampLen
  BY LfoAssumption, ServoAssumption
<1>3. Rate = phase - Target
  BY <1>1, <1>2 DEF Rate, Sat, AccMax, AccMin
<1>4. Window(0) = RampLen
  <2>1. AmpShift(0) = 0
    BY <1>2, LfoAssumption DEF AmpShift
  <2> QED BY <2>1, <1>2 DEF Window, Shrink
<1>5. CASE phase >= Target
  <2> DEFINE e == (phase - Target) \div RampDiv
  <2>1. e \in Nat /\ e <= phase - Target
    BY <1>1, <1>2, <1>5, DivShrinks
  <2>2. phase' = (phase - e) % RampLen
    BY <1>1, <1>3, <1>4, <1>5 DEF Sample, RampTick, TruncDiv
  <2>3. (phase - e) % RampLen = phase - e
    BY <2>1, <1>1, <1>2
  <2> QED BY <2>1, <2>2, <2>3, <1>1, <1>2
<1>6. CASE phase < Target
  <2> DEFINE e == (Target - phase) \div RampDiv
  <2>1. e \in Nat /\ e < Target - phase
    BY <1>1, <1>2, <1>6, DivShrinks
  <2>2. -(phase - Target) = Target - phase
    BY <1>1
  <2>3. phase' = (phase - (-e)) % RampLen
    BY <1>1, <1>3, <1>4, <1>6, <2>2 DEF Sample, RampTick, TruncDiv
  <2>4. phase - (-e) = phase + e /\ (phase + e) % RampLen = phase + e
    BY <2>1, <1>1, <1>2
  <2> QED BY <2>1, <2>3, <2>4, <1>1, <1>2
<1> QED BY <1>1, <1>5, <1>6

\* The ramp's phase stays in its window and the pot in its register.
THEOREM ServoTypeCorrect == Spec => []TypeOK
<1>1. Init => TypeOK
  BY DEF Init, TypeOK
<1>2. TypeOK /\ [Next]_servoVars => TypeOK'
  <2> SUFFICES ASSUME TypeOK, [Next]_servoVars PROVE TypeOK'
    OBVIOUS
  <2>1. CASE Sample
    BY <2>1, SampleStep DEF TypeOK, Sample
  <2>2. CASE \E p \in 0 .. AccMax : Turn(p)
    BY <2>2 DEF TypeOK, Turn
  <2>3. CASE UNCHANGED servoVars
    BY <2>3 DEF TypeOK, servoVars
  <2> QED BY <2>1, <2>2, <2>3 DEF Next
<1> QED BY <1>1, <1>2, PTL DEF Spec

\* A pass moves the phase toward the pot's target and never past it
\* (RampLfo::tick with a truncating division).
THEOREM ServoNeverWraps == Spec => NeverWraps
<1>1. TypeOK /\ [Next]_servoVars =>
        [pot' = pot => \/ phase <= phase' /\ phase' <= Target
                       \/ Target <= phase' /\ phase' <= phase
                       \/ phase' = phase]_servoVars
  <2> SUFFICES ASSUME TypeOK, Next, pot' = pot
               PROVE  \/ phase <= phase' /\ phase' <= Target
                      \/ Target <= phase' /\ phase' <= phase
                      \/ phase' = phase
    OBVIOUS
  <2>1. CASE Sample
    BY <2>1, SampleStep
  <2>2. CASE \E p \in 0 .. AccMax : Turn(p)
    BY <2>2 DEF Turn
  <2> QED BY <2>1, <2>2 DEF Next
<1> QED BY <1>1, ServoTypeCorrect, PTL DEF Spec, NeverWraps
=============================================================================
