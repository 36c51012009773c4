-------------------------- MODULE PitchShiftProofs --------------------------
(***************************************************************************)
(* The pitch shifter of PitchShift mutes a pointer for the whole of its    *)
(* wrap, for every rate, window and width of the formats.  The argument is *)
(* geometry on one window of length W with slides of at most S < W/8:      *)
(* pointer A wraps only within S of the ends, where the envelope is flat   *)
(* at 0; pointer B only within S of the middle, where it is flat at        *)
(* AccMax and its complement 0.                                            *)
(***************************************************************************)
EXTENDS PitchShift, TLAPS

\* The four windows and what the envelope's slope makes of them.
LEMMA WindowLengths ==
  ASSUME NEW w \in Ranges
  PROVE  LET k == Shrink[AmpShift(w) + 1]
         IN  /\ k \in {1, 2, 4, 8}
             /\ Window(w) \in Nat \ {0}
             /\ k * Window(w) = RampLen
             /\ 8 * (MaxSlide + 1) <= Window(w)
             /\ MaxSlide \in Nat
<1> DEFINE u == AccOne \div 4
<1>1. RampLen \in Nat \ {0} /\ RampLen % 8 = 0 /\ AccOne = 2 * RampLen /\ RampDiv \in Nat \ {0}
  BY LfoAssumption, ShiftAssumption
<1>2. u \in Nat \ {0}
  BY <1>1
<1>3. MaxSlide \in Nat
  BY <1>1 DEF MaxSlide
<1>4. PICK j \in 0 .. 3 : w = j * u
  BY DEF Ranges
<1>5. AmpShift(w) = j
  <2>1. w \div u = j
    BY <1>2, <1>4
  <2> QED BY <2>1, <1>4 DEF AmpShift
<1>6. /\ Shrink[AmpShift(w) + 1] \in {1, 2, 4, 8}
      /\ Window(w) = RampLen \div Shrink[AmpShift(w) + 1]
  BY <1>4, <1>5 DEF Shrink, Window
<1>7. /\ RampLen \div 1 = RampLen
      /\ 2 * (RampLen \div 2) = RampLen
      /\ 4 * (RampLen \div 4) = RampLen
      /\ 8 * (RampLen \div 8) = RampLen
  BY <1>1
<1> QED BY <1>1, <1>3, <1>6, <1>7, ShiftAssumption

\* The envelope is 0 within a slide of either end of the window.
LEMMA SilentAtEnds ==
  ASSUME NEW w \in Ranges, NEW p \in 0 .. Window(w) - 1,
         p <= MaxSlide \/ Window(w) - 1 - p <= MaxSlide
  PROVE  Crossfade(p, w) = 0
<1> DEFINE k == Shrink[AmpShift(w) + 1]
           W == Window(w)
           tri == IF p < W - 1 - p THEN p ELSE W - 1 - p
<1>1. /\ k \in {1, 2, 4, 8} /\ W \in Nat \ {0} /\ k * W = RampLen
      /\ 8 * (MaxSlide + 1) <= W /\ MaxSlide \in Nat
  BY WindowLengths
<1>2. AccOne \div 2 = k * W /\ k * W \in Nat /\ AccMax \in Nat
  BY <1>1, ShiftAssumption, LfoAssumption DEF AccMax
<1>3. tri \in Nat /\ 8 * tri <= W
  BY <1>1
<1>4. tri * 8 * k - k * W <= 0 /\ tri * 8 * k - k * W \in Int
  BY <1>1, <1>3
<1>5. Crossfade(p, w) = Clamp(tri * 8 * k - k * W, 0, AccMax)
  BY <1>2 DEF Crossfade
<1> HIDE DEF tri, k, W
<1> QED BY <1>2, <1>4, <1>5 DEF Clamp

\* The envelope is AccMax where both ends are 3/8 of the window away.
LEMMA FullInMiddle ==
  ASSUME NEW w \in Ranges, NEW p \in 0 .. Window(w) - 1,
         8 * p >= 3 * Window(w), 8 * (Window(w) - 1 - p) >= 3 * Window(w)
  PROVE  Crossfade(p, w) = AccMax
<1> DEFINE k == Shrink[AmpShift(w) + 1]
           W == Window(w)
           tri == IF p < W - 1 - p THEN p ELSE W - 1 - p
<1>1. k \in {1, 2, 4, 8} /\ W \in Nat \ {0} /\ k * W = RampLen
  BY WindowLengths
<1>2. AccOne \div 2 = k * W /\ AccMax = 2 * (k * W) - 1 /\ k * W \in Nat /\ AccMax \in Nat
  BY <1>1, ShiftAssumption, LfoAssumption DEF AccMax
<1>3. tri \in Nat /\ 8 * tri >= 3 * W
  BY <1>1
<1>4. tri * 8 * k - k * W >= 2 * (k * W) /\ tri * 8 * k - k * W \in Int
  BY <1>1, <1>3
<1>5. Crossfade(p, w) = Clamp(tri * 8 * k - k * W, 0, AccMax)
  BY <1>2 DEF Crossfade
<1> HIDE DEF tri, k, W
<1> QED BY <1>2, <1>4, <1>5 DEF Clamp

\* A rate register moves the phase by at most MaxSlide.
LEMMA SlideBound ==
  ASSUME NEW r \in Acc
  PROVE  TruncDiv(r, RampDiv) \in -MaxSlide .. MaxSlide
<1>1. AccOne \in Nat \ {0} /\ RampDiv \in Nat \ {0} /\ r \in Int /\ MaxSlide \in Nat
  BY FormatAssumption, LfoAssumption, ShiftAssumption DEF MaxSlide, Acc, AccMax, AccMin
<1>2. \A a \in 0 .. AccOne : a \div RampDiv \in 0 .. (AccOne \div RampDiv)
  <2> SUFFICES ASSUME NEW a \in 0 .. AccOne
               PROVE  a \div RampDiv \in 0 .. (AccOne \div RampDiv)
    OBVIOUS
  <2> DEFINE x == a \div RampDiv
             y == AccOne \div RampDiv
  <2>1. /\ x \in Int /\ y \in Int
        /\ a = RampDiv * x + (a % RampDiv) /\ 0 <= a % RampDiv /\ a % RampDiv < RampDiv
        /\ AccOne = RampDiv * y + (AccOne % RampDiv)
        /\ 0 <= AccOne % RampDiv /\ AccOne % RampDiv < RampDiv
    BY <1>1
  <2>2. x >= 0
    <3>1. SUFFICES ASSUME x <= -1 PROVE FALSE
      BY <2>1
    <3>2. RampDiv * x <= RampDiv * (-1)
      BY <2>1, <3>1, <1>1
    <3> QED BY <2>1, <3>2, <1>1
  <2>3. x <= y
    <3>1. SUFFICES ASSUME y + 1 <= x PROVE FALSE
      BY <2>1
    <3>2. RampDiv * (y + 1) <= RampDiv * x
      BY <2>1, <3>1, <1>1
    <3>3. RampDiv * (y + 1) = RampDiv * y + RampDiv
      BY <2>1, <1>1
    <3> QED BY <2>1, <3>2, <3>3, <1>1
  <2> QED BY <2>1, <2>2, <2>3
<1>3. CASE r >= 0
  BY <1>1, <1>2, <1>3 DEF TruncDiv, MaxSlide, Acc, AccMax, AccMin
<1>4. CASE r < 0
  <2>1. -r \in 0 .. AccOne
    BY <1>1, <1>4 DEF Acc, AccMax, AccMin
  <2>2. (-r) \div RampDiv \in 0 .. MaxSlide
    BY <1>2, <2>1 DEF MaxSlide
  <2> QED BY <1>1, <1>4, <2>2 DEF TruncDiv
<1> QED BY <1>1, <1>3, <1>4

\* A number less than a window away from the window, folded into it.
LEMMA Fold ==
  ASSUME NEW W \in Nat \ {0}, NEW x \in Int, -W < x, x < 2 * W
  PROVE  x % W = IF x < 0 THEN x + W ELSE IF x < W THEN x ELSE x - W
<1>1. /\ x % W \in Int /\ x \div W \in Int /\ x = W * (x \div W) + (x % W)
      /\ 0 <= x % W /\ x % W < W
  OBVIOUS
<1> DEFINE z == x \div W
<1>2. z \in {-1, 0, 1}
  <2>1. SUFFICES ASSUME z <= -2 \/ z >= 2 PROVE FALSE
    BY <1>1
  <2>2. CASE z <= -2
    <3>1. W * z <= W * (-2)
      BY <2>2, <1>1
    <3> QED BY <1>1, <3>1
  <2>3. CASE z >= 2
    <3>1. W * z >= W * 2
      BY <2>3, <1>1
    <3> QED BY <1>1, <3>1
  <2> QED BY <2>1, <2>2, <2>3
<1>3. W * (-1) = -W /\ W * 0 = 0 /\ W * 1 = W
  OBVIOUS
<1>4. x = W * z + (x % W)
  BY <1>1
<1> HIDE DEF z
<1> QED BY <1>1, <1>2, <1>3, <1>4

\* Where a pointer wraps: within a slide of the ends.
LEMMA WrapsAtEnds ==
  ASSUME NEW W \in Nat \ {0}, NEW S \in Nat, 8 * (S + 1) <= W,
         NEW p \in 0 .. W - 1, NEW q \in 0 .. W - 1, NEW d \in -S .. S,
         q = (p - d) % W, Abs(q - p) > S
  PROVE  (p <= S \/ W - 1 - p <= S) /\ (q <= S \/ W - 1 - q <= S)
<1>1. q = IF p - d < 0 THEN p - d + W ELSE IF p - d < W THEN p - d ELSE p - d - W
  <2>1. p - d \in Int /\ -W < p - d /\ p - d < 2 * W
    OBVIOUS
  <2> QED BY <2>1, Fold
<1> QED BY <1>1 DEF Abs

\* A pointer less than a window ahead of another.
LEMMA FoldAhead ==
  ASSUME NEW W \in Nat \ {0}, NEW p \in 0 .. W - 1, NEW h \in 0 .. W - 1
  PROVE  (p + h) % W = IF p + h < W THEN p + h ELSE p + h - W
<1> DEFINE x == p + h
<1>1. x \in Int /\ 0 <= x /\ -W < x /\ x < 2 * W
  OBVIOUS
<1> HIDE DEF x
<1>2. x % W = IF x < 0 THEN x + W ELSE IF x < W THEN x ELSE x - W
  BY <1>1, Fold, Zenon
<1>3. x % W = IF x < W THEN x ELSE x - W
  BY <1>1, <1>2
<1> QED BY <1>3 DEF x

\* Where the pointer half a window away wraps: within a slide of the middle.
LEMMA WrapsInMiddle ==
  ASSUME NEW W \in Nat \ {0}, NEW S \in Nat, 8 * (S + 1) <= W,
         NEW p \in 0 .. W - 1, NEW q \in 0 .. W - 1, NEW d \in -S .. S,
         NEW h \in Nat, 2 * h <= W - 1, 2 * h >= W - 2,
         q = (p - d) % W, Abs(((q + h) % W) - ((p + h) % W)) > S
  PROVE  /\ 8 * p >= 3 * W /\ 8 * (W - 1 - p) >= 3 * W
         /\ 8 * q >= 3 * W /\ 8 * (W - 1 - q) >= 3 * W
<1>1. q = IF p - d < 0 THEN p - d + W ELSE IF p - d < W THEN p - d ELSE p - d - W
  <2>1. p - d \in Int /\ -W < p - d /\ p - d < 2 * W
    OBVIOUS
  <2> QED BY <2>1, Fold
<1>2. h \in 0 .. W - 1
  OBVIOUS
<1>3. (p + h) % W = IF p + h < W THEN p + h ELSE p + h - W
  BY <1>2, FoldAhead
<1>4. (q + h) % W = IF q + h < W THEN q + h ELSE q + h - W
  BY <1>2, FoldAhead
<1> QED BY <1>1, <1>3, <1>4 DEF Abs

\* The phase stays inside its window.
THEOREM ShiftTypeCorrect == Spec => []TypeOK
<1>1. Init => TypeOK
  BY WindowLengths DEF Init, TypeOK, RampNew
<1>2. TypeOK /\ [Next]_shiftVars => TypeOK'
  <2> SUFFICES ASSUME TypeOK, [Next]_shiftVars PROVE TypeOK'
    OBVIOUS
  <2> USE DEF TypeOK
  <2>1. CASE Sample
    <3>1. TruncDiv(rate, RampDiv) \in Int
      BY SlideBound, RatesAssumption, WindowLengths
    <3>2. phase' \in 0 .. Window(range) - 1
      BY <2>1, <3>1, WindowLengths DEF Sample, RampTick
    <3> QED BY <2>1, <3>2 DEF Sample
  <2>2. ASSUME NEW r \in Rates, WriteRate(r) PROVE TypeOK'
    BY <2>2 DEF WriteRate
  <2>3. ASSUME NEW w \in Ranges, Restart(w) PROVE TypeOK'
    BY <2>3, WindowLengths DEF Restart, RampNew
  <2>4. CASE UNCHANGED shiftVars
    BY <2>4 DEF shiftVars
  <2> QED BY <2>1, <2>2, <2>3, <2>4 DEF Next
<1> QED BY <1>1, <1>2, PTL DEF Spec

\* One tick: what jumps is silent before and after.
LEMMA JumpIsSilent ==
  ASSUME TypeOK, TypeOK', Sample, NEW v \in {"A", "B"},
         Abs(Tap(v)' - Tap(v)) > MaxSlide
  PROVE  Gain(v) = 0 /\ Gain(v)' = 0
<1> DEFINE W == Window(range)
           S == MaxSlide
           d == TruncDiv(rate, RampDiv)
           h == (W - 1) \div 2
<1>1. /\ range \in Ranges /\ W \in Nat \ {0} /\ S \in Nat /\ 8 * (S + 1) <= W
      /\ d \in -S .. S
  BY WindowLengths, SlideBound, RatesAssumption DEF TypeOK
<1>2. range' = range /\ phase' = (phase - d) % W
  BY DEF Sample, RampTick
<1>3. phase \in 0 .. W - 1 /\ phase' \in 0 .. W - 1
  BY <1>2 DEF TypeOK
<1>5. h \in Nat /\ 2 * h <= W - 1 /\ 2 * h >= W - 2
  BY <1>1
<1>6. AccMax \in Int
  BY FormatAssumption DEF AccMax
<1>7. CASE v = "A"
  <2>1. Tap("A") = phase /\ Tap("A")' = phase'
    BY DEF Tap, TapPhase
  <2>2. /\ Gain("A") = Crossfade(phase, range)
        /\ Gain("A")' = Crossfade(phase', range)
    BY <1>2 DEF Gain, RampCho, Complement
  <2>3. Abs(phase' - phase) > S
    BY <1>7, <2>1
  <2>4. /\ phase <= S \/ W - 1 - phase <= S
        /\ phase' <= S \/ W - 1 - phase' <= S
    BY <1>1, <1>2, <1>3, <2>3, WrapsAtEnds
  <2> QED BY <1>1, <1>3, <1>7, <2>2, <2>4, SilentAtEnds
<1>8. CASE v = "B"
  <2>1. Tap("B") = (phase + h) % W /\ Tap("B")' = (phase' + h) % W
    BY <1>2 DEF Tap, TapPhase
  <2>3. Abs(((phase' + h) % W) - ((phase + h) % W)) > S
    BY <1>8, <2>1
  <2>4. /\ 8 * phase >= 3 * W /\ 8 * (W - 1 - phase) >= 3 * W
        /\ 8 * phase' >= 3 * W /\ 8 * (W - 1 - phase') >= 3 * W
    BY <1>1, <1>2, <1>3, <1>5, <2>3, WrapsInMiddle
  <2>5. Crossfade(phase, range) = AccMax /\ Crossfade(phase', range) = AccMax
    BY <1>1, <1>3, <2>4, FullInMiddle
  <2>6. /\ Gain("B") = AccMax - Crossfade(phase, range)
        /\ Gain("B")' = AccMax - Crossfade(phase', range)
    BY <1>2 DEF Gain, RampCho, Complement
  <2> QED BY <1>6, <1>8, <2>5, <2>6
<1> QED BY <1>7, <1>8

\* A pointer that wraps is muted in the pass before and in the pass after
\* (RampLfo::crossfade).
THEOREM ShiftWrapMuted == Spec => WrapMuted
<1>1. TypeOK /\ TypeOK' /\ [Next]_shiftVars =>
        [Sample => \A v \in {"A", "B"} :
                      Abs(Tap(v)' - Tap(v)) > MaxSlide => Gain(v) = 0 /\ Gain(v)' = 0]_shiftVars
  BY JumpIsSilent
<1> QED BY <1>1, ShiftTypeCorrect, PTL DEF Spec, WrapMuted
=============================================================================
