-------------------------------- MODULE Lfo --------------------------------
(***************************************************************************)
(* The two kinds of low-frequency oscillator (src/src/lfo.rs): what a tick *)
(* does to their state and what a CHO instruction gets from them.          *)
(***************************************************************************)
EXTENDS Fixed

CONSTANTS
  RampLen,   \* RAMP_FULL + 1, the phases of the widest ramp window  2^22
  RampDiv,   \* a ramp rate register moves the phase by 1/RampDiv    4096
  FracLen    \* fractions of a sample in an LFO value                2^10

ASSUME LfoAssumption ==
  /\ {RampLen, RampDiv, FracLen} \subseteq Nat \ {0}
  /\ RampLen % 8 = 0

\* The flags a CHO instruction may carry; SIN is the absence of COS.
ChoFlags == {"COS", "REG", "COMPC", "COMPA", "RPTR2", "NA"}

\* The fraction of v below a whole sample, as an S.23 coefficient.
Fraction(v) == (v % FracLen) * (AccOne \div FracLen)

\* COMPC turns a coefficient into its complement.
Complement(coeff, flags) == IF "COMPC" \in flags THEN AccMax - coeff ELSE coeff

-----------------------------------------------------------------------------
(* SinLfo: a coupled oscillator whose two state registers clamp to S.23.   *)

SinNew == [sin |-> 0, cos |-> -AccOne]

\* A slip for the mutation runs: the state registers do not clamp.
SinTickWide(lfo, rateReg) ==
  LET k == rateReg \div (AccOne \div S15)
      c == lfo.cos + MulS23(lfo.sin, k)
  IN  [sin |-> lfo.sin - MulS23(c, k), cos |-> c]

SinTick(lfo, rateReg) ==
  LET k == rateReg \div (AccOne \div S15)
      c == Clamp(lfo.cos + MulS23(lfo.sin, k), -AccOne, AccMax)
  IN  [sin |-> Clamp(lfo.sin - MulS23(c, k), -AccOne, AccMax), cos |-> c]

SinValue(lfo, rangeReg, cosine) ==
  MulS23(IF cosine THEN lfo.cos ELSE lfo.sin, rangeReg)

SinCho(lfo, rangeReg, flags) ==
  LET v == SinValue(lfo, rangeReg, "COS" \in flags)
  IN  [offset |-> (IF "COMPA" \in flags THEN -v ELSE v) \div FracLen,
       coeff  |-> Complement(Fraction(v), flags)]

-----------------------------------------------------------------------------
(* RampLfo: a phase that slides through a window of 1, 1/2, 1/4 or 1/8 of  *)
(* RampLen.  range() of the source is Window - 1.                          *)

RampNew == 0

Shrink == <<1, 2, 4, 8>>
AmpShift(rangeReg) == (rangeReg \div (AccOne \div 4)) % 4
Window(rangeReg) == RampLen \div Shrink[AmpShift(rangeReg) + 1]

\* A slip for the mutation runs: the phase wraps at the widest window.
RampTickWide(phase, rateReg, rangeReg) ==
  (phase - TruncDiv(rateReg, RampDiv)) % RampLen

RampTick(phase, rateReg, rangeReg) ==
  (phase - TruncDiv(rateReg, RampDiv)) % Window(rangeReg)

\* A slip for the mutation runs: a plain triangle, 0 only at the very ends.
CrossfadeTriangle(phase, rangeReg) ==
  LET top == Window(rangeReg) - 1
      tri == IF phase < top - phase THEN phase ELSE top - phase
  IN  Clamp(tri * 2 * Shrink[AmpShift(rangeReg) + 1] * 2, 0, AccMax)

\* The envelope that NA reads: 0 near both ends of the window, AccMax in its
\* middle, slope 4 between.
Crossfade(phase, rangeReg) ==
  LET top == Window(rangeReg) - 1
      tri == IF phase < top - phase THEN phase ELSE top - phase
  IN  Clamp(tri * 8 * Shrink[AmpShift(rangeReg) + 1] - AccOne \div 2, 0, AccMax)

\* The phase of the tap an access reads: RPTR2 is half a window away.
TapPhase(phase, rangeReg, flags) ==
  IF "RPTR2" \in flags
  THEN (phase + (Window(rangeReg) - 1) \div 2) % Window(rangeReg)
  ELSE phase

RampCho(phase, rangeReg, flags) ==
  IF "NA" \in flags
  THEN [offset |-> 0, coeff |-> Complement(Crossfade(phase, rangeReg), flags)]
  ELSE LET v == TapPhase(phase, rangeReg, flags)
       IN  [offset |-> (IF "COMPA" \in flags THEN Window(rangeReg) - 1 - v ELSE v)
                         \div FracLen,
            coeff  |-> Complement(Fraction(v), flags)]
=============================================================================
