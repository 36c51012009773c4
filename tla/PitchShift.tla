----------------------------- MODULE PitchShift -----------------------------
(***************************************************************************)
(* The two-pointer pitch shifter of AN-0001 over one ramp LFO               *)
(* (src/src/lfo.rs): voice A reads the tap at the ramp's phase, voice B the *)
(* tap half a window away (RPTR2), and the NA envelope mixes them, plain   *)
(* for A (CHO RDA) and complemented for B (CHO SOF).  The program may       *)
(* rewrite the rate at any pass, and choose the window when it jams.       *)
(***************************************************************************)
EXTENDS Lfo

CONSTANTS Rates   \* the values a program writes to the rate register

ASSUME RatesAssumption == Rates \subseteq Acc

\* The farthest a tick slides a pointer.
MaxSlide == AccOne \div RampDiv

\* The widest window is half the positive range of a register, and a tick
\* slides less than an eighth of the narrowest.
ASSUME ShiftAssumption ==
  /\ AccOne = 2 * RampLen
  /\ 64 * (MaxSlide + 1) <= RampLen

VARIABLES phase, rate, range

shiftVars == <<phase, rate, range>>

Ranges == {k * (AccOne \div 4) : k \in 0 .. 3}

Init == phase = RampNew /\ rate \in Rates /\ range \in Ranges

WriteRate(r) == rate' = r /\ UNCHANGED <<phase, range>>

\* JAM with a new window.
Restart(w) == phase' = RampNew /\ range' = w /\ UNCHANGED rate

Sample == phase' = RampTick(phase, rate, range) /\ UNCHANGED <<rate, range>>

Next == Sample \/ (\E r \in Rates : WriteRate(r)) \/ (\E w \in Ranges : Restart(w))

Spec == Init /\ [][Next]_shiftVars

-----------------------------------------------------------------------------
Tap(voice) == TapPhase(phase, range, IF voice = "B" THEN {"RPTR2"} ELSE {})
Gain(voice) == RampCho(phase, range, IF voice = "B" THEN {"NA", "COMPC"} ELSE {"NA"}).coeff

TypeOK == phase \in 0 .. Window(range) - 1 /\ rate \in Rates /\ range \in Ranges

\* A pointer that jumps across the window's end is silent in the pass before
\* the jump and in the pass after it (the comment on RampLfo::crossfade).
WrapMuted ==
  [][Sample =>
       \A v \in {"A", "B"} :
          Abs(Tap(v)' - Tap(v)) > MaxSlide => Gain(v) = 0 /\ Gain(v)' = 0]_shiftVars
=============================================================================
