----------------------------- MODULE RampServo -----------------------------
(***************************************************************************)
(* A reverb's predelay servo (RampLfo::tick, src/src/lfo.rs): each pass    *)
(* runs                                                                    *)
(*     cho rdal,rmp0 ; rdax pot0,-0.5 ; wrax rmp0_rate,0                   *)
(* on the widest window, so that the ramp glides to where the pot points   *)
(* and stays.  The pot may point one count past the last phase.            *)
(***************************************************************************)
EXTENDS Lfo

\* The widest window is half the positive range of a register, -0.5 has an
\* exact coefficient, and the rate register has a dead zone.
ASSUME ServoAssumption ==
  /\ AccOne = 2 * RampLen
  /\ S114 % 2 = 0
  /\ RampDiv >= 2

VARIABLES
  phase,   \* RMP0's phase
  pot      \* POT0, as set_pot stores it

servoVars == <<phase, pot>>

\* POT0 * -0.5, what the program adds to the phase it reads.
Pull == MulS114(pot, -(S114 \div 2))

\* The rate register at the end of a pass.
Rate == Sat(Pull + Sat(phase))

\* Where the pot points.
Target == -Pull

Init == phase \in 0 .. RampLen - 1 /\ pot \in 0 .. AccMax

Turn(p) == pot' = p /\ UNCHANGED phase

Sample == phase' = RampTick(phase, Rate, 0) /\ UNCHANGED pot

Next == Sample \/ \E p \in 0 .. AccMax : Turn(p)

\* The host goes on calling process; it need not leave the pot alone.
Spec == Init /\ [][Next]_servoVars
FairSpec == Spec /\ WF_servoVars(Sample)

-----------------------------------------------------------------------------
TypeOK == phase \in 0 .. RampLen - 1 /\ pot \in 0 .. AccMax

\* A pass moves the phase toward the target, never past it and never away
\* from it: the pointer does not wrap through the window (the comment on
\* RampLfo::tick).
NeverWraps ==
  [][pot' = pot => \/ phase <= phase' /\ phase' <= Target
                   \/ Target <= phase' /\ phase' <= phase
                   \/ phase' = phase]_servoVars

\* Once the pot rests, so does the phase: it parks, at the rail if the target
\* lies beyond it (the comment on RampLfo::tick).
ServoParks == <>[][pot' = pot]_servoVars => <>[][phase' = phase]_servoVars
=============================================================================
