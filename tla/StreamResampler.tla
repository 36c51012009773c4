-------------------------- MODULE StreamResampler --------------------------
(***************************************************************************)
(* One StreamResampler in the hands of any caller: pushes and pulls in any *)
(* order, at a rate ratio chosen when it is built.                         *)
(***************************************************************************)
EXTENDS Resampler

CONSTANTS
  Rates,      \* the pairs of input and output rates it may be built with
  MaxPushed   \* frames pushed in a run

ASSUME RatesAssumption == Rates \subseteq (Nat \ {0}) \X (Nat \ {0})
ASSUME MaxPushedAssumption == MaxPushed \in Nat

VARIABLES
  conv,     \* the converter
  heard_at, \* its position when it last had a frame to give
  heard     \* what the kernel read for that frame, tap by tap

convVars == <<conv, heard_at, heard>>

NotYet == << >>

StreamInit == /\ \E r \in Rates : conv = New(r[1], r[2])
        /\ heard_at = 0 /\ heard = NotYet

PushFrame == /\ conv.pushed < MaxPushed
             /\ conv' = Push(conv)
             /\ UNCHANGED <<heard_at, heard>>

\* A pull that finds too little input changes nothing and is not a step.
PullFrame == /\ Ready(conv)
             /\ heard' = Heard(conv)
             /\ heard_at' = conv.pos
             /\ conv' = Pulled(conv)

StreamNext == PushFrame \/ PullFrame

StreamSpec == StreamInit /\ [][StreamNext]_convVars

-----------------------------------------------------------------------------
StreamTypeOK ==
  /\ conv \in [history : Seq(Nat), base : Nat, pushed : Nat, pos : Nat, step : Nat]
  /\ heard_at \in Nat
  /\ heard = NotYet \/ heard \in [0 .. Taps - 1 -> Nat \cup {Silent}]

\* The history holds the frames its base says it holds: the field's comment,
\* which every index computation of pull relies on.
HistoryAligned == Aligned(conv)

\* Every frame given was made from the frames around its position.
WindowExact ==
  heard # NotYet => ReadsWindow([conv EXCEPT !.pos = heard_at], heard)

\* No index pull computes lies outside the history, so it never panics.
NoPanic == Ready(conv) => \A k \in 0 .. Taps - 1 : SlotOf(conv, k) < Len(conv.history)
=============================================================================
