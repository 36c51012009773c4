---------------------------- MODULE MCPitchShift ----------------------------
(* The pitch shifter at a 12-bit accumulator, for every distance a tick can *)
(* slide a pointer.                                                        *)
EXTENDS PitchShift

EveryRate == {k * RampDiv : k \in -(AccOne \div RampDiv) .. (AccOne \div RampDiv) - 1}
=============================================================================
