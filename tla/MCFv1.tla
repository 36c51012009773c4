------------------------------- MODULE MCFv1 -------------------------------
(***************************************************************************)
(* Small instances of the audited virtual machine: a 5-bit accumulator, a  *)
(* delay line of four samples and programs of at most four instructions,   *)
(* chosen so that every instruction and every hazard occurs.               *)
(***************************************************************************)
EXTENDS Fv1Audit, Bitwise

MCAnd(a, b) == a & b
MCOr(a, b)  == a | b
MCXor(a, b) == a ^^ b

\* log2(m / 16) * 2 and 16 * 2^(a / 2), rounded: the S4.19 format has one
\* fractional bit here.
MCLog(m) == <<-8, -6, -5, -4, -3, -3, -2, -2, -2, -1, -1, -1, -1, 0, 0, 0>>[m]
MCExp(a) == IF a >= -9 THEN <<11, 8, 6, 4, 3, 2, 1, 1, 1>>[-a] ELSE 0

\* Input levels: beyond the lower rail, silence, and above half scale.
TwoFrames   == {<<-20, 9>>, <<9, 0>>}
OneFrame    == {<<9, 14>>}
OnOffFrames == {<<0, 0>>, <<9, 0>>}
ThreeFrames == {<<-20, 9>>, <<0, -7>>, <<9, 0>>}

OneGP == <<"REG0">>
TwoGP == <<"REG0", "REG1">>

-----------------------------------------------------------------------------
Rd(op, a, c)  == [op |-> op, addr |-> a, c |-> c]
Rg(op, r, c)  == [op |-> op, reg |-> r, c |-> c]
Im(op, c, d)  == [op |-> op, c |-> c, d |-> d]
Bits(op, m)   == [op |-> op, mask |-> m]
Jump(cond, n) == [op |-> "SKP", cond |-> cond, n |-> n]
Sin(l, f, a)  == [op |-> "WLDS", lfo |-> l, freq |-> f, amp |-> a]
Ramp(l, f, a) == [op |-> "WLDR", lfo |-> l, freq |-> f, amp |-> a]
Cho(l, fl, a) == [op |-> "CHO_RDA", lfo |-> l, flags |-> fl, addr |-> a]
ChoD(l, fl, d) == [op |-> "CHO_SOF", lfo |-> l, flags |-> fl, d |-> d]
Level(l, fl)  == [op |-> "CHO_RDAL", lfo |-> l, flags |-> fl]

\* An all-pass from address 2 to address 1; a write followed by a read
\* through ADDR_PTR; a write read back at the address a ramp slides over.
DelayPrograms ==
  { << Rd("RDA", 2, -8), Rg("RDAX", "ADCL", 4), Rd("WRAP", 1, 4), Bits("AND", 0) >>,
    << Rg("RDAX", "ADCL", 4), Rg("WRAX", "ADDR_PTR", 4), Rd("WRA", 0, 0), [op |-> "RMPA", c |-> 0] >>,
    << Ramp("RMP0", 7, 0), Rg("RDAX", "ADCL", 4), Rd("WRA", 3, 0), Cho("RMP0", {"COMPA"}, 3) >> }

\* Filters on PACC, and arithmetic.
AluPrograms ==
  { << Rg("RDAX", "ADCL", 4), Rg("WRHX", "REG0", -4), Rg("WRLX", "REG1", 3),
       Rg("RDFX", "REG0", 2) >>,
    << Rg("RDAX", "ADCL", 7), Rg("MAXX", "REG0", 3), [op |-> "MULX", reg |-> "ADCR"],
       Rg("WRAX", "REG0", -5) >>,
    << Rg("RDAX", "ADCL", -8), Im("LOG", 2, 1), Im("EXP", 4, -1), Im("SOF", -8, -4) >>,
    << Bits("AND", 22), Bits("OR", 16), Bits("XOR", 31), [op |-> "RAW"] >> }

\* Initialization guarded by RUN, conditional and unconditional jumps, one of
\* them past the end of the program.
JumpPrograms ==
  { << Jump({"RUN"}, 2), Im("SOF", 0, 3), Rg("WRAX", "REG0", 4), Rg("RDAX", "ADCL", 4) >>,
    << Rg("RDAX", "ADCL", -8), Jump({"ZRC"}, 1), Jump({"NEG", "RUN"}, 1), Rg("WRAX", "REG0", 0) >>,
    << Rg("RDAX", "ADCL", 4), Jump({"GEZ"}, 1), Jump({"ZRO", "GEZ"}, 0), Jump({}, 9) >> }

\* Oscillators reprogrammed while they run, from fields and from registers.
LfoPrograms ==
  { << Jump({"RUN"}, 1), Ramp("RMP0", -5, 0), Cho("RMP0", {"COMPA", "COMPC"}, 1),
       ChoD("RMP0", {"NA"}, 1) >>,
    << Rg("RDAX", "ADCL", 4), Rg("WRAX", "RMP0_RANGE", 4), Rg("WRAX", "RMP0_RATE", 0),
       Cho("RMP0", {"RPTR2"}, 0) >>,
    << Sin("SIN0", 3, 7), Level("SIN0", {"COS"}), Cho("SIN0", {"COMPA"}, 0),
       [op |-> "JAM", lfo |-> "RMP1"] >>,
    << Level("RMP0", {}), Rg("RDAX", "ADCL", 4), Rg("WRAX", "RMP1_RANGE", 4), Ramp("RMP1", 7, 0) >> }

CorePrograms == AluPrograms \cup JumpPrograms \cup LfoPrograms

DelayAndSilence == DelayPrograms \cup { << >> }

-----------------------------------------------------------------------------
\* The noise generator and the pots as they are in a new chip.
NoiseAsBuilt ==
  /\ ~adc_noise /\ noise_seed = 1 /\ origin = 1 /\ draws = 0
  /\ \A p \in DOMAIN pots : pots[p] = 0

\* The delay is studied without noise, and the noise with no program and a
\* silent delay: no instruction writes the generator or the pots.
OneAtATime == NoiseAsBuilt \/ (instructions = Padded(<<>>) /\ delay = Silence)
=============================================================================
