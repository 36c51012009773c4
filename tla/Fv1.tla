-------------------------------- MODULE Fv1 --------------------------------
(***************************************************************************)
(* The FV-1 virtual machine (src/src/vm.rs): one step per instruction of a *)
(* sample pass, and one step per call a host makes between two passes.     *)
(*                                                                         *)
(* process_raw is StartPass, then one instruction action for each          *)
(* instruction the pass reaches, then EndPass.  A pass holds &mut Fv1, so  *)
(* the host's calls happen only while phase = "idle".  Float samples are   *)
(* modelled by the S.23 level they round to, before saturation.            *)
(***************************************************************************)
EXTENDS Lfo, Sequences

CONSTANTS
  DelayLen,      \* DELAY_LEN                                         32768
  ProgLen,       \* PROGRAM_LEN                                       128
  GP,            \* the registers REG0, REG1, ... in address order    32
  Programs,      \* the instruction sequences a host may load
  Frames,        \* the stereo input levels a host may feed, saturated or not
  PotLevels,     \* the pot positions a host may set
  RamSeeds,      \* the seeds a host may give randomize_*
  AdcSeeds,      \* the seeds a host may give set_adc_noise
  RateLen,       \* one step of the WLDS frequency field is AccOne/RateLen  2^9
  LcgMod,        \* the noise generator's modulus                     2^32
  LcgMul,        \*                                                   1664525
  LcgAdd,        \*                                                   1013904223
  SeedMask,      \* randomize_registers flips these bits of its seed  0x9E3779B9
  DitherSpan,    \* the number of ADC dither levels                   256
  BitAnd(_, _), BitOr(_, _), BitXor(_, _),  \* on bit patterns
  LogOf(_),      \* round(log2(m / 2^23) * 2^19) of a magnitude m
  ExpOf(_)       \* round(exp2(a / 2^19) * 2^23) of a negative a

LfoRegs == {"SIN0_RATE", "SIN0_RANGE", "SIN1_RATE", "SIN1_RANGE",
            "RMP0_RATE", "RMP0_RANGE", "RMP1_RATE", "RMP1_RANGE"}
IORegs  == {"POT0", "POT1", "POT2", "ADCL", "ADCR", "DACL", "DACR", "ADDR_PTR"}
GPRegs  == {GP[i] : i \in DOMAIN GP}
Reg     == LfoRegs \cup IORegs \cup GPRegs

Lfos == {"SIN0", "SIN1", "RMP0", "RMP1"}
RateReg  == [SIN0 |-> "SIN0_RATE",  SIN1 |-> "SIN1_RATE",
             RMP0 |-> "RMP0_RATE",  RMP1 |-> "RMP1_RATE"]
RangeReg == [SIN0 |-> "SIN0_RANGE", SIN1 |-> "SIN1_RANGE",
             RMP0 |-> "RMP0_RANGE", RMP1 |-> "RMP1_RANGE"]

SkpCond == {"NEG", "GEZ", "ZRO", "ZRC", "RUN"}

Instruction ==
       [op : {"RDA", "WRA", "WRAP"}, addr : Int, c : Int]
  \cup [op : {"RMPA"}, c : Int]
  \cup [op : {"RDAX", "RDFX", "WRAX", "WRHX", "WRLX", "MAXX"}, reg : Reg, c : Int]
  \cup [op : {"MULX"}, reg : Reg]
  \cup [op : {"LOG", "EXP", "SOF"}, c : Int, d : Int]
  \cup [op : {"AND", "OR", "XOR"}, mask : 0 .. 2 * AccOne - 1]
  \cup [op : {"SKP"}, cond : SUBSET SkpCond, n : Nat]
  \cup [op : {"WLDS"}, lfo : {"SIN0", "SIN1"}, freq : 0 .. RateLen - 1, amp : 0 .. S15 - 1]
  \cup [op : {"WLDR"}, lfo : {"RMP0", "RMP1"}, freq : -S15 .. S15 - 1, amp : 0 .. 3]
  \cup [op : {"JAM"}, lfo : {"RMP0", "RMP1"}]
  \cup [op : {"CHO_RDA"}, lfo : Lfos, flags : SUBSET ChoFlags, addr : Int]
  \cup [op : {"CHO_SOF"}, lfo : Lfos, flags : SUBSET ChoFlags, d : Int]
  \cup [op : {"CHO_RDAL"}, lfo : Lfos, flags : SUBSET ChoFlags]
  \cup [op : {"RAW"}]

Nop == [op |-> "SKP", cond |-> {}, n |-> 0]

ASSUME ChipAssumption ==
  /\ {DelayLen, ProgLen, RateLen, LcgMod, LcgMul, DitherSpan} \subseteq Nat \ {0}
  /\ {LcgAdd, SeedMask} \subseteq Nat
  /\ AccOne % 4 = 0 /\ RateLen <= AccOne /\ S15 <= AccOne /\ S10 <= AccOne
  /\ AccOne % RateLen = 0 /\ AccOne % S15 = 0 /\ LcgMod >= 2 * AccOne
  /\ DelayLen <= AccOne
ASSUME RegisterAssumption ==
  /\ GP \in Seq(STRING)
  /\ GPRegs \cap (LfoRegs \cup IORegs) = {}
ASSUME HostAssumption ==
  /\ \A p \in Programs : p \in Seq(Instruction) /\ Len(p) <= ProgLen
  /\ Frames \subseteq Int \X Int /\ PotLevels \subseteq Int
  /\ RamSeeds \subseteq Nat /\ AdcSeeds \subseteq Nat
ASSUME UnitAssumption ==
  /\ \A a, b \in 0 .. 2 * AccOne - 1 : {BitAnd(a, b), BitOr(a, b), BitXor(a, b)} \subseteq Nat
  /\ \A s \in RamSeeds : BitXor(s, SeedMask) \in Nat
  /\ \A m \in 1 .. AccOne : LogOf(m) \in Int
  /\ \A a \in AccMin .. -1 : ExpOf(a) \in Int

Addr  == 0 .. DelayLen - 1
Slots == 0 .. ProgLen - 1

\* Program memory holding s, padded with NOP; s is at most ProgLen long.
Padded(s) == [i \in Slots |-> IF i < Len(s) THEN s[i + 1] ELSE Nop]

-----------------------------------------------------------------------------
VARIABLES
  phase,                   \* "idle", or "pass" inside process_raw
  ic,                      \* the next instruction of the pass
  instructions,
  delay, cursor,           \* delay RAM and its base pointer
  regs, acc, pacc, prev_acc, lr, first_run,
  sin_lfo,                 \* SIN0, SIN1
  rmp_lfo,                 \* RMP0, RMP1
  pots, quantize_delay_14bit, clear_delay_on_load,
  adc_noise, noise_seed, noise_state

control == <<phase, ic, instructions>>
ram     == <<delay, cursor>>
alu     == <<acc, pacc, prev_acc>>
lfos    == <<sin_lfo, rmp_lfo>>
noise   == <<adc_noise, noise_seed, noise_state>>
flags   == <<quantize_delay_14bit, clear_delay_on_load>>
vars    == <<control, ram, regs, alu, lr, first_run, lfos, pots, flags, noise>>

-----------------------------------------------------------------------------
(* The noise generator, and the contents randomize_* derive from it.       *)

Lcg(s) == (s * LcgMul + LcgAdd) % LcgMod
LcgRun(s) == LET run[k \in Nat] == IF k = 0 THEN s ELSE Lcg(run[k - 1]) IN run

\* seed | 1
Odd(seed) == seed + 1 - (seed % 2)

RandomWord(s) == SignExtend(s \div (LcgMod \div (2 * AccOne))) \div S10
Dither(s) == ((s \div (LcgMod \div (2 * AccOne))) % DitherSpan) - DitherSpan \div 2

NoiseFloor(seed) == [a \in Addr |-> RandomWord(LcgRun(Odd(seed))[a + 1])]
NoiseRegs(r, seed) ==
  [name \in Reg |-> IF name \in GPRegs
                    THEN LET i == CHOOSE j \in DOMAIN GP : GP[j] = name
                         IN  RandomWord(LcgRun(BitXor(seed, SeedMask))[i])
                    ELSE r[name]]

Silence == [a \in Addr |-> 0]
RegsZero == [r \in Reg |-> 0]

Init ==
  /\ phase = "idle" /\ ic = 0
  /\ instructions = Padded(<<>>)
  /\ delay = Silence /\ cursor = 0
  /\ regs = RegsZero
  /\ acc = 0 /\ pacc = 0 /\ prev_acc = 0 /\ lr = 0
  /\ first_run = TRUE
  /\ sin_lfo = [l \in {"SIN0", "SIN1"} |-> SinNew]
  /\ rmp_lfo = [l \in {"RMP0", "RMP1"} |-> RampNew]
  /\ pots = [p \in {"POT0", "POT1", "POT2"} |-> 0]
  /\ quantize_delay_14bit = TRUE /\ clear_delay_on_load = TRUE
  /\ adc_noise = FALSE /\ noise_seed = 1 /\ noise_state = 1

-----------------------------------------------------------------------------
(* The host's calls.                                                       *)

\* Slips of a reset, for the mutation runs: the WRAP latch keeps its value,
\* the noise generator keeps its state.
ResetPipelineKeepsLr == acc' = 0 /\ pacc' = 0 /\ prev_acc' = 0 /\ UNCHANGED lr
ResetNoiseNever == UNCHANGED noise_state

ResetPipeline == acc' = 0 /\ pacc' = 0 /\ prev_acc' = 0 /\ lr' = 0
ResetNoise == noise_state' = Odd(noise_seed)

\* reset_registers_and_lfos
ResetRegistersAndLfos ==
  /\ cursor' = 0
  /\ regs' = RegsZero
  /\ ResetPipeline
  /\ first_run' = TRUE
  /\ sin_lfo' = [l \in {"SIN0", "SIN1"} |-> SinNew]
  /\ rmp_lfo' = [l \in {"RMP0", "RMP1"} |-> RampNew]
  /\ ResetNoise

LoadProgram(p) ==
  /\ phase = "idle"
  /\ instructions' = Padded(p)
  /\ delay' = IF clear_delay_on_load THEN Silence ELSE delay
  /\ ResetRegistersAndLfos
  /\ UNCHANGED <<phase, ic, pots, flags, adc_noise, noise_seed>>

Reset ==
  /\ phase = "idle"
  /\ delay' = Silence
  /\ ResetRegistersAndLfos
  /\ UNCHANGED <<phase, ic, instructions, pots, flags, adc_noise, noise_seed>>

RandomizeDelayRam(seed) ==
  /\ phase = "idle"
  /\ delay' = NoiseFloor(seed)
  /\ UNCHANGED <<control, cursor, regs, alu, lr, first_run, lfos, pots, flags, noise>>

RandomizeRegisters(seed) ==
  /\ phase = "idle"
  /\ regs' = NoiseRegs(regs, seed)
  /\ UNCHANGED <<control, ram, alu, lr, first_run, lfos, pots, flags, noise>>

SetClearDelayOnLoad(enabled) ==
  /\ phase = "idle"
  /\ clear_delay_on_load' = enabled
  /\ UNCHANGED <<control, ram, regs, alu, lr, first_run, lfos, pots,
                 quantize_delay_14bit, noise>>

SetDelayQuantization(enabled) ==
  /\ phase = "idle"
  /\ quantize_delay_14bit' = enabled
  /\ UNCHANGED <<control, ram, regs, alu, lr, first_run, lfos, pots,
                 clear_delay_on_load, noise>>

SetAdcNoise(enabled, seed) ==
  /\ phase = "idle"
  /\ adc_noise' = enabled /\ noise_seed' = seed /\ noise_state' = Odd(seed)
  /\ UNCHANGED <<control, ram, regs, alu, lr, first_run, lfos, pots, flags>>

\* The float is clamped to [0.0, 1.0] and its S.23 level saturates.
SetPot(p, level) ==
  /\ phase = "idle" /\ p \in DOMAIN pots
  /\ pots' = [pots EXCEPT ![p] = Sat(Clamp(level, 0, AccOne))]
  /\ UNCHANGED <<control, ram, regs, alu, lr, first_run, lfos, flags, noise>>

HostCall ==
  \/ \E p \in Programs : LoadProgram(p)
  \/ Reset
  \/ \E s \in RamSeeds : RandomizeDelayRam(s) \/ RandomizeRegisters(s)
  \/ \E b \in BOOLEAN, s \in AdcSeeds : SetAdcNoise(b, s)
  \/ \E b \in BOOLEAN : SetClearDelayOnLoad(b) \/ SetDelayQuantization(b)
  \/ \E p \in DOMAIN pots, l \in PotLevels : SetPot(p, l)

-----------------------------------------------------------------------------
(* process_raw up to its loop: dither the inputs, latch ADCs and pots.     *)
(* process is process_raw on levels that f32_to_s23 has saturated.         *)

StartPass(l, r) ==
  LET nl == Lcg(noise_state)
      nr == Lcg(nl)
      x  == IF adc_noise THEN [l |-> l + Dither(nl), r |-> r + Dither(nr)]
                         ELSE [l |-> l, r |-> r]
  IN  /\ phase = "idle"
      /\ phase' = "pass" /\ ic' = 0
      /\ noise_state' = IF adc_noise THEN nr ELSE noise_state
      /\ regs' = [regs EXCEPT !["ADCL"] = Sat(x.l), !["ADCR"] = Sat(x.r),
                              !["POT0"] = pots["POT0"], !["POT1"] = pots["POT1"],
                              !["POT2"] = pots["POT2"]]
      /\ UNCHANGED <<instructions, ram, alu, lr, first_run, lfos, pots, flags,
                     adc_noise, noise_seed>>

NextCursor == (cursor - 1) % DelayLen

\* The pass is over: advance the base pointer and tick the LFOs.
EndPass ==
  /\ phase = "pass" /\ ic >= ProgLen
  /\ phase' = "idle" /\ ic' = 0
  /\ first_run' = FALSE
  /\ cursor' = NextCursor
  /\ sin_lfo' = [l \in DOMAIN sin_lfo |-> SinTick(sin_lfo[l], regs[RateReg[l]])]
  /\ rmp_lfo' = [l \in DOMAIN rmp_lfo |->
                   RampTick(rmp_lfo[l], regs[RateReg[l]], regs[RangeReg[l]])]
  /\ UNCHANGED <<instructions, delay, regs, alu, lr, pots, flags, noise>>

-----------------------------------------------------------------------------
(* The instructions.  Each is one match arm of process_raw together with   *)
(* the fetch before the match and the accumulator pipeline after it.       *)

Fetched(op) == /\ phase = "pass" /\ ic < ProgLen
               /\ instructions[ic].op = op

Ins == instructions[ic]

\* Slips for the mutation runs: PACC takes the new accumulator; the distance of
\* a skip is counted from the SKP itself.
RetireUnlagged(v, n) ==
  /\ acc' = v /\ pacc' = v /\ prev_acc' = v
  /\ ic' = ic + 1 + n
  /\ UNCHANGED <<phase, instructions, first_run, cursor, sin_lfo, pots, flags, noise>>
RetireInPlace(v, n) ==
  /\ acc' = v /\ pacc' = prev_acc /\ prev_acc' = v
  /\ ic' = ic + n
  /\ UNCHANGED <<phase, instructions, first_run, cursor, sin_lfo, pots, flags, noise>>

\* The tail of the loop: ACC becomes v, PACC lags it by one instruction, and
\* the pass goes on after n skipped instructions.
Retire(v, n) ==
  /\ acc' = v
  /\ pacc' = prev_acc
  /\ prev_acc' = v
  /\ ic' = ic + 1 + n
  /\ UNCHANGED <<phase, instructions, first_run, cursor, sin_lfo, pots, flags, noise>>

\* The cell that logical address offset reaches.
Cell(offset) == (cursor + offset) % DelayLen

\* A slip for the mutation runs: the sample after the one asked for.
DelayReadPast(offset) == delay[Cell(offset + 1)]

\* delay_read: the value read is also latched for WRAP.
DelayRead(offset) == delay[Cell(offset)]
LatchRead(offset) == lr' = DelayRead(offset)

\* delay_write
DelayWrite(offset, v) ==
  delay' = [delay EXCEPT ![Cell(offset)] = IF quantize_delay_14bit THEN Compress14(v) ELSE v]

Rda ==
  /\ Fetched("RDA")
  /\ LatchRead(Ins.addr)
  /\ Retire(Sat(MulS19(DelayRead(Ins.addr), Ins.c) + acc), 0)
  /\ UNCHANGED <<delay, regs, rmp_lfo>>

AddrPtr == (regs["ADDR_PTR"] \div (AccOne \div DelayLen)) % DelayLen

Rmpa ==
  /\ Fetched("RMPA")
  /\ LatchRead(AddrPtr)
  /\ Retire(Sat(MulS19(DelayRead(AddrPtr), Ins.c) + acc), 0)
  /\ UNCHANGED <<delay, regs, rmp_lfo>>

Wra ==
  /\ Fetched("WRA")
  /\ DelayWrite(Ins.addr, acc)
  /\ Retire(Sat(MulS19(acc, Ins.c)), 0)
  /\ UNCHANGED <<regs, lr, rmp_lfo>>

Wrap ==
  /\ Fetched("WRAP")
  /\ DelayWrite(Ins.addr, acc)
  /\ Retire(Sat(MulS19(acc, Ins.c) + lr), 0)
  /\ UNCHANGED <<regs, lr, rmp_lfo>>

\* Instructions that change nothing but the accumulator.
Compute(op, v) ==
  /\ Fetched(op)
  /\ Retire(Sat(v), 0)
  /\ UNCHANGED <<delay, regs, lr, rmp_lfo>>

Rdax == Compute("RDAX", MulS114(regs[Ins.reg], Ins.c) + acc)

Rdfx == Compute("RDFX", MulS114(acc - regs[Ins.reg], Ins.c) + regs[Ins.reg])

\* Instructions that store the accumulator in a register.
Store(op, v) ==
  /\ Fetched(op)
  /\ regs' = [regs EXCEPT ![Ins.reg] = acc]
  /\ Retire(Sat(v), 0)
  /\ UNCHANGED <<delay, lr, rmp_lfo>>

Wrax == Store("WRAX", MulS114(acc, Ins.c))

Wrhx == Store("WRHX", MulS114(acc, Ins.c) + pacc)

Wrlx == Store("WRLX", MulS114(pacc - acc, Ins.c) + pacc)

Maxx == Compute("MAXX", LET rxc == Abs(MulS114(regs[Ins.reg], Ins.c))
                        IN  IF rxc > Abs(acc) THEN rxc ELSE Abs(acc))

Mulx == Compute("MULX", MulS23(acc, regs[Ins.reg]))

\* D is added in S.23, whatever format the accumulator is read in.
WithD(v) == v + Ins.d * (AccOne \div S10)

Log == Compute("LOG",
               WithD(MulS114(IF acc = 0 THEN AccMin ELSE Sat(LogOf(Abs(acc))), Ins.c)))

Exp == Compute("EXP", WithD(MulS114(IF acc >= 0 THEN AccMax ELSE ExpOf(acc), Ins.c)))

Sof == Compute("SOF", WithD(MulS114(acc, Ins.c)))

AndMask == Compute("AND", SignExtend(BitAnd(Pattern(acc), Ins.mask)))

OrMask == Compute("OR", SignExtend(BitOr(Pattern(acc), Ins.mask)))

XorMask == Compute("XOR", SignExtend(BitXor(Pattern(acc), Ins.mask)))

\* A slip for the mutation runs: RUN is read as "on the first pass".
SkpTakenFirst(cond) ==
  /\ "NEG" \in cond => acc < 0
  /\ "GEZ" \in cond => acc >= 0
  /\ "ZRO" \in cond => acc = 0
  /\ "ZRC" \in cond => (acc >= 0) # (pacc >= 0)
  /\ "RUN" \in cond => first_run

\* skp_taken: all the conditions given hold; none given always skips.
SkpTaken(cond) ==
  /\ "NEG" \in cond => acc < 0
  /\ "GEZ" \in cond => acc >= 0
  /\ "ZRO" \in cond => acc = 0
  /\ "ZRC" \in cond => (acc >= 0) # (pacc >= 0)
  /\ "RUN" \in cond => ~first_run

Skp ==
  /\ Fetched("SKP")
  /\ Retire(acc, IF SkpTaken(Ins.cond) THEN Ins.n ELSE 0)
  /\ UNCHANGED <<delay, regs, lr, rmp_lfo>>

\* WLDS and WLDR place their fields in the S.23 words the LFO will read.
LoadLfo(op, rate, range) ==
  /\ Fetched(op)
  /\ regs' = [regs EXCEPT ![RateReg[Ins.lfo]] = rate, ![RangeReg[Ins.lfo]] = range]
  /\ Retire(acc, 0)
  /\ UNCHANGED <<delay, lr, rmp_lfo>>

Wlds == LoadLfo("WLDS", Ins.freq * (AccOne \div RateLen), Ins.amp * (AccOne \div S15))

Wldr == LoadLfo("WLDR", Ins.freq * (AccOne \div S15), Ins.amp * (AccOne \div 4))

Jam ==
  /\ Fetched("JAM")
  /\ rmp_lfo' = [rmp_lfo EXCEPT ![Ins.lfo] = RampNew]
  /\ Retire(acc, 0)
  /\ UNCHANGED <<delay, regs, lr>>

\* cho_value: the offset and coefficient the selected LFO gives an access.
ChoValue(lfo, fl) ==
  IF lfo \in DOMAIN sin_lfo THEN SinCho(sin_lfo[lfo], regs[RangeReg[lfo]], fl)
                            ELSE RampCho(rmp_lfo[lfo], regs[RangeReg[lfo]], fl)

ChoRda ==
  /\ Fetched("CHO_RDA")
  /\ LET cv == ChoValue(Ins.lfo, Ins.flags)
         at == Ins.addr + cv.offset
     IN  /\ LatchRead(at)
         /\ Retire(Sat(MulS23(DelayRead(at), cv.coeff) + acc), 0)
  /\ UNCHANGED <<delay, regs, rmp_lfo>>

ChoSof == Compute("CHO_SOF", MulS23(acc, ChoValue(Ins.lfo, Ins.flags).coeff)
                               + Ins.d * (AccOne \div S15))

\* What CHO RDAL adds to the accumulator.
LfoLevel(lfo, fl) ==
  IF lfo \in DOMAIN sin_lfo
  THEN SinValue(sin_lfo[lfo], regs[RangeReg[lfo]], "COS" \in fl)
  ELSE rmp_lfo[lfo]

ChoRdal == Compute("CHO_RDAL", acc + LfoLevel(Ins.lfo, Ins.flags))

\* A word that decodes to no instruction does nothing.
Raw == Compute("RAW", acc)

Exec ==
  \/ Rda \/ Rmpa \/ Wra \/ Wrap
  \/ Rdax \/ Rdfx \/ Wrax \/ Wrhx \/ Wrlx \/ Maxx \/ Mulx
  \/ Log \/ Exp \/ Sof \/ AndMask \/ OrMask \/ XorMask
  \/ Skp \/ Wlds \/ Wldr \/ Jam
  \/ ChoRda \/ ChoSof \/ ChoRdal \/ Raw

Next == HostCall \/ (\E in \in Frames : StartPass(in[1], in[2])) \/ Exec \/ EndPass

Spec == Init /\ [][Next]_vars

\* A call of process_raw runs to its end once it has begun.
Fairness == WF_vars(Exec \/ EndPass)
FairSpec == Spec /\ Fairness
-----------------------------------------------------------------------------
\* Every architectural value fits the 24-bit word the chip would keep it in,
\* every pointer its memory (vm.rs saturates at each architectural write).
TypeOK ==
  /\ phase \in {"idle", "pass"} /\ ic \in Nat
  /\ instructions \in [Slots -> Instruction]
  /\ delay \in [Addr -> Acc] /\ cursor \in Addr
  /\ regs \in [Reg -> Acc]
  /\ {acc, pacc, prev_acc, lr} \subseteq Acc
  /\ sin_lfo \in [{"SIN0", "SIN1"} -> [sin : Acc, cos : Acc]]
  /\ rmp_lfo \in [{"RMP0", "RMP1"} -> 0 .. RampLen - 1]
  /\ pots \in [{"POT0", "POT1", "POT2"} -> 0 .. AccMax]
  /\ {first_run, quantize_delay_14bit, clear_delay_on_load, adc_noise} \subseteq BOOLEAN
  /\ {noise_seed, noise_state} \subseteq Nat

\* The pipeline PACC models (vm.rs, the field's comment and the loop's tail):
\* while an instruction runs, PACC is what ACC was when the instruction
\* executed before it began, whatever was skipped between the two, and across
\* the end of a pass.
PaccLagsByOne == [][ic' > ic => pacc' = acc]_vars

\* An idle chip's ramps lie inside the window their range register selects,
\* although programs move both at any instruction and hosts rewrite
\* registers between passes (RampLfo::tick, randomize_registers).
RampInWindow ==
  phase = "idle" =>
    \A l \in DOMAIN rmp_lfo : rmp_lfo[l] < Window(regs[RangeReg[l]])

\* A pass is over after at most one visit of each program slot: SKP only
\* jumps forward, past the last slot if it is told to, so process_raw returns
\* (the loop of process_raw).
PassEnds == phase = "pass" ~> phase = "idle"
=============================================================================
