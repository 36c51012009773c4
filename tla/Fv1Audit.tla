------------------------------ MODULE Fv1Audit ------------------------------
(***************************************************************************)
(* The virtual machine of Fv1 with a history of what its host and its      *)
(* program did, and the properties of the whole.                           *)
(***************************************************************************)
EXTENDS Fv1

CONSTANT MaxDraws   \* noise draws counted since the generator was seeded

VARIABLES
  passes,   \* sample passes ended since the last load or reset: 0, 1, 2 = more
  draws,    \* noise draws since the generator was seeded, or MaxDraws + 1
  origin    \* the seed it was seeded with

hist == <<passes, draws, origin>>

AuditInit == Init /\ passes = 0 /\ draws = 0 /\ origin = 1

Restart == (\E p \in Programs : LoadProgram(p)) \/ Reset

AuditNext ==
  \/ Restart /\ passes' = 0 /\ draws' = 0 /\ origin' = noise_seed
  \/ /\ \E b \in BOOLEAN, s \in AdcSeeds : SetAdcNoise(b, s) /\ origin' = s
     /\ draws' = 0 /\ UNCHANGED passes
  \/ /\ \/ \E s \in RamSeeds : RandomizeDelayRam(s) \/ RandomizeRegisters(s)
        \/ \E b \in BOOLEAN : SetClearDelayOnLoad(b) \/ SetDelayQuantization(b)
        \/ \E p \in DOMAIN pots, l \in PotLevels : SetPot(p, l)
        \/ Exec
     /\ UNCHANGED hist
  \/ /\ \E in \in Frames : StartPass(in[1], in[2])
     /\ draws' = IF adc_noise /\ draws <= MaxDraws THEN draws + 2 ELSE draws
     /\ UNCHANGED <<passes, origin>>
  \/ /\ EndPass
     /\ passes' = IF passes < 2 THEN passes + 1 ELSE 2
     /\ UNCHANGED <<draws, origin>>

AuditSpec == AuditInit /\ [][AuditNext]_<<vars, hist>>
AuditFairSpec == AuditSpec /\ WF_<<vars, hist>>(AuditNext /\ phase = "pass")

-----------------------------------------------------------------------------
\* SKP RUN falls through on every instruction of the first pass after a load
\* or a reset and on no later one (SkpCond::RUN, Fv1::first_run).
RunOncePerLoad ==
  [][Skp /\ Ins.cond = {"RUN"} /\ Ins.n > 0 =>
       (ic' = ic + 1 <=> passes = 0)]_vars

\* A load or a reset leaves no trace of what ran before it: apart from the
\* settings of the host, the chip is in the state of one just built and given
\* that program, whatever the flag that keeps the delay says.  The delay itself
\* is silent after a reset, and after a load unless the host keeps it
\* (Fv1::new against Fv1::load_program and Fv1::reset).
FreshAfterRestart ==
  [][Restart =>
       /\ regs' = RegsZero /\ cursor' = 0
       /\ alu' = <<0, 0, 0>> /\ lr' = 0 /\ first_run'
       /\ \A l \in DOMAIN sin_lfo : sin_lfo'[l] = SinNew
       /\ \A l \in DOMAIN rmp_lfo : rmp_lfo'[l] = RampNew
       /\ noise_state' = Odd(noise_seed)
       /\ delay' = IF clear_delay_on_load \/ Reset THEN Silence ELSE delay
       /\ passes' = 0]_vars

\* The ADC noise is a function of the seed and of the samples dithered since
\* it was seeded; a load or reset restarts the pattern (set_adc_noise).
NoiseRestarts ==
  draws <= MaxDraws => noise_state = LcgRun(Odd(origin))[draws]

\* Where in the line of samples the instruction at hand looks.
Offset == CASE Ins.op = "RMPA"    -> AddrPtr
            [] Ins.op = "CHO_RDA" -> Ins.addr + ChoValue(Ins.lfo, Ins.flags).offset
            [] OTHER              -> Ins.addr

\* What the machine's next step asks of the line, in the program's own terms:
\* addresses before the base pointer moves them, and for a store the
\* accumulator in the form the delay keeps samples in.
Access ==
  CASE phase = "idle" -> [kind |-> "host"]
    [] phase = "pass" /\ ic >= ProgLen -> [kind |-> "end"]
    [] OTHER ->
         CASE Ins.op \in {"RDA", "RMPA", "CHO_RDA"} ->
                [kind |-> "read", slot |-> ic, at |-> Offset]
           [] Ins.op \in {"WRA", "WRAP"} ->
                [kind |-> "write", slot |-> ic, at |-> Offset,
                 v |-> IF quantize_delay_14bit THEN Compress14(acc) ELSE acc]
           [] OTHER -> [kind |-> "none", slot |-> ic]

\* Delay RAM under its moving base pointer is a line of samples that each pass
\* moves one address away: every read finds, and every write leaves, its sample
\* at the address the instruction names, whatever pass, load or reset lies
\* between the two (delay_read, delay_write and the end of process_raw).
Line == INSTANCE DelayLine
          WITH Size <- DelayLen, Floors <- {NoiseFloor(s) : s \in RamSeeds},
               line <- [a \in Addr |-> delay[(cursor + a) % DelayLen]],
               keep <- ~clear_delay_on_load, got <- lr, ask <- Access
IsDelayLine == Line!Spec

=============================================================================
