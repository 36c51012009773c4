----------------------------- MODULE FfiProofs -----------------------------
(***************************************************************************)
(* What a host concludes from return codes holds, for every usize, bank,   *)
(* rate and number of calls.  The inductive invariant says that the chip   *)
(* is what the host takes it for, which of the two engines holds it, and   *)
(* that a hosted one has rates in range.                                   *)
(***************************************************************************)
EXTENDS Ffi, SequenceTheorems, TLAPS

Fields == {"program", "pots", "clear", "quantize", "dither"}

\* A handle's engine has a chip, and a hosted one its two rates.
EngineShape(e) ==
  \/ e.kind = "native" /\ DOMAIN e = {"kind", "chip", "fed"}
  \/ /\ e.kind = "hosted" /\ DOMAIN e = {"kind", "host_rate", "chip_rate", "chip", "fed"}
     /\ e.host_rate \in MinHostRate .. MaxHostRate /\ e.chip_rate \in MinChipRate .. MaxChipRate

FfiInv ==
  /\ handle \in {"null", "live"}
  /\ handle = "null" => engine = NoEngine
  /\ handle = "live" =>
       /\ EngineShape(engine)
       /\ engine.chip = asked
       /\ DOMAIN asked = Fields /\ DOMAIN asked.pots = Pots

\* An update inside the chip is that update of the chip, and of nothing else.
LEMMA InRangeSound ==
  ASSUME NEW rate \in Int \cup {NaN}, NEW lo \in Int, NEW hi \in Int, InRange(rate, lo, hi)
  PROVE  rate \in lo .. hi
BY DEF InRange

LEMMA RateBounds ==
  /\ MinHostRate \in Int /\ MaxHostRate \in Int /\ MinChipRate \in Int /\ MaxChipRate \in Int
  /\ ChipRate \in MinChipRate .. MaxChipRate
BY SMT DEF MinHostRate, MaxHostRate, MinChipRate, MaxChipRate, ChipRate

LEMMA NewChipShape == DOMAIN NewChip = Fields /\ DOMAIN NewChip.pots = Pots
BY DEF NewChip, Fields

\* An engine that differs in its chip's contents, its events, or within range
\* in its chip rate, is an engine.
LEMMA ShapeKept ==
  ASSUME NEW e, NEW f, EngineShape(e), DOMAIN f = DOMAIN e, f.kind = e.kind,
         e.kind = "hosted" => f.host_rate = e.host_rate /\ f.chip_rate \in MinChipRate .. MaxChipRate
  PROVE  EngineShape(f)
BY DEF EngineShape

LEMMA FfiInit == Init => FfiInv
BY DEF Init, FfiInv

LEMMA FfiStep == FfiInv /\ [Next]_vars => FfiInv'
<1> SUFFICES ASSUME FfiInv, [Next]_vars PROVE FfiInv'
  OBVIOUS
<1> DEFINE Kept == /\ DOMAIN engine' = DOMAIN engine /\ engine'.kind = engine.kind
                   /\ engine.kind = "hosted" => /\ engine'.host_rate = engine.host_rate
                                                /\ engine'.chip_rate \in MinChipRate .. MaxChipRate
<1>1. ASSUME handle = "live", handle' = handle, Kept, engine'.chip = asked',
             DOMAIN asked' = Fields, DOMAIN asked'.pots = Pots
      PROVE  FfiInv'
  <2>1. EngineShape(engine')
    BY <1>1, ShapeKept DEF FfiInv
  <2> QED BY <1>1, <2>1 DEF FfiInv
<1>2. ASSUME UNCHANGED <<handle, engine, asked>> PROVE FfiInv'
  BY <1>2 DEF FfiInv
<1>3. ASSUME handle = "live"
      PROVE  /\ {"kind", "chip", "fed"} \subseteq DOMAIN engine
             /\ engine.kind = "hosted" =>
                  /\ {"host_rate", "chip_rate"} \subseteq DOMAIN engine
                  /\ engine.chip_rate \in MinChipRate .. MaxChipRate
             /\ DOMAIN asked = Fields /\ DOMAIN asked.pots = Pots /\ engine.chip = asked
  BY <1>3 DEF FfiInv, EngineShape
<1>4. ASSUME NEW rate \in HostRates, Create(rate) PROVE FfiInv'
  <2>1. CASE rate = 0
    BY <1>4, <2>1, NewChipShape DEF Create, Native, FfiInv, EngineShape, NoEngine
  <2>2. CASE rate # 0 /\ InRange(rate, MinHostRate, MaxHostRate)
    <3>1. rate \in MinHostRate .. MaxHostRate
      BY <2>2, InRangeSound, RateBounds, RateAssumption
    <3> QED BY <1>4, <2>2, <3>1, NewChipShape, RateBounds
              DEF Create, Hosted, FfiInv, EngineShape, NoEngine
  <2>3. CASE rate # 0 /\ ~InRange(rate, MinHostRate, MaxHostRate)
    BY <1>4, <2>3 DEF Create, FfiInv
  <2> QED BY <2>1, <2>2, <2>3
<1>5. CASE Destroy
  BY <1>5 DEF Destroy, FfiInv
<1>6. ASSUME NEW op \in HandleCalls, NullArgument(op) PROVE FfiInv'
  BY <1>2, <1>6 DEF NullArgument
<1>7. ASSUME NEW op, NEW why, Refuse(op, why) PROVE FfiInv'
  BY <1>2, <1>7 DEF Refuse
<1>8. ASSUME NEW p, handle = "live", handle' = handle, engine' = Loaded(p),
             asked' = [asked EXCEPT !.program = p]
      PROVE  FfiInv'
  <2>1. Kept /\ engine'.chip = [engine.chip EXCEPT !.program = p]
    BY <1>3, <1>8 DEF Loaded
  <2> HIDE DEF Kept
  <2> QED BY <1>1, <1>3, <1>8, <2>1 DEF Fields
<1>9. ASSUME NEW len \in BankLens, NEW index \in Indexes, LoadBank(len, index) PROVE FfiInv'
  <2>1. CASE Refuse("load_bank", "short")
    BY <1>7, <2>1
  <2>2. CASE /\ SlotAt(len, index) # -1
             /\ Done("load_bank", Loaded(<<"slot", SlotAt(len, index)>>))
             /\ asked' = [asked EXCEPT !.program = <<"slot", index * SlotLen>>]
    <3>1. SlotAt(len, index) = index * SlotLen
      BY <2>2 DEF SlotAt
    <3> QED BY <1>8, <1>9, <2>2, <3>1 DEF Done, LoadBank, Live
  <2> QED BY <1>9, <2>1, <2>2 DEF LoadBank
<1>10. ASSUME NEW source \in Texts \cup {"utf8", "syntax"}, LoadAsm(source) PROVE FfiInv'
  BY <1>7, <1>8, <1>10 DEF LoadAsm, Done, Live
<1>11. ASSUME NEW pot \in Pots \cup {3}, NEW level \in {0, 1}, SetPot(pot, level) PROVE FfiInv'
  <2>1. CASE pot \in Pots
    <3>1. Kept /\ engine'.chip = [engine.chip EXCEPT !.pots[pot] = level]
      BY <1>3, <1>11, <2>1 DEF SetPot, Done, Live
    <3> HIDE DEF Kept
    <3>2. asked' = [asked EXCEPT !.pots[pot] = level] /\ handle = "live" /\ handle' = handle
      BY <1>11, <2>1 DEF SetPot, Done, Live
    <3> QED BY <1>1, <1>3, <3>1, <3>2 DEF Fields
  <2>2. CASE pot \notin Pots
    BY <1>2, <1>11, <2>2 DEF SetPot, Done
  <2> QED BY <2>1, <2>2
<1>12. ASSUME NEW on \in BOOLEAN, SetDelayQuantization(on) PROVE FfiInv'
  <2>1. Kept /\ engine'.chip = [engine.chip EXCEPT !.quantize = on]
    BY <1>3, <1>12 DEF SetDelayQuantization, Done, Live
  <2> HIDE DEF Kept
  <2> QED BY <1>1, <1>3, <1>12, <2>1 DEF SetDelayQuantization, Done, Live, Fields
<1>13. ASSUME NEW on \in BOOLEAN, SetClearDelayOnLoad(on) PROVE FfiInv'
  <2>1. Kept /\ engine'.chip = [engine.chip EXCEPT !.clear = on]
    BY <1>3, <1>13 DEF SetClearDelayOnLoad, Done, Live
  <2> HIDE DEF Kept
  <2> QED BY <1>1, <1>3, <1>13, <2>1 DEF SetClearDelayOnLoad, Done, Live, Fields
<1>14. ASSUME NEW on \in BOOLEAN, NEW seed \in {0, 1}, SetAdcNoise(on, seed) PROVE FfiInv'
  <2>1. Kept /\ engine'.chip = [engine.chip EXCEPT !.dither = <<on, seed>>]
    BY <1>3, <1>14 DEF SetAdcNoise, Done, Live
  <2> HIDE DEF Kept
  <2> QED BY <1>1, <1>3, <1>14, <2>1 DEF SetAdcNoise, Done, Live, Fields
<1>15. ASSUME handle = "live", UNCHANGED <<handle, asked>>,
              DOMAIN engine' = DOMAIN engine,
              \A n \in DOMAIN engine \ {"fed"} : engine'[n] = engine[n]
       PROVE  FfiInv'
  <2>1. Kept /\ engine'.chip = engine.chip
    BY <1>3, <1>15
  <2> HIDE DEF Kept
  <2> QED BY <1>1, <1>3, <1>15, <2>1
<1>16. ASSUME NEW op \in {"reset", "randomize_delay_ram", "randomize_registers"}, Feed(op)
       PROVE  FfiInv'
  BY <1>15, <1>16 DEF Feed, Done, Live
<1>17. CASE Process
  BY <1>15, <1>17 DEF Process, Done, Live
<1>18. ASSUME NEW rate \in ChipRates, SetChipRate(rate) PROVE FfiInv'
  <2>1. ASSUME NEW why, Refuse("set_chip_rate", why) PROVE FfiInv'
    BY <1>7, <2>1
  <2>2. CASE /\ InRange(rate, MinChipRate, MaxChipRate) /\ engine.kind = "hosted"
             /\ Done("set_chip_rate", Retuned(rate)) /\ UNCHANGED asked
    <3>1. rate \in MinChipRate .. MaxChipRate
      BY <2>2, InRangeSound, RateBounds, RateAssumption
    <3>2. handle = "live" /\ handle' = handle /\ engine' = Retuned(rate)
      BY <1>18, <2>2 DEF SetChipRate, Live, Done
    <3>3. Kept /\ engine'.chip = engine.chip
      BY <1>3, <2>2, <3>1, <3>2 DEF Retuned
    <3> HIDE DEF Kept
    <3> QED BY <1>1, <1>3, <2>2, <3>2, <3>3
  <2> QED BY <1>18, <2>1, <2>2 DEF SetChipRate
<1>19. ASSUME NEW in_l \in Bufs, NEW in_r \in Bufs, NEW out_l \in Bufs, NEW out_r \in Bufs,
              NEW frames \in Frames, ProcessBlock(in_l, in_r, out_l, out_r, frames)
       PROVE  FfiInv'
  BY <1>2, <1>19 DEF ProcessBlock
<1>20. CASE BlockFrame
  <2>1. /\ UNCHANGED <<handle, asked>>
        /\ engine' = [engine EXCEPT !.fed = Append(engine.fed,
             <<mem[block.in_l][block.done + 1], mem[block.in_r][block.done + 1]>>)]
    BY <1>20 DEF BlockFrame, Between
  <2>2. CASE handle = "live"
    BY <1>15, <2>1, <2>2
  <2>3. CASE handle # "live"
    BY <1>2, <2>1, <2>3 DEF FfiInv, NoEngine
  <2> QED BY <2>2, <2>3
<1>21. CASE BlockReturn
  BY <1>2, <1>21 DEF BlockReturn
<1>22. ASSUME NEW source \in Texts \cup {"null", "utf8", "syntax"}, NEW cap \in Caps,
              Assemble(source, cap)
       PROVE  FfiInv'
  BY <1>2, <1>22 DEF Assemble
<1>23. CASE UNCHANGED vars
  BY <1>2, <1>23 DEF vars
<1> QED BY <1>4, <1>5, <1>6, <1>9, <1>10, <1>11, <1>12, <1>13, <1>14, <1>16, <1>17, <1>18,
           <1>19, <1>20, <1>21, <1>22, <1>23 DEF Next

\* No sequence of calls, with NaN or any other rate, makes a converter whose
\* ratio is out of bounds.
THEOREM RatesBounded == Spec => []EngineRates
<1>1. FfiInv => EngineRates
  BY DEF FfiInv, EngineRates, EngineShape, NoEngine
<1> QED BY <1>1, FfiInit, FfiStep, PTL DEF Spec

\* For every size of usize, bank and index, the program that runs is the one
\* the last accepted load named.
THEOREM LoadsAsAsked == Spec => []LoadedAsAsked
<1>1. FfiInv => LoadedAsAsked
  BY DEF FfiInv, LoadedAsAsked
<1> QED BY <1>1, FfiInit, FfiStep, PTL DEF Spec

\* Pots and switches outlive loads, resets, refused calls and retuning.
THEOREM SettingsOutlive == Spec => []SettingsSurvive
<1>1. FfiInv => SettingsSurvive
  BY DEF FfiInv, SettingsSurvive
<1> QED BY <1>1, FfiInit, FfiStep, PTL DEF Spec

\* Each action but Create and Destroy either says OK or keeps the engine.
LEMMA RefusalKeeps ==
  ASSUME [Next]_vars, calls' # calls, ret'.code # "OK", ~ \E rate \in HostRates : Create(rate), ~Destroy
  PROVE  engine' = engine
<1>1. ASSUME NEW op, NEW e, Done(op, e) PROVE FALSE
  BY <1>1 DEF Done
<1>2. ASSUME NEW op, NEW why, Refuse(op, why) PROVE engine' = engine
  BY <1>2 DEF Refuse
<1>3. ASSUME NEW op, NullArgument(op) PROVE engine' = engine
  BY <1>3 DEF NullArgument
<1>4. ASSUME NEW len, NEW index, LoadBank(len, index) PROVE engine' = engine
  BY <1>1, <1>2, <1>4 DEF LoadBank
<1>5. ASSUME NEW source, LoadAsm(source) PROVE engine' = engine
  BY <1>1, <1>2, <1>5 DEF LoadAsm
<1>6. ASSUME NEW pot, NEW level, SetPot(pot, level) PROVE FALSE
  BY <1>1, <1>6 DEF SetPot
<1>7. ASSUME NEW on, SetDelayQuantization(on) \/ SetClearDelayOnLoad(on) PROVE FALSE
  BY <1>1, <1>7 DEF SetDelayQuantization, SetClearDelayOnLoad
<1>8. ASSUME NEW on, NEW seed, SetAdcNoise(on, seed) PROVE FALSE
  BY <1>1, <1>8 DEF SetAdcNoise
<1>9. ASSUME NEW op, Feed(op) PROVE FALSE
  BY <1>1, <1>9 DEF Feed
<1>10. ASSUME NEW rate, SetChipRate(rate) PROVE engine' = engine
  BY <1>1, <1>2, <1>10 DEF SetChipRate
<1>11. CASE Process
  BY <1>1, <1>11 DEF Process
<1>12. ASSUME NEW in_l, NEW in_r, NEW out_l, NEW out_r, NEW frames,
              ProcessBlock(in_l, in_r, out_l, out_r, frames)
       PROVE  engine' = engine
  BY <1>12 DEF ProcessBlock
<1>13. CASE BlockFrame \/ BlockReturn
  BY <1>13 DEF BlockFrame, BlockReturn, Between
<1>14. ASSUME NEW source, NEW cap, Assemble(source, cap) PROVE engine' = engine
  BY <1>14 DEF Assemble
<1>15. CASE UNCHANGED vars
  BY <1>15 DEF vars
<1> QED BY <1>3, <1>4, <1>5, <1>6, <1>7, <1>8, <1>9, <1>10, <1>11, <1>12, <1>13, <1>14, <1>15 DEF Next

\* A call that answers with an error code has left the engine alone, for every
\* sequence of calls and every argument.
THEOREM RefusalsAreInvisible == Spec => RefusedLeavesEngine
<1>1. [Next]_vars /\ calls' # calls /\ ret'.code # "OK" => engine' = engine
  <2> SUFFICES ASSUME [Next]_vars, calls' # calls, ret'.code # "OK" PROVE engine' = engine
    OBVIOUS
  <2>1. ASSUME NEW rate, Create(rate) PROVE FALSE
    BY <2>1 DEF Create
  <2>2. CASE Destroy
    BY <2>2 DEF Destroy
  <2> QED BY <2>1, <2>2, RefusalKeeps
<1> QED BY <1>1, PTL DEF Spec, RefusedLeavesEngine
-----------------------------------------------------------------------------
(* Messages.                                                               *)

\* A call that refuses says why before it returns, and no other call changes
\* both what is remembered of it.
LEMMA ErrorStep == ErrorExplains /\ [Next]_vars => ErrorExplains'
<1> SUFFICES ASSUME ErrorExplains, [Next]_vars PROVE ErrorExplains'
  OBVIOUS
<1>1. ASSUME ret'.code # "ERR_PROGRAM" PROVE ErrorExplains'
  BY <1>1 DEF ErrorExplains
<1>2. ASSUME UNCHANGED <<ret, last_error>> PROVE ErrorExplains'
  BY <1>2 DEF ErrorExplains
<1>3. ASSUME NEW op \in DOMAIN Reasons, NEW why \in Reasons[op], Refuse(op, why)
      PROVE  ErrorExplains'
  BY <1>3 DEF Refuse, SetError, ErrorExplains
<1>4. ASSUME NEW op, NEW e, Done(op, e) PROVE ErrorExplains'
  BY <1>1, <1>4 DEF Done
<1>5. ASSUME NEW rate, Create(rate) PROVE ErrorExplains'
  BY <1>1, <1>5 DEF Create
<1>6. ASSUME NEW op, NullArgument(op) PROVE ErrorExplains'
  BY <1>1, <1>6 DEF NullArgument
<1>7. ASSUME NEW len, NEW index, LoadBank(len, index) PROVE ErrorExplains'
  <2>1. "load_bank" \in DOMAIN Reasons /\ "short" \in Reasons["load_bank"]
    BY DEF Reasons
  <2> QED BY <1>3, <1>4, <1>7, <2>1 DEF LoadBank
<1>8. ASSUME NEW source, LoadAsm(source) PROVE ErrorExplains'
  <2>1. "load_asm" \in DOMAIN Reasons /\ Reasons["load_asm"] = {"utf8", "syntax"}
    BY DEF Reasons
  <2> QED BY <1>3, <1>4, <1>8, <2>1 DEF LoadAsm
<1>9. ASSUME NEW rate, SetChipRate(rate) PROVE ErrorExplains'
  <2>1. "set_chip_rate" \in DOMAIN Reasons /\ Reasons["set_chip_rate"] = {"range", "native"}
    BY DEF Reasons
  <2> QED BY <1>3, <1>4, <1>9, <2>1 DEF SetChipRate
<1>10. ASSUME NEW pot, NEW level, SetPot(pot, level) PROVE ErrorExplains'
  BY <1>4, <1>10 DEF SetPot
<1>11. ASSUME NEW on, SetDelayQuantization(on) \/ SetClearDelayOnLoad(on) PROVE ErrorExplains'
  BY <1>4, <1>11 DEF SetDelayQuantization, SetClearDelayOnLoad
<1>12. ASSUME NEW on, NEW seed, SetAdcNoise(on, seed) PROVE ErrorExplains'
  BY <1>4, <1>12 DEF SetAdcNoise
<1>13. ASSUME NEW op, Feed(op) PROVE ErrorExplains'
  BY <1>4, <1>13 DEF Feed
<1>14. CASE Process
  <2>1. ret'.code = "OK"
    BY <1>14 DEF Process
  <2> QED BY <1>1, <2>1
<1>15. CASE Destroy \/ BlockReturn
  <2>1. ret' = [op |-> "destroy", code |-> "OK"] \/ ret' = [op |-> "process_block", code |-> "OK"]
    BY <1>15 DEF Destroy, BlockReturn
  <2> QED BY <1>1, <2>1
<1>16. ASSUME NEW in_l, NEW in_r, NEW out_l, NEW out_r, NEW frames,
              ProcessBlock(in_l, in_r, out_l, out_r, frames)
       PROVE  ErrorExplains'
  BY <1>2, <1>16 DEF ProcessBlock
<1>17. CASE BlockFrame \/ UNCHANGED vars
  BY <1>2, <1>17 DEF BlockFrame, Between, vars
<1>18. ASSUME NEW source, NEW cap, Assemble(source, cap) PROVE ErrorExplains'
  <2>1. ret'.op = "assemble" /\ "assemble" \notin DOMAIN Reasons
    BY <1>18 DEF Assemble, Reasons
  <2> QED BY <2>1 DEF ErrorExplains
<1> QED BY <1>5, <1>6, <1>7, <1>8, <1>9, <1>10, <1>11, <1>12, <1>13, <1>14, <1>15, <1>16, <1>17,
           <1>18 DEF Next

\* The message a host reads after a refusal is that refusal's, whatever calls
\* and refusals came before it.
THEOREM ErrorsExplain == Spec => []ErrorExplains
<1>1. ASSUME Init PROVE ErrorExplains
  <2>1. ret.code = "OK"
    BY <1>1 DEF Init
  <2> QED BY <2>1 DEF ErrorExplains
<1> QED BY <1>1, ErrorStep, PTL DEF Spec

\* ReportFits of a buffer, the message for it and its size.
Fits(w, msg, cap) ==
  /\ \A j \in DOMAIN w : j >= cap => w[j] = 256
  /\ cap > 0 =>
       \E n \in 0 .. cap - 1 :
         /\ w[n] = 0
         /\ n = Len(msg) \/ (n < Len(msg) /\ n = cap - 1)
         /\ \A j \in 0 .. n - 1 : w[j] \in {msg[j + 1], Space} \ {0}

\* What write_error leaves of any message in a buffer of any size: a terminated
\* prefix inside it, and nothing behind it.
LEMMA WrittenFits ==
  ASSUME NEW msg \in Seq(0 .. 255), NEW cap \in Nat
  PROVE  Fits(Written(msg, cap), msg, cap)
<1>1. Len(msg) \in Nat
  OBVIOUS
<1>2. CASE cap = 0
  BY <1>2 DEF Written, Untouched, Fits
<1>3. CASE cap > 0
  <2> DEFINE n == TakeOf(msg, cap)
             w == Written(msg, cap)
  <2>1. /\ n \in 0 .. cap - 1 /\ n <= Len(msg)
        /\ n = Len(msg) \/ (n < Len(msg) /\ n = cap - 1)
    BY <1>1, <1>3 DEF TakeOf
  <2>2. DOMAIN w = 0 .. cap + Len(msg)
        /\ \A j \in 0 .. cap + Len(msg) : w[j] = IF j < n THEN IF msg[j + 1] = 0 THEN Space ELSE msg[j + 1]
                                    ELSE IF j = n THEN 0 ELSE 256
    BY <1>3 DEF Written, Untouched
  <2> HIDE DEF n, w
  <2>3. \A j \in DOMAIN w : j >= cap => w[j] = 256
    BY <2>1, <2>2
  <2>4. w[n] = 0
    BY <2>1, <2>2
  <2>5. \A j \in 0 .. n - 1 : w[j] \in {msg[j + 1], Space} \ {0}
    <3> TAKE j \in 0 .. n - 1
    <3>1. w[j] = IF msg[j + 1] = 0 THEN Space ELSE msg[j + 1]
      BY <2>1, <2>2
    <3>2. Space # 0
      BY DEF Space
    <3> QED BY <3>1, <3>2
  <2>6. Fits(w, msg, cap)
    BY <2>1, <2>3, <2>4, <2>5 DEF Fits
  <2> QED BY <2>6 DEF w
<1> QED BY <1>2, <1>3

\* A host's error buffer is written inside its bounds, terminated, and holds
\* as much of the message as fits.
THEOREM ReportsFit == Spec => []ReportFits
<1>1. ASSUME Init PROVE ReportFits
  <2>1. ret.op = "start"
    BY <1>1 DEF Init
  <2> QED BY <2>1 DEF ReportFits
<1>2. ReportFits /\ [Next]_vars => ReportFits'
  <2> SUFFICES ASSUME ReportFits, [Next]_vars PROVE ReportFits'
    OBVIOUS
  <2>1. ASSUME ret'.op # "assemble" PROVE ReportFits'
    BY <2>1 DEF ReportFits
  <2>2. ASSUME UNCHANGED ret PROVE ReportFits'
    BY <2>2 DEF ReportFits
  <2>3. ASSUME NEW op, op # "assemble",
               NullArgument(op) \/ (\E why : Refuse(op, why)) \/ (\E e : Done(op, e))
        PROVE  ReportFits'
    BY <2>1, <2>3 DEF NullArgument, Refuse, Done
  <2>4. ASSUME NEW source \in Texts \cup {"null", "utf8", "syntax"}, NEW cap \in Caps,
               Assemble(source, cap)
        PROVE  ReportFits'
    <3> DEFINE why == IF source \in Texts THEN "none" ELSE source
    <3>1. Messages[why] \in Seq(0 .. 255) /\ cap \in Nat
      BY ReportAssumption, BankAssumption DEF ReportAssumption, BankAssumption
    <3>2. /\ ret'.why = why /\ ret'.cap = cap
          /\ ret'.error = Written(Messages[why], cap)
      BY <2>4 DEF Assemble
    <3> HIDE DEF why
    <3>3. Fits(Written(Messages[why], cap), Messages[why], cap)
      BY <3>1, WrittenFits
    <3>4. Fits(ret'.error, Messages[ret'.why], ret'.cap)
      BY <3>2, <3>3, Zenon
    <3> QED BY <3>4 DEF ReportFits, Fits
  <2>5. CASE \E rate \in HostRates : Create(rate)
    <3>1. ret' = [op |-> "create", code |-> "OK"]
      BY <2>5 DEF Create
    <3> QED BY <2>1, <3>1
  <2>6. CASE Destroy \/ BlockReturn
    <3>1. ret' = [op |-> "destroy", code |-> "OK"] \/ ret' = [op |-> "process_block", code |-> "OK"]
      BY <2>6 DEF Destroy, BlockReturn
    <3> QED BY <2>1, <3>1
  <2>7. CASE \E op \in HandleCalls : NullArgument(op)
    BY <2>3, <2>7 DEF HandleCalls
  <2>8. CASE \E len \in BankLens, index \in Indexes : LoadBank(len, index)
    BY <2>3, <2>8 DEF LoadBank
  <2>9. CASE \E source \in Texts \cup {"utf8", "syntax"} : LoadAsm(source)
    BY <2>3, <2>9 DEF LoadAsm
  <2>10. CASE \E pot \in Pots \cup {3}, level \in {0, 1} : SetPot(pot, level)
    BY <2>3, <2>10 DEF SetPot
  <2>11. CASE \E on \in BOOLEAN : SetDelayQuantization(on) \/ SetClearDelayOnLoad(on)
    BY <2>3, <2>11 DEF SetDelayQuantization, SetClearDelayOnLoad
  <2>12. CASE \E on \in BOOLEAN, seed \in {0, 1} : SetAdcNoise(on, seed)
    BY <2>3, <2>12 DEF SetAdcNoise
  <2>13. CASE \E op \in {"reset", "randomize_delay_ram", "randomize_registers"} : Feed(op)
    BY <2>3, <2>13 DEF Feed
  <2>14. CASE \E rate \in ChipRates : SetChipRate(rate)
    BY <2>3, <2>14 DEF SetChipRate
  <2>15. CASE Process
    <3>1. ret'.op = "process"
      BY <2>15 DEF Process
    <3> QED BY <2>1, <3>1
  <2>16. CASE \/ \E in_l, in_r, out_l, out_r \in Bufs, frames \in Frames :
                    ProcessBlock(in_l, in_r, out_l, out_r, frames)
              \/ BlockFrame \/ UNCHANGED vars
    BY <2>2, <2>16 DEF ProcessBlock, BlockFrame, Between, vars
  <2> QED BY <2>4, <2>5, <2>6, <2>7, <2>8, <2>9, <2>10, <2>11, <2>12, <2>13, <2>14, <2>15, <2>16
          DEF Next
<1> QED BY <1>1, <1>2, PTL DEF Spec

-----------------------------------------------------------------------------
(* Blocks.                                                                 *)

\* What a host can feed to an engine: operations on the signal path, frames of
\* single calls, frames of a block's buffers.
Events == {"load", "reset", "randomize_delay_ram", "randomize_registers", <<"l", "r">>}
            \cup ({"tune"} \X ChipRates) \cup ((Bufs \X Nat) \X (Bufs \X Nat))

Blocks == [in_l : Bufs, in_r : Bufs, out_l : Bufs, out_r : Bufs,
           frames : Nat, done : Nat, before : Seq(Events)]

\* What single calls with the first n input frames of block b would have fed.
InputOf(b, n) == [k \in 1 .. n |-> <<<<b.in_l, k>>, <<b.in_r, k>>>>]

\* A frame's outputs stay as they were written, and no input the block has yet
\* to read is overwritten, whichever buffers are the same.
BlockInv ==
  /\ handle = "live" => engine.fed \in Seq(Events)
  /\ block # Idle =>
       /\ handle = "live" /\ block \in Blocks /\ block.done <= block.frames
       /\ engine.fed = block.before \o InputOf(block, block.done)
       /\ DOMAIN mem = Bufs
       /\ \A b \in Bufs :
            /\ DOMAIN mem[b] = 1 .. block.frames
            /\ \A j \in block.done + 1 .. block.frames : mem[b][j] = <<b, j>>
  /\ BlockIsFrames

\* One more frame at the end of the input is one more event.
LEMMA InputGrows ==
  ASSUME NEW b \in Blocks, NEW n \in Nat
  PROVE  /\ InputOf(b, n) \in Seq(Events)
         /\ Append(b.before \o InputOf(b, n), <<<<b.in_l, n + 1>>, <<b.in_r, n + 1>>>>)
              = b.before \o InputOf(b, n + 1)
<1>1. \A k \in Nat : <<<<b.in_l, k>>, <<b.in_r, k>>>> \in Events
  BY DEF Blocks, Events
<1>2. \A m \in Nat : /\ InputOf(b, m) \in Seq(Events) /\ Len(InputOf(b, m)) = m
                     /\ \A k \in 1 .. m : InputOf(b, m)[k] = <<<<b.in_l, k>>, <<b.in_r, k>>>>
  <2> TAKE m \in Nat
  <2>1. InputOf(b, m) \in [1 .. m -> Events]
    BY <1>1 DEF InputOf
  <2> QED BY <2>1 DEF InputOf
<1> DEFINE s == InputOf(b, n)
           t == InputOf(b, n + 1)
           e == <<<<b.in_l, n + 1>>, <<b.in_r, n + 1>>>>
<1>3. /\ s \in Seq(Events) /\ Len(s) = n /\ t \in Seq(Events) /\ Len(t) = n + 1
      /\ \A k \in 1 .. n : s[k] = t[k]
      /\ t[n + 1] = e /\ e \in Events /\ b.before \in Seq(Events)
  <2>1. n + 1 \in Nat /\ b.before \in Seq(Events) /\ e \in Events
    BY <1>1 DEF Blocks
  <2>2. s \in Seq(Events) /\ Len(s) = n /\ t \in Seq(Events) /\ Len(t) = n + 1
    BY <1>2, <2>1
  <2>3. t[n + 1] = e
    BY <1>2, <2>1
  <2>4. \A k \in 1 .. n : s[k] = t[k]
    <3> TAKE k \in 1 .. n
    <3>1. k \in 1 .. n + 1
      OBVIOUS
    <3>2. s[k] = <<<<b.in_l, k>>, <<b.in_r, k>>>>
      BY <1>2
    <3>3. t[k] = <<<<b.in_l, k>>, <<b.in_r, k>>>>
      BY <1>2, <2>1, <3>1
    <3> QED BY <3>2, <3>3
  <2> QED BY <2>1, <2>2, <2>3, <2>4
<1> HIDE DEF s, t, e
<1> DEFINE p == b.before
<1>4. p \in Seq(Events) /\ Len(p) \in Nat
  BY <1>3
<1> HIDE DEF p
<1> DEFINE l == Len(p)
           ps == p \o s
           pt == p \o t
<1>5. l \in Nat /\ n \in Nat
  BY <1>4
<1>6. /\ ps \in Seq(Events) /\ Len(ps) = l + n
      /\ \A i \in 1 .. l + n : ps[i] = IF i <= l THEN p[i] ELSE s[i - l]
  BY <1>3, <1>4, ConcatProperties
<1>7. /\ pt \in Seq(Events) /\ Len(pt) = l + (n + 1)
      /\ \A i \in 1 .. l + (n + 1) : pt[i] = IF i <= l THEN p[i] ELSE t[i - l]
  <2>1. /\ pt \in Seq(Events) /\ Len(pt) = l + Len(t)
        /\ \A i \in 1 .. l + Len(t) : pt[i] = IF i <= l THEN p[i] ELSE t[i - l]
    BY <1>3, <1>4, ConcatProperties
  <2>2. Len(t) = n + 1
    BY <1>3
  <2> HIDE DEF l, pt
  <2> QED BY <2>1, <2>2, Zenon
<1> HIDE DEF l, ps, pt
<1>8. Append(ps, e) = pt
  <2>1. /\ Append(ps, e) \in Seq(Events) /\ Len(Append(ps, e)) = (l + n) + 1
        /\ \A i \in 1 .. l + n : Append(ps, e)[i] = ps[i]
        /\ Append(ps, e)[(l + n) + 1] = e
    BY <1>3, <1>6, AppendProperties
  <2>2. (l + n) + 1 = l + (n + 1)
    BY <1>5
  <2>3. ASSUME NEW i \in 1 .. l + n PROVE Append(ps, e)[i] = pt[i]
    <3>1. Append(ps, e)[i] = IF i <= l THEN p[i] ELSE s[i - l]
      BY <1>6, <2>1
    <3>2. pt[i] = IF i <= l THEN p[i] ELSE t[i - l]
      BY <1>5, <1>7
    <3>3. ~(i <= l) => i - l \in 1 .. n
      BY <1>5
    <3> QED BY <1>3, <3>1, <3>2, <3>3
  <2>4. Append(ps, e)[l + (n + 1)] = pt[l + (n + 1)]
    <3>1. l + (n + 1) \in 1 .. l + (n + 1) /\ ~(l + (n + 1) <= l) /\ (l + (n + 1)) - l = n + 1
      BY <1>5
    <3>2. pt[l + (n + 1)] = t[n + 1]
      BY <1>7, <3>1
    <3> QED BY <1>3, <2>1, <2>2, <3>2
  <2>5. \A i \in 1 .. l + (n + 1) : Append(ps, e)[i] = pt[i]
    <3> TAKE i \in 1 .. l + (n + 1)
    <3>1. i \in 1 .. l + n \/ i = l + (n + 1)
      BY <1>5
    <3> QED BY <2>3, <2>4, <3>1
  <2>6. Len(Append(ps, e)) = l + (n + 1)
    BY <2>1, <2>2
  <2> QED BY <1>7, <2>1, <2>5, <2>6, SeqEqual
<1>9. Append(p \o s, e) = p \o t
  BY <1>8 DEF ps, pt
<1> QED BY <1>3, <1>9 DEF s, t, e, p

\* What a call that is not a block's leaves of the invariant.
LEMMA FedStays ==
  ASSUME BlockInv, block' = Idle, handle' = "live" => engine'.fed \in Seq(Events)
  PROVE  BlockInv'
BY DEF BlockInv, BlockIsFrames

\* A call on a live handle that adds one event, or none.
LEMMA FedAdded ==
  ASSUME FfiInv, BlockInv, block' = Idle, handle = "live", NEW e \in Events,
         engine'.fed = engine.fed \/ engine'.fed = Append(engine.fed, e)
  PROVE  BlockInv'
<1>1. engine.fed \in Seq(Events)
  BY DEF BlockInv
<1>2. engine'.fed \in Seq(Events)
  BY <1>1, AppendProperties
<1> QED BY <1>2, FedStays

LEMMA BlockFrameInv ==
  ASSUME FfiInv, BlockInv, BlockFrame
  PROVE  BlockInv'
<1> DEFINE b == block
           j == b.done + 1
           e == <<mem[b.in_l][j], mem[b.in_r][j]>>
           fed == Append(engine.fed, e)
           mem2 == [mem EXCEPT ![b.out_l][j] = Sample("l", fed), ![b.out_r][j] = Sample("r", fed)]
<1>1. /\ block # Idle /\ b.done < b.frames /\ UNCHANGED handle
      /\ engine' = [engine EXCEPT !.fed = fed]
      /\ mem' = mem2
      /\ block' = [block EXCEPT !.done = j]
  BY DEF BlockFrame, Between
<1>2. /\ handle = "live" /\ block \in Blocks /\ b.done <= b.frames
      /\ engine.fed = b.before \o InputOf(b, b.done)
      /\ DOMAIN mem = Bufs
      /\ \A c \in Bufs : /\ DOMAIN mem[c] = 1 .. b.frames
                         /\ \A k \in j .. b.frames : mem[c][k] = <<c, k>>
      /\ BlockIsFrames
  BY <1>1 DEF BlockInv
<1>3. /\ b.done \in Nat /\ b.frames \in Nat /\ j \in Nat /\ j \in 1 .. b.frames
      /\ b.in_l \in Bufs /\ b.in_r \in Bufs /\ b.out_l \in Bufs /\ b.out_r \in Bufs
  BY <1>1, <1>2 DEF Blocks
<1>4. /\ block' \in Blocks /\ block'.done = j /\ block'.frames = b.frames
      /\ block'.before = b.before /\ block'.in_l = b.in_l /\ block'.in_r = b.in_r
      /\ block'.out_l = b.out_l /\ block'.out_r = b.out_r
  BY <1>1, <1>2, <1>3 DEF Blocks
<1>5. fed = b.before \o InputOf(b, j) /\ fed \in Seq(Events)
  <2>1. e = <<<<b.in_l, j>>, <<b.in_r, j>>>>
    BY <1>2, <1>3
  <2>2. Append(b.before \o InputOf(b, b.done), <<<<b.in_l, j>>, <<b.in_r, j>>>>)
          = b.before \o InputOf(b, j)
    BY <1>2, <1>3, InputGrows
  <2>3. InputOf(b, j) \in Seq(Events) /\ b.before \in Seq(Events)
    BY <1>2, <1>3, InputGrows DEF Blocks
  <2>4. b.before \o InputOf(b, j) \in Seq(Events)
    BY <2>3, ConcatProperties
  <2> QED BY <1>2, <2>1, <2>2, <2>4
<1>6. engine'.fed = fed
  <2>1. "fed" \in DOMAIN engine
    BY <1>2 DEF FfiInv, EngineShape
  <2> QED BY <1>1, <2>1
<1> HIDE DEF fed, e
<1>7. /\ DOMAIN mem2 = Bufs
      /\ \A c \in Bufs : /\ DOMAIN mem2[c] = 1 .. b.frames
                         /\ \A k \in 1 .. b.frames : k # j => mem2[c][k] = mem[c][k]
      /\ mem2[b.out_r][j] = Sample("r", fed)
      /\ b.out_l # b.out_r => mem2[b.out_l][j] = Sample("l", fed)
  BY <1>2, <1>3
<1> HIDE DEF mem2
<1>8. \A c \in Bufs : \A k \in j + 1 .. b.frames : mem2[c][k] = <<c, k>>
  <2> TAKE c \in Bufs
  <2> TAKE k \in j + 1 .. b.frames
  <2>1. k \in j .. b.frames /\ k \in 1 .. b.frames /\ k # j
    BY <1>3
  <2> QED BY <1>2, <1>7, <2>1
<1>9. InputOf(block', j) = InputOf(b, j)
  BY <1>4 DEF InputOf
<1> DEFINE Answered(m, n) ==
             /\ m[b.out_r][n] = Sample("r", b.before \o InputOf(b, n))
             /\ b.out_l # b.out_r => m[b.out_l][n] = Sample("l", b.before \o InputOf(b, n))
<1>10. \A n \in 1 .. j : Answered(mem2, n)
  <2> TAKE n \in 1 .. j
  <2>1. CASE n = j
    BY <1>5, <1>7, <2>1
  <2>2. CASE n # j
    <3>1. n \in 1 .. b.done /\ n \in 1 .. b.frames
      BY <1>3, <2>2
    <3>2. Answered(mem, n)
      BY <1>1, <1>2, <3>1 DEF BlockIsFrames, InputOf
    <3> QED BY <1>3, <1>7, <2>2, <3>1, <3>2
  <2> QED BY <2>1, <2>2
<1>11. BlockIsFrames'
  <2>1. \A n \in 1 .. j :
          /\ mem'[b.out_r][n] = Sample("r", b.before \o InputOf(b, n))
          /\ b.out_l # b.out_r => mem'[b.out_l][n] = Sample("l", b.before \o InputOf(b, n))
    BY <1>1, <1>10
  <2> QED BY <1>4, <2>1 DEF BlockIsFrames, InputOf
<1>12. engine'.fed = block'.before \o InputOf(block', block'.done)
  BY <1>4, <1>5, <1>6, <1>9
<1>13. /\ handle' = "live" /\ block'.done <= block'.frames
       /\ DOMAIN mem' = Bufs
       /\ \A c \in Bufs :
            /\ DOMAIN mem'[c] = 1 .. block'.frames
            /\ \A k \in block'.done + 1 .. block'.frames : mem'[c][k] = <<c, k>>
  BY <1>1, <1>2, <1>3, <1>4, <1>7, <1>8
<1> QED BY <1>4, <1>5, <1>6, <1>11, <1>12, <1>13 DEF BlockInv

LEMMA BlockStarts ==
  ASSUME FfiInv, BlockInv, NEW in_l \in Bufs, NEW in_r \in Bufs, NEW out_l \in Bufs,
         NEW out_r \in Bufs, NEW frames \in Frames, ProcessBlock(in_l, in_r, out_l, out_r, frames)
  PROVE  BlockInv'
<1>1. /\ handle = "live" /\ UNCHANGED <<handle, engine>>
      /\ block' = [in_l |-> in_l, in_r |-> in_r, out_l |-> out_l, out_r |-> out_r,
                   frames |-> frames, done |-> 0, before |-> engine.fed]
      /\ mem' = [b \in Bufs |-> [j \in 1 .. frames |-> <<b, j>>]]
  BY DEF ProcessBlock, Live
<1>2. engine.fed \in Seq(Events) /\ frames \in Nat
  BY <1>1, BlockAssumption DEF BlockInv, BlockAssumption
<1>3. block' \in Blocks /\ block'.done = 0 /\ block'.frames = frames /\ block'.before = engine.fed
  BY <1>1, <1>2 DEF Blocks
<1>4. engine.fed = engine.fed \o InputOf(block', 0)
  <2>1. InputOf(block', 0) = <<>>
    BY DEF InputOf
  <2> QED BY <1>2, <2>1, ConcatEmptySeq
<1>5. BlockIsFrames'
  BY <1>3 DEF BlockIsFrames
<1> QED BY <1>1, <1>2, <1>3, <1>4, <1>5 DEF BlockInv

LEMMA BlockStep == FfiInv /\ FfiInv' /\ BlockInv /\ [Next]_vars => BlockInv'
<1> SUFFICES ASSUME FfiInv, FfiInv', BlockInv, [Next]_vars PROVE BlockInv'
  OBVIOUS
<1>1. ASSUME Call, UNCHANGED <<handle, engine, block>> PROVE BlockInv'
  BY <1>1, FedStays DEF Call, BlockInv
<1>3. handle = "live" => /\ {"kind", "chip", "fed"} \subseteq DOMAIN engine
                         /\ engine.kind = "hosted" => "chip_rate" \in DOMAIN engine
  BY DEF FfiInv, EngineShape
<1>4. ASSUME NEW rate \in HostRates, Create(rate) PROVE BlockInv'
  <2>1. /\ block' = Idle
        /\ handle' = "live" => engine' = Native \/ engine' = Hosted(rate)
    BY <1>4 DEF Create, Call
  <2>2. Native.fed = <<>> /\ Hosted(rate).fed = <<>> /\ <<>> \in Seq(Events)
    BY DEF Native, Hosted
  <2> QED BY <2>1, <2>2, FedStays
<1>5. CASE Destroy
  BY <1>5, FedStays DEF Destroy, Call
<1>6. ASSUME NEW op, NullArgument(op) PROVE BlockInv'
  BY <1>1, <1>6 DEF NullArgument
<1>7. ASSUME NEW op, NEW why, Live, Refuse(op, why) PROVE BlockInv'
  BY <1>1, <1>7 DEF Refuse, Live
<1>8. ASSUME NEW op, NEW p, Live, Done(op, Loaded(p)) PROVE BlockInv'
  <2>1. engine'.fed = Append(engine.fed, "load")
    BY <1>3, <1>8 DEF Done, Loaded, Live
  <2> QED BY <1>8, <2>1, FedAdded DEF Done, Live, Call, Events
<1>9. ASSUME NEW len, NEW index, LoadBank(len, index) PROVE BlockInv'
  BY <1>7, <1>8, <1>9 DEF LoadBank
<1>10. ASSUME NEW source, LoadAsm(source) PROVE BlockInv'
  BY <1>7, <1>8, <1>10 DEF LoadAsm
<1>11. ASSUME NEW op, Live, NEW e, Done(op, e), e.fed = engine.fed PROVE BlockInv'
  BY <1>11, FedAdded DEF Done, Live, Call, Events
<1>12. ASSUME NEW pot, NEW level, SetPot(pot, level) PROVE BlockInv'
  <2>1. (IF pot \in Pots THEN [engine EXCEPT !.chip.pots[pot] = level] ELSE engine).fed = engine.fed
    OBVIOUS
  <2> QED BY <1>11, <1>12, <2>1 DEF SetPot
<1>13. ASSUME NEW on, SetDelayQuantization(on) PROVE BlockInv'
  <2>1. [engine EXCEPT !.chip.quantize = on].fed = engine.fed
    OBVIOUS
  <2> QED BY <1>11, <1>13, <2>1 DEF SetDelayQuantization
<1>14. ASSUME NEW on, SetClearDelayOnLoad(on) PROVE BlockInv'
  <2>1. [engine EXCEPT !.chip.clear = on].fed = engine.fed
    OBVIOUS
  <2> QED BY <1>11, <1>14, <2>1 DEF SetClearDelayOnLoad
<1>15. ASSUME NEW on, NEW seed, SetAdcNoise(on, seed) PROVE BlockInv'
  <2>1. [engine EXCEPT !.chip.dither = <<on, seed>>].fed = engine.fed
    OBVIOUS
  <2> QED BY <1>11, <1>15, <2>1 DEF SetAdcNoise
<1>16. ASSUME NEW op \in {"reset", "randomize_delay_ram", "randomize_registers"}, Feed(op)
       PROVE  BlockInv'
  <2>1. engine'.fed = Append(engine.fed, op) /\ op \in Events
    BY <1>3, <1>16 DEF Feed, Done, Live, Events
  <2> QED BY <1>16, <2>1, FedAdded DEF Feed, Done, Live, Call
<1>17. ASSUME NEW rate \in ChipRates, SetChipRate(rate) PROVE BlockInv'
  <2>1. ASSUME engine.kind = "hosted", Done("set_chip_rate", Retuned(rate)) PROVE BlockInv'
    <3>1. engine'.fed = Append(engine.fed, <<"tune", rate>>) /\ <<"tune", rate>> \in Events
      BY <1>3, <1>17, <2>1 DEF SetChipRate, Done, Live, Retuned, Events
    <3> QED BY <1>17, <2>1, <3>1, FedAdded DEF SetChipRate, Done, Live, Call
  <2> QED BY <1>7, <1>17, <2>1 DEF SetChipRate
<1>18. CASE Process
  <2>1. engine'.fed = Append(engine.fed, <<"l", "r">>) /\ <<"l", "r">> \in Events
    BY <1>3, <1>18 DEF Process, Done, Live, Events
  <2> QED BY <1>18, <2>1, FedAdded DEF Process, Done, Live, Call
<1>19. ASSUME NEW in_l \in Bufs, NEW in_r \in Bufs, NEW out_l \in Bufs, NEW out_r \in Bufs,
              NEW frames \in Frames, ProcessBlock(in_l, in_r, out_l, out_r, frames)
       PROVE  BlockInv'
  BY <1>19, BlockStarts
<1>20. CASE BlockFrame
  BY <1>20, BlockFrameInv
<1>21. CASE BlockReturn
  BY <1>21, FedStays DEF BlockReturn, BlockInv
<1>22. ASSUME NEW source, NEW cap, Assemble(source, cap) PROVE BlockInv'
  BY <1>1, <1>22 DEF Assemble
<1>23. CASE UNCHANGED vars
  BY <1>23 DEF vars, BlockInv, BlockIsFrames
<1> QED BY <1>4, <1>5, <1>6, <1>9, <1>10, <1>12, <1>13, <1>14, <1>15, <1>16, <1>17, <1>18,
           <1>19, <1>20, <1>21, <1>22, <1>23 DEF Next

\* A block answers as single calls would, for any number of frames and of
\* buffers, whichever of its four arguments are the same buffer.
THEOREM BlocksAreFrames == Spec => []BlockIsFrames
<1>1. Init => BlockInv
  BY DEF Init, BlockInv, BlockIsFrames
<1>2. BlockInv => BlockIsFrames
  BY DEF BlockInv
<1> QED BY <1>1, <1>2, FfiInit, FfiStep, BlockStep, PTL DEF Spec
=============================================================================
