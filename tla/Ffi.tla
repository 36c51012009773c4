-------------------------------- MODULE Ffi --------------------------------
(***************************************************************************)
(* The C ABI (src/src/ffi.rs) as one host uses one handle.  A call is one  *)
(* step, a block one step per frame.  The chip keeps here what a host can  *)
(* set and load; its signal path, and the converters', are the sequence    *)
(* `fed` of what has gone into them since the handle was made, which their *)
(* state is a function of (Fv1, HostedFv1).                                *)
(***************************************************************************)
EXTENDS Integers, Sequences

CONSTANTS
  NaN,          \* a rate that is not a number
  HostRates,    \* the rates a host asks for: integers, or NaN
  ChipRates,    \* the chip rates a host asks for: integers, or NaN
  SlotLen,      \* bytes of a program in a bank                  512
  UsizeMax,     \* the largest usize                             2^64 - 1
  BankLens,     \* the lengths of banks a host holds
  Indexes,      \* the slots a host asks for
  Texts,        \* the sources that assemble, each its own program
  Messages,     \* the bytes of each message of spinfv1_assemble
  Caps,         \* the sizes of error buffers
  Bufs,         \* the channel buffers of a host
  Frames,       \* the lengths of blocks
  MaxEvents,    \* bound: how much is fed to one handle
  MaxCalls      \* bound: how many calls a host makes

ASSUME RateAssumption ==
  /\ HostRates \subseteq Int \cup {NaN} /\ ChipRates \subseteq Int \cup {NaN} /\ NaN \notin Int
ASSUME BankAssumption ==
  SlotLen \in Nat \ {0} /\ UsizeMax \in Nat /\ BankLens \subseteq 0 .. UsizeMax /\ Indexes \subseteq Nat
ASSUME ReportAssumption ==
  /\ \A w \in {"null", "utf8", "syntax", "none"} : Messages[w] \in Seq(0 .. 255)
  /\ Messages["none"] = <<>> /\ Caps \subseteq 0 .. UsizeMax
ASSUME BlockAssumption == Frames \subseteq Nat /\ MaxEvents \in Nat /\ MaxCalls \in Nat

ChipRate == 32768       \* CHIP_RATE
MinHostRate == 1000
MaxHostRate == 1000000
MinChipRate == 4096
MaxChipRate == 262144
Pots == 0 .. 2
Space == 32

VARIABLES
  handle,       \* "null" or "live", the host's only pointer
  engine,       \* what the handle owns
  last_error,
  ret,          \* what the last call returned, and to which call
  block,        \* the block being processed, or Idle
  mem           \* the channel buffers

\* asked is what the host takes its engine for, from return codes alone.
VARIABLES asked, calls

vars == <<handle, engine, last_error, ret, block, mem, asked, calls>>

Idle == [frames |-> 0]
NoEngine == [kind |-> "none"]

-----------------------------------------------------------------------------
\* (lo..=hi).contains(&rate): false for NaN.  Its slip, for the mutation runs,
\* asks for what is out of range.
InRangeNegated(rate, lo, hi) == rate = NaN \/ (~(rate < lo) /\ ~(rate > hi))

InRange(rate, lo, hi) == rate # NaN /\ lo <= rate /\ rate <= hi

\* Fv1::new.
NewChip == [program |-> <<"nops">>, pots |-> [p \in Pots |-> 0],
            clear |-> TRUE, quantize |-> TRUE, dither |-> <<FALSE, 1>>]

Native == [kind |-> "native", chip |-> NewChip, fed |-> <<>>]
Hosted(rate) == [kind |-> "hosted", host_rate |-> rate, chip_rate |-> ChipRate,
                 chip |-> NewChip, fed |-> <<>>]

\* The first byte of the slot, or -1: checked_mul, checked_add, get.  Its slip
\* wraps.
SlotAtWrapping(len, index) ==
  LET offset == (index * SlotLen) % (UsizeMax + 1)
  IN  IF offset + SlotLen <= len THEN offset ELSE -1

SlotAt(len, index) ==
  LET offset == index * SlotLen
  IN  IF offset <= UsizeMax /\ offset + SlotLen <= UsizeMax /\ offset + SlotLen <= len
      THEN offset ELSE -1

\* What write_error leaves in a buffer of cap bytes and in as many bytes after
\* it as the message could reach: 256 is a byte not written.  Its slip forgets
\* the terminator's place.
Untouched(msg, cap) == [j \in 0 .. cap + Len(msg) |-> 256]

TakeAll(msg, cap) == IF Len(msg) < cap THEN Len(msg) ELSE cap

TakeOf(msg, cap) == IF Len(msg) < cap - 1 THEN Len(msg) ELSE cap - 1

Written(msg, cap) ==
  LET take == TakeOf(msg, cap)
  IN  IF cap = 0 THEN Untouched(msg, cap)
      ELSE [j \in DOMAIN Untouched(msg, cap) |->
              IF j < take THEN IF msg[j + 1] = 0 THEN Space ELSE msg[j + 1]
              ELSE IF j = take THEN 0 ELSE 256]

\* The two samples the engine answers a frame with, named for what made them.
Sample(side, fed) == <<side, fed>>

-----------------------------------------------------------------------------
Init ==
  /\ handle = "null" /\ engine = NoEngine /\ last_error = "" /\ block = Idle
  /\ ret = [op |-> "start", code |-> "OK"]
  /\ mem = [b \in Bufs |-> <<>>]
  /\ asked = NewChip /\ calls = 0

\* A call may be made: the host is single-threaded.
Call == block = Idle /\ calls < MaxCalls /\ calls' = calls + 1

Create(rate) ==
  /\ Call /\ handle = "null"
  /\ engine' = IF rate = 0 THEN Native
               ELSE IF InRange(rate, MinHostRate, MaxHostRate) THEN Hosted(rate) ELSE NoEngine
  /\ handle' = IF engine' = NoEngine THEN "null" ELSE "live"
  /\ last_error' = "" /\ asked' = NewChip
  /\ ret' = [op |-> "create", code |-> "OK"]
  /\ UNCHANGED <<block, mem>>

Destroy ==
  /\ Call /\ handle = "live" /\ handle' = "null" /\ engine' = NoEngine /\ last_error' = ""
  /\ ret' = [op |-> "destroy", code |-> "OK"] /\ asked' = NewChip
  /\ UNCHANGED <<block, mem>>

\* A null handle, source, bank or buffer.  spinfv1_process has silenced its
\* outputs, if they are not what is null, by the time it looks at the handle.
NullArgument(op) ==
  /\ Call
  /\ \E out \in IF op = "process" THEN {"kept", "silence"} ELSE {"kept"} :
       ret' = [op |-> op, code |-> "ERR_NULL", out |-> out]
  /\ UNCHANGED <<handle, engine, last_error, block, mem, asked>>

\* The two ways a call on a live handle ends.  set_error's slip keeps the
\* first message.
SetErrorOnce(why) == last_error' = IF last_error = "" THEN why ELSE last_error

SetError(why) == last_error' = why

Refuse(op, why) ==
  /\ SetError(why)
  /\ ret' = [op |-> op, code |-> "ERR_PROGRAM"]
  /\ UNCHANGED <<handle, engine, block, mem, asked>>

Done(op, e) ==
  /\ engine' = e /\ Len(e.fed) <= MaxEvents
  /\ ret' = [op |-> op, code |-> "OK"]
  /\ UNCHANGED <<handle, last_error, block, mem>>

Live == Call /\ handle = "live"

\* load_program on the engine's chip; a load is an event of the signal path.
Loaded(p) == [engine EXCEPT !.chip.program = p, !.fed = Append(@, "load")]

\* Program::from_bytes takes each slot: SlotLen is a multiple of 4.
LoadBank(len, index) ==
  /\ Live
  /\ LET offset == SlotAt(len, index)
     IN  \/ offset = -1 /\ Refuse("load_bank", "short")
         \/ /\ offset # -1
            /\ Done("load_bank", Loaded(<<"slot", offset>>))
            /\ asked' = [asked EXCEPT !.program = <<"slot", index * SlotLen>>]

LoadAsm(source) ==
  /\ Live
  /\ \/ source \in {"utf8", "syntax"} /\ Refuse("load_asm", source)
     \/ /\ source \in Texts
        /\ Done("load_asm", Loaded(<<"text", source>>))
        /\ asked' = [asked EXCEPT !.program = <<"text", source>>]

\* A pot out of range is ignored.
SetPot(pot, level) ==
  /\ Live
  /\ Done("set_pot", IF pot \in Pots THEN [engine EXCEPT !.chip.pots[pot] = level] ELSE engine)
  /\ asked' = IF pot \in Pots THEN [asked EXCEPT !.pots[pot] = level] ELSE asked

SetDelayQuantization(on) ==
  /\ Live /\ Done("set_delay_quantization", [engine EXCEPT !.chip.quantize = on])
  /\ asked' = [asked EXCEPT !.quantize = on]

SetClearDelayOnLoad(on) ==
  /\ Live /\ Done("set_clear_delay_on_load", [engine EXCEPT !.chip.clear = on])
  /\ asked' = [asked EXCEPT !.clear = on]

SetAdcNoise(on, seed) ==
  /\ Live /\ Done("set_adc_noise", [engine EXCEPT !.chip.dither = <<on, seed>>])
  /\ asked' = [asked EXCEPT !.dither = <<on, seed>>]

\* reset, randomize_delay_ram, randomize_registers: the signal path only.
Feed(op) == /\ Live /\ Done(op, [engine EXCEPT !.fed = Append(@, op)])
            /\ UNCHANGED asked

\* HostedFv1::set_chip_rate: new converters around the same chip.  Its slip
\* builds the host anew.
RetunedAnew(rate) ==
  [engine EXCEPT !.chip = NewChip, !.chip_rate = rate, !.fed = Append(@, <<"tune", rate>>)]

Retuned(rate) == [engine EXCEPT !.chip_rate = rate, !.fed = Append(@, <<"tune", rate>>)]

\* A slip: the range is checked after the switch.
SetChipRateFirst(rate) ==
  /\ Live
  /\ \/ /\ engine.kind = "native" /\ Refuse("set_chip_rate", "native")
     \/ /\ engine.kind = "hosted" /\ Len(engine.fed) < MaxEvents
        /\ engine' = Retuned(rate)
        /\ last_error' = IF InRange(rate, MinChipRate, MaxChipRate) THEN last_error ELSE "range"
        /\ ret' = [op |-> "set_chip_rate",
                   code |-> IF InRange(rate, MinChipRate, MaxChipRate) THEN "OK" ELSE "ERR_PROGRAM"]
        /\ UNCHANGED <<handle, block, mem, asked>>

SetChipRate(rate) ==
  /\ Live
  /\ \/ ~InRange(rate, MinChipRate, MaxChipRate) /\ Refuse("set_chip_rate", "range")
     \/ /\ InRange(rate, MinChipRate, MaxChipRate) /\ engine.kind = "native"
        /\ Refuse("set_chip_rate", "native")
     \/ /\ InRange(rate, MinChipRate, MaxChipRate) /\ engine.kind = "hosted"
        /\ Done("set_chip_rate", Retuned(rate)) /\ UNCHANGED asked

\* One frame; what it answers is the signal path's.
Process ==
  /\ Live
  /\ LET fed == Append(engine.fed, <<"l", "r">>)
     IN  /\ engine' = [engine EXCEPT !.fed = fed] /\ Len(fed) <= MaxEvents
         /\ ret' = [op |-> "process", code |-> "OK", out |-> <<Sample("l", fed), Sample("r", fed)>>]
  /\ UNCHANGED <<handle, last_error, block, mem, asked>>

\* A block: each buffer starts with the host's input, out may share with in.
ProcessBlock(in_l, in_r, out_l, out_r, frames) ==
  /\ Live /\ Len(engine.fed) + frames <= MaxEvents
  /\ block' = [in_l |-> in_l, in_r |-> in_r, out_l |-> out_l, out_r |-> out_r,
               frames |-> frames, done |-> 0, before |-> engine.fed]
  /\ mem' = [b \in Bufs |-> [j \in 1 .. frames |-> <<b, j>>]]
  /\ UNCHANGED <<handle, engine, last_error, ret, asked>>

Between == UNCHANGED <<handle, last_error, ret, asked, calls>>

\* A slip: the input is copied to the output and processed there.
BlockFrameInPlace ==
  /\ block # Idle /\ block.done < block.frames
  /\ LET j == block.done + 1
         copied == [mem EXCEPT ![block.out_l][j] = mem[block.in_l][j],
                               ![block.out_r][j] = mem[block.in_r][j]]
         fed == Append(engine.fed, <<copied[block.out_l][j], copied[block.out_r][j]>>)
     IN  /\ engine' = [engine EXCEPT !.fed = fed]
         /\ mem' = [copied EXCEPT ![block.out_l][j] = Sample("l", fed), ![block.out_r][j] = Sample("r", fed)]
  /\ block' = [block EXCEPT !.done = @ + 1]
  /\ Between

BlockFrame ==
  /\ block # Idle /\ block.done < block.frames
  /\ LET j == block.done + 1
         fed == Append(engine.fed, <<mem[block.in_l][j], mem[block.in_r][j]>>)
     IN  /\ engine' = [engine EXCEPT !.fed = fed]
         /\ mem' = [mem EXCEPT ![block.out_l][j] = Sample("l", fed), ![block.out_r][j] = Sample("r", fed)]
  /\ block' = [block EXCEPT !.done = @ + 1]
  /\ Between

BlockReturn ==
  /\ block # Idle /\ block.done = block.frames
  /\ block' = Idle /\ mem' = [b \in Bufs |-> <<>>]
  /\ ret' = [op |-> "process_block", code |-> "OK"]
  /\ UNCHANGED <<handle, engine, last_error, asked, calls>>

\* spinfv1_assemble needs no handle: what it writes goes to the caller.
Assemble(source, cap) ==
  /\ Call
  /\ ret' = [op |-> "assemble", cap |-> cap, why |-> IF source \in Texts THEN "none" ELSE source,
             code |-> IF source \in Texts THEN "OK"
                      ELSE IF source = "null" THEN "ERR_NULL" ELSE "ERR_PROGRAM",
             image |-> IF source \in Texts THEN <<"text", source>> ELSE <<>>,
             error |-> Written(Messages[IF source \in Texts THEN "none" ELSE source], cap)]
  /\ UNCHANGED <<handle, engine, last_error, block, mem, asked>>

HandleCalls == {"load_bank", "load_asm", "set_pot", "set_delay_quantization",
  "set_clear_delay_on_load", "set_adc_noise", "randomize_delay_ram", "randomize_registers",
  "reset", "set_chip_rate", "process", "process_block"}

Next ==
  \/ \E rate \in HostRates : Create(rate)
  \/ Destroy
  \/ \E op \in HandleCalls : NullArgument(op)
  \/ \E len \in BankLens, index \in Indexes : LoadBank(len, index)
  \/ \E source \in Texts \cup {"utf8", "syntax"} : LoadAsm(source)
  \/ \E pot \in Pots \cup {3}, level \in {0, 1} : SetPot(pot, level)
  \/ \E on \in BOOLEAN : SetDelayQuantization(on) \/ SetClearDelayOnLoad(on)
  \/ \E on \in BOOLEAN, seed \in {0, 1} : SetAdcNoise(on, seed)
  \/ \E op \in {"reset", "randomize_delay_ram", "randomize_registers"} : Feed(op)
  \/ \E rate \in ChipRates : SetChipRate(rate)
  \/ Process
  \/ \E in_l, in_r, out_l, out_r \in Bufs, frames \in Frames :
       ProcessBlock(in_l, in_r, out_l, out_r, frames)
  \/ BlockFrame \/ BlockReturn
  \/ \E source \in Texts \cup {"null", "utf8", "syntax"}, cap \in Caps : Assemble(source, cap)

Spec == Init /\ [][Next]_vars
-----------------------------------------------------------------------------
\* The converters' ratio is bounded: priming and buffering are finite for
\* every handle a host can get and every retuning it accepts, whatever rates
\* it passed, NaN included (spinfv1_create, spinfv1_set_chip_rate).
EngineRates ==
  engine.kind = "hosted" =>
    /\ engine.host_rate \in MinHostRate .. MaxHostRate
    /\ engine.chip_rate \in MinChipRate .. MaxChipRate

\* The program that runs is the one the last accepted load named: the slot at
\* SlotLen times its index, which no overflow turns into another, and which
\* retuning, settings and refused loads leave in place (spinfv1_load_bank).
LoadedAsAsked == handle = "live" => engine.chip.program = asked.program

\* The pots and switches are those of the host's last accepted calls, also
\* after loads, resets and a switch of the chip rate, which rebuilds what
\* surrounds the chip (spinfv1_set_chip_rate: "Chip state ... is preserved").
SettingsSurvive ==
  handle = "live" =>
    /\ engine.chip.pots = asked.pots /\ engine.chip.clear = asked.clear
    /\ engine.chip.quantize = asked.quantize /\ engine.chip.dither = asked.dither

\* A call that reports an error has not touched the engine: the audio goes on
\* as if it had not been made (all functions that return a code).
RefusedLeavesEngine == [][calls' # calls /\ ret'.code # "OK" => engine' = engine]_vars

\* After a refusal the message is about that call, not an older one
\* (spinfv1_last_error: "The most recent load error message").
Reasons == [load_bank |-> {"short"}, load_asm |-> {"utf8", "syntax"},
            set_chip_rate |-> {"range", "native"}]

ErrorExplains ==
  ret.code = "ERR_PROGRAM" /\ ret.op \in DOMAIN Reasons => last_error \in Reasons[ret.op]

\* Processing in place is sound: whichever of the four buffers are the same,
\* each output answers the frames the host put into its inputs, as single
\* calls of spinfv1_process would (spinfv1_process_block).
BlockIsFrames ==
  block # Idle =>
    \A j \in 1 .. block.done :
      LET fed == block.before \o
                   [k \in 1 .. j |-> <<<<block.in_l, k>>, <<block.in_r, k>>>>]
      IN  /\ mem[block.out_r][j] = Sample("r", fed)
          /\ block.out_l # block.out_r => mem[block.out_l][j] = Sample("l", fed)

\* What spinfv1_assemble writes into a buffer of cap bytes ends in a NUL
\* within it, is a prefix of the message, the whole of it if it fits, and
\* leaves the bytes after the buffer alone.
ReportFits ==
  ret.op = "assemble" =>
    LET msg == Messages[ret.why]
    IN  /\ \A j \in DOMAIN ret.error : j >= ret.cap => ret.error[j] = 256
        /\ ret.cap > 0 =>
             \E n \in 0 .. ret.cap - 1 :
               /\ ret.error[n] = 0
               /\ n = Len(msg) \/ (n < Len(msg) /\ n = ret.cap - 1)
               /\ \A j \in 0 .. n - 1 : ret.error[j] \in {msg[j + 1], Space} \ {0}
=============================================================================
