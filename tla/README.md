# Verification of spinfv1

TLA+ models of the FV-1 audio DSP emulator in this repository. TLC checks them
on small instances; TLAPS proves the central results for every value of the
constants. Paths below are relative to the repository (`src/` is its root as
mounted here, so the virtual machine is `src/src/vm.rs`).

## 1. The system

| Part | Source | State | Operations |
|---|---|---|---|
| Virtual machine | `src/src/vm.rs` | program, delay RAM and its base pointer, 64 registers, ACC / PACC / the ACC before, LR, first-run flag, four LFOs, pots, settings, noise generator | `load_program`, `reset`, `randomize_*`, `set_*`, `process` / `process_raw` (25 instructions, then the end of the pass) |
| LFOs | `src/src/lfo.rs` | SIN: two clamped registers; RMP: a phase | `tick`, `jam`, `value`, `cho` |
| Fixed point | `src/src/fixed.rs` | none | saturation, sign extension, three truncating multipliers |
| Resampler | `src/src/resampler.rs` | frame history, base index, frames pushed, fractional position | `push`, `pull` |
| Hosted chip | `src/src/resampler.rs` | a chip, a down- and an up-converter, latency, rates | `with_chip_rate`, `set_chip_rate`, `process` |
| Program, codec | `src/src/program.rs`, `src/src/instruction.rs` | 128 words | `from_*`, `to_bytes`, `decode`, `encode` |
| Assembler | `src/src/asm.rs` | symbol table, end of allocated delay memory, pending instructions | `assemble`: a first pass over lines, a second over instructions |
| C ABI | `src/src/ffi.rs` | a handle: engine and last error | 18 exported functions |
| Math | `src/src/math.rs` | none | `log2`, `exp2`, `sin`, `sqrt`, `floor`, `round` |

How they interact. A host owns an `Fv1`, alone or inside a `HostedFv1`, and
calls it. `load_program` decodes 128 words into instructions; `process` runs
each slot the pass reaches, then moves the delay RAM's base pointer and ticks
the LFOs. Instructions and LFOs communicate through the register file: a
program writes a rate or range register, the LFO reads it at the end of the
pass (rate and range) and at each `CHO` (range). `HostedFv1::process` pushes
one host frame into the down-converter, runs the chip once for each frame that
yields and pulls one host frame from the up-converter. The C ABI wraps either
form of host behind one handle.

There are no threads and no I/O. `process` holds `&mut Fv1`, so host calls
happen between passes and never inside one. What is hard to test here is
sequence and arithmetic: state that one call leaves for a later one (PACC, LR,
the base pointer, the first-run flag, the noise generator), registers that
change under a running oscillator, rounding that adds up over hours, bounds
that only extreme rates reach. `PROJECT.json` lists these hazards by line.

## 2. Modules

| Module | Models | State and actions against the code |
|---|---|---|
| `Fixed` | `fixed.rs`, `compress14` | operators only; a shift by k is a floor division, product or remainder by a constant that stands for 2^k |
| `Lfo` | `lfo.rs` | operators on the state of one oscillator |
| `Fv1` | `vm.rs` | a variable per field of `struct Fv1`, with `phase` and `ic` for the position inside `process_raw`; one action per public call, `StartPass`, one action per instruction, `EndPass` |
| `DelayLine` | the promise of delay RAM | abstract: a line of samples that moves one address per pass. The program is its environment: `ask` is the access it makes next, and the step that follows must grant it, the sample at that address read into `got` or the sample asked for left there |
| `Fv1Audit` | `Fv1` and a history of passes, noise draws and the seed | the properties that need the history, and the refinement to `DelayLine`: LR is `got`, and `Access` reads off the instruction at hand, before the base pointer moves its address, what is asked |
| `MCFv1` | instances of `Fv1Audit` | programs, frames, operators on bits, tables for `LOG` and `EXP` |
| `RampServo` | the predelay servo in the comment on `RampLfo::tick` | the phase and a pot; one pass of the three-instruction idiom |
| `PitchShift`, `MCPitchShift` | the two-pointer shifter in the comment on `RampLfo::crossfade` | phase, rate and window; a pass, a rate write, a jam |
| `Resampler` | `StreamResampler`'s fields, `push`, `pull` | a frame is its input index; positions are integers on a grid |
| `StreamResampler`, `MCStreamResampler` | one converter in any caller's hands | pushes and pulls in any order |
| `HostedFv1` | `HostedFv1` | one action per step of `step` and of the priming loop |
| `Codec` | `decode`, `encode` | operators; a word is the set of its 1 bits, a layout says where each field lies |
| `Program`, `MCProgram` | the program container in a tool's hands | the words and the file last saved; import, save, reload, rebuild, edit. What the program should mean is kept beside them |
| `Expr` | numbers, tokens and expressions of `asm.rs` | operators; a line is a sequence of tokens, a real an exact fraction, an infinity or NaN, an integer wraps at the width of an i64 |
| `Operands` | operand readers, quantizers, the forms of each instruction | tables of operand kinds and fields; `Parse` is one instruction |
| `Asm` | `assemble` | source, row, symbol table, `mem_end`, pending instructions, words; one action per kind of line (label, blank, `EQU`, `MEM`, instruction, error), then `Emit` per instruction and `Finish` |
| `AsmAudit`, `MCAsm` | what a programmer expects of an assembled program | the properties that join source and words, and the texts TLC tries |
| `Ffi`, `MCFfi` | the C ABI | handle, engine, last error and what the last call returned; one action per exported function, a block one action per frame. What the host takes its engine for, from return codes alone, is kept beside them |
| `RampServoProofs`, `PitchShiftProofs`, `Fv1Proofs`, `ResamplerProofs`, `CodecProofs`, `ProgramProofs`, `AsmProofs`, `FfiProofs` | proofs | see section 5 |

Conventions. A definition named `...Wide`, `...Never`, `...Past` and so on,
marked "a slip for the mutation runs", is not used by any specification: it is
the wrong version of its neighbour, and `PROJECT.json` names the property
that must fail when it takes the neighbour's place.

Faithfulness. Each instruction action is the whole match arm with the fetch
before it and the pipeline after it (`Fetched`, `Retire`). Float samples are
the S.23 level they round to, before saturation; pots are clamped as
`set_pot` clamps them. `LOG` and `EXP` take the rounded transcendental
functions as constants `LogOf` and `ExpOf`. The registers the chip leaves
unnamed behave as general-purpose ones and are not listed. The `REG` flag is
accepted and ignored, as in the code. In `Ffi` the signal path of a handle is
the sequence of what was fed to it: `Fv1` and `HostedFv1` say what that does.
A handle is used by one thread and not after it is destroyed, as the header
demands; rates are whole numbers or NaN.

In `Asm` a text is given as the tokens the tokenizer makes of it. Integer
arithmetic wraps as a release build does (a debug build panics there);
`i64::MIN / -1`, which panics in every build, is an expression that fails.
Finite reals are exact fractions, and the instances keep to fractions an f64
holds exactly: rounding and underflow are not modelled. A result past the
largest f64 (`RealMax`) is an infinity, from a literal such as `1e999` or from
an operator, and infinities and NaN go on through the operators, the ranges and
the quantizers as in f64. What `powf` gives through a logarithm, and for a zero
(whose sign is not kept) to a negative power, is the constant `PowF`.
Oscillator and cosine names are in the table of predefined symbols, with the
rules that keep them apart. A line of bare `NOP`s is one pending entry per
`NOP`, as in the code.

## 3. Runs

| Run | Shows | Bounds, and why they are enough |
|---|---|---|
| `fv1_delay` | delay RAM implements `DelayLine`: what each access reads or writes, and where, under `RDA`, `RMPA`, `CHO RDA`, `WRA`, `WRAP`, loads that keep or clear it, resets, power-up noise; the dither depends on the seed and the samples since seeding only | 4 cells (the base pointer turns fully), 5-bit values, three programs, quantized and plain storage; two seeds, six draws and all host settings between. `OneAtATime` keeps the two apart: the generator runs and pots move only with no program loaded and a silent delay, as no instruction writes either |
| `fv1_core` | types; PACC's lag; `SKP RUN`; passes end; ramps inside their window; restarts leave no trace | 12 programs of up to 4 instructions that use every instruction and each skip condition, a skip past the end, ranges shrinking under a phase |
| `ramp_servo` | the servo glides and parks, never wraps | each of 32 phases and 64 pot values; one of them points past the last phase |
| `pitch_shift` | both pointers silent around a wrap | each phase, window and rate of an 11-bit format |
| `stream` | history aligned, window exact, no index out of range | 24 frames, kernel of 4, ratios below, at and above 1 |
| `hosted` | priming ends, output dry only after rounding has used the slack priming left, latency true, chip on time, histories aligned and bounded | 4 host rates by 8 chip rates, some of which round up or down, 120 frames, enough for the drift to reach silence, retuning at any time |
| `program` | meaning survives any order of import, save, reload, rebuild and edit; files faithful; canonical words bit for bit | programs of two words; each of the 32 opcodes with no, each single and all upper bits set, and with each single one missing; lengths a reader refuses; edits of two layouts at the ends of each field. The theorems cover the rest |
| `ffi` | a host's conclusions from return codes are right; in-place blocks; error texts fit; rates bounded | four calls, enough to create, change, refuse or retune, and observe; a 5-bit `usize` in which a slot's offset overflows; NaN and both sides of each bound; each sharing of two buffers; error buffers from 0 bytes up |
| `asm` | blocks apart, skips land, `EQU` by value, instructions kept in order, coefficients nearest (NaN as 0), words decode to what was written, printed programs read back | texts of up to 3 lines of 20 kinds in every order, 5-line texts of jumps and labels, 4-line texts of `MEM`; expressions of every operator and of pairs of operators; each instruction at and past the ends of its operands, with infinities and NaN; the largest real is the largest integer, so that sums, products and quotients overflow. A program of 5 and a skip of 2 are overrun; 26-bit integers hold the products the texts form, and sums and shifts wrap them |
| `hosted_dry` (violation) | rounding steps do make the output run dry | one ratio that rounds up on the grid |
| `hosted_piling` (violation) | steps that round down fill the up-converter's history past its reservation | one ratio, a host frame spanning three chip frames, 40 frames |
| `hosted_misaligned` (violation) | `base` overtakes `pushed` when the step exceeds `TAPS` | host rate over 5 times the chip rate with 4 taps |

The small formats keep the relations the code relies on: `ONE_S23` is twice
the widest ramp window, S.15 rates divide it, the generator's modulus covers a
register. `FormatAssumption` and its siblings state them, and TLC evaluates
them in every run.

Fairness. `fv1_core` assumes that a pass, once begun, is executed to its end:
`process_raw` is a loop the caller cannot interrupt. `hosted` assumes the same
of `step` and the priming loop, and of nothing the host may choose to do.
`ramp_servo` assumes that the host goes on calling `process`.

## 4. What the runs found

* `hosted_misaligned`: `pull` sets `base` beyond the frames pushed when the
  step exceeds `TAPS`. A host at 192 kHz with the chip at 4,096 Hz, both
  accepted by the C ABI, reaches it.
* `hosted_dry`: the comment in `HostedFv1::process` calls silence unreachable
  after priming. With steps that round, errors of the two converters add up
  until the up-converter has no frame. The model's grid is coarse; in f64 it
  takes hours of audio (stepping the positions alone in f64: 9.7 hours for a
  host at 48 kHz with the chip at 32,768 Hz).
* `hosted_piling`: `resampler.rs:17-18` says the per-sample path is
  allocation-free, and the histories are reserved as `4 * TAPS` frames. With
  steps that both round down, errors add up the other way: the chip makes
  frames the up-converter never gives, and its history passes the reservation.
  In f64 that too takes hours (14.0 hours at 48 kHz with the chip at 40 kHz).

Noted while reading, without a run: the documentation of `ChoFlags::REG`
(`instruction.rs:74-78`) and of the `lfo` module says an LFO's value is stable
throughout a pass, and `JAM` (`vm.rs:373`) and writes to range registers
(`vm.rs:455-462`) change it; `instruction.rs:338` ("empty means never
skip") against `vm.rs:355-361`, which skips; `lib.rs:58-60` (full 24-bit
delay by default) against `vm.rs:86`; `resampler.rs:17-18` (no allocation per
sample) also against ratios so large that one host frame fills the reservation
of `4 * TAPS` frames; `ffi.rs:253-255` (the message pointer lives until the next load)
against `spinfv1_set_chip_rate`, which replaces the message;
`instruction.rs:530` (`decode(encode(i)) == i` for every instruction) against
fields wider than their encoding; a load that keeps the delay contents
restarts the base pointer, so the kept tail is read from another address.

Of the assembler: the documentation of `asm.rs` (lines 20-28) calls a
coefficient outside its format's range an error, but `quantize` tests the
rounded value and `math::round` makes 0 of NaN, so `1e999-1e999` is accepted
and stored as 0 (`asm.rs:959`; `CoefficientsNearest` states it); `assemble`
promises an error when `MEM` overflows delay memory (`asm.rs:110-114`), and
`start + size` (`asm.rs:194`) overflows first for a size near `i64::MAX`, a
panic in a debug build and an accepted block with a negative end in a release
build (no text of `asm` has such a size, and `BlocksStayApart` assumes there is
none: `SizesFit`); `i64::MIN / -1` panics in every build (`asm.rs:377`), where
`asm.rs:110-114` promises an error; a `MEM` of all
32768 words is accepted and its end name, one past the memory, is then refused
as an address; a label used in an expression is the index of its instruction,
so `SKP RUN, L+0` is a count and `SKP RUN, L` a distance; a field of 16 bits
decodes to addresses past 32767, which print and are refused on reading back.

## 5. Proofs

* `RampServoProofs` proves for all widths that the servo's phase stays in its
  window (`ServoTypeCorrect`) and that a pass moves it toward the target and
  never past it (`ServoNeverWraps`). The argument is the bound of a truncated
  quotient: it has the sign of the distance and at most its size.
* `PitchShiftProofs` proves `ShiftWrapMuted`. A slide is less than an eighth
  of the narrowest window (`ShiftAssumption`); pointer A wraps only within a
  slide of the ends, where the envelope is 0; pointer B only within a slide of
  the middle, where the envelope is full and its complement 0. The inductive
  invariant is `TypeOK`, for the phase must lie in the window of the moment.

* `Fv1Proofs` proves the machine's `TypeOK` inductive, for every program, host
  and format that `FormatAssumption` allows (`Fv1TypeCorrect`): each action's
  results are saturated or masked before they are stored, and `Retires` shows
  once what all instructions share. From it follow `PaccLags` (with the
  invariant that the ACC before equals ACC between instructions, which the
  pipeline's two assignments keep) and `RampsInWindow`, which
  needs that range registers are in the register file (`RegisterAssumption`).
  That a draw of the noise generator fits its word follows from unfolding its
  recursion (`LcgRunIs`): a recursive function is a CHOOSE, so a function that
  meets the equation is built first (`Iterated`), by least counterexample
  (`Least` and `Induct`, from the library's `WFMin`). `NoiseAlwaysRestarts` is
  proved from `NoiseInv`, which adds that between the four draws of a sample the
  generator is that many steps into it (`NoiseStep`).
* `CodecProofs` proves `DecodeEncode`: fields of one layout are apart from
  each other and from the opcode's bits (`LayoutSound`), so each reads back
  what was put (`FieldBack`) and so does the opcode (`OpBack`). `DecodeTotal`
  says that each word decodes to an instruction `encode` can represent, and
  `EncodeDecode` that a canonical word comes back bit for bit: the opcode's
  bits are those of the table (`OpBits`), and putting what was taken from a
  field restores its bits (`PutTake`). None of them has a hypothesis on the
  word but the one it names.
* `ProgramProofs` adds the container. Its invariant (`ContainerInv`) is kept
  by each action, which gives `ProgramMeaningKept` and `ProgramFileFaithful`
  for programs of any length; `ProgramCanonicalKept` is `EncodeDecode` at each
  slot.
* `Fv1Proofs` also proves that the machine implements `DelayLine`
  (`DelayRamIsALine`): a read gives the sample the line has at the address
  asked for, a write leaves the accumulator, as stored, at that address and
  nowhere else, every other instruction leaves line and LR alone, and the end
  of a pass maps to its advance, by arithmetic modulo the size of the memory
  (`ModUnique`, `ModApart`). `RunsOncePerLoad` follows from `FirstInv`: the
  first-run flag is set exactly while no pass has ended. `RestartsFresh` covers
  loads and resets with either value of `clear_delay_on_load`; a load that
  keeps the delay keeps its cells, and they stay readable.
* `ResamplerProofs` proves `HistoryStaysAligned`, `WindowsExact` and
  `PullsNeverPanic` for every order of pushes and pulls. The invariant
  (`ConvInv`): the history is the input from `base` to `pushed`, and `base` is
  the first frame the next kernel needs. It needs `StepsFit`, steps of at most
  `Taps` frames: the condition `hosted_misaligned` shows is not always met.
  For the hosted chip the invariant is `HostedInv`: positions are frames
  pulled times the step (`PosInv`); each frame fed was answered by a host
  frame, a silence or the latency (`FedInv`); the chip has run what the host's
  time has room for (`ClockInv`); priming leaves a positive slack (`SlackInv`),
  and latency and silences are at most what the up-converter lacks (`OverInv`).
  `LatencyAlwaysHolds`, `ChipStaysOnTime` and `DryOnlyAfterDrift` follow for
  every kernel, grid and set of rates, without a hypothesis.
  `DryOnlyAfterDrift` says how soon silence can come: after n frames only if n
  times the drift of the steps reaches the slack. `NeverDryWithoutDrift` is the
  comment's promise under the condition that makes it true (`StepsRoundDown`);
  `hosted_dry` shows it false without.
  `ConvertersStayAligned` needs `RatesFit` (a step down fits the kernel; a step
  up does, or does not round up with it) and `HistoriesStayReserved` also
  `RatesNear` (a host frame spans fewer chip frames than three kernels, the
  rest of the reservation). With 32 taps they hold for host rates up to 32
  times the chip rate and chip rates up to 95 times the host rate, save at
  ratios past 32 whose steps round up; the rates of `MCHosted.cfg` meet
  them. `HistoryFits` is what remains of the promise not to allocate: the down
  history keeps to its reservation, and each frame of the up history past it
  is one that the drift of steps that round down has accumulated
  (`BacklogRounded`, `PastReservation`), so that none is past it where steps
  round up or not at all. `hosted_piling` shows that the promise itself fails.
* `AsmProofs` proves for every text, program length and integer width the
  assembler's types (`AsmTypeCorrect`, with the stronger `TypeInv`); that
  blocks stay apart (`BlocksStayApart`), because the table only grows and each
  block starts at the end of the last, as long as no sum of sizes overflows
  (`SizesFit`); that a skip to a label lands (`SkipsAlwaysLand`), because a
  label counts the instructions of the lines before it (`SkipInv`); and that
  each line with a mnemonic is in the program as often as it asks and in order
  (`InstructionsStay`, from `KeptInv`), because such a line is no directive
  whatever its operands spell (`MnemonicKind`).
  `WordsStayFaithful` ties the assembler to the codec. An operand that is
  accepted lies in the span of its kind (`OperandHeld`); each form of operands,
  with the fields its pseudo-op gives, makes up the layout of its instruction
  (`FormFits`), so a parsed line holds in each field an integer of the field's
  width (`ParseHeld`); the bits of such an integer fit the field, with copies
  of the sign above it (`OnesFit`, in `CodecProofs`); and what the codec encodes from them
  decodes to the same instruction (`DecodeEncode`) in the form SpinASM writes
  (`EncodeCanonical`). Besides `SkipInv` it needs `NamedInv`, that a pending
  line starts with a name. `QuantizeNearest` is about the operator: each number
  a coefficient's field accepts is stored within half a step, or as the largest
  value if it is the bound just past it, no infinity is accepted (`FiniteOrNaN`)
  and NaN is stored as 0 (`NaNIsZero`). `CoefficientsStayNearest` carries it
  to every operand of a program, for which the operand must be a number.
  `EvalGivesNumbers` says so: `Eval` reads a table of what stands at each
  level, position and value gathered, which exists because a place is read only
  from places of lower rank (`ReadingGood`, `TableExists`, by the induction at
  the head of `CodecProofs`), and holds numbers because each operator gives numbers
  (`ApplyNum`) and the symbols are numbers (`NumbersInv`), infinities and NaN
  among them. What is left as a hypothesis is `OperatorsGiveNumbers`: the three
  bitwise operators give integers, and `PowF` an f64 of any kind.
  `EvalMeans` says what `Eval` computes: it accepts exactly the expressions that
  have a meaning, and gives that. The code climbs precedence levels from the
  left; `Meaning` (`AsmAudit`) parts a stretch of tokens at its outermost
  operator, the one between two operands, outside all brackets, that binds
  last. Each direction is an induction of its own. What is read from a place is
  an operand of the level, balanced and with no looser operator, whose meaning
  is the value (`Reads`, `SoundAt`), by the rank of the place: joining two such
  operands gives one whose outermost operator is the one between them
  (`ReadsAcross`, on `InfixJoined` and `BalancedJoined`). And a stretch with a
  meaning is read to its end at every level its operators allow (`Consumed`),
  by its length and level: it is parted at its outermost operator, its sides
  are shorter and bind at least as tightly (`Parted`, `ConsumedAcross`).
  Grouping is where the two could differ: to the left at levels 1 to 6, to the
  right for `**`, so the last or the first operator of the loosest level is the
  outermost. `EquAlwaysMeans` carries it through the first pass (`EquInv`):
  an `EQU` symbol has the meaning of its expression when it is defined, and
  keeps it by the final table, because the table only grows and an expression
  with a meaning keeps it in a table that has grown (`MeaningGrows`); an `EQU`
  line that fails has no name, a taken one, or no meaning (a failure of the
  second pass is no `EQU` line's: by then every line has been read).
  `PrintingReadsBack` needs the other direction too. What a line assembles to is
  an instruction made of its mnemonic from operands that can be printed
  (`ParseFits`, `Fitted`); printing may pick another mnemonic, and the
  instruction is one of that as well (`ShownFits`, with what each pseudo-op
  stands for in `StandsFor`). An operand of each kind, printed in the spelling of
  its kind, is one or two tokens without a comma whose value is the one printed
  (`OperandBack`): `Eval` on them is read off its table level by level (`EvalOne`,
  `EvalMinus`), and a coefficient, a fraction of its format's 1.0, rounds back
  to itself (`RoundedExact`). The commas between them are where the line is cut
  again (`SplitsMore`, `SplitCuts`), so the operands read are the ones printed
  (`FilledBack`). It uses that an i64 holds every field and that the bitwise or
  with 0 changes nothing (`OperandAssumption`).
* `FfiProofs` proves from one invariant (`FfiInv`: the chip is what the host
  takes it for, and a hosted engine's rates are in range) that rates are
  bounded (`RatesBounded`), that the program is the one asked for whatever the
  width of `usize` (`LoadsAsAsked`) and that settings outlive everything else
  (`SettingsOutlive`); `RefusalsAreInvisible` needs no invariant, and
  `ErrorsExplain` and `ReportsFit` only the call before, the latter for buffers
  of every size a `usize` holds. `BlocksAreFrames`
  needs `BlockInv`: while a block runs, no input frame still to be read has
  been overwritten, whichever of its four buffers are one, and the frames
  written stay as they were.

Only model-checked. Liveness (`PassEnds`, `ServoParks`, `PrimingEnds`):
fairness and ENABLED are out of the prover's reach. Every invariant and every
action property of the passing runs is a theorem.

## 6. Not modelled

The kernel's coefficients and the audio they produce; the digits of
`math.rs`; the characters a token is made of and the wording of errors;
conversions of samples from and to f32; examples, benches and the allocator
shim for static libraries.

## 7. Plan

Done: `Fv1` with `Fv1Audit` and `DelayLine`; the ramp idioms; resampler and
hosted chip; codec and container; assembler; C ABI; the proofs of section 5.
Left: the rounding of reals to f64, in expressions and between binades of the
resampler's position, for which the grid of a run is one binade.
