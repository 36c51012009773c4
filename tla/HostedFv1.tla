----------------------------- MODULE HostedFv1 -----------------------------
(***************************************************************************)
(* The chip behind a host-rate stream (HostedFv1, src/src/resampler.rs):   *)
(* each host frame goes into the down-converter, every chip frame that     *)
(* yields is run through the chip and into the up-converter, and one host  *)
(* frame is pulled from that.                                              *)
(*                                                                         *)
(* step() is FeedSilence or Process, then RunChip as often as the down-    *)
(* converter has a frame, then DownDry, then one of the actions on the up- *)
(* converter.  The loop that primes a new pair of converters repeats it.   *)
(* The chip is the count of frames it has run: its own state is Fv1's.     *)
(***************************************************************************)
EXTENDS Resampler

CONSTANTS
  HostRates,   \* the sample rates a host may run at
  ChipRates,   \* the chip rates a host may choose
  MaxFed       \* host frames fed to one pair of converters

ASSUME RateAssumption ==
  /\ HostRates \subseteq Nat \ {0} /\ HostRates # {}
  /\ ChipRates \subseteq Nat \ {0} /\ ChipRates # {}
ASSUME MaxFedAssumption == MaxFed \in Nat

VARIABLES
  mode,        \* "prime": in the priming loop; "process": in a call; "idle"
  at,          \* inside step(): "start", "down" (its loop), "up" (its last line)
  down, up,    \* the converters
  chip,        \* frames the chip has run through these converters
  latency,
  host_rate, chip_rate,
  pulled,      \* host frames the up-converter has given
  dry          \* calls of process that returned silence instead of a frame

hostVars == <<mode, at, down, up, chip, latency, host_rate, chip_rate, pulled, dry>>

-----------------------------------------------------------------------------
\* with_chip_rate, up to its priming loop.
Init ==
  /\ host_rate \in HostRates /\ chip_rate \in ChipRates
  /\ down = New(host_rate, chip_rate)
  /\ up = New(chip_rate, host_rate)
  /\ latency = 0 /\ pulled = 0 /\ chip = 0 /\ dry = 0
  /\ mode = "prime" /\ at = "start"

\* Slips for the mutation runs: the up-converter keeps its old ratio; the
\* latency of the old converters is not forgotten.
RebuildUpNever(rate) == UNCHANGED up
RestartLatencyNever == UNCHANGED latency

RebuildUp(rate) == up' = New(rate, host_rate)
RestartLatency == latency' = 0

\* set_chip_rate, up to its priming loop.
SetChipRate(rate) ==
  /\ mode = "idle" /\ mode' = "prime" /\ at' = "start"
  /\ down' = New(host_rate, rate)
  /\ RebuildUp(rate)
  /\ chip_rate' = rate
  /\ RestartLatency
  /\ chip' = 0 /\ pulled' = 0 /\ dry' = 0
  /\ UNCHANGED host_rate

\* step's first line, from the priming loop and from process.
Feed == /\ at = "start" /\ at' = "down"
        /\ down.pushed < MaxFed
        /\ down' = Push(down)
        /\ UNCHANGED <<up, chip, latency, host_rate, chip_rate, pulled, dry>>

FeedSilence == mode = "prime" /\ Feed /\ UNCHANGED mode

Process == mode = "idle" /\ mode' = "process" /\ Feed

\* Slips for the mutation runs: the loop ends after one chip frame; the
\* chip's output is dropped.
RunChipOnce == /\ at = "down" /\ Ready(down)
               /\ at' = "up"
               /\ down' = Pulled(down) /\ chip' = chip + 1 /\ up' = Push(up)
               /\ UNCHANGED <<mode, latency, host_rate, chip_rate, pulled, dry>>
RunChipDropped == /\ at = "down" /\ Ready(down)
                  /\ down' = Pulled(down) /\ chip' = chip + 1
                  /\ UNCHANGED <<mode, at, up, latency, host_rate, chip_rate, pulled, dry>>

\* The loop of step(): a chip frame is due.
RunChip == /\ at = "down" /\ Ready(down)
           /\ down' = Pulled(down)
           /\ chip' = chip + 1
           /\ up' = Push(up)
           /\ UNCHANGED <<mode, at, latency, host_rate, chip_rate, pulled, dry>>

DownDry == /\ at = "down" /\ ~Ready(down)
           /\ at' = "up"
           /\ UNCHANGED <<mode, down, up, chip, latency, host_rate, chip_rate, pulled, dry>>

\* step() returns a frame; the priming loop ends with it and drops it.
Give == /\ at = "up" /\ Ready(up)
        /\ up' = Pulled(up) /\ pulled' = pulled + 1
        /\ mode' = "idle" /\ at' = "start"
        /\ UNCHANGED <<down, chip, latency, host_rate, chip_rate, dry>>

\* step() returns None: priming goes on.
PrimeOn == /\ at = "up" /\ mode = "prime" /\ ~Ready(up)
           /\ latency' = latency + 1
           /\ at' = "start"
           /\ UNCHANGED <<mode, down, up, chip, host_rate, chip_rate, pulled, dry>>

\* step() returns None: process covers it with silence.
Dry == /\ at = "up" /\ mode = "process" /\ ~Ready(up)
       /\ mode' = "idle" /\ at' = "start"
       /\ dry' = dry + 1
       /\ UNCHANGED <<down, up, chip, latency, host_rate, chip_rate, pulled>>

Work == FeedSilence \/ RunChip \/ DownDry \/ Give \/ PrimeOn \/ Dry

Next == Work \/ Process \/ \E rate \in ChipRates : SetChipRate(rate)

Spec == Init /\ [][Next]_hostVars

\* A call runs to its end; the host need not make another.
FairSpec == Spec /\ WF_hostVars(Work)

-----------------------------------------------------------------------------
TypeOK ==
  /\ mode \in {"prime", "process", "idle"} /\ at \in {"start", "down", "up"}
  /\ {down, up} \subseteq
       [history : Seq(Nat), base : Nat, pushed : Nat, pos : Nat, step : Nat]
  /\ {chip, latency, pulled, dry} \subseteq Nat
  /\ host_rate \in HostRates /\ chip_rate \in ChipRates

\* The comment in process: after priming the up-converter always has a frame,
\* the silence is unreachable.
NeverDry == dry = 0

\* How far the two steps, multiplied, are past one in, one out: what rounding
\* adds to the up-converter's need at each call, in chip frames / Grid.
Drift == down.step * up.step - Grid * Grid

\* What the chip is ahead by when priming ends.
Slack == (latency + 1 - Half) * Grid - Half * down.step

\* Silence is reached only when rounding has used the slack priming left, and
\* priming leaves some: never at steps f64 represents exactly or rounds down,
\* and otherwise after as many calls as the drift goes into the slack.
DryNeedsDrift == dry > 0 => Slack > 0 /\ pulled * Drift >= Grid * Slack

\* latency() is the distance between the host frame a call is given and the
\* host frame it returns, for every call and after every change of the chip
\* rate, less the frames of silence that replaced one: each of those moves
\* the stream one host frame further behind, and nothing else does.
LatencyHolds == mode = "idle" => pulled + latency + dry = down.pushed

\* Both histories hold the frames their bases say.
ConvertersAligned == Aligned(down) /\ Aligned(up)

\* What `new` reserves for a history, 4 * TAPS frames, is all it ever holds:
\* the per-sample path does not allocate (the module's comment).
HistoryReserved == Len(down.history) <= 4 * Taps /\ Len(up.history) <= 4 * Taps

\* Neither history outgrows its reservation at steps f64 represents exactly or
\* rounds up.  Steps that round down leave the up-converter some frames it never
\* gives; every frame past its reservation is one of those, a frame of drift.
HistoryFits ==
  /\ Len(down.history) <= 4 * Taps
  /\ Len(up.history) > 4 * Taps =>
       (Len(up.history) - 4 * Taps) * down.step * Grid < pulled * (-Drift)

\* The chip runs the frames that fit into the host's timeline, no matter how
\* the loop was split over calls: after n host frames its next frame is the
\* first whose kernel needs input the host has not fed.
ChipOnTime ==
  mode = "idle" =>
    /\ chip = up.pushed
    /\ FirstTap(down.pos) + Taps > down.pushed
    /\ chip > 0 => FirstTap(down.pos - down.step) + Taps <= down.pushed

\* Building and retuning end: the priming loop finds a frame.
PrimingEnds == mode = "prime" ~> mode = "idle"
=============================================================================
