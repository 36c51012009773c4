----------------------------- MODULE Resampler -----------------------------
(***************************************************************************)
(* What push and pull do to a StreamResampler (src/src/resampler.rs).      *)
(*                                                                         *)
(* A frame is its absolute input index; what the kernel weights it with is *)
(* left out, which frames it weights is kept.  The read position and its   *)
(* step, f64 in the source, are integers in units of 1/Grid input samples: *)
(* a step that is no multiple of 1/Grid is rounded to the nearest one, as  *)
(* an f64 addition rounds to the grid of the position's binade.            *)
(***************************************************************************)
EXTENDS Integers, Sequences

CONSTANTS
  Taps,   \* TAPS, the kernel's length in input frames   32
  Grid    \* positions per input frame

ASSUME TapsAssumption == Taps \in Nat /\ Taps >= 2 /\ Taps % 2 = 0
ASSUME GridAssumption == Grid \in Nat \ {0}

Half == Taps \div 2

\* Silence in place of a frame.
Silent == -1

\* in_rate / out_rate on the grid.
StepOf(in, out) == (2 * in * Grid + out) \div (2 * out)

New(in, out) == [history |-> << >>, base |-> 0, pushed |-> 0,
                 pos |-> 0, step |-> StepOf(in, out)]

\* push: the next input frame joins the history.
Push(r) == [r EXCEPT !.history = Append(r.history, r.pushed), !.pushed = r.pushed + 1]

\* The input index under the kernel's first tap when it stands at pos.
FirstTap(pos) == (pos \div Grid) - (Half - 1)

\* A slip for the mutation runs: a window one frame short of its last tap.
ReadyEarly(r) == FirstTap(r.pos) + Taps - 1 <= r.pushed

\* pull has a frame: the input under the kernel's last tap has been pushed.
Ready(r) == FirstTap(r.pos) + Taps - 1 < r.pushed

\* The frame that pull reads for tap k, and the slice index it reads it at.
SlotOf(r, k) == FirstTap(r.pos) + k - r.base
Heard(r) == [k \in 0 .. Taps - 1 |->
               IF SlotOf(r, k) < 0 THEN Silent ELSE r.history[SlotOf(r, k) + 1]]

\* Slips for the mutation runs: one frame too many is dropped; none is.
MinNeededTight(pos) == IF FirstTap(pos) + 1 > 0 THEN FirstTap(pos) + 1 ELSE 0
MinNeededNever(pos) == 0

\* The first input index a kernel at pos can still reach.
MinNeeded(pos) == IF FirstTap(pos) > 0 THEN FirstTap(pos) ELSE 0

\* A slip for the mutation runs: the drain keeps one frame more.
DrainedShort(h, drop) == IF drop >= Len(h) THEN << >> ELSE SubSeq(h, drop, Len(h))

\* The history from slot `drop` on; all of it may go.
DrainedFrom(h, drop) == IF drop >= Len(h) THEN << >> ELSE SubSeq(h, drop + 1, Len(h))

\* pull with a frame to give: advance, then drop what no kernel will reach.
Pulled(r) ==
  LET pos == r.pos + r.step
      min == MinNeeded(pos)
  IN  IF min > r.base
      THEN [r EXCEPT !.pos = pos, !.base = min,
                     !.history = DrainedFrom(r.history, min - r.base)]
      ELSE [r EXCEPT !.pos = pos]

-----------------------------------------------------------------------------
\* history[i] is absolute input index base + i (the field's comment).
Aligned(r) == \A i \in 1 .. Len(r.history) : r.history[i] = r.base + i - 1

\* The kernel reads the frames around its position and, in place of frames
\* before the first, silence (the comment in pull).
ReadsWindow(r, heard) ==
  heard = [k \in 0 .. Taps - 1 |->
             IF FirstTap(r.pos) + k < 0 THEN Silent ELSE FirstTap(r.pos) + k]
=============================================================================
