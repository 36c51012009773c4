-------------------------- MODULE ResamplerProofs ---------------------------
(***************************************************************************)
(* One converter, for every kernel, grid and pair of rates, and any order  *)
(* of pushes and pulls: as long as one pull advances by no more than the   *)
(* kernel's length, the history is aligned, what the kernel hears is what  *)
(* lies under it, and no index leaves the history.  Then the chip between  *)
(* two of them: its clock, its latency, its silences and its buffers.      *)
(***************************************************************************)
EXTENDS StreamResampler, HostedFv1, SequenceTheorems, TLAPS

\* No pair of rates moves the position by more than the kernel's length: the
\* condition under which base cannot overtake the frames pushed.
StepsFit == \A r \in Rates : StepOf(r[1], r[2]) <= Taps * Grid

Converter == [history : Seq(Nat), base : Nat, pushed : Nat, pos : Nat, step : Nat]

\* The history ends at the last frame pushed and starts where the kernel, at
\* the position of the moment, starts or at the first frame of all.
ConvInv(r) == /\ r \in Converter
              /\ Aligned(r)
              /\ r.base = MinNeeded(r.pos)
              /\ r.base + Len(r.history) = r.pushed

-----------------------------------------------------------------------------
(* Positions.                                                              *)

LEMMA Constants ==
  /\ Taps \in Nat /\ Taps >= 2 /\ Grid \in Nat /\ Grid >= 1
  /\ Half \in Nat /\ Half >= 1 /\ Taps = 2 * Half
<1>1. Taps \in Nat /\ Taps >= 2 /\ Taps % 2 = 0 /\ Grid \in Nat \ {0}
  BY TapsAssumption, GridAssumption DEF TapsAssumption, GridAssumption
<1> QED BY <1>1 DEF Half

\* A quotient by a positive number keeps the order of its numerators.
LEMMA QuotientOrder ==
  ASSUME NEW a \in Nat, NEW b \in Nat, NEW c \in Nat, NEW g \in Nat, g >= 1,
         a <= b, b <= a + c * g
  PROVE  /\ a \div g \in Nat /\ b \div g \in Nat
         /\ a \div g <= b \div g /\ b \div g <= a \div g + c
<1> DEFINE x == a \div g
           y == b \div g
<1>1. /\ x \in Int /\ y \in Int
      /\ g * x <= a /\ a < g * (x + 1)
      /\ g * y <= b /\ b < g * (y + 1)
  OBVIOUS
<1> HIDE DEF x, y
<1>2. x >= 0
  <2>1. ASSUME x <= -1 PROVE FALSE
    <3>1. g * (x + 1) <= 0
      BY <1>1, <2>1
    <3> QED BY <3>1, <1>1
  <2> QED BY <2>1, <1>1
<1>3. x <= y
  <2>1. ASSUME y + 1 <= x PROVE FALSE
    <3>1. g * (y + 1) <= g * x
      BY <1>1, <2>1
    <3> QED BY <3>1, <1>1
  <2> QED BY <2>1, <1>1
<1>4. y <= x + c
  <2>1. ASSUME x + c + 1 <= y PROVE FALSE
    <3>1. g * (x + c + 1) <= g * y
      BY <1>1, <2>1
    <3>2. g * (x + c + 1) = g * (x + 1) + c * g
      BY <1>1
    <3> QED BY <3>1, <3>2, <1>1
  <2> QED BY <2>1, <1>1
<1> QED BY <1>1, <1>2, <1>3, <1>4 DEF x, y

\* A step moves the kernel forward.
LEMMA KernelOrder ==
  ASSUME NEW pos \in Nat, NEW step \in Nat
  PROVE  /\ FirstTap(pos) \in Int /\ FirstTap(pos + step) \in Int
         /\ FirstTap(pos) <= FirstTap(pos + step)
<1>1. /\ pos \div Grid \in Nat /\ (pos + step) \div Grid \in Nat
      /\ pos \div Grid <= (pos + step) \div Grid
  <2>1. pos <= pos + step /\ pos + step <= pos + step * Grid /\ pos + step \in Nat
    <3>1. step <= step * Grid
      BY Constants
    <3> QED BY <3>1, Constants
  <2> QED BY <2>1, Constants, QuotientOrder
<1> QED BY <1>1, Constants DEF FirstTap

\* A step of at most the kernel's length moves it by no more.
LEMMA KernelMoves ==
  ASSUME NEW pos \in Nat, NEW step \in Nat, step <= Taps * Grid
  PROVE  /\ FirstTap(pos) \in Int /\ FirstTap(pos + step) \in Int
         /\ FirstTap(pos) <= FirstTap(pos + step)
         /\ FirstTap(pos + step) <= FirstTap(pos) + Taps
<1>1. /\ pos \div Grid \in Nat /\ (pos + step) \div Grid \in Nat
      /\ pos \div Grid <= (pos + step) \div Grid
      /\ (pos + step) \div Grid <= pos \div Grid + Taps
  <2>1. pos <= pos + step /\ pos + step <= pos + Taps * Grid /\ pos + step \in Nat
    BY Constants
  <2> QED BY <2>1, Constants, QuotientOrder
<1> QED BY <1>1, Constants DEF FirstTap

\* The first frame a kernel needs, where it is not before the stream.
LEMMA MinNeededIs ==
  ASSUME NEW pos, FirstTap(pos) \in Int
  PROVE  /\ MinNeeded(pos) \in Nat /\ MinNeeded(pos) >= FirstTap(pos)
         /\ MinNeeded(pos) = 0 \/ MinNeeded(pos) = FirstTap(pos)
BY DEF MinNeeded

-----------------------------------------------------------------------------
(* Operations.                                                             *)

LEMMA StepType ==
  ASSUME NEW in \in Nat \ {0}, NEW out \in Nat \ {0}
  PROVE  StepOf(in, out) \in Nat
<1> DEFINE a == 2 * in * Grid + out
           g == 2 * out
<1>1. a \in Nat /\ g \in Nat /\ g >= 1
  BY Constants
<1> HIDE DEF a, g
<1>2. a \div g \in Nat
  BY <1>1, QuotientOrder
<1> QED BY <1>2 DEF StepOf, a, g

LEMMA NewInv ==
  ASSUME NEW in \in Nat \ {0}, NEW out \in Nat \ {0}
  PROVE  ConvInv(New(in, out)) /\ New(in, out).step = StepOf(in, out)
<1>1. StepOf(in, out) \in Nat
  BY StepType
<1>2. FirstTap(0) \in Int /\ FirstTap(0) <= 0
  BY Constants DEF FirstTap
<1>3. MinNeeded(0) = 0
  BY <1>2 DEF MinNeeded
<1>4. <<>> \in Seq(Nat) /\ Len(<<>>) = 0
  OBVIOUS
<1> QED BY <1>1, <1>3, <1>4 DEF New, ConvInv, Converter, Aligned

\* What a push does to each field.
LEMMA PushIs ==
  ASSUME NEW r \in Converter
  PROVE  /\ Push(r) \in Converter
         /\ Push(r).pushed = r.pushed + 1 /\ Push(r).base = r.base
         /\ Push(r).pos = r.pos /\ Push(r).step = r.step
         /\ Len(Push(r).history) = Len(r.history) + 1
<1>1. r.history \in Seq(Nat) /\ r.pushed \in Nat
  BY DEF Converter
<1> DEFINE h == Append(r.history, r.pushed)
<1>2. h \in Seq(Nat) /\ Len(h) = Len(r.history) + 1
  BY <1>1, AppendProperties
<1> HIDE DEF h
<1>3. Push(r) = [r EXCEPT !.history = h, !.pushed = r.pushed + 1]
  BY DEF Push, h
<1>4. r.pushed + 1 \in Nat /\ Push(r).history = h /\ Push(r).pushed = r.pushed + 1
  BY <1>1, <1>3 DEF Converter
<1> QED BY <1>1, <1>2, <1>3, <1>4 DEF Converter

\* What a pull does to each field but the history and its base.
LEMMA PulledIs ==
  ASSUME NEW r \in Converter
  PROVE  /\ Pulled(r) \in Converter
         /\ Pulled(r).pushed = r.pushed
         /\ Pulled(r).pos = r.pos + r.step /\ Pulled(r).step = r.step
<1> DEFINE pos == r.pos + r.step
           min == MinNeeded(pos)
           h   == DrainedFrom(r.history, min - r.base)
<1>1. /\ r.history \in Seq(Nat) /\ r.pushed \in Nat /\ r.pos \in Nat /\ r.step \in Nat
      /\ r.base \in Nat /\ pos \in Nat
  BY DEF Converter
<1>2. min \in Nat
  BY <1>1, KernelOrder, MinNeededIs
<1>3. ASSUME min > r.base PROVE h \in Seq(Nat)
  <2> DEFINE k == min - r.base
  <2>1. k \in Nat
    BY <1>1, <1>2, <1>3
  <2> HIDE DEF k
  <2>2. ASSUME ~(k >= Len(r.history)) PROVE SubSeq(r.history, k + 1, Len(r.history)) \in Seq(Nat)
    <3>1. \A i \in k + 1 .. Len(r.history) : r.history[i] \in Nat
      BY <1>1, <2>1, <2>2
    <3> QED BY <1>1, <2>1, <3>1, SubSeqProperties
  <2> QED BY <2>2 DEF DrainedFrom, k
<1> HIDE DEF h, min, pos
<1>4. CASE min > r.base
  <2>1. Pulled(r) = [r EXCEPT !.pos = pos, !.base = min, !.history = h]
    BY <1>4 DEF Pulled, pos, min, h
  <2> QED BY <1>1, <1>2, <1>3, <1>4, <2>1 DEF Converter, pos
<1>5. CASE ~(min > r.base)
  <2>1. Pulled(r) = [r EXCEPT !.pos = pos]
    BY <1>5 DEF Pulled, pos, min
  <2> QED BY <1>1, <2>1 DEF Converter, pos
<1> QED BY <1>4, <1>5

LEMMA PushInv == ASSUME NEW r, ConvInv(r) PROVE ConvInv(Push(r))
<1>1. /\ r \in Converter /\ r.history \in Seq(Nat) /\ r.pushed \in Nat /\ r.base \in Nat
      /\ Len(r.history) \in Nat
  BY DEF ConvInv, Converter
<1> DEFINE h == Append(r.history, r.pushed)
<1>2. /\ h \in Seq(Nat) /\ Len(h) = Len(r.history) + 1
      /\ \A i \in 1 .. Len(r.history) : h[i] = r.history[i]
      /\ h[Len(r.history) + 1] = r.pushed
  BY <1>1, AppendProperties
<1> HIDE DEF h
<1>3. /\ Push(r) \in Converter /\ Push(r).history = h /\ Push(r).pushed = r.pushed + 1
      /\ Push(r).base = r.base /\ Push(r).pos = r.pos /\ Push(r).step = r.step
  <2>1. Push(r) = [r EXCEPT !.history = h, !.pushed = r.pushed + 1]
    BY DEF Push, h
  <2>2. r.pushed + 1 \in Nat
    BY <1>1
  <2> QED BY <1>1, <1>2, <2>1, <2>2 DEF Converter
<1>4. r.base + Len(r.history) = r.pushed
  BY DEF ConvInv
<1>5. \A i \in 1 .. Len(h) : h[i] = r.base + i - 1
  <2> TAKE i \in 1 .. Len(h)
  <2>1. CASE i \in 1 .. Len(r.history)
    BY <2>1, <1>2 DEF ConvInv, Aligned
  <2>2. CASE i = Len(r.history) + 1
    BY <2>2, <1>1, <1>2, <1>4
  <2> QED BY <2>1, <2>2, <1>1, <1>2
<1> QED BY <1>1, <1>2, <1>3, <1>4, <1>5 DEF ConvInv, Aligned

\* What the drain leaves, when it drops no more than there is.
LEMMA DrainedIs ==
  ASSUME NEW h \in Seq(Nat), NEW drop \in Nat \ {0}, drop <= Len(h)
  PROVE  /\ DrainedFrom(h, drop) \in Seq(Nat)
         /\ Len(DrainedFrom(h, drop)) = Len(h) - drop
         /\ \A i \in 1 .. Len(h) - drop : DrainedFrom(h, drop)[i] = h[drop + i]
<1> DEFINE Left(s) == /\ s \in Seq(Nat) /\ Len(s) = Len(h) - drop
                      /\ \A i \in 1 .. Len(h) - drop : s[i] = h[drop + i]
<1>1. Len(h) \in Nat /\ drop \in Nat
  OBVIOUS
<1>2. ASSUME drop >= Len(h) PROVE Left(DrainedFrom(h, drop))
  <2>1. DrainedFrom(h, drop) = <<>>
    BY <1>2 DEF DrainedFrom
  <2>2. Len(h) - drop = 0
    BY <1>1, <1>2
  <2>3. \A i \in 1 .. Len(h) - drop : FALSE
    BY <2>2
  <2> QED BY <2>1, <2>2, <2>3
<1>3. ASSUME ~(drop >= Len(h)) PROVE Left(DrainedFrom(h, drop))
  <2>1. DrainedFrom(h, drop) = SubSeq(h, drop + 1, Len(h))
    BY <1>3 DEF DrainedFrom
  <2>2. /\ SubSeq(h, drop + 1, Len(h)) \in Seq(Nat)
        /\ Len(SubSeq(h, drop + 1, Len(h))) = Len(h) - drop
        /\ \A i \in 1 .. Len(h) - drop : SubSeq(h, drop + 1, Len(h))[i] = h[drop + i]
    <3>1. /\ drop + 1 \in Int /\ Len(h) \in Int /\ drop + 1 <= Len(h)
          /\ \A i \in drop + 1 .. Len(h) : h[i] \in Nat
      BY <1>1, <1>3
    <3>2. /\ SubSeq(h, drop + 1, Len(h)) \in Seq(Nat)
          /\ Len(SubSeq(h, drop + 1, Len(h))) = Len(h) - (drop + 1) + 1
          /\ \A i \in 1 .. Len(h) - (drop + 1) + 1 :
               SubSeq(h, drop + 1, Len(h))[i] = h[drop + 1 + i - 1]
      BY <3>1, SubSeqProperties
    <3> QED BY <1>1, <3>2
  <2> QED BY <2>1, <2>2
<1>4. Left(DrainedFrom(h, drop))
  <2> HIDE DEF Left
  <2> QED BY <1>2, <1>3, Zenon
<1> QED BY <1>4

\* The frame the next kernel starts at is one of those pushed, or follows the
\* last of them: what a pull needs for base not to overtake them.
NextInHistory(r) == FirstTap(r.pos + r.step) <= r.pushed

\* It is, when a step is no longer than the kernel.
LEMMA StepInHistory ==
  ASSUME NEW r \in Converter, Ready(r), r.step <= Taps * Grid
  PROVE  NextInHistory(r)
<1>1. /\ r.pushed \in Nat /\ r.pos \in Nat /\ r.step \in Nat /\ r.step <= Taps * Grid
      /\ FirstTap(r.pos) + Taps - 1 < r.pushed
  BY DEF Converter, Ready
<1>2. /\ FirstTap(r.pos) \in Int /\ FirstTap(r.pos + r.step) \in Int
      /\ FirstTap(r.pos + r.step) <= FirstTap(r.pos) + Taps
  BY <1>1, KernelMoves
<1> QED BY <1>1, <1>2, Constants DEF NextInHistory

\* A pull drops only frames the next kernel does not need.
LEMMA PullInv ==
  ASSUME NEW r, ConvInv(r), Ready(r), NextInHistory(r)
  PROVE  ConvInv(Pulled(r))
<1> DEFINE pos == r.pos + r.step
           min == MinNeeded(pos)
           h   == DrainedFrom(r.history, min - r.base)
<1>1. /\ r \in Converter /\ r.history \in Seq(Nat) /\ Len(r.history) \in Nat
      /\ r.base \in Nat /\ r.pushed \in Nat /\ r.pos \in Nat /\ r.step \in Nat
      /\ r.base = MinNeeded(r.pos) /\ r.base + Len(r.history) = r.pushed
      /\ FirstTap(pos) <= r.pushed
  BY DEF ConvInv, Converter, NextInHistory
<1>2. /\ FirstTap(r.pos) \in Int /\ FirstTap(pos) \in Int
      /\ FirstTap(r.pos) <= FirstTap(pos)
  BY <1>1, KernelOrder
<1>3. pos \in Nat
  BY <1>1
<1> HIDE DEF pos
<1>4. min \in Nat /\ (min = 0 \/ min = FirstTap(pos)) /\ min >= FirstTap(pos)
  BY <1>2, MinNeededIs
<1>5. r.base = 0 \/ r.base = FirstTap(r.pos)
  BY <1>1, <1>2, MinNeededIs
<1>6. r.base <= min /\ min <= r.pushed
  BY <1>1, <1>2, <1>4, <1>5
<1> HIDE DEF min
<1>7. CASE min > r.base
  <2>1. Pulled(r) = [r EXCEPT !.pos = pos, !.base = min, !.history = h]
    BY <1>7 DEF Pulled, pos, min
  <2>2. min - r.base \in Nat \ {0} /\ min - r.base <= Len(r.history)
    BY <1>1, <1>4, <1>6, <1>7
  <2>3. /\ h \in Seq(Nat) /\ Len(h) = Len(r.history) - (min - r.base)
        /\ \A i \in 1 .. Len(h) : h[i] = r.history[(min - r.base) + i]
    BY <1>1, <2>2, DrainedIs
  <2> HIDE DEF h
  <2>4. /\ Pulled(r) \in Converter /\ Pulled(r).history = h /\ Pulled(r).base = min
        /\ Pulled(r).pos = pos /\ Pulled(r).step = r.step /\ Pulled(r).pushed = r.pushed
    BY <1>1, <1>3, <1>4, <2>1, <2>3 DEF Converter
  <2>5. \A i \in 1 .. Len(h) : h[i] = min + i - 1
    <3> TAKE i \in 1 .. Len(h)
    <3>1. (min - r.base) + i \in 1 .. Len(r.history)
      <4>1. /\ i \in Int /\ 1 <= i /\ i <= Len(r.history) - (min - r.base)
            /\ min - r.base \in Nat /\ Len(r.history) \in Nat
        BY <1>1, <2>2, <2>3
      <4> QED BY <4>1
    <3>2. r.history[(min - r.base) + i] = r.base + ((min - r.base) + i) - 1
      BY <3>1 DEF ConvInv, Aligned
    <3>3. h[i] = r.history[(min - r.base) + i]
      BY <2>3
    <3>4. min \in Int /\ r.base \in Int /\ i \in Int
      BY <1>1, <1>4
    <3>5. r.base + ((min - r.base) + i) - 1 = min + i - 1
      BY <3>4
    <3> QED BY <3>2, <3>3, <3>5
  <2>6. min + Len(h) = r.pushed
    BY <1>1, <1>4, <2>3
  <2> QED BY <1>1, <2>4, <2>5, <2>6 DEF ConvInv, Aligned, min
<1>8. CASE ~(min > r.base)
  <2>1. Pulled(r) = [r EXCEPT !.pos = pos]
    BY <1>8 DEF Pulled, pos, min
  <2>2. min = r.base
    BY <1>1, <1>4, <1>6, <1>8
  <2>3. /\ Pulled(r) \in Converter /\ Pulled(r).history = r.history
        /\ Pulled(r).base = r.base /\ Pulled(r).pos = pos /\ Pulled(r).step = r.step
        /\ Pulled(r).pushed = r.pushed
    BY <1>1, <1>3, <2>1 DEF Converter
  <2> QED BY <1>1, <2>2, <2>3 DEF ConvInv, Aligned, min
<1> QED BY <1>7, <1>8

\* The kernel hears what lies under it.
LEMMA HeardIs == ASSUME NEW r, ConvInv(r), Ready(r) PROVE ReadsWindow(r, Heard(r))
<1>1. /\ r.history \in Seq(Nat) /\ Len(r.history) \in Nat
      /\ r.base \in Nat /\ r.pushed \in Nat /\ r.pos \in Nat
      /\ r.base = MinNeeded(r.pos) /\ r.base + Len(r.history) = r.pushed
      /\ FirstTap(r.pos) + Taps - 1 < r.pushed
  BY DEF ConvInv, Converter, Ready
<1>2. FirstTap(r.pos) \in Int
  <2>1. 0 <= Taps * Grid /\ 0 \in Nat
    BY Constants
  <2> QED BY <1>1, <2>1, KernelMoves
<1>3. r.base = 0 \/ r.base = FirstTap(r.pos)
  BY <1>1, <1>2, MinNeededIs
<1>4. r.base >= FirstTap(r.pos)
  BY <1>1, <1>2, MinNeededIs
<1>5. \A k \in 0 .. Taps - 1 :
        (IF SlotOf(r, k) < 0 THEN Silent ELSE r.history[SlotOf(r, k) + 1])
          = (IF FirstTap(r.pos) + k < 0 THEN Silent ELSE FirstTap(r.pos) + k)
  <2> TAKE k \in 0 .. Taps - 1
  <2>1. k \in Nat /\ k <= Taps - 1 /\ Taps \in Nat
    BY Constants
  <2>2. SlotOf(r, k) = FirstTap(r.pos) + k - r.base
    BY DEF SlotOf
  <2>3. SlotOf(r, k) < 0 <=> FirstTap(r.pos) + k < 0
    BY <1>1, <1>2, <1>3, <2>1, <2>2
  <2>4. ASSUME ~(SlotOf(r, k) < 0)
        PROVE  r.history[SlotOf(r, k) + 1] = FirstTap(r.pos) + k
    <3>1. SlotOf(r, k) + 1 \in 1 .. Len(r.history)
      BY <1>1, <1>2, <2>1, <2>2, <2>4
    <3>2. r.history[SlotOf(r, k) + 1] = r.base + (SlotOf(r, k) + 1) - 1
      BY <3>1 DEF ConvInv, Aligned
    <3>3. r.base + (SlotOf(r, k) + 1) - 1 = FirstTap(r.pos) + k
      <4>1. r.base \in Int /\ FirstTap(r.pos) \in Int /\ k \in Int
        BY <1>1, <1>2, <2>1
      <4> QED BY <4>1, <2>2
    <3> QED BY <3>2, <3>3
  <2> QED BY <2>3, <2>4
<1> QED BY <1>5 DEF ReadsWindow, Heard

-----------------------------------------------------------------------------
(* The converter in any caller's hands.                                    *)

StreamInv == /\ ConvInv(conv)
             /\ conv.step <= Taps * Grid
             /\ heard # NotYet =>
                  heard = [k \in 0 .. Taps - 1 |->
                             IF FirstTap(heard_at) + k < 0 THEN Silent ELSE FirstTap(heard_at) + k]

LEMMA ConvStarts == ASSUME StepsFit, StreamInit PROVE StreamInv
<1>1. PICK p \in Rates : conv = New(p[1], p[2])
  BY DEF StreamInit
<1>2. p[1] \in Nat \ {0} /\ p[2] \in Nat \ {0} /\ StepOf(p[1], p[2]) <= Taps * Grid
  BY RatesAssumption DEF RatesAssumption, StepsFit
<1> QED BY <1>1, <1>2, NewInv DEF StreamInit, StreamInv

LEMMA ConvSteps == ASSUME StreamInv, [StreamNext]_convVars PROVE StreamInv'
<1>1. CASE PushFrame
  <2>1. conv \in Converter
    BY DEF StreamInv, ConvInv
  <2> QED BY <1>1, <2>1, PushInv, PushIs DEF PushFrame, StreamInv
<1>2. CASE PullFrame
  <2>1. ConvInv(conv') /\ conv'.step = conv.step
    <3>1. conv \in Converter
      BY DEF StreamInv, ConvInv
    <3>2. NextInHistory(conv)
      BY <1>2, <3>1, StepInHistory DEF PullFrame, StreamInv
    <3> QED BY <1>2, <3>1, <3>2, PullInv, PulledIs DEF PullFrame, StreamInv
  <2>2. ReadsWindow(conv, heard') /\ heard_at' = conv.pos
    BY <1>2, HeardIs DEF PullFrame, StreamInv
  <2> QED BY <2>1, <2>2 DEF StreamInv, ReadsWindow
<1>3. CASE UNCHANGED convVars
  BY <1>3 DEF convVars, StreamInv
<1> QED BY <1>1, <1>2, <1>3 DEF StreamNext

\* With steps of at most Taps frames a converter stays sound.
LEMMA StreamAlways == StreamSpec /\ StepsFit => []StreamInv
<1>1. StreamInit /\ StepsFit => StreamInv
  BY ConvStarts
<1>2. StreamInv /\ [StreamNext]_convVars => StreamInv'
  BY ConvSteps
<1> QED BY <1>1, <1>2, PTL DEF StreamSpec

\* Every frame of the history is the one its index stands for, after any
\* sequence of pushes and pulls, as the field's comment says.
THEOREM HistoryStaysAligned == StreamSpec /\ StepsFit => []HistoryAligned
<1>1. StreamInv => HistoryAligned
  BY DEF StreamInv, ConvInv, HistoryAligned
<1> QED BY <1>1, StreamAlways, PTL

\* What a pull returns is made from the frames around its position, silence
\* standing in for those before the first, as the comment in pull says.
THEOREM WindowsExact == StreamSpec /\ StepsFit => []WindowExact
<1>1. ASSUME StreamInv PROVE WindowExact
  <2>1. conv \in Converter
    BY <1>1 DEF StreamInv, ConvInv
  <2>2. [conv EXCEPT !.pos = heard_at].pos = heard_at
    BY <2>1 DEF Converter
  <2> QED BY <1>1, <2>2 DEF StreamInv, WindowExact, ReadsWindow
<1> QED BY <1>1, StreamAlways, PTL

\* No index pull computes lies past the history's end.
THEOREM PullsNeverPanic == StreamSpec /\ StepsFit => []NoPanic
<1>1. ASSUME StreamInv, Ready(conv), NEW k \in 0 .. Taps - 1
      PROVE  SlotOf(conv, k) < Len(conv.history)
  <2>1. /\ conv.base \in Nat /\ conv.pushed \in Nat /\ conv.pos \in Nat
        /\ Len(conv.history) \in Nat /\ conv.base + Len(conv.history) = conv.pushed
        /\ FirstTap(conv.pos) + Taps - 1 < conv.pushed
    BY <1>1 DEF StreamInv, ConvInv, Converter, Ready
  <2>2. FirstTap(conv.pos) \in Int
    <3>1. 0 <= Taps * Grid /\ 0 \in Nat
      BY Constants
    <3> QED BY <2>1, <3>1, KernelMoves
  <2>3. k \in Nat /\ k <= Taps - 1 /\ Taps \in Nat
    BY Constants
  <2> QED BY <2>1, <2>2, <2>3 DEF SlotOf
<1>2. StreamInv => NoPanic
  BY <1>1 DEF NoPanic
<1> QED BY <1>2, StreamAlways, PTL

-----------------------------------------------------------------------------
(* The chip behind a host stream.                                          *)

\* How far step() has come: a call is under way unless the host is idle, and
\* priming has given the host nothing.
PhaseInv == /\ TypeOK
            /\ mode = "idle" => at = "start"
            /\ mode = "process" => at # "start"
            /\ mode = "prime" => pulled = 0 /\ dry = 0

\* The converters' positions, by what has been pulled from each.
PosInv == /\ down.step = StepOf(host_rate, chip_rate)
          /\ up.step = StepOf(chip_rate, host_rate)
          /\ down.pos = chip * down.step /\ up.pos = pulled * up.step
          /\ up.pushed = chip

\* Each frame fed was answered by a host frame, a silence, or the latency's
\* silence, save the one step() has in hand.
FedInv == pulled + latency + dry + (IF at = "start" THEN 0 ELSE 1) = down.pushed

\* The chip has run the frames the host's time had room for, and outside the
\* loop all of them.
ClockInv == /\ at # "down" => chip * down.step >= (down.pushed - Half) * Grid
            /\ chip > 0 => (chip - 1) * down.step < (down.pushed - Half) * Grid

\* Priming left the chip ahead; only drift uses that up.
SlackInv == /\ mode # "prime" => Slack > 0
            /\ DryNeedsDrift

\* The latency and the silences are no more than the up-converter's need.
OverInv == ((latency + dry) - Half) * Grid * Grid
             <= Half * Grid * down.step + (IF Drift > 0 THEN pulled * Drift ELSE 0)

HostedInv == PhaseInv /\ PosInv /\ FedInv /\ ClockInv /\ SlackInv /\ OverInv

\* A quotient is below a number when the dividend is below that many divisors.
LEMMA QuotientBelow ==
  ASSUME NEW a \in Nat, NEW m \in Int, NEW g \in Nat, g >= 1
  PROVE  a \div g < m <=> a < m * g
<1> DEFINE x == a \div g
<1>1. x \in Int /\ g * x <= a /\ a < g * (x + 1)
  OBVIOUS
<1> HIDE DEF x
<1>2. ASSUME x < m PROVE a < m * g
  <2>1. g * (x + 1) <= g * m
    BY <1>1, <1>2
  <2> QED BY <1>1, <2>1
<1>3. ASSUME ~(x < m) PROVE ~(a < m * g)
  <2>1. g * m <= g * x
    BY <1>1, <1>3
  <2> QED BY <1>1, <2>1
<1> QED BY <1>2, <1>3 DEF x

\* A converter has a frame when its position is Half frames before the last
\* frame pushed, or earlier.
LEMMA ReadyIs ==
  ASSUME NEW r \in Converter
  PROVE  Ready(r) <=> r.pos < (r.pushed - Half) * Grid
<1>1. r.pos \in Nat /\ r.pushed \in Nat
  BY DEF Converter
<1>2. r.pos \div Grid \in Int
  BY <1>1, Constants
<1>3. Ready(r) <=> r.pos \div Grid < r.pushed - Half
  BY <1>1, <1>2, Constants DEF Ready, FirstTap
<1> QED BY <1>1, <1>3, Constants, QuotientBelow

\* The first host frame comes with chip frames to spare: n of them at P host
\* frames, more than the half kernel the up-converter has to fill.
LEMMA PrimedAhead ==
  ASSUME NEW n \in Nat, NEW P \in Nat, NEW D \in Nat, NEW H \in Nat, NEW G \in Nat,
         n - 1 >= H, (n - 1) * D < (P - H) * G
  PROVE  H * D < (P - H) * G
<1>1. H * D <= (n - 1) * D
  OBVIOUS
<1> QED BY <1>1

\* An up-converter that has run out after k frames, with the chip on time, has
\* drifted by what the latency left.
LEMMA StarvedByDrift ==
  ASSUME NEW n \in Nat, NEW k \in Nat, NEW P \in Nat, NEW D \in Nat, NEW U \in Nat,
         NEW H \in Nat, NEW G \in Nat, k * U >= (n - H) * G, n * D >= (P - H) * G
  PROVE  k * (D * U - G * G) >= G * ((P - k - H) * G - H * D)
<1>1. (k * U) * D >= ((n - H) * G) * D
  OBVIOUS
<1>2. (n * D) * G >= ((P - H) * G) * G
  OBVIOUS
<1>3. k * (D * U - G * G) = (k * U) * D - k * G * G
  OBVIOUS
<1>4. ((n - H) * G) * D = (n * D) * G - H * D * G
  OBVIOUS
<1>5. G * ((P - k - H) * G - H * D) = ((P - H) * G) * G - k * G * G - H * D * G
  OBVIOUS
<1> QED BY <1>1, <1>2, <1>3, <1>4, <1>5

\* A product with a larger factor is larger.
LEMMA TimesOrder ==
  ASSUME NEW a \in Int, NEW b \in Int, NEW c \in Nat, a <= b
  PROVE  a * c <= b * c
OBVIOUS

-----------------------------------------------------------------------------
(* The steps of step().                                                    *)

\* The values the invariant speaks of.
LEMMA HostedTypes ==
  ASSUME PhaseInv
  PROVE  /\ down \in Converter /\ up \in Converter
         /\ down.pushed \in Nat /\ down.pos \in Nat /\ down.step \in Nat
         /\ up.pushed \in Nat /\ up.pos \in Nat /\ up.step \in Nat
         /\ chip \in Nat /\ latency \in Nat /\ pulled \in Nat /\ dry \in Nat
         /\ host_rate \in Nat \ {0} /\ chip_rate \in Nat \ {0}
         /\ Drift \in Int /\ Slack \in Int
<1>1. /\ down \in Converter /\ up \in Converter
      /\ chip \in Nat /\ latency \in Nat /\ pulled \in Nat /\ dry \in Nat
      /\ host_rate \in HostRates /\ chip_rate \in ChipRates
  BY DEF PhaseInv, TypeOK, Converter
<1>2. /\ down.pushed \in Nat /\ down.pos \in Nat /\ down.step \in Nat
      /\ up.pushed \in Nat /\ up.pos \in Nat /\ up.step \in Nat
  BY <1>1 DEF Converter
<1>3. Drift \in Int /\ Slack \in Int
  BY <1>1, <1>2, Constants DEF Drift, Slack
<1> QED BY <1>1, <1>2, <1>3, RateAssumption DEF RateAssumption

\* A pair of converters just built, at the start of priming.
Fresh == /\ mode = "prime" /\ at = "start"
         /\ host_rate \in HostRates /\ chip_rate \in ChipRates
         /\ down = New(host_rate, chip_rate) /\ up = New(chip_rate, host_rate)
         /\ latency = 0 /\ pulled = 0 /\ chip = 0 /\ dry = 0

LEMMA FreshInv == ASSUME Fresh PROVE HostedInv
<1>1. host_rate \in Nat \ {0} /\ chip_rate \in Nat \ {0}
  BY RateAssumption DEF RateAssumption, Fresh
<1>2. /\ down \in Converter /\ up \in Converter
      /\ down.step = StepOf(host_rate, chip_rate) /\ up.step = StepOf(chip_rate, host_rate)
      /\ down.pushed = 0 /\ up.pushed = 0 /\ down.pos = 0 /\ up.pos = 0
  BY <1>1, NewInv DEF Fresh, ConvInv, New
<1>3. PhaseInv
  BY <1>2 DEF Fresh, PhaseInv, TypeOK, Converter
<1>4. down.step \in Nat /\ up.step \in Nat
  BY <1>3, HostedTypes
<1>5. PosInv
  BY <1>2, <1>4 DEF PosInv, Fresh
<1>6. FedInv
  BY <1>2 DEF FedInv, Fresh
<1>7. ClockInv
  <2>1. (0 - Half) * Grid <= 0
    BY Constants
  <2> QED BY <1>2, <1>4, <2>1 DEF ClockInv, Fresh
<1>8. SlackInv
  BY DEF SlackInv, DryNeedsDrift, Fresh
<1>9. OverInv
  <2>1. ((0 + 0) - Half) * Grid * Grid <= 0 /\ Half * Grid * down.step >= 0
    <3>1. Grid * Grid >= 0 /\ Half * Grid >= 0
      BY Constants
    <3>2. (Half * Grid) * down.step >= 0 /\ Half * (Grid * Grid) >= 0
      BY <1>4, <3>1, Constants
    <3> QED BY <3>2, <1>4, Constants
  <2>2. Drift \in Int
    BY <1>3, HostedTypes
  <2> QED BY <2>1, <2>2, <1>4, Constants DEF OverInv, Fresh
<1> QED BY <1>3, <1>5, <1>6, <1>7, <1>8, <1>9 DEF HostedInv

\* What a step leaves of Drift and Slack.
LEMMA DriftKept ==
  ASSUME down'.step = down.step, up'.step = up.step
  PROVE  Drift' = Drift /\ (latency' = latency => Slack' = Slack)
BY DEF Drift, Slack

LEMMA FeedInv ==
  ASSUME HostedInv, Feed, mode' = (IF mode = "idle" THEN "process" ELSE mode), mode # "process"
  PROVE  HostedInv'
<1>1. /\ down' = Push(down) /\ at = "start" /\ at' = "down"
      /\ UNCHANGED <<up, chip, latency, host_rate, chip_rate, pulled, dry>>
  BY DEF Feed
<1>2. PhaseInv
  BY DEF HostedInv
<1>3. /\ down' \in Converter /\ down'.pushed = down.pushed + 1
      /\ down'.pos = down.pos /\ down'.step = down.step
  BY <1>1, <1>2, HostedTypes, PushIs
<1>4. Drift' = Drift /\ Slack' = Slack
  BY <1>1, <1>3, DriftKept
<1>5. PhaseInv'
  BY <1>1, <1>2, <1>3 DEF PhaseInv, TypeOK, Converter
<1>6. PosInv'
  BY <1>1, <1>3 DEF HostedInv, PosInv
<1>7. FedInv'
  BY <1>1, <1>2, <1>3, HostedTypes DEF HostedInv, FedInv
<1>8. ClockInv'
  <2>1. (down.pushed - Half) * Grid <= (down.pushed + 1 - Half) * Grid
    BY <1>2, HostedTypes, Constants
  <2>2. chip > 0 => (chip - 1) * down.step < (down.pushed - Half) * Grid
    BY DEF HostedInv, ClockInv
  <2>3. /\ (chip - 1) * down.step \in Int /\ (down.pushed - Half) * Grid \in Int
        /\ (down.pushed + 1 - Half) * Grid \in Int
    BY <1>2, HostedTypes, Constants
  <2>4. chip > 0 => (chip - 1) * down.step < (down.pushed + 1 - Half) * Grid
    BY <2>1, <2>2, <2>3
  <2>5. /\ chip' = chip /\ at' = "down"
        /\ down'.step = down.step /\ down'.pushed = down.pushed + 1
    BY <1>1, <1>3
  <2>6. /\ chip \in Nat /\ down.step \in Nat /\ down.pushed \in Nat
        /\ Half \in Nat /\ Grid \in Nat
    BY <1>2, HostedTypes, Constants
  <2>7. chip' > 0 => (chip' - 1) * down'.step < (down'.pushed - Half) * Grid
    BY <2>4, <2>5, <2>6
  <2> QED BY <2>5, <2>7 DEF ClockInv
<1>9. SlackInv'
  BY <1>1, <1>2, <1>4 DEF HostedInv, SlackInv, DryNeedsDrift, PhaseInv
<1>10. OverInv'
  BY <1>1, <1>3, <1>4 DEF HostedInv, OverInv
<1> QED BY <1>5, <1>6, <1>7, <1>8, <1>9, <1>10 DEF HostedInv

LEMMA RunChipInv == ASSUME HostedInv, RunChip PROVE HostedInv'
<1>1. /\ down' = Pulled(down) /\ up' = Push(up) /\ chip' = chip + 1
      /\ at = "down" /\ Ready(down)
      /\ UNCHANGED <<mode, at, latency, host_rate, chip_rate, pulled, dry>>
  BY DEF RunChip
<1>2. PhaseInv
  BY DEF HostedInv
<1>3. /\ down' \in Converter /\ down'.pushed = down.pushed
      /\ down'.pos = down.pos + down.step /\ down'.step = down.step
  BY <1>1, <1>2, HostedTypes, PulledIs
<1>4. /\ up' \in Converter /\ up'.pushed = up.pushed + 1
      /\ up'.pos = up.pos /\ up'.step = up.step
  BY <1>1, <1>2, HostedTypes, PushIs
<1>5. Drift' = Drift /\ Slack' = Slack
  BY <1>1, <1>3, <1>4, DriftKept
<1>6. PhaseInv'
  <2>1. chip' \in Nat
    BY <1>1, <1>2, HostedTypes
  <2>2. {down', up'} \subseteq Converter
    BY <1>3, <1>4
  <2>3. {chip', latency', pulled', dry'} \subseteq Nat
    BY <1>1, <1>2, <2>1, HostedTypes
  <2> QED BY <1>1, <1>2, <2>2, <2>3 DEF PhaseInv, TypeOK, Converter
<1>7. PosInv'
  <2>1. (chip + 1) * down.step = chip * down.step + down.step
    BY <1>2, HostedTypes
  <2> QED BY <1>1, <1>3, <1>4, <2>1 DEF HostedInv, PosInv
<1>8. FedInv'
  BY <1>1, <1>3 DEF HostedInv, FedInv
<1>9. ClockInv'
  <2>1. chip * down.step < (down.pushed - Half) * Grid
    BY <1>1, <1>2, HostedTypes, ReadyIs DEF HostedInv, PosInv
  <2>2. chip' - 1 = chip
    BY <1>1, <1>2, HostedTypes
  <2>3. /\ at' = "down" /\ down'.step = down.step /\ down'.pushed = down.pushed
    BY <1>1, <1>3
  <2> QED BY <2>1, <2>2, <2>3 DEF ClockInv
<1>10. SlackInv'
  BY <1>1, <1>5 DEF HostedInv, SlackInv, DryNeedsDrift
<1>11. OverInv'
  BY <1>1, <1>3, <1>5 DEF HostedInv, OverInv
<1> QED BY <1>6, <1>7, <1>8, <1>9, <1>10, <1>11 DEF HostedInv

LEMMA DownDryInv == ASSUME HostedInv, DownDry PROVE HostedInv'
<1>1. /\ at = "down" /\ at' = "up" /\ ~Ready(down)
      /\ UNCHANGED <<mode, down, up, chip, latency, host_rate, chip_rate, pulled, dry>>
  BY DEF DownDry
<1>2. PhaseInv
  BY DEF HostedInv
<1>3. Drift' = Drift /\ Slack' = Slack
  BY <1>1, DriftKept
<1>4. PhaseInv'
  BY <1>1, <1>2 DEF PhaseInv, TypeOK
<1>5. ~(chip * down.step < (down.pushed - Half) * Grid)
  BY <1>1, <1>2, HostedTypes, ReadyIs DEF HostedInv, PosInv
<1>6. ClockInv'
  <2>1. chip * down.step \in Int /\ (down.pushed - Half) * Grid \in Int
    BY <1>2, HostedTypes, Constants
  <2> QED BY <1>1, <1>5, <2>1 DEF HostedInv, ClockInv
<1>7. PosInv' /\ FedInv'
  BY <1>1 DEF HostedInv, PosInv, FedInv
<1>8. SlackInv' /\ OverInv'
  BY <1>1, <1>3 DEF HostedInv, SlackInv, DryNeedsDrift, OverInv
<1> QED BY <1>4, <1>6, <1>7, <1>8 DEF HostedInv
LEMMA GiveInv == ASSUME HostedInv, Give PROVE HostedInv'
<1>1. /\ at = "up" /\ Ready(up) /\ up' = Pulled(up) /\ pulled' = pulled + 1
      /\ mode' = "idle" /\ at' = "start"
      /\ UNCHANGED <<down, chip, latency, host_rate, chip_rate, dry>>
  BY DEF Give
<1>2. PhaseInv
  BY DEF HostedInv
<1>3. /\ up' \in Converter /\ up'.pushed = up.pushed
      /\ up'.pos = up.pos + up.step /\ up'.step = up.step
  BY <1>1, <1>2, HostedTypes, PulledIs
<1>4. Drift' = Drift /\ Slack' = Slack
  BY <1>1, <1>3, DriftKept
<1>5. PhaseInv'
  <2>1. {down', up'} \subseteq Converter
    BY <1>1, <1>2, <1>3, HostedTypes
  <2>2. {chip', latency', pulled', dry'} \subseteq Nat
    BY <1>1, <1>2, HostedTypes
  <2> QED BY <1>1, <1>2, <2>1, <2>2 DEF PhaseInv, TypeOK, Converter
<1>6. PosInv'
  <2>1. (pulled + 1) * up.step = pulled * up.step + up.step
    BY <1>2, HostedTypes
  <2> QED BY <1>1, <1>3, <2>1 DEF HostedInv, PosInv
<1>7. FedInv'
  BY <1>1, <1>2, HostedTypes DEF HostedInv, FedInv
<1>8. ClockInv'
  BY <1>1 DEF HostedInv, ClockInv
<1>9. pulled * Drift <= pulled' * Drift \/ ~(Drift > 0)
  BY <1>1, <1>2, HostedTypes
<1>10. Slack > 0
  <2>1. CASE mode = "prime"
    <3>1. pulled = 0 /\ dry = 0
      BY <1>2, <2>1 DEF PhaseInv
    <3>2. up.pos = 0 /\ up.pushed = chip
      BY <1>2, <3>1, HostedTypes DEF HostedInv, PosInv
    <3>3. 0 < (chip - Half) * Grid
      BY <1>1, <1>2, <3>2, HostedTypes, ReadyIs
    <3>4. chip - 1 >= Half
      <4>1. chip <= Half => (chip - Half) * Grid <= 0
        BY <1>2, HostedTypes, Constants
      <4> QED BY <1>2, <3>3, <4>1, HostedTypes, Constants
    <3>5. (chip - 1) * down.step < (down.pushed - Half) * Grid
      BY <1>2, <3>4, HostedTypes, Constants DEF HostedInv, ClockInv
    <3>6. Half * down.step < (down.pushed - Half) * Grid
      BY <1>2, <3>4, <3>5, HostedTypes, Constants, PrimedAhead
    <3>7. down.pushed = latency + 1
      BY <1>1, <1>2, <3>1, HostedTypes DEF HostedInv, FedInv
    <3> QED BY <1>2, <3>6, <3>7, HostedTypes, Constants DEF Slack
  <2>2. CASE mode # "prime"
    BY <2>2 DEF HostedInv, SlackInv
  <2> QED BY <2>1, <2>2
<1>11. DryNeedsDrift'
  <2>1. ASSUME dry > 0 PROVE pulled' * Drift >= Grid * Slack
    <3>1. pulled * Drift >= Grid * Slack
      BY <2>1 DEF HostedInv, SlackInv, DryNeedsDrift
    <3>2. Grid * Slack > 0
      BY <1>2, <1>10, HostedTypes, Constants
    <3>3. Drift > 0
      <4>1. Drift <= 0 => pulled * Drift <= 0
        BY <1>2, HostedTypes
      <4>2. pulled * Drift \in Int /\ Grid * Slack \in Int
        BY <1>2, HostedTypes, Constants
      <4> QED BY <1>2, <3>1, <3>2, <4>1, <4>2, HostedTypes
    <3>4. pulled * Drift \in Int /\ pulled' * Drift \in Int /\ Grid * Slack \in Int
      BY <1>1, <1>2, HostedTypes, Constants
    <3> QED BY <1>9, <3>1, <3>3, <3>4
  <2> QED BY <1>1, <1>4, <1>10, <2>1 DEF DryNeedsDrift
<1>12. OverInv'
  <2> DEFINE a == ((latency + dry) - Half) * Grid * Grid
             b == Half * Grid * down.step
  <2>1. a <= b + (IF Drift > 0 THEN pulled * Drift ELSE 0)
    BY DEF HostedInv, OverInv
  <2>2. a \in Int /\ b \in Int
    BY <1>2, HostedTypes, Constants
  <2>3. pulled * Drift \in Int /\ pulled' * Drift \in Int /\ Drift \in Int
    BY <1>1, <1>2, HostedTypes
  <2> HIDE DEF a, b
  <2>4. a <= b + (IF Drift > 0 THEN pulled' * Drift ELSE 0)
    BY <1>9, <2>1, <2>2, <2>3
  <2> QED BY <1>1, <1>4, <2>4 DEF OverInv, a, b
<1>13. SlackInv'
  BY <1>4, <1>10, <1>11 DEF SlackInv
<1> QED BY <1>5, <1>6, <1>7, <1>8, <1>12, <1>13 DEF HostedInv

LEMMA PrimeOnInv == ASSUME HostedInv, PrimeOn PROVE HostedInv'
<1>1. /\ at = "up" /\ mode = "prime" /\ ~Ready(up) /\ latency' = latency + 1 /\ at' = "start"
      /\ UNCHANGED <<mode, down, up, chip, host_rate, chip_rate, pulled, dry>>
  BY DEF PrimeOn
<1>2. PhaseInv
  BY DEF HostedInv
<1>3. pulled = 0 /\ dry = 0
  BY <1>1, <1>2 DEF PhaseInv
<1>4. Drift' = Drift
  BY <1>1, DriftKept
<1>5. PhaseInv'
  <2>1. latency' \in Nat
    BY <1>1, <1>2, HostedTypes
  <2> QED BY <1>1, <1>2, <2>1 DEF PhaseInv, TypeOK
<1>6. PosInv' /\ ClockInv'
  BY <1>1 DEF HostedInv, PosInv, ClockInv
<1>7. FedInv'
  BY <1>1, <1>2, HostedTypes DEF HostedInv, FedInv
<1>8. SlackInv'
  BY <1>1, <1>3 DEF SlackInv, DryNeedsDrift
<1>9. OverInv'
  <2>1. chip <= Half
    <3>1. up.pos = 0 /\ up.pushed = chip
      BY <1>2, <1>3, HostedTypes DEF HostedInv, PosInv
    <3>2. ~(0 < (chip - Half) * Grid)
      BY <1>1, <1>2, <3>1, HostedTypes, ReadyIs
    <3>3. chip > Half => 0 < (chip - Half) * Grid
      BY <1>2, HostedTypes, Constants
    <3> QED BY <1>2, <3>2, <3>3, HostedTypes, Constants
  <2>2. chip * down.step <= Half * down.step
    BY <1>2, <2>1, HostedTypes, Constants, TimesOrder
  <2>3. chip * down.step >= (down.pushed - Half) * Grid
    BY <1>1 DEF HostedInv, ClockInv
  <2>4. down.pushed = latency'
    BY <1>1, <1>2, <1>3, HostedTypes DEF HostedInv, FedInv
  <2>5. (latency' - Half) * Grid <= Half * down.step
    BY <1>2, <2>2, <2>3, <2>4, HostedTypes, Constants
  <2>6. ((latency' - Half) * Grid) * Grid <= (Half * down.step) * Grid
    BY <1>1, <1>2, <2>5, HostedTypes, Constants, TimesOrder
  <2>7. ((latency' + 0) - Half) * Grid * Grid <= Half * Grid * down.step
    BY <1>1, <1>2, <2>6, HostedTypes, Constants
  <2>8. (IF Drift > 0 THEN 0 * Drift ELSE 0) = 0
    BY <1>2, HostedTypes
  <2>9. ((latency' + 0) - Half) * Grid * Grid \in Int /\ Half * Grid * down.step \in Int
    BY <1>1, <1>2, HostedTypes, Constants
  <2> QED BY <1>1, <1>3, <1>4, <2>7, <2>8, <2>9 DEF OverInv
<1> QED BY <1>5, <1>6, <1>7, <1>8, <1>9 DEF HostedInv

LEMMA DryInv == ASSUME HostedInv, Dry PROVE HostedInv'
<1>1. /\ at = "up" /\ mode = "process" /\ ~Ready(up) /\ dry' = dry + 1
      /\ mode' = "idle" /\ at' = "start"
      /\ UNCHANGED <<down, up, chip, latency, host_rate, chip_rate, pulled>>
  BY DEF Dry
<1>2. PhaseInv
  BY DEF HostedInv
<1>3. Drift' = Drift /\ Slack' = Slack
  BY <1>1, DriftKept
<1>4. PhaseInv'
  <2>1. dry' \in Nat
    BY <1>1, <1>2, HostedTypes
  <2> QED BY <1>1, <1>2, <2>1 DEF PhaseInv, TypeOK
<1>5. PosInv' /\ ClockInv'
  BY <1>1 DEF HostedInv, PosInv, ClockInv
<1>6. FedInv'
  BY <1>1, <1>2, HostedTypes DEF HostedInv, FedInv
<1> DEFINE over == latency + dry + 1
<1>7. over \in Nat /\ over >= latency + 1 /\ down.pushed - pulled = over
  BY <1>1, <1>2, HostedTypes DEF HostedInv, FedInv
<1> HIDE DEF over
<1>8. pulled * Drift >= Grid * ((over - Half) * Grid - Half * down.step)
  <2>1. pulled * up.step >= (chip - Half) * Grid
    <3>1. up.pos = pulled * up.step /\ up.pushed = chip
      BY DEF HostedInv, PosInv
    <3>2. (chip - Half) * Grid \in Int /\ pulled * up.step \in Int
      BY <1>2, HostedTypes, Constants
    <3> QED BY <1>1, <1>2, <3>1, <3>2, HostedTypes, ReadyIs
  <2>2. chip * down.step >= (down.pushed - Half) * Grid
    BY <1>1 DEF HostedInv, ClockInv
  <2>3. pulled * (down.step * up.step - Grid * Grid)
          >= Grid * ((down.pushed - pulled - Half) * Grid - Half * down.step)
    BY <1>2, <2>1, <2>2, HostedTypes, Constants, StarvedByDrift
  <2> QED BY <1>7, <2>3 DEF Drift
<1>9. Slack > 0
  BY <1>1 DEF HostedInv, SlackInv
<1>10. Slack <= (over - Half) * Grid - Half * down.step
  <2>1. (latency + 1 - Half) * Grid <= (over - Half) * Grid
    BY <1>2, <1>7, HostedTypes, Constants, TimesOrder
  <2>2. (latency + 1 - Half) * Grid \in Int /\ (over - Half) * Grid \in Int
        /\ Half * down.step \in Int
    BY <1>2, <1>7, HostedTypes, Constants
  <2> QED BY <2>1, <2>2 DEF Slack
<1> DEFINE need == (over - Half) * Grid - Half * down.step
<1>11. need \in Int /\ pulled * Drift \in Int /\ Slack \in Int /\ Drift \in Int
  BY <1>2, <1>7, HostedTypes, Constants
<1>12. pulled * Drift >= Grid * need /\ Slack <= need
  BY <1>8, <1>10
<1> HIDE DEF need
<1>13. Grid * Slack <= Grid * need /\ 0 < Grid * Slack
  BY <1>9, <1>11, <1>12, Constants
<1>14. pulled * Drift >= Grid * Slack
  BY <1>11, <1>12, <1>13, Constants
<1>15. Drift > 0
  <2>1. Drift <= 0 => pulled * Drift <= 0
    BY <1>2, <1>11, HostedTypes
  <2> QED BY <1>11, <1>13, <1>14, <2>1, Constants
<1>16. SlackInv'
  BY <1>1, <1>3, <1>9, <1>14 DEF SlackInv, DryNeedsDrift
<1>17. OverInv'
  <2>1. (over - Half) * Grid * Grid = Grid * need + Half * Grid * down.step
    BY <1>2, <1>7, HostedTypes, Constants DEF need
  <2>2. Grid * need \in Int /\ Half * Grid * down.step \in Int
    BY <1>2, <1>11, HostedTypes, Constants
  <2>3. (over - Half) * Grid * Grid <= Half * Grid * down.step + pulled * Drift
    BY <1>11, <1>12, <2>1, <2>2
  <2>4. latency' + dry' = over
    BY <1>1, <1>2, HostedTypes DEF over
  <2>5. (IF Drift' > 0 THEN pulled' * Drift' ELSE 0) = pulled * Drift
    BY <1>1, <1>3, <1>15
  <2>6. down'.step = down.step
    BY <1>1
  <2>8. ((latency' + dry') - Half) * Grid * Grid = (over - Half) * Grid * Grid
    BY <2>4, Zenon
  <2>9. Half * Grid * down'.step = Half * Grid * down.step
    BY <2>6, Zenon
  <2>10. ((latency' + dry') - Half) * Grid * Grid <= Half * Grid * down'.step + pulled * Drift
    BY <2>3, <2>8, <2>9, Zenon
  <2> QED BY <2>5, <2>10 DEF OverInv
<1> QED BY <1>4, <1>5, <1>6, <1>16, <1>17 DEF HostedInv

\* A new ratio starts the priming over.
LEMMA SetChipRateInv ==
  ASSUME HostedInv, NEW rate \in ChipRates, SetChipRate(rate)
  PROVE  HostedInv'
<1>1. Fresh'
  <2>1. host_rate \in HostRates
    BY DEF HostedInv, PhaseInv, TypeOK
  <2> QED BY <2>1 DEF SetChipRate, RebuildUp, RestartLatency, Fresh
<1> QED BY <1>1, FreshInv, PTL

\* The chip's clock, the latency's ledger and the drift hold whatever the host
\* does.
LEMMA HostedAlways == Spec => []HostedInv
<1>1. Init => HostedInv
  BY FreshInv DEF Init, Fresh
<1>2. HostedInv /\ [Next]_hostVars => HostedInv'
  <2> SUFFICES ASSUME HostedInv, [Next]_hostVars PROVE HostedInv'
    OBVIOUS
  <2>1. CASE FeedSilence
    BY <2>1, FeedInv DEF FeedSilence
  <2>2. CASE Process
    BY <2>2, FeedInv DEF Process
  <2>3. CASE RunChip
    BY <2>3, RunChipInv
  <2>4. CASE DownDry
    BY <2>4, DownDryInv
  <2>5. CASE Give
    BY <2>5, GiveInv
  <2>6. CASE PrimeOn
    BY <2>6, PrimeOnInv
  <2>7. CASE Dry
    BY <2>7, DryInv
  <2>8. ASSUME NEW rate \in ChipRates, SetChipRate(rate) PROVE HostedInv'
    BY <2>8, SetChipRateInv
  <2>9. CASE UNCHANGED hostVars
    BY <2>9 DEF hostVars, HostedInv, PhaseInv, TypeOK, PosInv, FedInv, ClockInv, SlackInv,
                DryNeedsDrift, OverInv, Drift, Slack
  <2> QED BY <2>1, <2>2, <2>3, <2>4, <2>5, <2>6, <2>7, <2>8, <2>9 DEF Next, Work
<1> QED BY <1>1, <1>2, PTL DEF Spec

\* Every variable keeps its type: the converters stay converters, the counts
\* stay numbers, in every phase of a call.
THEOREM HostedTypeCorrect == Spec => []TypeOK
<1>1. HostedInv => TypeOK
  BY DEF HostedInv, PhaseInv
<1> QED BY <1>1, HostedAlways, PTL

\* latency() is the distance between the frame a call is given and the frame
\* it returns, however often the chip rate changed before, each silence
\* adding one.
THEOREM LatencyAlwaysHolds == Spec => []LatencyHolds
<1>1. ASSUME HostedInv PROVE LatencyHolds
  <2>1. ASSUME mode = "idle" PROVE at = "start"
    BY <1>1, <2>1 DEF HostedInv, PhaseInv
  <2>2. PhaseInv
    BY <1>1 DEF HostedInv
  <2> QED BY <1>1, <2>1, <2>2, HostedTypes DEF HostedInv, FedInv, LatencyHolds
<1> QED BY <1>1, HostedAlways, PTL

\* process covers a missing frame with silence only after rounding has used
\* the slack priming left: at once never, and at steps whose product is Grid
\* squared or less, not at all.
THEOREM DryOnlyAfterDrift == Spec => []DryNeedsDrift
<1>1. HostedInv => DryNeedsDrift
  BY DEF HostedInv, SlackInv
<1> QED BY <1>1, HostedAlways, PTL

\* Between two calls the chip has run exactly the frames whose kernels the
\* host's input covers.
THEOREM ChipStaysOnTime == Spec => []ChipOnTime
<1>1. ASSUME HostedInv, mode = "idle" 
      PROVE  /\ chip = up.pushed
             /\ FirstTap(down.pos) + Taps > down.pushed
             /\ chip > 0 => FirstTap(down.pos - down.step) + Taps <= down.pushed
  <2>1. PhaseInv /\ at = "start" /\ PosInv
    BY <1>1 DEF HostedInv, PhaseInv
  <2>2. FirstTap(down.pos) + Taps > down.pushed
    <3>1. down.pos >= (down.pushed - Half) * Grid
      BY <1>1, <2>1 DEF HostedInv, ClockInv, PosInv
    <3>2. ~(down.pos < (down.pushed - Half) * Grid)
      BY <2>1, <3>1, HostedTypes, Constants
    <3>3. ~Ready(down)
      BY <2>1, <3>2, HostedTypes, ReadyIs
    <3>4. FirstTap(down.pos) \in Int
      BY <2>1, HostedTypes, KernelOrder
    <3> QED BY <2>1, <3>3, <3>4, HostedTypes, Constants DEF Ready
  <2>3. ASSUME chip > 0 PROVE FirstTap(down.pos - down.step) + Taps <= down.pushed
    <3> DEFINE last == (chip - 1) * down.step
               r == [down EXCEPT !.pos = last]
    <3>1. last = down.pos - down.step /\ last \in Nat
      <4>1. chip - 1 \in Nat /\ down.step \in Nat /\ chip \in Nat
        BY <2>1, <2>3, HostedTypes
      <4>2. (chip - 1) * down.step \in Nat
            /\ (chip - 1) * down.step = chip * down.step - down.step
        BY <4>1
      <4> QED BY <2>1, <4>2 DEF PosInv
    <3>2. last < (down.pushed - Half) * Grid
      BY <1>1, <2>3 DEF HostedInv, ClockInv
    <3> HIDE DEF last
    <3>3. r \in Converter /\ r.pos = last /\ r.pushed = down.pushed
      BY <2>1, <3>1, HostedTypes DEF Converter
    <3> HIDE DEF r
    <3>4. Ready(r)
      BY <3>2, <3>3, ReadyIs
    <3>5. FirstTap(last) \in Int
      BY <3>1, KernelOrder, HostedTypes, <2>1
    <3>6. FirstTap(last) + Taps - 1 < down.pushed
      BY <3>3, <3>4 DEF Ready
    <3>7. FirstTap(last) + Taps <= down.pushed
      BY <2>1, <3>5, <3>6, HostedTypes, Constants
    <3> QED BY <3>1, <3>7
  <2> QED BY <2>1, <2>2, <2>3 DEF PosInv
<1>2. HostedInv => ChipOnTime
  BY <1>1 DEF ChipOnTime
<1> QED BY <1>2, HostedAlways, PTL
-----------------------------------------------------------------------------
(* The converters' buffers.                                                *)

\* A step down fits the kernel, and so does a step up unless rounding leaves
\* the chip behind the host: then the frames the next kernel starts at have
\* been pushed by the time it is due.
RatesFit ==
  \A h \in HostRates, c \in ChipRates :
    /\ StepOf(h, c) <= Taps * Grid
    /\ StepOf(c, h) <= Taps * Grid \/ StepOf(h, c) * StepOf(c, h) <= Grid * Grid

\* A host frame spans no more chip frames than a history has room for beside
\* the kernel, by either step.
RatesNear ==
  \A h \in HostRates, c \in ChipRates :
    /\ StepOf(c, h) <= 3 * Taps * Grid
    /\ Grid <= (3 * Taps - 1) * StepOf(h, c)

BufInv == ConvInv(down) /\ ConvInv(up) /\ Len(down.history) <= Taps

\* What the rates say of the converters of the moment.
LEMMA StepsOfRates ==
  ASSUME RatesFit, HostedInv
  PROVE  down.step <= Taps * Grid /\ (up.step <= Taps * Grid \/ Drift <= 0)
<1>1. host_rate \in HostRates /\ chip_rate \in ChipRates
  BY DEF HostedInv, PhaseInv, TypeOK
<1>2. down.step = StepOf(host_rate, chip_rate) /\ up.step = StepOf(chip_rate, host_rate)
  BY DEF HostedInv, PosInv
<1>3. /\ down.step <= Taps * Grid
      /\ up.step <= Taps * Grid \/ down.step * up.step <= Grid * Grid
  BY <1>1, <1>2 DEF RatesFit
<1>4. down.step * up.step <= Grid * Grid => Drift <= 0
  <2>1. down.step * up.step \in Int /\ Grid * Grid \in Int
    BY HostedTypes, Constants DEF HostedInv
  <2> QED BY <2>1 DEF Drift
<1> QED BY <1>3, <1>4

\* What a converter with nothing to give holds is less than a kernel.
LEMMA WaitingIsShort ==
  ASSUME NEW r, ConvInv(r), ~Ready(r)
  PROVE  Len(r.history) < Taps
<1>1. /\ r \in Converter /\ Len(r.history) \in Nat /\ r.base \in Nat /\ r.pushed \in Nat
      /\ r.pos \in Nat /\ r.base = MinNeeded(r.pos) /\ r.base + Len(r.history) = r.pushed
  BY DEF ConvInv, Converter
<1>2. FirstTap(r.pos) \in Int
  BY <1>1, KernelOrder
<1>3. r.base >= FirstTap(r.pos)
  BY <1>1, <1>2, MinNeededIs
<1>4. ~(FirstTap(r.pos) + Taps - 1 < r.pushed)
  BY DEF Ready
<1> QED BY <1>1, <1>2, <1>3, <1>4, Constants

\* A pull lengthens no history.
LEMMA PullShortens ==
  ASSUME NEW r, ConvInv(r), ConvInv(Pulled(r))
  PROVE  Len(Pulled(r).history) <= Len(r.history)
<1>1. /\ r \in Converter /\ Len(r.history) \in Nat /\ r.base \in Nat /\ r.pushed \in Nat
      /\ r.pos \in Nat /\ r.step \in Nat
      /\ r.base = MinNeeded(r.pos) /\ r.base + Len(r.history) = r.pushed
  BY DEF ConvInv, Converter
<1> DEFINE q == Pulled(r)
<1>2. /\ Len(q.history) \in Nat /\ q.base \in Nat
      /\ q.base = MinNeeded(r.pos + r.step) /\ q.base + Len(q.history) = r.pushed
  BY <1>1, PulledIs DEF ConvInv, Converter
<1> HIDE DEF q
<1>3. /\ FirstTap(r.pos) \in Int /\ FirstTap(r.pos + r.step) \in Int
      /\ FirstTap(r.pos) <= FirstTap(r.pos + r.step)
  BY <1>1, KernelOrder
<1>4. r.base = 0 \/ r.base = FirstTap(r.pos)
  BY <1>1, <1>3, MinNeededIs
<1>5. q.base >= FirstTap(r.pos + r.step)
  BY <1>1, <1>2, <1>3, MinNeededIs
<1>6. r.base <= q.base
  BY <1>1, <1>2, <1>3, <1>4, <1>5
<1> QED BY <1>1, <1>2, <1>6 DEF q

\* With the chip on time and no drift, n chip frames at host frame k cover
\* the position after it.
LEMMA NextCovered ==
  ASSUME NEW n \in Nat, NEW k \in Nat, NEW D \in Nat, NEW U \in Nat, NEW G \in Nat, G >= 1,
         n * D >= (k + 1) * G, D * U <= G * G
  PROVE  (k + 1) * U <= n * G
<1>1. ((k + 1) * G) * U <= (n * D) * U
  OBVIOUS
<1>2. n * (D * U) <= n * (G * G)
  OBVIOUS
<1>3. (n * D) * U = n * (D * U) /\ ((k + 1) * G) * U = G * ((k + 1) * U)
      /\ n * (G * G) = G * (n * G)
  OBVIOUS
<1>4. G * ((k + 1) * U) <= G * (n * G)
  BY <1>1, <1>2, <1>3
<1> DEFINE x == (k + 1) * U
           y == n * G
<1>5. x \in Int /\ y \in Int /\ G * x <= G * y
  BY <1>4
<1> HIDE DEF x, y
<1>6. ASSUME y + 1 <= x PROVE FALSE
  <2>1. G * (y + 1) <= G * x
    BY <1>5, <1>6
  <2>2. G * (y + 1) = G * y + G
    BY <1>5
  <2> QED BY <1>5, <2>1, <2>2
<1>7. x <= y
  BY <1>5, <1>6
<1> QED BY <1>7 DEF x, y

\* The up-converter never has to skip frames it has not been given.
LEMMA UpNextInHistory ==
  ASSUME HostedInv, HostedInv', Give, up.step <= Taps * Grid \/ Drift <= 0
  PROVE  NextInHistory(up)
<1>1. /\ at = "up" /\ Ready(up) /\ mode' = "idle"
      /\ UNCHANGED <<down, latency>> /\ up' = Pulled(up)
  BY DEF Give
<1>2. PhaseInv
  BY DEF HostedInv
<1>3. CASE up.step <= Taps * Grid
  BY <1>1, <1>2, <1>3, HostedTypes, StepInHistory
<1>4. CASE Drift <= 0
  <2>1. Slack > 0
    <3>1. up'.step = up.step
      BY <1>1, <1>2, HostedTypes, PulledIs
    <3>2. Slack' = Slack
      BY <1>1, <3>1, DriftKept
    <3> QED BY <1>1, <3>2 DEF HostedInv, SlackInv
  <2>2. latency >= Half
    <3>1. latency < Half => (latency + 1 - Half) * Grid <= 0
      BY <1>2, HostedTypes, Constants
    <3>2. Half * down.step >= 0 /\ Half * down.step \in Int /\ (latency + 1 - Half) * Grid \in Int
      BY <1>2, HostedTypes, Constants
    <3> QED BY <1>2, <2>1, <3>1, <3>2, HostedTypes, Constants DEF Slack
  <2>3. down.pushed - Half >= pulled + 1
    BY <1>1, <1>2, <2>2, HostedTypes, Constants DEF HostedInv, FedInv
  <2>4. chip * down.step >= (pulled + 1) * Grid
    <3>1. (pulled + 1) * Grid <= (down.pushed - Half) * Grid
      BY <1>2, <2>3, HostedTypes, Constants, TimesOrder
    <3>2. chip * down.step >= (down.pushed - Half) * Grid
      BY <1>1 DEF HostedInv, ClockInv
    <3> QED BY <1>2, <3>1, <3>2, HostedTypes, Constants
  <2>5. down.step * up.step <= Grid * Grid
    <3>1. down.step * up.step \in Int /\ Grid * Grid \in Int
      BY <1>2, HostedTypes, Constants
    <3> QED BY <1>4, <3>1 DEF Drift
  <2>6. (pulled + 1) * up.step <= chip * Grid
    BY <1>2, <2>4, <2>5, HostedTypes, Constants, NextCovered
  <2> DEFINE next == (pulled + 1) * up.step
  <2>7. next = up.pos + up.step /\ next \in Nat
    <3>1. (pulled + 1) * up.step = pulled * up.step + up.step
      BY <1>2, HostedTypes
    <3> QED BY <1>2, <3>1, HostedTypes DEF HostedInv, PosInv
  <2>8. next < (chip + Half) * Grid
    <3>1. chip * Grid < (chip + Half) * Grid
      <4>1. (chip + Half) * Grid = chip * Grid + Half * Grid /\ Half * Grid >= 1
        BY <1>2, HostedTypes, Constants
      <4> QED BY <1>2, <4>1, HostedTypes, Constants
    <3> QED BY <1>2, <2>6, <3>1, HostedTypes, Constants
  <2> HIDE DEF next
  <2>9. next \div Grid < chip + Half
    BY <1>2, <2>7, <2>8, HostedTypes, Constants, QuotientBelow
  <2>10. FirstTap(next) <= chip
    <3>1. next \div Grid \in Int
      BY <2>7, Constants
    <3> QED BY <1>2, <2>9, <3>1, HostedTypes, Constants DEF FirstTap
  <2> QED BY <2>7, <2>10 DEF NextInHistory, HostedInv, PosInv
<1> QED BY <1>3, <1>4

LEMMA BufStarts == ASSUME Fresh PROVE BufInv
<1>1. host_rate \in Nat \ {0} /\ chip_rate \in Nat \ {0}
  BY RateAssumption DEF RateAssumption, Fresh
<1>2. ConvInv(down) /\ ConvInv(up)
  BY <1>1, NewInv DEF Fresh
<1>3. Len(down.history) = 0
  BY DEF Fresh, New
<1> QED BY <1>2, <1>3, Constants DEF BufInv

LEMMA BufSteps ==
  ASSUME RatesFit, HostedInv, HostedInv', BufInv, [Next]_hostVars
  PROVE  BufInv'
<1>1. /\ ConvInv(down) /\ ConvInv(up) /\ Len(down.history) <= Taps
      /\ PhaseInv /\ down.step <= Taps * Grid /\ (up.step <= Taps * Grid \/ Drift <= 0)
  BY StepsOfRates DEF BufInv, HostedInv
<1>2. ASSUME Feed PROVE BufInv'
  <2>1. ~Ready(down)
    <3>1. chip * down.step >= (down.pushed - Half) * Grid /\ down.pos = chip * down.step
      BY <1>2 DEF Feed, HostedInv, ClockInv, PosInv
    <3>2. PhaseInv
      BY <1>1
    <3>3. ~(down.pos < (down.pushed - Half) * Grid)
      BY <3>1, <3>2, HostedTypes, Constants
    <3> QED BY <3>2, <3>3, HostedTypes, ReadyIs
  <2>2. Len(down.history) < Taps
    BY <1>1, <2>1, WaitingIsShort
  <2>3. Len(Push(down).history) = Len(down.history) + 1
    BY <1>1, HostedTypes, PushIs
  <2>4. Len(down.history) \in Nat
    BY <1>1 DEF ConvInv, Converter
  <2>5. Len(down'.history) <= Taps
    BY <1>2, <2>2, <2>3, <2>4, Constants DEF Feed
  <2>6. ConvInv(down') /\ ConvInv(up')
    BY <1>1, <1>2, PushInv DEF Feed
  <2> QED BY <2>5, <2>6 DEF BufInv
<1>3. CASE RunChip
  <2>1. ConvInv(down') /\ ConvInv(up')
    <3>1. Ready(down) /\ down' = Pulled(down) /\ up' = Push(up)
      BY <1>3 DEF RunChip
    <3>2. NextInHistory(down)
      BY <1>1, <3>1, HostedTypes, StepInHistory
    <3> QED BY <1>1, <3>1, <3>2, PullInv, PushInv
  <2>2. Len(down'.history) <= Len(down.history)
    BY <1>1, <1>3, <2>1, PullShortens DEF RunChip
  <2>3. Len(down'.history) \in Nat /\ Len(down.history) \in Nat
    <3>1. down'.history \in Seq(Nat) /\ down.history \in Seq(Nat)
      BY <1>1, <2>1 DEF ConvInv, Converter
    <3> QED BY <3>1
  <2> QED BY <1>1, <2>1, <2>2, <2>3, Constants DEF BufInv
<1>4. CASE Give
  <2>1. NextInHistory(up)
    BY <1>1, <1>4, UpNextInHistory
  <2> QED BY <1>1, <1>4, <2>1, PullInv DEF Give, BufInv
<1>5. CASE DownDry \/ PrimeOn \/ Dry \/ UNCHANGED hostVars
  BY <1>1, <1>5 DEF DownDry, PrimeOn, Dry, hostVars, BufInv
<1>6. ASSUME NEW rate \in ChipRates, SetChipRate(rate) PROVE BufInv'
  <2>1. Fresh'
    BY <1>1, <1>6 DEF SetChipRate, RebuildUp, RestartLatency, Fresh, PhaseInv, TypeOK
  <2> QED BY <2>1, BufStarts, PTL
<1> QED BY <1>2, <1>3, <1>4, <1>5, <1>6 DEF Next, Work, FeedSilence, Process

LEMMA BufAlways == Spec /\ RatesFit => [](HostedInv /\ BufInv)
<1> SUFFICES ASSUME RatesFit PROVE Spec => [](HostedInv /\ BufInv)
  OBVIOUS
<1>1. Init => BufInv
  BY BufStarts DEF Init, Fresh
<1>2. HostedInv /\ HostedInv' /\ BufInv /\ [Next]_hostVars => BufInv'
  BY BufSteps
<1> QED BY <1>1, <1>2, HostedAlways, PTL DEF Spec

\* Every frame in both of the chip's converters is the one its index stands
\* for, across priming, silence and changes of the chip rate.
THEOREM ConvertersStayAligned == Spec /\ RatesFit => []ConvertersAligned
<1>1. BufInv => ConvertersAligned
  BY DEF BufInv, ConvInv, ConvertersAligned
<1> QED BY <1>1, BufAlways, PTL

\* The arithmetic of the up-converter's backlog: len frames from the kernel's
\* first to the last, less a kernel and one, are fewer than a step's.
LEMMA BacklogBound ==
  ASSUME NEW n \in Nat, NEW k \in Nat, NEW f \in Nat, NEW over \in Int,
         NEW D \in Nat, NEW U \in Nat, NEW H \in Nat, NEW G \in Nat, G >= 1,
         (n - 1) * D < (k + 1 + over) * G,
         over * G * G <= H * G * D + k * (D * U - G * G),
         k * U < (f + 1) * G, D * U >= G * G, n - f - 2 - H >= 0
  PROVE  (n - f - 2 - H) * G < U
<1> DEFINE m == n - f - 2 - H
<1>1. ((n - 1) * D) * G < ((k + 1 + over) * G) * G
  OBVIOUS
<1>2. ((k + 1 + over) * G) * G = k * (G * G) + G * G + over * G * G
  OBVIOUS
<1>3. k * (D * U - G * G) = (k * U) * D - k * (G * G)
  OBVIOUS
<1>4. (k * U) * D <= ((f + 1) * G) * D
  OBVIOUS
<1>5. ((n - 1) * D) * G = (m * D) * G + ((f + 1) * G) * D + H * G * D
  OBVIOUS
<1>6. (m * D) * G < G * G
  BY <1>1, <1>2, <1>3, <1>4, <1>5
<1>7. m * D < G
  <2>1. ASSUME G <= m * D PROVE G * G <= (m * D) * G
    BY <2>1
  <2> QED BY <1>6, <2>1
<1>8. U >= 1
  <2>1. U = 0 => D * U = 0
    OBVIOUS
  <2>2. G * G >= 1
    OBVIOUS
  <2> QED BY <2>1, <2>2
<1>9. (m * D) * U < G * U
  BY <1>7, <1>8
<1>10. m * (G * G) <= m * (D * U)
  OBVIOUS
<1>11. (m * D) * U = m * (D * U) /\ m * (G * G) = (m * G) * G /\ G * U = U * G
  OBVIOUS
<1>12. (m * G) * G < U * G
  BY <1>9, <1>10, <1>11
<1>13. ASSUME U <= m * G PROVE FALSE
  <2>1. U * G <= (m * G) * G
    BY <1>13
  <2> QED BY <1>12, <2>1
<1> QED BY <1>13

\* The same where rounding shortens the steps: the backlog is a step's frames
\* and one frame for each that the drift has left behind.
LEMMA BacklogRounded ==
  ASSUME NEW n \in Nat, NEW k \in Nat, NEW f \in Nat, NEW over \in Int,
         NEW D \in Nat, NEW U \in Nat, NEW H \in Nat, NEW G \in Nat, G >= 1,
         (n - 1) * D < (k + 1 + over) * G,
         over * G * G <= H * G * D,
         k * U < (f + 1) * G
  PROVE  ((n - f - 2 - H) * D) * G < k * (G * G - D * U) + G * G
<1> DEFINE m == n - f - 2 - H
<1>1. ((n - 1) * D) * G < ((k + 1 + over) * G) * G
  OBVIOUS
<1>2. ((k + 1 + over) * G) * G = k * (G * G) + G * G + over * G * G
  OBVIOUS
<1>3. k * (G * G - D * U) = k * (G * G) - (k * U) * D
  OBVIOUS
<1>4. (k * U) * D <= ((f + 1) * G) * D
  OBVIOUS
<1>5. ((n - 1) * D) * G = (m * D) * G + ((f + 1) * G) * D + H * G * D
  OBVIOUS
<1> QED BY <1>1, <1>2, <1>3, <1>4, <1>5

\* Frames past a reservation of r frames and the one due, by the same count.
LEMMA PastReservation ==
  ASSUME NEW m \in Int, NEW e \in Nat, NEW r \in Nat, NEW D \in Nat, NEW G \in Nat,
         NEW x \in Int, e >= 1, m >= r + e, (m * D) * G < x + G * G, G <= r * D
  PROVE  e * D * G < x
<1>1. (m * D) * G >= ((r + e) * D) * G
  <2>1. m * D >= (r + e) * D
    OBVIOUS
  <2> QED BY <2>1
<1>2. ((r + e) * D) * G = (r * D) * G + e * D * G
  OBVIOUS
<1>3. (r * D) * G >= G * G
  OBVIOUS
<1> QED BY <1>1, <1>2, <1>3

\* The up-converter holds at most what was reserved for it, and what rounding
\* down has left there.
LEMMA UpFits ==
  ASSUME RatesNear, HostedInv, BufInv
  PROVE  Len(up.history) > 4 * Taps =>
           (Len(up.history) - 4 * Taps) * down.step * Grid < pulled * (-Drift)
<1>1. PhaseInv
  BY DEF HostedInv
<1>2. /\ Len(up.history) \in Nat /\ up.base \in Nat /\ up.pushed = chip
      /\ up.base = MinNeeded(up.pos) /\ up.base + Len(up.history) = chip
      /\ up.pos = pulled * up.step
  BY DEF BufInv, ConvInv, Converter, HostedInv, PosInv
<1> DEFINE f == up.pos \div Grid
           m == chip - f - 2 - Half
<1>3. f \in Nat /\ up.pos < (f + 1) * Grid
  <2>1. up.pos \div Grid \in Nat /\ up.pos < (up.pos \div Grid + 1) * Grid
    BY <1>1, HostedTypes, Constants
  <2> QED BY <2>1
<1>4. up.base >= f - (Half - 1)
  <2>1. FirstTap(up.pos) \in Int /\ FirstTap(up.pos) = f - (Half - 1)
    BY <1>1, HostedTypes, KernelOrder DEF FirstTap
  <2> QED BY <1>2, <2>1, MinNeededIs
<1>5. f \in Nat /\ pulled * up.step < (f + 1) * Grid
  BY <1>2, <1>3
<1> HIDE DEF f
<1> DEFINE len == Len(up.history)
<1>6. /\ len \in Nat /\ m \in Int /\ chip \in Nat /\ len <= chip /\ len - 1 - Taps <= m
      /\ Taps \in Nat /\ Taps >= 2
  <2>1. chip \in Nat /\ Half \in Nat /\ Taps \in Nat /\ Taps >= 2 /\ Taps = 2 * Half
    BY <1>1, HostedTypes, Constants
  <2>2. len \in Nat /\ up.base \in Nat /\ up.base + len = chip /\ up.base >= f - (Half - 1)
    BY <1>2, <1>4
  <2> HIDE DEF len
  <2> QED BY <1>5, <2>1, <2>2
<1> HIDE DEF len
<1>7. up.step <= 3 * Taps * Grid /\ Grid <= (3 * Taps - 1) * down.step
  BY DEF RatesNear, HostedInv, PhaseInv, TypeOK, PosInv
<1> HIDE DEF m
<1> SUFFICES ASSUME len > 4 * Taps
             PROVE  (len - 4 * Taps) * down.step * Grid < pulled * (-Drift)
  BY DEF len
<1>9. /\ m >= (3 * Taps - 1) + (len - 4 * Taps) /\ len - 4 * Taps >= 1
      /\ m >= 3 * Taps /\ chip > 0
  BY <1>6
<1> DEFINE over == (latency + dry) - Half
<1>10. (chip - 1) * down.step < (pulled + 1 + over) * Grid
  <2>1. (chip - 1) * down.step < (down.pushed - Half) * Grid
    BY <1>9 DEF HostedInv, ClockInv
  <2>2. down.pushed - Half <= pulled + 1 + over
    BY <1>1, HostedTypes, Constants DEF HostedInv, FedInv
  <2>3. (down.pushed - Half) * Grid <= (pulled + 1 + over) * Grid
    BY <1>1, <2>2, HostedTypes, Constants, TimesOrder
  <2> QED BY <1>1, <2>1, <2>3, HostedTypes, Constants
<1>11. over \in Int
  BY <1>1, HostedTypes, Constants
<1>12. over * Grid * Grid <= Half * Grid * down.step + (IF Drift > 0 THEN pulled * Drift ELSE 0)
  BY DEF HostedInv, OverInv
<1> HIDE DEF over
<1>13. Drift \in Int /\ Drift = down.step * up.step - Grid * Grid
       /\ down.step * up.step \in Int /\ Grid * Grid \in Int
  BY <1>1, HostedTypes, Constants DEF Drift
<1>14. ~(Drift >= 0)
  <2> SUFFICES ASSUME Drift >= 0 PROVE FALSE
    OBVIOUS
  <2>1. (IF Drift > 0 THEN pulled * Drift ELSE 0) = pulled * Drift
    BY <1>1, <1>13, HostedTypes
  <2>2. over * Grid * Grid
          <= Half * Grid * down.step + pulled * (down.step * up.step - Grid * Grid)
    BY <1>12, <1>13, <2>1
  <2>3. down.step * up.step >= Grid * Grid
    BY <1>13
  <2>4. m >= 0
    BY <1>6, <1>9
  <2>5. m * Grid < up.step
    BY <1>1, <1>5, <1>10, <1>11, <2>2, <2>3, <2>4, HostedTypes, Constants, BacklogBound DEF m
  <2>6. (3 * Taps) * Grid <= m * Grid
    BY <1>6, <1>9, Constants, TimesOrder
  <2>7. m * Grid \in Int /\ (3 * Taps) * Grid \in Int
    BY <1>6, Constants
  <2> QED BY <1>1, <1>7, <2>5, <2>6, <2>7, HostedTypes
<1>15. over * Grid * Grid <= Half * Grid * down.step
  <2>1. (IF Drift > 0 THEN pulled * Drift ELSE 0) = 0
    BY <1>13, <1>14
  <2>2. over * Grid * Grid \in Int /\ Half * Grid * down.step \in Int
    BY <1>1, <1>11, HostedTypes, Constants
  <2> QED BY <1>12, <2>1, <2>2
<1>16. (m * down.step) * Grid < pulled * (Grid * Grid - down.step * up.step) + Grid * Grid
  BY <1>1, <1>5, <1>10, <1>11, <1>15, HostedTypes, Constants, BacklogRounded DEF m
<1>17. pulled * (Grid * Grid - down.step * up.step) = pulled * (-Drift)
  <2>1. Grid * Grid - down.step * up.step = -Drift
    BY <1>13
  <2> QED BY <2>1
<1> DEFINE e == len - 4 * Taps
           r == 3 * Taps - 1
           x == pulled * (-Drift)
<1>18. e \in Nat /\ e >= 1 /\ r \in Nat /\ x \in Int /\ m >= r + e /\ m \in Int
  BY <1>1, <1>6, <1>9, <1>13, HostedTypes, Constants
<1>19. (m * down.step) * Grid < x + Grid * Grid /\ Grid <= r * down.step
  BY <1>7, <1>16, <1>17
<1> HIDE DEF e, r, x
<1>20. e * down.step * Grid < x
  BY <1>1, <1>18, <1>19, HostedTypes, Constants, PastReservation
<1> QED BY <1>20 DEF e, x

\* The down-converter never outgrows what `new` reserved, and the up-converter
\* only by frames that rounding the steps down has left in it: a sample is
\* converted without allocating until the drift has filled the reservation.
THEOREM HistoriesStayReserved == Spec /\ RatesFit /\ RatesNear => []HistoryFits
<1> SUFFICES ASSUME RatesNear PROVE Spec /\ RatesFit => []HistoryFits
  OBVIOUS
<1>1. ASSUME HostedInv, BufInv PROVE HistoryFits
  <2>1. Len(down.history) \in Nat /\ Len(down.history) <= Taps
    BY <1>1 DEF BufInv, ConvInv, Converter
  <2>2. Len(down.history) <= 4 * Taps
    BY <2>1, Constants
  <2> QED BY <1>1, <2>2, UpFits DEF HistoryFits
<1>2. HostedInv /\ BufInv => HistoryFits
  BY <1>1
<1> QED BY <1>2, BufAlways, PTL

\* Silence is unreachable, as the comment in process says, at steps that
\* rounding leaves as they are or shortens.
StepsRoundDown ==
  \A h \in HostRates, c \in ChipRates : StepOf(h, c) * StepOf(c, h) <= Grid * Grid

THEOREM NeverDryWithoutDrift == Spec /\ StepsRoundDown => []NeverDry
<1> SUFFICES ASSUME StepsRoundDown PROVE Spec => []NeverDry
  OBVIOUS
<1>1. ASSUME HostedInv PROVE NeverDry
  <2>1. PhaseInv
    BY <1>1 DEF HostedInv
  <2>2. down.step * up.step <= Grid * Grid
    BY <1>1 DEF StepsRoundDown, HostedInv, PhaseInv, TypeOK, PosInv
  <2>3. Drift <= 0
    <3>1. down.step * up.step \in Int /\ Grid * Grid \in Int
      BY <2>1, HostedTypes, Constants
    <3> QED BY <2>2, <3>1 DEF Drift
  <2>4. ASSUME dry > 0 PROVE FALSE
    <3>1. Slack > 0 /\ pulled * Drift >= Grid * Slack
      BY <1>1, <2>4 DEF HostedInv, SlackInv, DryNeedsDrift
    <3>2. pulled * Drift <= 0 /\ Grid * Slack > 0
      BY <2>1, <2>3, <3>1, HostedTypes, Constants
    <3>3. pulled * Drift \in Int /\ Grid * Slack \in Int
      BY <2>1, HostedTypes, Constants
    <3> QED BY <3>1, <3>2, <3>3
  <2> QED BY <2>1, <2>4, HostedTypes DEF NeverDry
<1>2. HostedInv => NeverDry
  BY <1>1
<1> QED BY <1>2, HostedAlways, PTL
=============================================================================
