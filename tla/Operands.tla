------------------------------ MODULE Operands ------------------------------
(***************************************************************************)
(* Operands and instructions of the assembler (src/src/asm.rs), with the   *)
(* coefficient quantizers of src/src/fixed.rs.                             *)
(*                                                                         *)
(* An assembled instruction is an operation of Codec and the integer in    *)
(* each of its fields.  Every error is Fails: which one is wording.        *)
(***************************************************************************)
EXTENDS Expr, Codec, FiniteSets

CONSTANTS
  SkipMax,   \* the longest skip a word can hold                     63
  RawMax     \* the largest word                                     2^32 - 1

ASSUME OperandAssumption ==
  /\ SkipMax \in 0 .. 63
  /\ RawMax \in Nat /\ RawMax <= IntMax /\ 2 ^ 24 - 1 <= IntMax
  /\ \A f \in 0 .. 63 : BitOr(f, 0) = f /\ BitOr(f, 1) \in 0 .. 63

-----------------------------------------------------------------------------
(* Predefined symbols.                                                     *)

Registers ==
  [SIN0_RATE |-> 0, SIN0_RANGE |-> 1, SIN1_RATE |-> 2, SIN1_RANGE |-> 3,
   RMP0_RATE |-> 4, RMP0_RANGE |-> 5, RMP1_RATE |-> 6, RMP1_RANGE |-> 7,
   POT0 |-> 16, POT1 |-> 17, POT2 |-> 18, ADCL |-> 20, ADCR |-> 21,
   DACL |-> 22, DACR |-> 23, ADDR_PTR |-> 24,
   REG0 |-> 32, REG1 |-> 33, REG2 |-> 34, REG3 |-> 35, REG4 |-> 36, REG5 |-> 37,
   REG6 |-> 38, REG7 |-> 39, REG8 |-> 40, REG9 |-> 41, REG10 |-> 42, REG11 |-> 43,
   REG12 |-> 44, REG13 |-> 45, REG14 |-> 46, REG15 |-> 47, REG16 |-> 48, REG17 |-> 49,
   REG18 |-> 50, REG19 |-> 51, REG20 |-> 52, REG21 |-> 53, REG22 |-> 54, REG23 |-> 55,
   REG24 |-> 56, REG25 |-> 57, REG26 |-> 58, REG27 |-> 59, REG28 |-> 60, REG29 |-> 61,
   REG30 |-> 62, REG31 |-> 63]
Selectors  == [SIN0 |-> 0, SIN1 |-> 1, RMP0 |-> 2, RMP1 |-> 3, COS0 |-> 8, COS1 |-> 9]
Conditions == [NEG |-> 1, GEZ |-> 2, ZRO |-> 4, ZRC |-> 8, RUN |-> 16]
ChoFlags   == [SIN |-> 0, COS |-> 1, REG |-> 2, COMPC |-> 4, COMPA |-> 8, RPTR2 |-> 16,
               NA |-> 32]

\* f with the entries of g put over its own.
Over(f, g) == [x \in DOMAIN f \cup DOMAIN g |-> IF x \in DOMAIN g THEN g[x] ELSE f[x]]

Predefined ==
  LET all == Over(Over(Registers, Selectors), Over(Conditions, ChoFlags))
  IN  [name \in {<<x>> : x \in DOMAIN all} |-> IntOf(all[name[1]])]

-----------------------------------------------------------------------------
(* Operands: ts is an operand's tokens, e what Eval makes of them.  Where  *)
(* the code looks for the name of an oscillator or a cosine before it      *)
(* evaluates one, the name's value, predefined and never redefined,        *)
(* selects the same.                                                       *)

IntIn(e, allowed) == IF e.ok /\ ~e.v.real /\ e.v.n \in allowed THEN Gives(e.v.n) ELSE Fails

\* An operand that names one of the entries of a table.
Choice(e, table) ==
  IF e.ok /\ ~e.v.real /\ e.v.n \in DOMAIN table THEN Gives(table[e.v.n]) ELSE Fails

SinBit  == [k \in 0 .. 1 |-> k]
RampBit == [k \in 0 .. 3 |-> k % 2]
RampAmp == [k \in 0 .. 3 \cup {4096, 2048, 1024, 512} |->
              IF k <= 3 THEN k ELSE CHOOSE c \in 0 .. 3 : k * 2 ^ c = 4096]
ChoLfo  == [k \in 0 .. 3 |-> k]

\* A slip for the mutation runs: a seventh flag bit is let through.
FlagBitsWide == 0 .. 127

FlagBits == 0 .. 63

\* An empty operand means no flags.
Flags(ts, e) == IF ts = <<>> THEN Gives(0) ELSE IntIn(e, FlagBits)

\* A slip for the mutation runs: the skip counts its own instruction.
DistanceFromSelf(target, index) == target - index

\* A skip to a label starts from the instruction after the skip.
Distance(target, index) == target - index - 1

\* A label, a count, or a real literal cut to a count.
SkipTarget(ts, e, symtab, labels, index) ==
  IF Len(ts) = 1 /\ IsId(ts[1]) /\ ts[1].s \in labels
  THEN LET target == symtab[ts[1].s].n
       IN  IF target > index /\ Distance(target, index) <= SkipMax
           THEN Gives(Distance(target, index)) ELSE Fails
  ELSE LET cut == Len(ts) = 1 /\ ts[1].t = "num"
           n   == e.v.n \div e.v.d
       IN  IF e.ok /\ (e.v.real => cut) /\ e.v.d # 0 /\ n \in 0 .. SkipMax
           THEN Gives(n) ELSE Fails

-----------------------------------------------------------------------------
(* Real operands.                                                          *)

\* A slip for the mutation runs: the fraction is cut off.
RoundedDown(n, d) == Sign(n) * (Size(n) \div d)

\* n / d rounded to the nearest integer, halves away from zero.
Rounded(n, d) ==
  Sign(n) * (Size(n) \div d + (IF 2 * (Size(n) % d) >= d THEN 1 ELSE 0))

\* x times a whole number, rounded: an infinity is cut to what no field holds,
\* and NaN to 0.
Scaled(x, one) ==
  IF x.d = 0 THEN x.n * (IntMax + 1) ELSE Rounded(x.n * one, x.d)

\* A fixed-point field: 1.0, its width, and the bound that stands for its
\* largest value.
Format(one, bits, top) ==
  [one |-> one, bits |-> bits, top |-> top,
   lo |-> -(2 ^ (bits - 1)), hi |-> 2 ^ (bits - 1) - 1]

S1_14 == Format(16384, 16, 2)
S1_9  == Format(512, 11, 2)
S_10  == Format(1024, 11, 1)
S_15  == Format(32768, 16, 1)
S_23  == Format(8388608, 24, 1)

Bounded(v, lo, hi) == IF v \in lo .. hi THEN v ELSE IF v < lo THEN lo ELSE hi

\* Round and clamp, as each function of module coeff does.
Coeff(x, fmt) == Bounded(Scaled(x, fmt.one), fmt.lo, fmt.hi)

IsTop(x, fmt) == x.d # 0 /\ x.n = fmt.top * x.d

\* Accepted if it rounds into the field, or is the shorthand for its maximum.
Quantize(x, fmt) ==
  IF Scaled(x, fmt.one) \in fmt.lo .. fmt.hi \/ IsTop(x, fmt)
  THEN Gives(Coeff(x, fmt)) ELSE Fails

\* One hex or binary literal is the field's bits.
RawField(n, bits) ==
  IF n \in 0 .. 2 ^ bits - 1
  THEN Gives(IF n >= 2 ^ (bits - 1) THEN n - 2 ^ bits ELSE n) ELSE Fails

Coefficient(ts, e, fmt) ==
  IF Len(ts) = 1 /\ ts[1].t = "raw" THEN RawField(ts[1].v.n, fmt.bits)
  ELSE IF e.ok THEN Quantize(e.v, fmt) ELSE Fails

\* 24 bits, signed or not, or a real in S.23.
Mask(e) ==
  LET n == IF e.v.real THEN Coeff(e.v, S_23) ELSE e.v.n
  IN  IF /\ e.ok
         /\ e.v.real => e.v.d # 0 /\ Size(e.v.n) <= e.v.d
         /\ n \in -(2 ^ 23) .. 2 ^ 24 - 1
      THEN Gives(n % 2 ^ 24) ELSE Fails

\* WLDR's rate: an integer, or a real times 2^15.
RampRate(e) ==
  LET n == IF e.v.real THEN Scaled(e.v, 2 ^ 15) ELSE e.v.n
  IN  IF e.ok /\ n \in -(2 ^ 15) .. 2 ^ 15 - 1 THEN Gives(n) ELSE Fails

-----------------------------------------------------------------------------
(* Instructions.                                                           *)

\* The format of a real coefficient.
FormatOf == [c9 |-> S1_9, c14 |-> S1_14, d10 |-> S_10, d15 |-> S_15]

\* The integers an operand may be.
RangeOf == [addr |-> 0 .. 2 ^ 15 - 1, reg |-> 0 .. 63, word |-> 0 .. RawMax, cond |-> 0 .. 31,
            sinFreq |-> 0 .. 2 ^ 9 - 1, sinAmp |-> 0 .. 2 ^ 15 - 1]

\* The integers that select an entry, and which.
ChoiceOf == [sin |-> SinBit, ramp |-> RampBit, rampAmp |-> RampAmp, lfo |-> ChoLfo]

\* One operand of each kind.
Operand(kind, ts, e, symtab, labels, index) ==
  CASE kind \in DOMAIN FormatOf -> Coefficient(ts, e, FormatOf[kind])
    [] kind \in DOMAIN RangeOf  -> IntIn(e, RangeOf[kind])
    [] kind \in DOMAIN ChoiceOf -> Choice(e, ChoiceOf[kind])
    [] kind = "mask"            -> Mask(e)
    [] kind = "rampFreq"        -> RampRate(e)
    [] kind = "flags"           -> Flags(ts, e)
    [] kind = "target"          -> SkipTarget(ts, e, symtab, labels, index)

\* The field an operand of each kind fills.
FieldOf ==
  [addr |-> "addr", reg |-> "reg", c9 |-> "c", c14 |-> "c", d10 |-> "d", d15 |-> "d",
   mask |-> "mask", word |-> "word", cond |-> "cond", target |-> "n", sin |-> "lfo",
   ramp |-> "lfo", sinFreq |-> "freq", sinAmp |-> "amp", rampFreq |-> "freq",
   rampAmp |-> "amp", lfo |-> "lfo", flags |-> "flags"]

\* The operands each mnemonic takes.
Form(mn) ==
  CASE mn \in DelayOps            -> <<"addr", "c9">>
    [] mn = "RMPA"                -> <<"c9">>
    [] mn \in RegOps              -> <<"reg", "c14">>
    [] mn \in {"MULX", "LDAX"}    -> <<"reg">>
    [] mn \in MathOps             -> <<"c14", "d10">>
    [] mn \in MaskOps             -> <<"mask">>
    [] mn = "SKP"                 -> <<"cond", "target">>
    [] mn = "JMP"                 -> <<"target">>
    [] mn = "WLDS"                -> <<"sin", "sinFreq", "sinAmp">>
    [] mn = "WLDR"                -> <<"ramp", "rampFreq", "rampAmp">>
    [] mn = "JAM"                 -> <<"ramp">>
    [] mn = "RAW"                 -> <<"word">>
    [] mn = "CHO_RDA"             -> <<"lfo", "flags", "addr">>
    [] mn = "CHO_SOF"             -> <<"lfo", "flags", "d15">>
    [] mn \in {"NOP", "CLR", "NOT", "ABSA"} -> <<>>

Pseudo == {"JMP", "LDAX", "NOP", "CLR", "NOT", "ABSA"}
Mnemonics == (Ops \ ChoOps) \cup Pseudo \cup {"CHO", "RAW"}

\* What a pseudo-op stands for, and the fields it gives itself.
OpFor(mn) == CASE mn \in {"JMP", "NOP"} -> "SKP"
               [] mn = "LDAX"           -> "RDFX"
               [] mn = "CLR"            -> "AND"
               [] mn = "NOT"            -> "XOR"
               [] mn = "ABSA"           -> "MAXX"
               [] OTHER                 -> mn
Given(mn) == CASE mn = "JMP"  -> [cond |-> 0]
               [] mn = "NOP"  -> [cond |-> 0, n |-> 0]
               [] mn = "LDAX" -> [c |-> 0]
               [] mn = "CLR"  -> [mask |-> 0]
               [] mn = "NOT"  -> [mask |-> 2 ^ 24 - 1]
               [] mn = "ABSA" -> [reg |-> 0, c |-> 0]
               [] OTHER       -> <<>>

\* Operands are separated by commas; none is no operand, not an empty one.
SplitCommas(ts) ==
  LET commas == {p \in 1 .. Len(ts) : ts[p].t = ","}
      ends   == commas \cup {Len(ts) + 1}
      before(p) == IF \E q \in commas : q < p
                   THEN CHOOSE q \in commas : q < p /\ \A r \in commas : r < p => r <= q
                   ELSE 0
      end(k) == CHOOSE p \in ends : Cardinality({q \in ends : q <= p}) = k
  IN  IF ts = <<>> THEN <<>>
      ELSE [k \in 1 .. Cardinality(ends) |-> SubSeq(ts, before(end(k)) + 1, end(k) - 1)]

\* The instruction of a mnemonic whose operands are all of the right form.
Filled(mn, groups, symtab, labels, index) ==
  LET form  == Form(mn)
      value == [k \in 1 .. Len(form) |->
                  Operand(form[k], groups[k], Eval(groups[k], symtab), symtab, labels, index)]
      slot(f) == CHOOSE k \in 1 .. Len(form) : FieldOf[form[k]] = f
      read  == [f \in {FieldOf[form[k]] : k \in 1 .. Len(form)} |-> value[slot(f)].v]
  IN  IF Len(groups) = Len(form) /\ \A k \in 1 .. Len(form) : value[k].ok
      THEN Gives([op |-> OpFor(mn), arg |-> Over(Given(mn), read)]) ELSE Fails

\* CHO RDAL: selectors 8 and 9 are the cosine outputs of the SIN oscillators,
\* and without a flags operand REG is set.
RdalOf(e, flags) ==
  LET lfo == IntIn(e, 0 .. 3 \cup {8, 9})
  IN  IF lfo.ok /\ flags.ok
      THEN Gives([op |-> "CHO_RDAL",
                  arg |-> [lfo |-> lfo.v % 8,
                           flags |-> BitOr(flags.v, IF lfo.v >= 8 THEN ChoFlags.COS ELSE 0)]])
      ELSE Fails
Rdal(groups, symtab) ==
  CASE Len(groups) = 1 -> RdalOf(Eval(groups[1], symtab), Gives(ChoFlags.REG))
    [] Len(groups) = 2 -> RdalOf(Eval(groups[1], symtab),
                                 Flags(groups[2], Eval(groups[2], symtab)))
    [] OTHER           -> Fails

\* CHO names the kind of access in its first operand.
ChoKind == [RDA |-> "CHO_RDA", SOF |-> "CHO_SOF", RDAL |-> "CHO_RDAL"]
IsCho(groups) == /\ groups # <<>> /\ Len(groups[1]) = 1 /\ IsId(groups[1][1])
                 /\ Len(groups[1][1].s) = 1 /\ groups[1][1].s[1] \in DOMAIN ChoKind

\* parse_instruction: the line's mnemonic, a name, and its operands.
Parse(name, operands, symtab, labels, index) ==
  LET groups == SplitCommas(operands)
      cho  == name = <<"CHO">>
      mn   == IF cho THEN ChoKind[groups[1][1].s[1]] ELSE name[1]
      rest == IF cho THEN Tail(groups) ELSE groups
  IN  IF Len(name) # 1 \/ name[1] \notin Mnemonics \/ (cho /\ ~IsCho(groups)) THEN Fails
      ELSE IF mn = "CHO_RDAL" THEN Rdal(rest, symtab)
      ELSE Filled(mn, rest, symtab, labels, index)

\* The 1 bits of a field's integer: 16 of a signed one.
Bits(v, n) == {b \in 0 .. n - 1 : ((v \div 2 ^ (b \div 2)) \div 2 ^ (b - b \div 2)) % 2 = 1}

AsWord(i) ==
  IF i.op = "RAW" THEN [op |-> "RAW", word |-> Bits(i.arg.word, 32)]
  ELSE [op |-> i.op,
        field |-> [f \in DOMAIN i.arg |->
                     Bits(i.arg[f], IF Layout(i.op)[f].signed THEN 16 ELSE 32)]]
=============================================================================
