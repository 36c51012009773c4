------------------------------ MODULE AsmAudit ------------------------------
(***************************************************************************)
(* What the assembler must get right, against definitions that are not     *)
(* its own: an expression's meaning by its outermost operator, a           *)
(* coefficient's distance from the number written, the codec that decodes  *)
(* the words, and the printer whose lines must read back.                  *)
(***************************************************************************)
EXTENDS Asm

SE == INSTANCE SequencesExt

-----------------------------------------------------------------------------
(* Printed instructions: Display for Instruction.                          *)

Ident(stem) == <<Id(<<stem>>)>>

\* v / one as a decimal: without a point if it is whole.
Decimal(v, one) ==
  LET m == Size(v)
      digits == Lit(IF m % one = 0 THEN IntOf(m \div one) ELSE RealOf(m, one))
  IN  IF v < 0 THEN <<Mark("-"), digits>> ELSE <<digits>>

Printed(kind, v) ==
  CASE kind = "c9"  -> Decimal(v, S1_9.one)
    [] kind = "c14" -> Decimal(v, S1_14.one)
    [] kind = "d10" -> Decimal(v, S_10.one)
    [] kind = "d15" -> Decimal(v, S_15.one)
    [] kind \in {"mask", "cond", "flags", "word"} -> <<Raw(v)>>
    [] kind = "sin"     -> Ident(IF v = 0 THEN "SIN0" ELSE "SIN1")
    [] kind = "ramp"    -> Ident(IF v = 0 THEN "RMP0" ELSE "RMP1")
    [] kind = "lfo"     -> Ident(<<"SIN0", "SIN1", "RMP0", "RMP1">>[v + 1])
    [] kind = "rampAmp" -> Decimal(4096 \div 2 ^ v, 1)
    [] OTHER            -> Decimal(v, 1)

\* A slip for the mutation runs: RDFX is printed as LDAX whatever it scales by.
ShownShort(i) == IF i.op = "RDFX" THEN "LDAX" ELSE i.op

\* The mnemonic an instruction is printed with, a pseudo-op where one fits.
Shown(i) ==
  CASE i.op = "AND" /\ i.arg = Given("CLR")     -> "CLR"
    [] i.op = "XOR" /\ i.arg = Given("NOT")     -> "NOT"
    [] i.op = "MAXX" /\ i.arg = Given("ABSA")   -> "ABSA"
    [] i.op = "SKP" /\ i.arg = Given("NOP")     -> "NOP"
    [] i.op = "RDFX" /\ i.arg.c = 0             -> "LDAX"
    [] OTHER                                    -> i.op

Listed(i) ==
  LET mn     == Shown(i)
      form   == IF mn = "CHO_RDAL" THEN <<"lfo", "flags">> ELSE Form(mn)
      fields == [k \in 1 .. Len(form) |-> Printed(form[k], i.arg[FieldOf[form[k]]])]
      head   == CASE mn = "CHO_RDA"  -> Ident("CHO") \o Ident("RDA")
                  [] mn = "CHO_SOF"  -> Ident("CHO") \o Ident("SOF")
                  [] mn = "CHO_RDAL" -> Ident("CHO") \o Ident("RDAL")
                  [] OTHER           -> Ident(mn)
      comma(k) == IF k = 1 /\ Len(head) = 1 THEN <<>> ELSE <<Mark(",")>>
  IN  head \o SE!FlattenSeq([k \in 1 .. Len(form) |-> comma(k) \o fields[k]])

-----------------------------------------------------------------------------
(* The meaning of an expression, from its outermost operator inwards.      *)

\* How tightly a binary operator binds.
Binding(t) == CASE t = "|" -> 1 [] t = "^" -> 2 [] t = "&" -> 3 [] t \in {"<", ">"} -> 4
                [] t \in {"+", "-"} -> 5 [] t \in {"*", "/"} -> 6 [] t = "**" -> 7
                [] OTHER -> 8

\* How many brackets of lo .. k are open after k.
Depth(ts, lo, k) == Cardinality({j \in lo .. k : ts[j].t = "("})
                      - Cardinality({j \in lo .. k : ts[j].t = ")"})

\* Positions of the operators that stand between two operands of lo .. hi.
Infix(ts, lo, hi) == {k \in lo + 1 .. hi : /\ Depth(ts, lo, k) = 0 /\ Binding(ts[k].t) < 8
                                           /\ ts[k - 1].t \in {"num", "raw", "id", ")"}}

\* The one that binds last: of the loosest the rightmost, of ** the leftmost.
Outermost(ts, ops) ==
  LET top == {k \in ops : \A j \in ops : Binding(ts[k].t) <= Binding(ts[j].t)}
  IN  IF \E j \in top : ts[j].t = "**" THEN SE!Min(top) ELSE SE!Max(top)

MeaningAt(ts, table, Of, lo, hi) ==
  LET ops == Infix(ts, lo, hi)
      k   == Outermost(ts, ops)
  IN  IF lo > hi THEN Fails
      ELSE IF ops # {}
      THEN LET a == Of[<<lo, k - 1>>]
               b == Of[<<k + 1, hi>>]
           IN  IF a.ok /\ b.ok THEN Apply(ts[k].t, a.v, b.v) ELSE Fails
      ELSE IF ts[lo].t \in {"-", "~"}
      THEN LET a == Of[<<lo + 1, hi>>] IN IF a.ok THEN Negated(ts[lo].t, a.v) ELSE Fails
      ELSE IF ts[lo].t = "(" /\ ts[hi].t = ")" THEN Of[<<lo + 1, hi - 1>>]
      ELSE IF lo < hi THEN Fails
      ELSE IF ts[lo].t \in {"num", "raw"} THEN Gives(ts[lo].v)
      ELSE IF IsId(ts[lo]) /\ ts[lo].s \in DOMAIN table THEN Gives(table[ts[lo].s])
      ELSE Fails

\* The stretches of ts, the empty ones included, by where they begin and end.
Stretches(ts) == (1 .. Len(ts) + 1) \X (0 .. Len(ts))

Meaning(ts, table) ==
  LET Of[at \in Stretches(ts)] == MeaningAt(ts, table, Of, at[1], at[2])
  IN  Of[<<1, Len(ts)>>]

-----------------------------------------------------------------------------
(* Properties.                                                             *)

BodyOf(k) == Body(source[k])
GroupsOf(p) == SplitCommas(Operands1(BodyOf(pending[p])))

\* The lines of a kind that have been read.
LinesOf(kind) == {k \in 1 .. row - 1 : Kind(BodyOf(k)) = kind}

\* Every EQU symbol has the value its expression means: operators bind as the
\* grammar in the source says, and no later line has given the name another
\* value.  A line refused although its name is free has an expression without
\* a meaning.
EquMeans ==
  /\ \A k \in LinesOf("equ") :
       LET meant == Meaning(ValueOf(BodyOf(k)), symtab)
       IN  meant.ok /\ symtab[NameOf(BodyOf(k), "EQU")] = meant.v
  /\ /\ phase = "failed" /\ row <= Len(source) /\ Kind(Line) = "equ"
     /\ HasLabel(source[row]) => labelled
     =>
       \/ ~Named(Line, "EQU")
       \/ ~Definable(NameOf(Line, "EQU"))
       \/ ~Meaning(ValueOf(Line), symtab).ok

StartsMnemonic(body) == body # <<>> /\ IsId(body[1]) /\ IsMnemonic(body[1].s)

\* The instructions a line writes: as many as it repeats NOP, or one.
Written(body) ==
  IF \A t \in 1 .. Len(body) : body[t] = Id(<<"NOP">>) THEN Len(body) ELSE 1

\* The places in the program that line k has taken.
Entries(k) == {q \in 1 .. Len(pending) : pending[q] = k}

\* Each line that starts with a mnemonic is in the program, once or as often
\* as it repeats NOP, in the order of the text, whatever its operands look like.
InstructionsKept ==
  /\ \A k \in 1 .. row - 1 :
       StartsMnemonic(BodyOf(k)) => Cardinality(Entries(k)) = Written(BodyOf(k))
  /\ \A p, q \in 1 .. Len(pending) : p < q => pending[p] <= pending[q]

\* v is what a field stores of x: of a finite number the nearest value, or the
\* largest for the shorthand of the field's bound; of NaN 0; of an infinity none.
NearTo(v, x, fmt) ==
  IF x = NaN THEN v = 0
  ELSE /\ x.d # 0
       /\ \/ v \in fmt.lo .. fmt.hi /\ 2 * Size(v * x.d - x.n * fmt.one) <= x.d
          \/ v = fmt.hi /\ x.n = fmt.top * x.d

\* Each number written for a coefficient is stored as the nearest of its field,
\* whatever expression it came from, no infinity is stored, and NaN, which no
\* range test refuses, is stored as 0 (quantize).
CoefficientsNearest ==
  \A p \in 1 .. Len(code) :
    LET name  == BodyOf(pending[p])[1].s[1]
        cho   == name = "CHO"
        form  == IF name = "CHO" THEN (IF code[p].op = "CHO_SOF" THEN Form("CHO_SOF") ELSE <<>>)
                 ELSE Form(name)
    IN  \A k \in 1 .. Len(form) :
          LET ts == GroupsOf(p)[IF cho THEN k + 1 ELSE k]
          IN  form[k] \in DOMAIN FormatOf /\ ~(Len(ts) = 1 /\ ts[1].t = "raw") =>
                NearTo(code[p].arg[FieldOf[form[k]]], Eval(ts, symtab).v, FormatOf[form[k]])

\* The words of a program are the instructions that were written: each decodes
\* to the one assembled, in the form SpinASM writes, and NOP fills the rest.
WordsFaithful ==
  /\ \A p \in 1 .. Len(code) :
       code[p].op # "RAW" => /\ Decode(Words[p - 1]) = AsWord(code[p])
                             /\ Canonical(Words[p - 1])
  /\ \A s \in Len(code) .. ProgLen - 1 : Words[s] = {0, 4}

\* What the program prints as assembles to the same instruction at any place.
PrintedReadsBack ==
  \A p \in 1 .. Len(code) :
    LET line == Listed(code[p])
    IN  Parse(line[1].s, Tail(line), Predefined, {}, p - 1) = Gives(code[p])
=============================================================================
