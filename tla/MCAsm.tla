------------------------------- MODULE MCAsm --------------------------------
(***************************************************************************)
(* Texts for the assembler: short programs of every kind of line in every  *)
(* order, expressions, and each instruction with operands at and past the  *)
(* ends of their ranges.                                                   *)
(***************************************************************************)
EXTENDS AsmAudit, Bitwise

Bits26(v)   == v % (2 * (IntMax + 1))
MCAnd(a, b) == Bits26(a) & Bits26(b)
MCOr(a, b)  == Bits26(a) | Bits26(b)
MCXor(a, b) == Bits26(a) ^^ Bits26(b)
MCPowF(a, b) == IF IsZero(a) THEN RealOf(1, 0) ELSE RealOf(0, 1)

-----------------------------------------------------------------------------
N(k)    == Lit(IntOf(k))
F(n, d) == Lit(RealOf(n, d))
I(stem) == Id(<<stem>>)
M(t)    == Mark(t)
A1 == Id(<<"A", "#">>)
AM == Id(<<"A", "^">>)

\* Labels, blocks, symbols, instructions that use them, and lines that fail.
Lines ==
  { <<>>,
    <<I("L"), M(":")>>,
    <<I("M"), M(":"), I("NOP"), I("NOP")>>,
    <<I("A"), I("MEM"), N(3)>>,
    <<I("MEM"), I("B"), A1>>,
    <<I("C"), I("MEM"), N(32764)>>,
    <<I("L"), M(":"), I("D"), I("MEM"), N(32768), M("-"), I("L")>>,
    <<I("B"), I("EQU"), A1, M("-"), I("A")>>,
    <<I("EQU"), I("A"), F(1, 2)>>,
    <<I("MEM"), I("EQU"), N(1)>>,
    <<I("MEM"), I("B"), M("-"), N(1)>>,
    <<I("JAM"), I("MEM")>>, <<I("JAM"), I("MEM"), M("-"), N(0)>>,
    <<I("SKP"), I("RUN"), M(","), I("L")>>,
    <<I("JMP"), I("M")>>,
    <<I("SKP"), I("B"), M(","), I("L"), M("+"), N(0)>>,
    <<I("RDA"), AM, M("+"), N(1), M(","), N(1)>>,
    <<I("A"), N(1)>>,
    <<N(1)>>,
    <<I("EQU"), N(1)>> }

Jumps == { <<I("L"), M(":")>>, <<I("M"), M(":"), I("NOP"), I("NOP")>>,
           <<I("SKP"), I("GEZ"), M(","), I("L")>>, <<I("JMP"), I("M")>>,
           <<I("CLR")>> }
Blocks == { <<I("A"), I("MEM"), N(0)>>, <<I("B"), I("MEM"), N(3)>>,
            <<I("C"), I("MEM"), N(32763)>>, <<I("MEM"), I("D"), A1, M("/"), N(2)>>,
            <<I("E"), I("MEM"), I("B"), M("<"), N(13)>> }

-----------------------------------------------------------------------------
(* Expressions.                                                            *)

Atoms  == {<<N(2)>>, <<M("-"), N(3)>>, <<F(1, 2)>>, <<I("POT1")>>, <<Raw(6)>>}
Binary == {"|", "^", "&", "<", ">", "+", "-", "*", "/", "**"}

\* Operands of the real operators past the largest real, and the expressions
\* that overflow, that have no value and that panic.
Huge == F(1, 0)
Large == N(33554431)
Extremes ==
  {a \o <<M(p)>> \o b : a, b \in {<<Huge>>, <<M("-"), Huge>>, <<N(0)>>, <<F(0, 1)>>, <<M("-"), N(2)>>,
                                  <<F(1, 2)>>, <<M("("), Huge, M("-"), Huge, M(")")>>},
                        p \in {"+", "-", "*", "/", "**", "&", ">"}}
  \cup {<<Large, M("*"), F(3, 2)>>, <<Large, M("/"), F(1, 2)>>, <<Large, M("+"), F(1, 1)>>,
        <<M("("), M("-"), Large, M("-"), N(1), M(")"), M("/"), M("-"), N(1)>>,
        <<M("-"), Large, M("/"), M("-"), N(1)>>}

Shapes ==
  {a \o <<M(p)>> \o b : a, b \in {<<N(0)>>, <<N(5)>>, <<F(3, 4)>>, <<M("-"), N(2)>>,
                                  <<M("~"), Raw(255)>>, <<N(33554431)>>, <<N(64)>>},
                        p \in Binary \ {"*", "**", "<"}}
  \cup {<<N(4), M(p), N(2), M(q), N(1), M(r), N(2)>> : p, q, r \in Binary}
  \cup {<<N(4), M(p), M("("), N(3), M(q), N(2), M(")")>> : p, q \in Binary}
  \cup {<<M("("), N(4), M(p), N(3), M(")"), M(q), N(2)>> : p, q \in Binary}
  \cup {<<M(u), N(3), M(p), M(v), N(2)>> : u, v \in {"-", "~"}, p \in Binary \ {"<", ">", "*", "**"}}
  \cup {<<M("-"), N(3), M("**"), N(2)>>, <<N(2), M("**"), M("-"), N(2)>>,
        <<N(2), M("**"), N(30)>>, <<N(3), M("<"), N(4)>>, <<F(1, 2), M("**"), N(2)>>,
        <<N(2), M("<"), N(25)>>, <<M("-"), N(2), M("<"), N(24)>>, <<N(3), M("**"), N(0)>>}

\* Short strings of tokens, most of them not expressions.
Alphabet == {N(2), I("A"), I("SIN1"), M("+"), M("-"), M("~"), M("("), M(")"), M("*"),
             M("**"), M(":"), M(",")}
Strings == UNION {[1 .. n -> Alphabet] : n \in 1 .. 3}

-----------------------------------------------------------------------------
(* Instructions.                                                           *)

Comma(a, b) == a \o <<M(",")>> \o b
Of(mn, operands) == <<I(mn)>> \o operands
Neg(token) == <<M("-"), token>>

Nonfinites == {<<Huge>>, Neg(Huge), <<Huge, M("-"), Huge>>, <<Large, M("*"), F(3, 2)>>,
               <<M("-"), N(1), M("**"), F(1, 2)>>, <<N(1), M("/"), Huge>>}
Reals == {<<N(0)>>, <<N(1)>>, <<N(2)>>, Neg(N(1)), Neg(N(2)), <<F(1, 2)>>, <<F(3, 2)>>,
          <<F(1, 1024)>>, <<F(1, 2048)>>, Neg(F(3, 2048)), <<F(65535, 32768)>>, <<F(65533, 32768)>>,
          <<F(2047, 1024)>>, <<F(2045, 1024)>>, <<F(2047, 2048)>>, <<F(4095, 2048)>>,
          Neg(F(65537, 32768)), <<F(65535, 65536)>>, <<F(65533, 65536)>>, <<N(1), M("/"), N(8)>>,
          <<Raw(1023)>>, <<Raw(1024)>>, <<Raw(2047)>>, <<Raw(2048)>>, <<Raw(65535)>>,
          <<Raw(65536)>>, <<Raw(32768)>>, <<Raw(1), M("+"), N(0)>>, <<>>} \cup Nonfinites
Fifteen == Reals \ {Neg(F(65537, 32768))}
Ints == {<<N(0)>>, <<N(1)>>, <<N(2)>>, <<N(3)>>, <<N(4)>>, <<N(31)>>, <<N(32)>>, <<N(63)>>,
         <<N(64)>>, <<N(511)>>, <<N(512)>>, <<N(32767)>>, <<N(32768)>>, <<N(8)>>, <<N(9)>>,
         <<I("RMP1")>>, <<I("SIN1")>>, <<I("COS1")>>, <<I("REG31")>>, <<I("REG"), M("|"), I("NA")>>,
         Neg(N(1)), <<F(5, 2)>>, <<F(1, 4)>>, <<Raw(5)>>, <<N(4096)>>, <<I("NEG"), M("|"), I("RUN")>>,
         <<Huge>>, <<Huge, M("-"), Huge>>, <<>>}
Masks == {<<Raw(16777215)>>, <<Raw(8388608)>>, <<N(16777216)>>, Neg(N(8388608)), Neg(N(8388609)),
          <<F(1, 2)>>, Neg(F(1, 2)), <<F(1, 1)>>, Neg(F(1, 1)), Neg(F(5, 4)), <<N(0)>>, <<N(5)>>}
           \cup Nonfinites

One == <<N(1)>>
Probes ==
  {Of(mn, Comma(One, c)) : mn \in DelayOps \cup RegOps, c \in Reals}
  \cup {Of(mn, Comma(c, <<F(1, 4)>>)) : mn \in MathOps, c \in Reals}
  \cup {Of(mn, Comma(<<F(1, 4)>>, c)) : mn \in MathOps, c \in Reals}
  \cup {Of("RMPA", c) : c \in Reals}
  \cup {Of(mn, Comma(k, <<N(0)>>)) : mn \in {"RDA", "RDFX", "MAXX"}, k \in Ints}
  \cup {Of(mn, k) : mn \in {"MULX", "LDAX", "JAM", "RAW", "JMP", "NOP", "CLR", "ABSA", "NOT"},
                    k \in Ints}
  \cup {Of(mn, m) : mn \in MaskOps, m \in Masks}
  \cup {Of("SKP", Comma(k, One)) : k \in Ints} \cup {Of("SKP", Comma(One, k)) : k \in Ints}
  \cup {Of("SKP", Comma(<<N(0)>>, <<N(0)>>)), Of("CHO", <<>>), Of("CHO", One),
        Of("CHO", <<I("SOF"), M("+")>>), Of("MAXX", One), Of("MAXX", Comma(Comma(One, One), One))}
  \cup {Of("WLDS", Comma(Comma(k, One), One)) : k \in Ints}
  \cup {Of("WLDS", Comma(Comma(<<I("SIN0")>>, k), j)) : k \in Ints, j \in {One, <<N(32767)>>, <<N(32768)>>}}
  \cup {Of("WLDR", Comma(Comma(k, One), One)) : k \in Ints}
  \cup {Of("WLDR", Comma(Comma(<<I("RMP0")>>, k), <<N(2048)>>)) : k \in Ints \cup {Neg(F(3, 4)), Neg(N(32768))}}
  \cup {Of("WLDR", Comma(Comma(One, One), k)) : k \in Ints}
  \cup {Of("CHO", Comma(Comma(Comma(<<I(sub)>>, k), j), One)) :
          sub \in {"RDA", "SOF", "REG0"}, k \in Ints, j \in Ints}
  \cup {Of("CHO", Comma(Comma(Comma(<<I("SOF")>>, <<I("RMP0")>>), <<>>), c)) : c \in Fifteen}
  \cup {Of("CHO", Comma(Comma(<<I("RDAL")>>, k), j)) : k \in Ints, j \in Ints}
  \cup {Of("CHO", Comma(<<I("RDAL")>>, k)) : k \in Ints}

-----------------------------------------------------------------------------
Texts(set, n) == UNION {[1 .. k -> set] : k \in 0 .. n}

Expressions == {<<I("X"), I("EQU")>> \o e : e \in Shapes \cup Extremes \cup Strings \cup Atoms}

MCTokens == UNION {{line[k] : k \in DOMAIN line} :
                     line \in Lines \cup Jumps \cup Blocks \cup Expressions \cup Probes}

MCSources ==
  Texts(Lines, 3) \cup [1 .. 5 -> Jumps] \cup [1 .. 4 -> Blocks]
    \cup {<<line>> : line \in Expressions \cup Probes}
=============================================================================
