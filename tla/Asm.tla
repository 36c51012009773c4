-------------------------------- MODULE Asm ---------------------------------
(***************************************************************************)
(* The assembler (src/src/asm.rs): assemble.  The first pass takes the     *)
(* lines in order, defines labels and EQU and MEM symbols and collects the *)
(* instruction lines; the second parses them with the finished table.      *)
(***************************************************************************)
EXTENDS Operands

CONSTANTS
  ProgLen,    \* PROGRAM_LEN                                         128
  DelayLen,   \* DELAY_LEN                                           32768
  Tokens,     \* the tokens of the texts
  Sources     \* the texts assembled: sequences of lines, comments stripped

ASSUME AsmAssumption ==
  /\ ProgLen \in Nat /\ DelayLen \in Nat /\ ProgLen < IntMax /\ DelayLen < IntMax
  /\ Sources \subseteq Seq(Seq(Tokens))
  /\ \A token \in Tokens : IsId(token) => token = Id(token.s) /\ token.s \in Seq(STRING)
  /\ \A token \in Tokens : token.t \in {"num", "raw"} => token.v \in Num

VARIABLES
  source,     \* the text
  phase,      \* "pass1", "pass2", "done" or "failed"
  row,        \* the line the first pass is at
  labelled,   \* its leading label has been taken off
  symtab,     \* names to numbers
  labels,     \* the names that are labels
  mem_end,    \* where the next MEM block starts
  pending,    \* the lines of the instructions collected, in order
  code        \* the instructions parsed

vars == <<source, phase, row, labelled, symtab, labels, mem_end, pending, code>>

-----------------------------------------------------------------------------
(* What a line is: a function of its tokens.                               *)

HasLabel(line) == Len(line) >= 2 /\ IsId(line[1]) /\ line[2].t = ":"
Body(line) == IF HasLabel(line) THEN SubSeq(line, 3, Len(line)) ELSE line

\* A mnemonic's first operand is never taken for a directive's keyword.
IsMnemonic(name) == Len(name) = 1 /\ name[1] \in Mnemonics

\* A slip for the mutation runs: the keyword is looked for on every line.
DirectiveAnywhere(body, word) ==
  /\ Len(body) >= 1 /\ IsId(body[1])
  /\ body[1].s = <<word>> \/ (Len(body) >= 2 /\ IsId(body[2]) /\ body[2].s = <<word>>)

Directive(body, word) ==
  /\ Len(body) >= 1 /\ IsId(body[1]) /\ ~IsMnemonic(body[1].s)
  /\ body[1].s = <<word>> \/ (Len(body) >= 2 /\ IsId(body[2]) /\ body[2].s = <<word>>)

Kind(body) == CASE body = <<>>             -> "blank"
                [] body # <<>> /\ ~IsId(body[1]) -> "bad"
                [] Directive(body, "EQU")  -> "equ"
                [] Directive(body, "MEM") /\ ~Directive(body, "EQU") -> "mem"
                [] OTHER                   -> "instruction"

\* The name a directive defines, before or after its keyword, and its value.
KeywordFirst(body, word) == body[1].s = <<word>>
Named(body, word)   == KeywordFirst(body, word) => Len(body) >= 2 /\ IsId(body[2])
NameOf(body, word)  == IF KeywordFirst(body, word) THEN body[2].s ELSE body[1].s
ValueOf(body)       == SubSeq(body, 3, Len(body))

\* A line of bare NOPs is as many instructions.
NopRun(body) == \A k \in 1 .. Len(body) : IsId(body[k]) /\ body[k].s = <<"NOP">>
Count(body)  == IF NopRun(body) THEN Len(body) ELSE 1
Operands1(body) == IF NopRun(body) THEN <<>> ELSE Tail(body)

-----------------------------------------------------------------------------
Line == Body(source[row])

Definable(name) == name \notin DOMAIN symtab

Init ==
  /\ source \in Sources
  /\ phase = "pass1" /\ row = 1 /\ labelled = FALSE
  /\ symtab = Predefined /\ labels = {} /\ mem_end = 0
  /\ pending = <<>> /\ code = <<>>

Fail == phase' = "failed" /\ UNCHANGED <<source, row, labelled, symtab, labels, mem_end,
                                         pending, code>>

\* The line at hand, its label taken off, is of kind k.
At(k) == /\ phase = "pass1" /\ row <= Len(source)
         /\ HasLabel(source[row]) => labelled
         /\ Kind(Line) = k

NextLine == row' = row + 1 /\ labelled' = FALSE /\ UNCHANGED <<source, phase, code>>

\* A label is the index of the next instruction.
Label ==
  /\ phase = "pass1" /\ row <= Len(source) /\ HasLabel(source[row]) /\ ~labelled
  /\ LET name == source[row][1].s
     IN  IF Definable(name)
         THEN /\ symtab' = Over(symtab, [x \in {name} |-> IntOf(Len(pending))])
              /\ labels' = labels \cup {name}
              /\ labelled' = TRUE
              /\ UNCHANGED <<source, phase, row, mem_end, pending, code>>
         ELSE Fail

Blank == At("blank") /\ NextLine /\ UNCHANGED <<symtab, labels, mem_end, pending>>

\* A line that starts with no name.
BadLine == At("bad") /\ Fail

Equ ==
  /\ At("equ")
  /\ LET value == Eval(ValueOf(Line), symtab)
         name  == NameOf(Line, "EQU")
     IN  IF Named(Line, "EQU") /\ value.ok /\ Definable(name)
         THEN /\ symtab' = Over(symtab, [x \in {name} |-> value.v])
              /\ NextLine /\ UNCHANGED <<labels, mem_end, pending>>
         ELSE Fail

\* A slip for the mutation runs: a block reserves as many words as its size.
BlockTight(start, size) == [start |-> start, end |-> Wrap(start + size),
                            next |-> Wrap(start + size)]

\* A block and the word its name# names.
Block(start, size) == [start |-> start, end |-> Wrap(start + size),
                       next |-> Wrap(start + size) + 1]

Mem ==
  /\ At("mem")
  /\ LET value == Eval(ValueOf(Line), symtab)
         size  == value.v.n
         block == Block(mem_end, size)
         name  == NameOf(Line, "MEM")
         names == {name, Append(name, "#"), Append(name, "^")}
     IN  IF /\ Named(Line, "MEM")
            /\ value.ok /\ value.v \in IntNum /\ size >= 0
            /\ block.end <= DelayLen
            /\ \A x \in names : Definable(x)
         THEN /\ symtab' = Over(symtab,
                   [x \in names |-> IntOf(CASE x = name -> block.start
                                            [] x = Append(name, "#") -> block.end
                                            [] x = Append(name, "^") ->
                                                 block.start + size \div 2)])
              /\ mem_end' = block.next
              /\ NextLine /\ UNCHANGED <<labels, pending>>
         ELSE Fail

\* A slip for the mutation runs: only the first NOP of a line is counted.
RoomForOne(n) == Len(pending) < ProgLen

RoomFor(n) == Len(pending) + n <= ProgLen

Instruction ==
  /\ At("instruction")
  /\ IF RoomFor(Count(Line))
     THEN /\ pending' = pending \o [k \in 1 .. Count(Line) |-> row]
          /\ NextLine /\ UNCHANGED <<symtab, labels, mem_end>>
     ELSE Fail

EndPass1 ==
  /\ phase = "pass1" /\ row > Len(source)
  /\ phase' = "pass2"
  /\ UNCHANGED <<source, row, labelled, symtab, labels, mem_end, pending, code>>

\* The instruction of entry p of pending, p counted from 0.
Parsed(p) ==
  LET body == Body(source[pending[p + 1]])
  IN  Parse(body[1].s, Operands1(body), symtab, labels, p)

Emit ==
  /\ phase = "pass2" /\ Len(code) < Len(pending)
  /\ LET i == Parsed(Len(code))
     IN  IF i.ok
         THEN /\ code' = Append(code, i.v)
              /\ UNCHANGED <<source, phase, row, labelled, symtab, labels, mem_end, pending>>
         ELSE Fail

Finish ==
  /\ phase = "pass2" /\ Len(code) = Len(pending)
  /\ phase' = "done"
  /\ UNCHANGED <<source, row, labelled, symtab, labels, mem_end, pending, code>>

\* The program a finished assembly returns, padded with NOP.
Words == [s \in 0 .. ProgLen - 1 |->
            IF s < Len(code) THEN Encode(AsWord(code[s + 1]))
            ELSE Encode(AsWord([op |-> "SKP", arg |-> [cond |-> 0, n |-> 0]]))]

Next == Label \/ Blank \/ BadLine \/ Equ \/ Mem \/ Instruction \/ EndPass1 \/ Emit \/ Finish

Spec == Init /\ [][Next]_vars

-----------------------------------------------------------------------------
\* The table's labels are integers, MEM has allocated no more than delay RAM
\* and the word after it, and the instructions collected fit a program:
\* building it cannot fail, as the code expects.
TypeOK ==
  /\ phase \in {"pass1", "pass2", "done", "failed"}
  /\ row \in 1 .. Len(source) + 1 /\ labelled \in BOOLEAN
  /\ \A x \in labels : x \in DOMAIN symtab /\ symtab[x] \in IntNum
  /\ mem_end \in -IntMax .. DelayLen + 1
  /\ pending \in Seq(1 .. Len(source)) /\ Len(pending) <= ProgLen
  /\ Len(code) <= Len(pending)

\* The blocks MEM has allocated lie one after another in delay RAM: no two
\* share a word, each middle is in its block, and each block's last name is at
\* most one past the memory.  Adding a size near i64::MAX would wrap.
MemName(k) == NameOf(Body(source[k]), "MEM")
MemLines == {k \in 1 .. row - 1 : Kind(Body(source[k])) = "mem"}
FirstWord(k) == symtab[MemName(k)].n
LastWord(k)  == symtab[Append(MemName(k), "#")].n
MidWord(k) == symtab[Append(MemName(k), "^")].n
BlocksApart ==
  /\ \A k \in MemLines : /\ 0 <= FirstWord(k) /\ FirstWord(k) <= MidWord(k) /\ MidWord(k) <= LastWord(k)
                         /\ LastWord(k) < mem_end /\ LastWord(k) <= DelayLen
  /\ \A j, k \in MemLines : j < k => LastWord(j) < FirstWord(k)

\* The size read next, if one is, can be added to mem_end in an i64.
SizesFit ==
  At("mem") => LET value == Eval(ValueOf(Line), symtab)
               IN  value.ok /\ value.v \in IntNum => value.v.n <= IntMax - mem_end

\* A skip to a label continues at the first instruction on the label's line or
\* after it, however many instructions the lines between have become.
LabelName(k) == source[k][1].s
JumpsTo(p, name) ==
  LET body == Body(source[pending[p]])
      groups == SplitCommas(Operands1(body))
  IN  \/ body[1].s = <<"SKP">> /\ Len(groups) = 2 /\ groups[2] = <<Id(name)>>
      \/ body[1].s = <<"JMP">> /\ Len(groups) = 1 /\ groups[1] = <<Id(name)>>
SkipsLand ==
  \A p \in 1 .. Len(code) : \A k \in 1 .. Len(source) :
    HasLabel(source[k]) /\ JumpsTo(p, LabelName(k)) =>
      \A q \in 1 .. Len(pending) : pending[q] < k <=> q <= p + code[p].arg.n
=============================================================================
