------------------------------- MODULE Codec -------------------------------
(***************************************************************************)
(* Instruction words (src/src/instruction.rs): decode and encode.          *)
(*                                                                         *)
(* A word is the set of its 1 bits.  A field of an instruction is the set  *)
(* of 1 bits of the Rust integer that holds it, so a signed field carries  *)
(* copies of its sign up to bit 15 of its i16.                             *)
(***************************************************************************)
EXTENDS Integers

Word == SUBSET (0 .. 31)

DelayOps == {"RDA", "WRA", "WRAP"}
RegOps   == {"RDAX", "RDFX", "WRAX", "WRHX", "WRLX", "MAXX"}
MathOps  == {"LOG", "EXP", "SOF"}
MaskOps  == {"AND", "OR", "XOR"}
ChoOps   == {"CHO_RDA", "CHO_SOF", "CHO_RDAL"}
Ops      == DelayOps \cup RegOps \cup MathOps \cup MaskOps \cup ChoOps
              \cup {"RMPA", "MULX", "SKP", "WLDS", "WLDR", "JAM"}

-----------------------------------------------------------------------------
(* Where an instruction keeps its fields.                                  *)

Unsigned(at, len) == [at |-> at, len |-> len, signed |-> FALSE]
Signed(at, len)   == [at |-> at, len |-> len, signed |-> TRUE]

Layout(op) ==
  CASE op \in DelayOps -> [addr |-> Unsigned(5, 16), c |-> Signed(21, 11)]
    [] op = "RMPA"     -> [c |-> Signed(21, 11)]
    [] op \in RegOps   -> [reg |-> Unsigned(5, 6), c |-> Signed(16, 16)]
    [] op = "MULX"     -> [reg |-> Unsigned(5, 6)]
    [] op \in MathOps  -> [c |-> Signed(16, 16), d |-> Signed(5, 11)]
    [] op \in MaskOps  -> [mask |-> Unsigned(8, 24)]
    [] op = "SKP"      -> [cond |-> Unsigned(27, 5), n |-> Unsigned(21, 6)]
    [] op = "WLDS"     -> [lfo |-> Unsigned(29, 1), freq |-> Unsigned(20, 9),
                           amp |-> Unsigned(5, 15)]
    [] op = "WLDR"     -> [lfo |-> Unsigned(29, 1), freq |-> Signed(13, 16),
                           amp |-> Unsigned(5, 2)]
    [] op = "JAM"      -> [lfo |-> Unsigned(6, 1)]
    [] op = "CHO_RDA"  -> [lfo |-> Unsigned(21, 2), flags |-> Unsigned(24, 6),
                           addr |-> Unsigned(5, 16)]
    [] op = "CHO_SOF"  -> [lfo |-> Unsigned(21, 2), flags |-> Unsigned(24, 6),
                           d |-> Signed(5, 16)]
    [] op = "CHO_RDAL" -> [lfo |-> Unsigned(21, 2), flags |-> Unsigned(24, 6)]

\* sx: the low bits p of a field, extended to the integer it is kept in.
Extend(p, fd) == IF fd.signed /\ fd.len - 1 \in p THEN p \cup (fd.len .. 15) ELSE p

\* Shift a field down and mask it; mask a field and shift it up.
Take(w, fd) == Extend({b \in 0 .. fd.len - 1 : fd.at + b \in w}, fd)
Put(p, fd)  == {fd.at + b : b \in p \cap (0 .. fd.len - 1)}

-----------------------------------------------------------------------------
(* The opcode.                                                             *)

Opcode(op) ==
  CASE op = "RDA"  -> {}           [] op = "RMPA" -> {0}
    [] op = "WRA"  -> {1}          [] op = "WRAP" -> {0, 1}
    [] op = "RDAX" -> {2}          [] op = "RDFX" -> {0, 2}
    [] op = "WRAX" -> {1, 2}       [] op = "WRHX" -> {0, 1, 2}
    [] op = "WRLX" -> {3}          [] op = "MAXX" -> {0, 3}
    [] op = "MULX" -> {1, 3}       [] op = "LOG"  -> {0, 1, 3}
    [] op = "EXP"  -> {2, 3}       [] op = "SOF"  -> {0, 2, 3}
    [] op = "AND"  -> {1, 2, 3}    [] op = "OR"   -> {0, 1, 2, 3}
    [] op = "XOR"  -> {4}          [] op = "SKP"  -> {0, 4}
    [] op = "WLDS" -> {1, 4}       [] op = "WLDR" -> {1, 4}
    [] op = "JAM"  -> {0, 1, 4}    [] op \in ChoOps -> {2, 4}

\* A slip for the mutation runs: the two upper kinds of CHO are swapped.
SubTypeSwapped(op) == CASE op \in {"WLDR", "CHO_SOF"} -> {30}
                        [] op = "CHO_RDAL"            -> {31}
                        [] OTHER                      -> {}

\* The top two bits, where they tell apart the instructions of one opcode.
SubType(op) == CASE op = "WLDR"     -> {30}
                 [] op = "CHO_SOF"  -> {31}
                 [] op = "CHO_RDAL" -> {30, 31}
                 [] OTHER           -> {}

\* A slip for the mutation runs: RMPA leaves the register field clear.
FixedNoPtr(op) == Opcode(op) \cup SubType(op) \cup (IF op = "JAM" THEN {7} ELSE {})

\* What encode sets whatever the fields: SpinASM puts ADDR_PTR (0x18) in the
\* register field of RMPA and sets bit 7 of JAM.
Fixed(op) == Opcode(op) \cup SubType(op) \cup (CASE op = "RMPA" -> {8, 9}
                                                 [] op = "JAM"  -> {7}
                                                 [] OTHER       -> {})

\* word & 0x1F
Code(w) == LET bit(b, value) == IF b \in w THEN value ELSE 0
           IN  bit(0, 1) + bit(1, 2) + bit(2, 4) + bit(3, 8) + bit(4, 16)

OpTable == <<"RDA", "RMPA", "WRA", "WRAP", "RDAX", "RDFX", "WRAX", "WRHX", "WRLX",
             "MAXX", "MULX", "LOG", "EXP", "SOF", "AND", "OR", "XOR", "SKP">>

OpOf(w) ==
  LET code == Code(w)
      hi2  == w \cap {30, 31}
  IN  CASE code <= 17 -> OpTable[code + 1]
        [] code = 18  -> (CASE hi2 = {}   -> "WLDS"
                            [] hi2 = {30} -> "WLDR"
                            [] OTHER      -> "RAW")
        [] code = 19  -> "JAM"
        [] code = 20  -> (CASE hi2 = {}       -> "CHO_RDA"
                            [] hi2 = {31}     -> "CHO_SOF"
                            [] hi2 = {30, 31} -> "CHO_RDAL"
                            [] OTHER          -> "RAW")
        [] code > 20  -> "RAW"

-----------------------------------------------------------------------------
Decode(w) ==
  IF OpOf(w) = "RAW"
  THEN [op |-> "RAW", word |-> w]
  ELSE [op |-> OpOf(w),
        field |-> [n \in DOMAIN Layout(OpOf(w)) |-> Take(w, Layout(OpOf(w))[n])]]

Encode(i) ==
  IF i.op = "RAW"
  THEN i.word
  ELSE Fixed(i.op) \cup UNION {Put(i.field[n], Layout(i.op)[n]) : n \in DOMAIN Layout(i.op)}

\* The integers a field of a word can hold.
Fits(p, fd) == p = Extend(p \cap (0 .. fd.len - 1), fd)

\* An instruction some word stands for: RAW holds a word of no instruction,
\* and every field is within its width.
Encodable(i) ==
  \/ /\ i.op = "RAW" /\ i.word \in Word /\ OpOf(i.word) = "RAW"
     /\ i = [op |-> i.op, word |-> i.word]
  \/ /\ i.op \in Ops
     /\ i = [op |-> i.op, field |-> [n \in DOMAIN Layout(i.op) |-> i.field[n]]]
     /\ \A n \in DOMAIN Layout(i.op) : Fits(i.field[n], Layout(i.op)[n])

\* What SpinASM writes: a word with every bit that no field covers as it
\* assembles it.
Covered(op) == UNION {{fd.at + b : b \in 0 .. fd.len - 1} :
                        fd \in {Layout(op)[n] : n \in DOMAIN Layout(op)}}
Spare(op) == IF op = "RMPA" THEN {8, 9} ELSE IF op = "JAM" THEN {7} ELSE {}
Canonical(w) ==
  LET op == OpOf(w)
  IN  op # "RAW" => w \ (Covered(op) \cup 0 .. 4 \cup SubType(op)) = Spare(op)
=============================================================================
