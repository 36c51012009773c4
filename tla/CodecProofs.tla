---------------------------- MODULE CodecProofs ----------------------------
(***************************************************************************)
(* The codec loses nothing, for every word and every instruction: decoding *)
(* what encode made gives the instruction back, whatever a word holds      *)
(* decodes to an instruction encode can keep, and a canonical word is kept *)
(* bit for bit. The last part says of which integers a field keeps all the *)
(* bits, the first one what holds of naturals, their sets and sequences.   *)
(***************************************************************************)
EXTENDS Codec, FiniteSets, FiniteSetTheorems, WellFoundedInduction, SequenceTheorems, TLAPS

-----------------------------------------------------------------------------
(* Naturals and sequences.                                                 *)

\* What is appended leaves what was there where it is.
LEMMA Joined ==
  ASSUME NEW S, NEW s \in Seq(S), NEW t \in Seq(S)
  PROVE  /\ Len(s) \in Nat /\ Len(t) \in Nat
         /\ Len(s \o t) = Len(s) + Len(t)
         /\ \A q \in 1 .. Len(s \o t) :
              (s \o t)[q] = IF q <= Len(s) THEN s[q] ELSE t[q - Len(s)]
BY ConcatProperties

\* A set of naturals that is not empty has a least element.
LEMMA Least ==
  ASSUME NEW T \in SUBSET Nat, T # {}
  PROVE  \E x \in T : \A y \in T : x <= y
<1> DEFINE R == {ss \in Nat \X Nat : ss[1] < ss[2]}
<1>1. IsWellFoundedOn(R, Nat)
  BY NatLessThanWellFounded DEF OpToRel
<1>2. PICK x \in T : \A y \in T : ~(<<y, x>> \in R)
  <2> HIDE DEF R
  <2> QED BY <1>1, WFMin
<1>3. \A y \in T : ~(y < x)
  BY <1>2
<1> QED BY <1>2, <1>3

\* Induction over a set of naturals: none is the least one missing.
LEMMA Induct ==
  ASSUME NEW S, 0 \in S, \A n \in Nat : n \in S => n + 1 \in S
  PROVE  Nat \subseteq S
<1> DEFINE T == Nat \ S
<1>1. ASSUME T # {} PROVE FALSE
  <2>1. PICK x \in T : \A y \in T : x <= y
    BY <1>1, Least
  <2>2. x - 1 \in Nat /\ x - 1 < x /\ (x - 1) + 1 = x
    BY <2>1
  <2>3. x - 1 \in S
    BY <2>1, <2>2
  <2> QED BY <2>1, <2>2, <2>3
<1> QED BY <1>1

\* The k-th smallest of a finite set of naturals.
LEMMA KthMember ==
  ASSUME NEW ends \in SUBSET Nat, IsFiniteSet(ends), NEW k \in 1 .. Cardinality(ends)
  PROVE  \E p \in ends : Cardinality({q \in ends : q <= p}) = k
<1> DEFINE upto(p) == {q \in ends : q <= p}
           size    == Cardinality(ends)
           A == {j \in Nat : 1 <= j /\ j <= size => \E p \in ends : Cardinality(upto(p)) = j}
<1>1. size \in Nat /\ \A q \in ends : q \in Nat
  BY FS_CardinalityType
<1>2. \A p \in ends : IsFiniteSet(upto(p)) /\ Cardinality(upto(p)) \in Nat
  BY FS_Subset, FS_CardinalityType
<1>3. 0 \in A
  OBVIOUS
<1>4. ASSUME NEW j \in Nat, j \in A PROVE j + 1 \in A
  <2> SUFFICES ASSUME j + 1 <= size PROVE \E p \in ends : Cardinality(upto(p)) = j + 1
    OBVIOUS
  <2>1. CASE j = 0
    <3>1. ends # {}
      BY <1>1, <2>1, FS_EmptySet
    <3>2. PICK p \in ends : \A q \in ends : p <= q
      BY <3>1, Least
    <3>3. upto(p) = {p}
      <4>1. \A q \in ends : q <= p <=> q = p
        BY <1>1, <3>2
      <4> QED BY <3>2, <4>1, Zenon
    <3>4. Cardinality(upto(p)) = j + 1
      BY <2>1, <3>3, FS_Singleton
    <3> QED BY <3>4
  <2>2. CASE j # 0
    <3>1. PICK p \in ends : Cardinality(upto(p)) = j
      BY <1>1, <1>4, <2>2
    <3> DEFINE more == {q \in ends : p < q}
    <3>2. more # {}
      <4>1. ASSUME more = {} PROVE FALSE
        <5>1. \A q \in ends : q <= p
          BY <1>1, <3>1, <4>1
        <5>2. upto(p) = ends
          BY <5>1, Zenon
        <5>3. Cardinality(upto(p)) = size
          BY <5>2, Zenon
        <5>4. size = j
          BY <3>1, <5>3, Zenon
        <5> HIDE DEF size
        <5> QED BY <1>1, <5>4
      <4> QED BY <4>1
    <3>3. PICK r \in more : \A q \in more : r <= q
      <4>1. more \in SUBSET Nat
        OBVIOUS
      <4> HIDE DEF more
      <4> QED BY <3>2, <4>1, Least
    <3>4. upto(r) = upto(p) \cup {r} /\ r \notin upto(p) /\ r \in ends
      <4>1. r \in ends /\ p < r
        BY <3>3
      <4>2. \A q \in ends : q <= r <=> (q <= p \/ q = r)
        BY <1>1, <3>1, <3>3, <4>1
      <4>3. ~(r <= p)
        BY <1>1, <3>1, <4>1
      <4> QED BY <4>1, <4>2, <4>3, Zenon
    <3>5. Cardinality(upto(p) \cup {r}) = Cardinality(upto(p)) + 1
      <4> HIDE DEF upto
      <4> QED BY <1>2, <3>4, FS_AddElement
    <3>6. Cardinality(upto(r)) = j + 1
      BY <3>1, <3>4, <3>5
    <3> QED BY <3>4, <3>6
  <2> QED BY <2>1, <2>2
<1>5. Nat \subseteq A
  <2> HIDE DEF A
  <2> QED BY <1>3, <1>4, Induct
<1> QED BY <1>1, <1>5

\* A quotient and its remainder, and a multiple.
LEMMA Divided ==
  ASSUME NEW a \in Nat, NEW b \in Nat \ {0}
  PROVE  a \div b \in Nat /\ a % b \in 0 .. b - 1 /\ a = b * (a \div b) + (a % b)
OBVIOUS

\* A positive multiple is no less.
LEMMA Multiple ==
  ASSUME NEW a \in Nat \ {0}, NEW b \in Nat
  PROVE  a * b >= b /\ b * a >= b
<1>1. a - 1 \in Nat
  OBVIOUS
<1> DEFINE c == a - 1
<1>2. c \in Nat /\ a = c + 1
  BY <1>1
<1> HIDE DEF c
<1>3. c * b \in Nat
  BY <1>2
<1>4. (c + 1) * b = c * b + b /\ b * (c + 1) = c * b + b
  BY <1>2
<1> QED BY <1>2, <1>3, <1>4

-----------------------------------------------------------------------------
(* Layouts.                                                                *)

\* The fields of one instruction, their places and kinds; used below as the
\* only facts about Layout.
Sound(L, taken) ==
  /\ \A n \in DOMAIN L : /\ L[n].at \in 5 .. 31 /\ L[n].len \in 1 .. 24
                         /\ L[n].at + L[n].len <= 32
                         /\ L[n].signed => L[n].len <= 16
                         /\ \A b \in taken : b < L[n].at \/ L[n].at + L[n].len <= b
  /\ \A m, n \in DOMAIN L :
        m # n => L[m].at + L[m].len <= L[n].at \/ L[n].at + L[n].len <= L[m].at
  /\ \A n \in DOMAIN L : \/ L[n].signed = TRUE /\ L[n].len \in {11, 16}
                         \/ L[n].signed = FALSE /\ L[n].len \in {1, 2, 5, 6, 9, 15, 16, 24}

\* The bits that tell the instruction, and those encode sets in any case.
Reserved(op) == Fixed(op) \cup (0 .. 4)
                  \cup (IF op \in {"WLDS", "WLDR"} \cup ChoOps THEN {30, 31} ELSE {})

\* The opcode takes the low bits, the kind of an instruction the top two.
LEMMA KeyBits ==
  ASSUME NEW op \in Ops
  PROVE  /\ Opcode(op) \subseteq 0 .. 4
         /\ SubType(op) \subseteq {30, 31}
         /\ op \notin {"WLDR"} \cup ChoOps => SubType(op) = {}
<1>1. Opcode(op) \subseteq 0 .. 4
  BY DEF Opcode, Ops, DelayOps, RegOps, MathOps, MaskOps, ChoOps
<1>2. /\ SubType(op) \subseteq {30, 31}
      /\ op \notin {"WLDR"} \cup ChoOps => SubType(op) = {}
  BY DEF SubType, ChoOps
<1> QED BY <1>1, <1>2

\* They lie outside the fields, and the fields apart from one another.
LEMMA LayoutSound ==
  ASSUME NEW op \in Ops
  PROVE  Sound(Layout(op), Reserved(op))
<1>1. CASE op \in DelayOps
  <2>1. Layout(op) = [addr |-> Unsigned(5, 16), c |-> Signed(21, 11)]
    BY <1>1 DEF Layout, DelayOps, RegOps, MathOps, MaskOps
  <2>2. Reserved(op) \subseteq (0 .. 4)
    BY <1>1, KeyBits DEF Reserved, Fixed, DelayOps, RegOps, MathOps, MaskOps, ChoOps
  <2> QED BY <2>1, <2>2 DEF Sound, Signed, Unsigned
<1>2. CASE op = "RMPA"
  <2>1. Layout(op) = [c |-> Signed(21, 11)]
    BY <1>2 DEF Layout, DelayOps, RegOps, MathOps, MaskOps
  <2>2. Reserved(op) \subseteq (0 .. 4) \cup {8, 9}
    BY <1>2, KeyBits DEF Reserved, Fixed, DelayOps, RegOps, MathOps, MaskOps, ChoOps
  <2> QED BY <2>1, <2>2 DEF Sound, Signed, Unsigned
<1>3. CASE op \in RegOps
  <2>1. Layout(op) = [reg |-> Unsigned(5, 6), c |-> Signed(16, 16)]
    BY <1>3 DEF Layout, DelayOps, RegOps, MathOps, MaskOps
  <2>2. Reserved(op) \subseteq (0 .. 4)
    BY <1>3, KeyBits DEF Reserved, Fixed, DelayOps, RegOps, MathOps, MaskOps, ChoOps
  <2> QED BY <2>1, <2>2 DEF Sound, Signed, Unsigned
<1>4. CASE op = "MULX"
  <2>1. Layout(op) = [reg |-> Unsigned(5, 6)]
    BY <1>4 DEF Layout, DelayOps, RegOps, MathOps, MaskOps
  <2>2. Reserved(op) \subseteq (0 .. 4)
    BY <1>4, KeyBits DEF Reserved, Fixed, DelayOps, RegOps, MathOps, MaskOps, ChoOps
  <2> QED BY <2>1, <2>2 DEF Sound, Signed, Unsigned
<1>5. CASE op \in MathOps
  <2>1. Layout(op) = [c |-> Signed(16, 16), d |-> Signed(5, 11)]
    BY <1>5 DEF Layout, DelayOps, RegOps, MathOps, MaskOps
  <2>2. Reserved(op) \subseteq (0 .. 4)
    BY <1>5, KeyBits DEF Reserved, Fixed, DelayOps, RegOps, MathOps, MaskOps, ChoOps
  <2> QED BY <2>1, <2>2 DEF Sound, Signed, Unsigned
<1>6. CASE op \in MaskOps
  <2>1. Layout(op) = [mask |-> Unsigned(8, 24)]
    BY <1>6 DEF Layout, DelayOps, RegOps, MathOps, MaskOps
  <2>2. Reserved(op) \subseteq (0 .. 4)
    BY <1>6, KeyBits DEF Reserved, Fixed, DelayOps, RegOps, MathOps, MaskOps, ChoOps
  <2> QED BY <2>1, <2>2 DEF Sound, Signed, Unsigned
<1>7. CASE op = "SKP"
  <2>1. Layout(op) = [cond |-> Unsigned(27, 5), n |-> Unsigned(21, 6)]
    BY <1>7 DEF Layout, DelayOps, RegOps, MathOps, MaskOps
  <2>2. Reserved(op) \subseteq (0 .. 4)
    BY <1>7, KeyBits DEF Reserved, Fixed, DelayOps, RegOps, MathOps, MaskOps, ChoOps
  <2> QED BY <2>1, <2>2 DEF Sound, Signed, Unsigned
<1>8. CASE op = "WLDS"
  <2>1. Layout(op) = [lfo |-> Unsigned(29, 1), freq |-> Unsigned(20, 9),
                      amp |-> Unsigned(5, 15)]
    BY <1>8 DEF Layout, DelayOps, RegOps, MathOps, MaskOps
  <2>2. Reserved(op) \subseteq (0 .. 4) \cup {30, 31}
    BY <1>8, KeyBits DEF Reserved, Fixed, DelayOps, RegOps, MathOps, MaskOps, ChoOps
  <2> QED BY <2>1, <2>2 DEF Sound, Signed, Unsigned
<1>9. CASE op = "WLDR"
  <2>1. Layout(op) = [lfo |-> Unsigned(29, 1), freq |-> Signed(13, 16),
                      amp |-> Unsigned(5, 2)]
    BY <1>9 DEF Layout, DelayOps, RegOps, MathOps, MaskOps
  <2>2. Reserved(op) \subseteq (0 .. 4) \cup {30, 31}
    BY <1>9, KeyBits DEF Reserved, Fixed, DelayOps, RegOps, MathOps, MaskOps, ChoOps
  <2> QED BY <2>1, <2>2 DEF Sound, Signed, Unsigned
<1>10. CASE op = "JAM"
  <2>1. Layout(op) = [lfo |-> Unsigned(6, 1)]
    BY <1>10 DEF Layout, DelayOps, RegOps, MathOps, MaskOps
  <2>2. Reserved(op) \subseteq (0 .. 4) \cup {7}
    BY <1>10, KeyBits DEF Reserved, Fixed, DelayOps, RegOps, MathOps, MaskOps, ChoOps
  <2> QED BY <2>1, <2>2 DEF Sound, Signed, Unsigned
<1>11. CASE op = "CHO_RDA"
  <2>1. Layout(op) = [lfo |-> Unsigned(21, 2), flags |-> Unsigned(24, 6),
                      addr |-> Unsigned(5, 16)]
    BY <1>11 DEF Layout, DelayOps, RegOps, MathOps, MaskOps
  <2>2. Reserved(op) \subseteq (0 .. 4) \cup {30, 31}
    BY <1>11, KeyBits DEF Reserved, Fixed, DelayOps, RegOps, MathOps, MaskOps, ChoOps
  <2> QED BY <2>1, <2>2 DEF Sound, Signed, Unsigned
<1>12. CASE op = "CHO_SOF"
  <2>1. Layout(op) = [lfo |-> Unsigned(21, 2), flags |-> Unsigned(24, 6),
                      d |-> Signed(5, 16)]
    BY <1>12 DEF Layout, DelayOps, RegOps, MathOps, MaskOps
  <2>2. Reserved(op) \subseteq (0 .. 4) \cup {30, 31}
    BY <1>12, KeyBits DEF Reserved, Fixed, DelayOps, RegOps, MathOps, MaskOps, ChoOps
  <2> QED BY <2>1, <2>2 DEF Sound, Signed, Unsigned
<1>13. CASE op = "CHO_RDAL"
  <2>1. Layout(op) = [lfo |-> Unsigned(21, 2), flags |-> Unsigned(24, 6)]
    BY <1>13 DEF Layout, DelayOps, RegOps, MathOps, MaskOps
  <2>2. Reserved(op) \subseteq (0 .. 4) \cup {30, 31}
    BY <1>13, KeyBits DEF Reserved, Fixed, DelayOps, RegOps, MathOps, MaskOps, ChoOps
  <2> QED BY <2>1, <2>2 DEF Sound, Signed, Unsigned
<1> QED BY <1>1, <1>2, <1>3, <1>4, <1>5, <1>6, <1>7, <1>8, <1>9, <1>10, <1>11, <1>12, <1>13 DEF Ops, ChoOps

\* A field's place and its width.
LEMMA FieldShape ==
  ASSUME NEW op \in Ops, NEW n \in DOMAIN Layout(op)
  PROVE  /\ Layout(op)[n].at \in Int /\ Layout(op)[n].len \in Int
         /\ \/ Layout(op)[n].signed = TRUE /\ Layout(op)[n].len \in {11, 16}
            \/ Layout(op)[n].signed = FALSE
               /\ Layout(op)[n].len \in {1, 2, 5, 6, 9, 15, 16, 24}
<1> DEFINE L == Layout(op)
<1>1. Sound(L, Reserved(op))
  BY LayoutSound
<1>2. n \in DOMAIN L
  OBVIOUS
<1> HIDE DEF L
<1>3. L[n].at \in Int /\ L[n].len \in Int
  BY <1>1, <1>2 DEF Sound
<1>4. \/ L[n].signed = TRUE /\ L[n].len \in {11, 16}
      \/ L[n].signed = FALSE /\ L[n].len \in {1, 2, 5, 6, 9, 15, 16, 24}
  BY <1>1, <1>2, Zenon DEF Sound
<1> QED BY <1>3, <1>4 DEF L

-----------------------------------------------------------------------------
(* The opcode is read back.                                                *)

\* The code is the binary number of the low bits.
LEMMA CodeBits ==
  ASSUME NEW w
  PROVE  Code(w) = (IF 0 \in w THEN 1 ELSE 0) + (IF 1 \in w THEN 2 ELSE 0)
                     + (IF 2 \in w THEN 4 ELSE 0) + (IF 3 \in w THEN 8 ELSE 0)
                     + (IF 4 \in w THEN 16 ELSE 0)
  BY DEF Code

LEMMA LowBits ==
  ASSUME NEW w, NEW k, w \cap (0 .. 4) = k
  PROVE  \A b \in {0, 1, 2, 3, 4} : b \in w <=> b \in k
  OBVIOUS

LEMMA OpBack ==
  ASSUME NEW op \in Ops, NEW w, w \cap (0 .. 4) = Opcode(op),
         op \in {"WLDS", "WLDR"} \cup ChoOps => w \cap {30, 31} = SubType(op)
  PROVE  OpOf(w) = op
<1>1. CASE op = "RDA"
  <2>1. Opcode(op) = {}
    BY <1>1 DEF Opcode, ChoOps
  <2>2. Code(w) = 0
    BY <2>1, CodeBits, LowBits
  <2> QED BY <1>1, <2>2 DEF OpOf, OpTable
<1>2. CASE op = "RMPA"
  <2>1. Opcode(op) = {0}
    BY <1>2 DEF Opcode, ChoOps
  <2>2. Code(w) = 1
    BY <2>1, CodeBits, LowBits
  <2> QED BY <1>2, <2>2 DEF OpOf, OpTable
<1>3. CASE op = "WRA"
  <2>1. Opcode(op) = {1}
    BY <1>3 DEF Opcode, ChoOps
  <2>2. Code(w) = 2
    BY <2>1, CodeBits, LowBits
  <2> QED BY <1>3, <2>2 DEF OpOf, OpTable
<1>4. CASE op = "WRAP"
  <2>1. Opcode(op) = {0, 1}
    BY <1>4 DEF Opcode, ChoOps
  <2>2. Code(w) = 3
    BY <2>1, CodeBits, LowBits
  <2> QED BY <1>4, <2>2 DEF OpOf, OpTable
<1>5. CASE op = "RDAX"
  <2>1. Opcode(op) = {2}
    BY <1>5 DEF Opcode, ChoOps
  <2>2. Code(w) = 4
    BY <2>1, CodeBits, LowBits
  <2> QED BY <1>5, <2>2 DEF OpOf, OpTable
<1>6. CASE op = "RDFX"
  <2>1. Opcode(op) = {0, 2}
    BY <1>6 DEF Opcode, ChoOps
  <2>2. Code(w) = 5
    BY <2>1, CodeBits, LowBits
  <2> QED BY <1>6, <2>2 DEF OpOf, OpTable
<1>7. CASE op = "WRAX"
  <2>1. Opcode(op) = {1, 2}
    BY <1>7 DEF Opcode, ChoOps
  <2>2. Code(w) = 6
    BY <2>1, CodeBits, LowBits
  <2> QED BY <1>7, <2>2 DEF OpOf, OpTable
<1>8. CASE op = "WRHX"
  <2>1. Opcode(op) = {0, 1, 2}
    BY <1>8 DEF Opcode, ChoOps
  <2>2. Code(w) = 7
    BY <2>1, CodeBits, LowBits
  <2> QED BY <1>8, <2>2 DEF OpOf, OpTable
<1>9. CASE op = "WRLX"
  <2>1. Opcode(op) = {3}
    BY <1>9 DEF Opcode, ChoOps
  <2>2. Code(w) = 8
    BY <2>1, CodeBits, LowBits
  <2> QED BY <1>9, <2>2 DEF OpOf, OpTable
<1>10. CASE op = "MAXX"
  <2>1. Opcode(op) = {0, 3}
    BY <1>10 DEF Opcode, ChoOps
  <2>2. Code(w) = 9
    BY <2>1, CodeBits, LowBits
  <2> QED BY <1>10, <2>2 DEF OpOf, OpTable
<1>11. CASE op = "MULX"
  <2>1. Opcode(op) = {1, 3}
    BY <1>11 DEF Opcode, ChoOps
  <2>2. Code(w) = 10
    BY <2>1, CodeBits, LowBits
  <2> QED BY <1>11, <2>2 DEF OpOf, OpTable
<1>12. CASE op = "LOG"
  <2>1. Opcode(op) = {0, 1, 3}
    BY <1>12 DEF Opcode, ChoOps
  <2>2. Code(w) = 11
    BY <2>1, CodeBits, LowBits
  <2> QED BY <1>12, <2>2 DEF OpOf, OpTable
<1>13. CASE op = "EXP"
  <2>1. Opcode(op) = {2, 3}
    BY <1>13 DEF Opcode, ChoOps
  <2>2. Code(w) = 12
    BY <2>1, CodeBits, LowBits
  <2> QED BY <1>13, <2>2 DEF OpOf, OpTable
<1>14. CASE op = "SOF"
  <2>1. Opcode(op) = {0, 2, 3}
    BY <1>14 DEF Opcode, ChoOps
  <2>2. Code(w) = 13
    BY <2>1, CodeBits, LowBits
  <2> QED BY <1>14, <2>2 DEF OpOf, OpTable
<1>15. CASE op = "AND"
  <2>1. Opcode(op) = {1, 2, 3}
    BY <1>15 DEF Opcode, ChoOps
  <2>2. Code(w) = 14
    BY <2>1, CodeBits, LowBits
  <2> QED BY <1>15, <2>2 DEF OpOf, OpTable
<1>16. CASE op = "OR"
  <2>1. Opcode(op) = {0, 1, 2, 3}
    BY <1>16 DEF Opcode, ChoOps
  <2>2. Code(w) = 15
    BY <2>1, CodeBits, LowBits
  <2> QED BY <1>16, <2>2 DEF OpOf, OpTable
<1>17. CASE op = "XOR"
  <2>1. Opcode(op) = {4}
    BY <1>17 DEF Opcode, ChoOps
  <2>2. Code(w) = 16
    BY <2>1, CodeBits, LowBits
  <2> QED BY <1>17, <2>2 DEF OpOf, OpTable
<1>18. CASE op = "SKP"
  <2>1. Opcode(op) = {0, 4}
    BY <1>18 DEF Opcode, ChoOps
  <2>2. Code(w) = 17
    BY <2>1, CodeBits, LowBits
  <2> QED BY <1>18, <2>2 DEF OpOf, OpTable
<1>19. CASE op = "JAM"
  <2>1. Opcode(op) = {0, 1, 4}
    BY <1>19 DEF Opcode, ChoOps
  <2>2. Code(w) = 19
    BY <2>1, CodeBits, LowBits
  <2> QED BY <1>19, <2>2 DEF OpOf, OpTable
<1>20. CASE op \in {"WLDS", "WLDR"}
  <2>1. Opcode(op) = {1, 4}
    BY <1>20 DEF Opcode, ChoOps
  <2>2. Code(w) = 18
    BY <2>1, CodeBits, LowBits
  <2>3. w \cap {30, 31} = IF op = "WLDR" THEN {30} ELSE {}
    BY <1>20 DEF SubType
  <2> QED BY <1>20, <2>2, <2>3 DEF OpOf
<1>21. CASE op \in ChoOps
  <2>1. Opcode(op) = {2, 4}
    BY <1>21 DEF Opcode, ChoOps
  <2>2. Code(w) = 20
    BY <2>1, CodeBits, LowBits
  <2>3. w \cap {30, 31} = SubType(op)
    BY <1>21
  <2>4. CASE op = "CHO_RDA"
    BY <2>2, <2>3, <2>4 DEF OpOf, SubType
  <2>5. CASE op = "CHO_SOF"
    <3>1. w \cap {30, 31} = {31}
      BY <2>3, <2>5 DEF SubType
    <3> QED BY <2>2, <2>5, <3>1 DEF OpOf
  <2>6. CASE op = "CHO_RDAL"
    <3>1. w \cap {30, 31} = {30, 31}
      BY <2>3, <2>6 DEF SubType
    <3> QED BY <2>2, <2>6, <3>1 DEF OpOf
  <2> QED BY <1>21, <2>4, <2>5, <2>6 DEF ChoOps
<1> QED BY <1>1, <1>2, <1>3, <1>4, <1>5, <1>6, <1>7, <1>8, <1>9, <1>10, <1>11, <1>12, <1>13, <1>14, <1>15, <1>16, <1>17, <1>18, <1>19, <1>20, <1>21
        DEF Ops, DelayOps, RegOps, MathOps, MaskOps, ChoOps

\* Every word is an instruction's or RAW.
LEMMA OpRange ==
  ASSUME NEW w
  PROVE  OpOf(w) \in Ops \cup {"RAW"}
<1>1. Code(w) \in 0 .. 31
  BY CodeBits
<1> DEFINE c == Code(w)
<1>2. OpOf(w) = CASE c <= 17 -> OpTable[c + 1]
                  [] c = 18  -> (CASE w \cap {30, 31} = {}   -> "WLDS"
                                   [] w \cap {30, 31} = {30} -> "WLDR"
                                   [] OTHER                  -> "RAW")
                  [] c = 19  -> "JAM"
                  [] c = 20  -> (CASE w \cap {30, 31} = {}       -> "CHO_RDA"
                                   [] w \cap {30, 31} = {31}     -> "CHO_SOF"
                                   [] w \cap {30, 31} = {30, 31} -> "CHO_RDAL"
                                   [] OTHER                      -> "RAW")
                  [] c > 20  -> "RAW"
  BY DEF OpOf
<1> HIDE DEF c
<1>3. c \in 0 .. 31
  BY <1>1 DEF c
<1>4. CASE c <= 17
  <2>1. \A k \in 1 .. 18 : OpTable[k] \in Ops
    BY DEF OpTable, Ops, DelayOps, RegOps, MathOps, MaskOps, ChoOps
  <2>2. OpOf(w) = OpTable[c + 1]
    BY <1>2, <1>3, <1>4
  <2> QED BY <1>3, <1>4, <2>1, <2>2
<1>5. CASE c = 18
  BY <1>2, <1>5 DEF Ops
<1>6. CASE c = 19
  BY <1>2, <1>6 DEF Ops
<1>7. CASE c = 20
  BY <1>2, <1>7 DEF Ops, ChoOps
<1>8. CASE c > 20
  BY <1>2, <1>3, <1>8
<1> QED BY <1>3, <1>4, <1>5, <1>6, <1>7, <1>8

-----------------------------------------------------------------------------
(* The fields are read back.                                               *)

LEMMA FieldBack ==
  ASSUME NEW L, NEW taken, Sound(L, taken), NEW f, NEW fixed, fixed \subseteq taken,
         NEW n \in DOMAIN L, Fits(f[n], L[n])
  PROVE  Take(fixed \cup UNION {Put(f[m], L[m]) : m \in DOMAIN L}, L[n]) = f[n]
<1> DEFINE w == fixed \cup UNION {Put(f[m], L[m]) : m \in DOMAIN L}
           at == L[n].at
           len == L[n].len
<1>1. /\ at \in Int /\ len \in Int /\ len >= 1
      /\ \A b \in taken : b < at \/ at + len <= b
      /\ \A m \in DOMAIN L : L[m].at \in Int /\ L[m].len \in Int
      /\ \A m \in DOMAIN L : m # n => L[m].at + L[m].len <= at \/ at + len <= L[m].at
  BY DEF Sound
<1> HIDE DEF at, len
<1>2. ASSUME NEW b \in 0 .. len - 1 PROVE at + b \in w <=> b \in f[n]
  <2>1. ASSUME b \in f[n] PROVE at + b \in w
    <3>1. at + b \in Put(f[n], L[n])
      BY <1>2, <2>1 DEF Put, at, len
    <3> QED BY <3>1
  <2>2. ASSUME at + b \in w PROVE b \in f[n]
    <3>1. at + b \notin fixed
      BY <1>1, <1>2
    <3>2. PICK m \in DOMAIN L : at + b \in Put(f[m], L[m])
      BY <2>2, <3>1
    <3>3. PICK c \in f[m] \cap (0 .. L[m].len - 1) : at + b = L[m].at + c
      BY <3>2 DEF Put
    <3>4. m = n
      BY <1>1, <1>2, <3>3
    <3>5. b = c
      <4>1. L[m].at = at
        BY <3>4 DEF at
      <4>2. b \in Int /\ c \in Int
        BY <1>1, <1>2, <3>3
      <4> QED BY <1>1, <3>3, <4>1, <4>2
    <3> QED BY <3>3, <3>4, <3>5
  <2> QED BY <2>1, <2>2
<1> HIDE DEF w
<1>3. {b \in 0 .. len - 1 : at + b \in w} = f[n] \cap (0 .. len - 1)
  BY <1>2
<1>4. Take(w, L[n]) = Extend(f[n] \cap (0 .. len - 1), L[n])
  BY <1>3 DEF Take, at, len
<1> QED BY <1>4 DEF Fits, w, len

LEMMA TakeFits ==
  ASSUME NEW w, NEW fd, fd.len \in Int
  PROVE  Fits(Take(w, fd), fd)
<1> DEFINE q == {b \in 0 .. fd.len - 1 : fd.at + b \in w}
<1>1. q \subseteq 0 .. fd.len - 1
  OBVIOUS
<1>2. Take(w, fd) = Extend(q, fd)
  BY DEF Take
<1> HIDE DEF q
<1>3. Extend(q, fd) \cap (0 .. fd.len - 1) = q
  <2>1. (q \cup (fd.len .. 15)) \cap (0 .. fd.len - 1) = q
    <3>1. \A len \in Int : \A b \in len .. 15 : b \notin 0 .. len - 1
      OBVIOUS
    <3>2. \A b \in fd.len .. 15 : b \notin 0 .. fd.len - 1
      BY <3>1
    <3> QED BY Zenon, <1>1, <3>2
  <2>2. q \cap (0 .. fd.len - 1) = q
    BY <1>1
  <2>3. Extend(q, fd) = q \/ Extend(q, fd) = q \cup (fd.len .. 15)
    BY DEF Extend
  <2> QED BY Zenon, <2>1, <2>2, <2>3
<1> QED BY <1>2, <1>3 DEF Fits

\* Bits within an unsigned field are a number it holds.
LEMMA FitsUnsigned ==
  ASSUME NEW fd, NEW p, fd.signed = FALSE, p \subseteq 0 .. fd.len - 1
  PROVE  Fits(p, fd)
<1>1. p \cap (0 .. fd.len - 1) = p
  OBVIOUS
<1>2. Extend(p, fd) = p
  BY DEF Extend
<1> QED BY <1>1, <1>2, Zenon DEF Fits

\* So are bits whose upper ones, to bit 15, are copies of a signed field's top.
LEMMA FitsSigned ==
  ASSUME NEW fd, NEW p, fd.signed = TRUE, fd.len \in 1 .. 16, p \subseteq 0 .. 15,
         fd.len - 1 \in p => fd.len .. 15 \subseteq p,
         fd.len - 1 \notin p => p \subseteq 0 .. fd.len - 1
  PROVE  Fits(p, fd)
<1> DEFINE len == fd.len
           q   == p \cap (0 .. len - 1)
<1>1. len \in 1 .. 16
  OBVIOUS
<1> HIDE DEF len
<1>2. len - 1 \in 0 .. len - 1 /\ \A b \in 0 .. 15 : b \in 0 .. len - 1 \/ b \in len .. 15
  BY <1>1
<1>3. len - 1 \in p => len .. 15 \subseteq p
  BY DEF len
<1>4. len - 1 \notin p => p \subseteq 0 .. len - 1
  BY DEF len
<1>5. len - 1 \in q <=> len - 1 \in p
  BY Zenon, <1>2
<1>6. len - 1 \in p => p = q \cup (len .. 15)
  <2>1. \A b \in p : b \in q \/ b \in len .. 15
    BY Zenon, <1>2
  <2> QED BY Zenon, <1>3, <2>1
<1>7. len - 1 \notin p => p = q
  BY Zenon, <1>4
<1> HIDE DEF q
<1>8. Extend(q, fd) = IF len - 1 \in q THEN q \cup (len .. 15) ELSE q
  BY Zenon DEF Extend, len
<1>9. p = Extend(q, fd)
  <2>1. CASE len - 1 \in p
    BY <1>5, <1>6, <1>8, <2>1
  <2>2. CASE len - 1 \notin p
    BY <1>5, <1>7, <1>8, <2>2
  <2> QED BY <2>1, <2>2
<1> QED BY Zenon, <1>9 DEF Fits, q, len

-----------------------------------------------------------------------------
(* Round trips.                                                            *)

\* decode after encode is the identity on the instructions that words stand
\* for (Instruction::encode).
THEOREM DecodeEncode ==
  ASSUME NEW i, Encodable(i)
  PROVE  Decode(Encode(i)) = i
<1>1. CASE i.op = "RAW"
  <2>1. "RAW" \notin Ops
    BY DEF Ops, DelayOps, RegOps, MathOps, MaskOps, ChoOps
  <2>2. OpOf(i.word) = "RAW" /\ i = [op |-> i.op, word |-> i.word]
    BY <1>1, <2>1 DEF Encodable
  <2>3. Encode(i) = i.word
    BY <1>1 DEF Encode
  <2> QED BY <1>1, <2>2, <2>3 DEF Decode
<1>2. CASE i.op # "RAW"
  <2> DEFINE op == i.op
             L  == Layout(op)
             f  == i.field
             w  == Fixed(op) \cup UNION {Put(f[m], L[m]) : m \in DOMAIN L}
  <2>1. /\ op \in Ops /\ i = [op |-> op, field |-> [n \in DOMAIN L |-> f[n]]]
        /\ \A n \in DOMAIN L : Fits(f[n], L[n])
    BY <1>2 DEF Encodable
  <2>2. Encode(i) = w
    BY <1>2 DEF Encode
  <2>3. Sound(L, Reserved(op)) /\ Fixed(op) \subseteq Reserved(op)
    BY <2>1, LayoutSound DEF Reserved
  <2>4. OpOf(w) = op
    <3>1. \A m \in DOMAIN L : \A b \in Put(f[m], L[m]) : b \notin Reserved(op)
      <4> SUFFICES ASSUME NEW m \in DOMAIN L, NEW b \in Put(f[m], L[m]), b \in Reserved(op)
                   PROVE  FALSE
        OBVIOUS
      <4>1. PICK c \in 0 .. L[m].len - 1 : b = L[m].at + c
        BY DEF Put
      <4>2. L[m].at \in Int /\ L[m].len \in Int
            /\ (b < L[m].at \/ L[m].at + L[m].len <= b)
        BY <2>3 DEF Sound
      <4> QED BY <4>1, <4>2
    <3>2. \A b \in Reserved(op) : b \in w <=> b \in Fixed(op)
      BY <3>1
    <3> HIDE DEF w
    <3>3. Fixed(op) \cap (0 .. 4) = Opcode(op)
      BY <2>1, KeyBits DEF Fixed
    <3>4. 0 .. 4 \subseteq Reserved(op)
      BY DEF Reserved
    <3>5. w \cap (0 .. 4) = Opcode(op)
      BY <3>2, <3>3, <3>4
    <3>6. op \in {"WLDS", "WLDR"} \cup ChoOps => w \cap {30, 31} = SubType(op)
      <4> SUFFICES ASSUME op \in {"WLDS", "WLDR"} \cup ChoOps
                   PROVE  w \cap {30, 31} = SubType(op)
        OBVIOUS
      <4>1. {30, 31} \subseteq Reserved(op)
        BY DEF Reserved
      <4>2. Fixed(op) = Opcode(op) \cup SubType(op)
        BY DEF Fixed, ChoOps
      <4>3. Fixed(op) \cap {30, 31} = SubType(op)
        BY <2>1, <4>2, KeyBits
      <4> QED BY <3>2, <4>1, <4>3
    <3> QED BY <2>1, <3>5, <3>6, OpBack
  <2>5. \A n \in DOMAIN L : Take(w, L[n]) = f[n]
    BY <2>1, <2>3, FieldBack
  <2> HIDE DEF w
  <2>6. Decode(w) = [op |-> op, field |-> [n \in DOMAIN L |-> Take(w, L[n])]]
    BY <1>2, <2>4 DEF Decode
  <2>7. Decode(w) = [op |-> op, field |-> [n \in DOMAIN L |-> f[n]]]
    BY <2>5, <2>6
  <2> QED BY <2>1, <2>2, <2>7
<1> QED BY <1>1, <1>2

\* Whatever a word holds, it decodes to an instruction that encode can keep.
THEOREM DecodeTotal ==
  ASSUME NEW w \in Word
  PROVE  Encodable(Decode(w))
<1>1. CASE OpOf(w) = "RAW"
  BY <1>1 DEF Decode, Encodable
<1>2. CASE OpOf(w) # "RAW"
  <2> DEFINE op == OpOf(w)
             L  == Layout(op)
             f  == [n \in DOMAIN L |-> Take(w, L[n])]
  <2>1. op \in Ops
    BY <1>2, OpRange
  <2>2. Decode(w) = [op |-> op, field |-> f]
    BY <1>2 DEF Decode
  <2>3. \A n \in DOMAIN L : L[n].len \in Int
    BY <2>1, FieldShape
  <2>4. \A n \in DOMAIN L : Fits(f[n], L[n])
    BY <2>3, TakeFits
  <2> QED BY <2>1, <2>2, <2>4 DEF Encodable
<1> QED BY <1>1, <1>2

\* encode fills 32 bits.
LEMMA EncodeWord ==
  ASSUME NEW i, Encodable(i)
  PROVE  Encode(i) \in Word
<1>1. CASE i.op = "RAW"
  <2>1. "RAW" \notin Ops
    BY DEF Ops, DelayOps, RegOps, MathOps, MaskOps, ChoOps
  <2> QED BY <1>1, <2>1 DEF Encode, Encodable
<1>2. CASE i.op # "RAW"
  <2> DEFINE L == Layout(i.op)
  <2>1. i.op \in Ops /\ Encode(i) = Fixed(i.op) \cup UNION {Put(i.field[m], L[m]) : m \in DOMAIN L}
    BY <1>2 DEF Encodable, Encode
  <2>2. Fixed(i.op) \subseteq 0 .. 31
    BY <2>1, KeyBits DEF Fixed
  <2>3. \A m \in DOMAIN L : Put(i.field[m], L[m]) \subseteq 0 .. 31
    <3> SUFFICES ASSUME NEW m \in DOMAIN L, NEW b \in Put(i.field[m], L[m])
                 PROVE  b \in 0 .. 31
      OBVIOUS
    <3>1. PICK c \in 0 .. L[m].len - 1 : b = L[m].at + c
      BY DEF Put
    <3>2. L[m].at \in 5 .. 31 /\ L[m].len \in 1 .. 24 /\ L[m].at + L[m].len <= 32
      BY <2>1, LayoutSound DEF Sound
    <3> QED BY <3>1, <3>2
  <2> HIDE DEF L
  <2> QED BY <2>1, <2>2, <2>3 DEF Word
<1> QED BY <1>1, <1>2

-----------------------------------------------------------------------------
(* Canonical words.                                                        *)

\* The code tells the low bits.
LEMMA BitsOfCode ==
  ASSUME NEW w
  PROVE  /\ Code(w) \in 0 .. 31
         /\ 0 \in w <=> Code(w) % 2 = 1
         /\ 1 \in w <=> (Code(w) \div 2) % 2 = 1
         /\ 2 \in w <=> (Code(w) \div 4) % 2 = 1
         /\ 3 \in w <=> (Code(w) \div 8) % 2 = 1
         /\ 4 \in w <=> (Code(w) \div 16) % 2 = 1
BY CodeBits

\* The converse of OpBack: an instruction's word holds its opcode, and its kind
\* where the top two bits tell it.
LEMMA OpBits ==
  ASSUME NEW w, OpOf(w) # "RAW"
  PROVE  /\ w \cap (0 .. 4) = Opcode(OpOf(w))
         /\ SubType(OpOf(w)) \subseteq w
<1>0. \A b \in 0 .. 4 : b \in {0, 1, 2, 3, 4}
  OBVIOUS
<1>1. CASE Code(w) = 0
  <2>1. w \cap (0 .. 4) = {}
    BY <1>1, BitsOfCode
  <2>2. OpOf(w) = "RDA"
    BY <1>1 DEF OpOf, OpTable
  <2> QED BY <2>1, <2>2 DEF Opcode, SubType, ChoOps
<1>2. CASE Code(w) = 1
  <2>1. w \cap (0 .. 4) = {0}
    BY <1>2, BitsOfCode
  <2>2. OpOf(w) = "RMPA"
    BY <1>2 DEF OpOf, OpTable
  <2> QED BY <2>1, <2>2 DEF Opcode, SubType, ChoOps
<1>3. CASE Code(w) = 2
  <2>1. w \cap (0 .. 4) = {1}
    BY <1>3, BitsOfCode
  <2>2. OpOf(w) = "WRA"
    BY <1>3 DEF OpOf, OpTable
  <2> QED BY <2>1, <2>2 DEF Opcode, SubType, ChoOps
<1>4. CASE Code(w) = 3
  <2>1. w \cap (0 .. 4) = {0, 1}
    BY <1>4, BitsOfCode
  <2>2. OpOf(w) = "WRAP"
    BY <1>4 DEF OpOf, OpTable
  <2> QED BY <2>1, <2>2 DEF Opcode, SubType, ChoOps
<1>5. CASE Code(w) = 4
  <2>1. w \cap (0 .. 4) = {2}
    BY <1>5, BitsOfCode
  <2>2. OpOf(w) = "RDAX"
    BY <1>5 DEF OpOf, OpTable
  <2> QED BY <2>1, <2>2 DEF Opcode, SubType, ChoOps
<1>6. CASE Code(w) = 5
  <2>1. w \cap (0 .. 4) = {0, 2}
    BY <1>6, BitsOfCode
  <2>2. OpOf(w) = "RDFX"
    BY <1>6 DEF OpOf, OpTable
  <2> QED BY <2>1, <2>2 DEF Opcode, SubType, ChoOps
<1>7. CASE Code(w) = 6
  <2>1. w \cap (0 .. 4) = {1, 2}
    BY <1>7, BitsOfCode
  <2>2. OpOf(w) = "WRAX"
    BY <1>7 DEF OpOf, OpTable
  <2> QED BY <2>1, <2>2 DEF Opcode, SubType, ChoOps
<1>8. CASE Code(w) = 7
  <2>1. w \cap (0 .. 4) = {0, 1, 2}
    BY <1>8, BitsOfCode
  <2>2. OpOf(w) = "WRHX"
    BY <1>8 DEF OpOf, OpTable
  <2> QED BY <2>1, <2>2 DEF Opcode, SubType, ChoOps
<1>9. CASE Code(w) = 8
  <2>1. w \cap (0 .. 4) = {3}
    BY <1>9, BitsOfCode
  <2>2. OpOf(w) = "WRLX"
    BY <1>9 DEF OpOf, OpTable
  <2> QED BY <2>1, <2>2 DEF Opcode, SubType, ChoOps
<1>10. CASE Code(w) = 9
  <2>1. w \cap (0 .. 4) = {0, 3}
    BY <1>10, BitsOfCode
  <2>2. OpOf(w) = "MAXX"
    BY <1>10 DEF OpOf, OpTable
  <2> QED BY <2>1, <2>2 DEF Opcode, SubType, ChoOps
<1>11. CASE Code(w) = 10
  <2>1. w \cap (0 .. 4) = {1, 3}
    BY <1>11, BitsOfCode
  <2>2. OpOf(w) = "MULX"
    BY <1>11 DEF OpOf, OpTable
  <2> QED BY <2>1, <2>2 DEF Opcode, SubType, ChoOps
<1>12. CASE Code(w) = 11
  <2>1. w \cap (0 .. 4) = {0, 1, 3}
    BY <1>12, BitsOfCode
  <2>2. OpOf(w) = "LOG"
    BY <1>12 DEF OpOf, OpTable
  <2> QED BY <2>1, <2>2 DEF Opcode, SubType, ChoOps
<1>13. CASE Code(w) = 12
  <2>1. w \cap (0 .. 4) = {2, 3}
    BY <1>13, BitsOfCode
  <2>2. OpOf(w) = "EXP"
    BY <1>13 DEF OpOf, OpTable
  <2> QED BY <2>1, <2>2 DEF Opcode, SubType, ChoOps
<1>14. CASE Code(w) = 13
  <2>1. w \cap (0 .. 4) = {0, 2, 3}
    BY <1>14, BitsOfCode
  <2>2. OpOf(w) = "SOF"
    BY <1>14 DEF OpOf, OpTable
  <2> QED BY <2>1, <2>2 DEF Opcode, SubType, ChoOps
<1>15. CASE Code(w) = 14
  <2>1. w \cap (0 .. 4) = {1, 2, 3}
    BY <1>15, BitsOfCode
  <2>2. OpOf(w) = "AND"
    BY <1>15 DEF OpOf, OpTable
  <2> QED BY <2>1, <2>2 DEF Opcode, SubType, ChoOps
<1>16. CASE Code(w) = 15
  <2>1. w \cap (0 .. 4) = {0, 1, 2, 3}
    BY <1>16, BitsOfCode
  <2>2. OpOf(w) = "OR"
    BY <1>16 DEF OpOf, OpTable
  <2> QED BY <2>1, <2>2 DEF Opcode, SubType, ChoOps
<1>17. CASE Code(w) = 16
  <2>1. w \cap (0 .. 4) = {4}
    BY <1>17, BitsOfCode
  <2>2. OpOf(w) = "XOR"
    BY <1>17 DEF OpOf, OpTable
  <2> QED BY <2>1, <2>2 DEF Opcode, SubType, ChoOps
<1>18. CASE Code(w) = 17
  <2>1. w \cap (0 .. 4) = {0, 4}
    BY <1>18, BitsOfCode
  <2>2. OpOf(w) = "SKP"
    BY <1>18 DEF OpOf, OpTable
  <2> QED BY <2>1, <2>2 DEF Opcode, SubType, ChoOps
<1>19. CASE Code(w) = 18
  <2>1. w \cap (0 .. 4) = {1, 4}
    BY <1>19, BitsOfCode
  <2>2. OpOf(w) = "WLDS" \/ (OpOf(w) = "WLDR" /\ w \cap {30, 31} = {30})
    BY <1>19 DEF OpOf
  <2> QED BY <2>1, <2>2 DEF Opcode, SubType, ChoOps
<1>20. CASE Code(w) = 19
  <2>1. w \cap (0 .. 4) = {0, 1, 4}
    BY <1>20, BitsOfCode
  <2>2. OpOf(w) = "JAM"
    BY <1>20 DEF OpOf
  <2> QED BY <2>1, <2>2 DEF Opcode, SubType, ChoOps
<1>21. CASE Code(w) = 20
  <2>1. w \cap (0 .. 4) = {2, 4}
    BY <1>21, BitsOfCode
  <2>2. \/ OpOf(w) = "CHO_RDA"
        \/ OpOf(w) = "CHO_SOF" /\ w \cap {30, 31} = {31}
        \/ OpOf(w) = "CHO_RDAL" /\ w \cap {30, 31} = {30, 31}
    BY <1>21 DEF OpOf
  <2> QED BY <2>1, <2>2 DEF Opcode, SubType, ChoOps
<1>22. CASE Code(w) > 20
  BY <1>22 DEF OpOf
<1>23. Code(w) \in 0 .. 31
  BY BitsOfCode
<1> QED BY <1>1, <1>2, <1>3, <1>4, <1>5, <1>6, <1>7, <1>8, <1>9, <1>10, <1>11, <1>12, <1>13, <1>14, <1>15, <1>16, <1>17, <1>18, <1>19, <1>20, <1>21, <1>22, <1>23

\* What encode puts in a field is what decode took from it.
LEMMA PutTake ==
  ASSUME NEW w, NEW fd, fd.at \in Int, fd.len \in Int
  PROVE  Put(Take(w, fd), fd) = w \cap {fd.at + b : b \in 0 .. fd.len - 1}
<1> DEFINE p == {b \in 0 .. fd.len - 1 : fd.at + b \in w}
<1>1. Take(w, fd) = p \/ Take(w, fd) = p \cup (fd.len .. 15)
  BY DEF Take, Extend
<1>2. \A b \in fd.len .. 15 : b \notin 0 .. fd.len - 1
  OBVIOUS
<1>3. p \subseteq 0 .. fd.len - 1
  OBVIOUS
<1>4. Take(w, fd) \cap (0 .. fd.len - 1) = p
  <2> HIDE DEF p
  <2> QED BY <1>1, <1>2, <1>3, Zenon
<1>5. Put(Take(w, fd), fd) = {fd.at + b : b \in p}
  BY <1>4, Zenon DEF Put
<1>6. {fd.at + b : b \in p} = w \cap {fd.at + b : b \in 0 .. fd.len - 1}
  OBVIOUS
<1> QED BY <1>5, <1>6

\* encode after decode is the identity on the words SpinASM writes, and on
\* those that are no instruction (Instruction::encode).
THEOREM EncodeDecode ==
  ASSUME NEW w, Canonical(w)
  PROVE  Encode(Decode(w)) = w
<1>1. CASE OpOf(w) = "RAW"
  BY <1>1 DEF Decode, Encode
<1>2. CASE OpOf(w) # "RAW"
  <2> DEFINE op == OpOf(w)
             L  == Layout(op)
             Bits(n) == {L[n].at + b : b \in 0 .. L[n].len - 1}
  <2>1. op \in Ops
    BY <1>2, OpRange
  <2>2. \A n \in DOMAIN L : L[n].at \in Int /\ L[n].len \in Int
    BY <2>1, FieldShape
  <2>3. Encode(Decode(w)) = Fixed(op) \cup UNION {Put(Take(w, L[n]), L[n]) : n \in DOMAIN L}
    <3>1. Decode(w) = [op |-> op, field |-> [n \in DOMAIN L |-> Take(w, L[n])]]
      BY <1>2 DEF Decode
    <3> DEFINE i == Decode(w)
    <3>2. i.op = op /\ op # "RAW" /\ \A n \in DOMAIN L : i.field[n] = Take(w, L[n])
      BY <1>2, <3>1
    <3>3. Encode(i) = Fixed(op) \cup UNION {Put(i.field[n], L[n]) : n \in DOMAIN L}
      BY <3>2 DEF Encode
    <3>4. {Put(i.field[n], L[n]) : n \in DOMAIN L} = {Put(Take(w, L[n]), L[n]) : n \in DOMAIN L}
      BY <3>2
    <3> QED BY <3>3, <3>4
  <2>4. \A n \in DOMAIN L : Put(Take(w, L[n]), L[n]) = w \cap Bits(n)
    BY <2>2, PutTake
  <2>5. Covered(op) = UNION {Bits(n) : n \in DOMAIN L}
    BY DEF Covered
  <2> HIDE DEF Bits, L
  <2>6. Encode(Decode(w)) = Fixed(op) \cup (w \cap Covered(op))
    BY <2>3, <2>4, <2>5
  <2>7. Fixed(op) = Opcode(op) \cup SubType(op) \cup Spare(op)
    BY DEF Fixed, Spare
  <2>8. w \cap (0 .. 4) = Opcode(op) /\ SubType(op) \subseteq w
    BY <1>2, OpBits
  <2>9. w \ (Covered(op) \cup 0 .. 4 \cup SubType(op)) = Spare(op)
    BY <1>2 DEF Canonical
  <2> HIDE DEF op
  <2> QED BY <2>6, <2>7, <2>8, <2>9, Zenon
<1> QED BY <1>1, <1>2

\* What an instruction is encoded as is its own, in the form SpinASM writes.
LEMMA EncodeCanonical ==
  ASSUME NEW i, Encodable(i), i.op # "RAW"
  PROVE  OpOf(Encode(i)) = i.op /\ Canonical(Encode(i))
<1> DEFINE w  == Encode(i)
           op == i.op
           L  == Layout(op)
<1>1. op \in Ops
  BY DEF Encodable
<1>2. OpOf(w) = op
  <2>1. Decode(w) = i
    BY DecodeEncode
  <2>2. Decode(w).op = OpOf(w)
    BY DEF Decode
  <2> QED BY <2>1, <2>2
<1>3. w = Fixed(op) \cup UNION {Put(i.field[n], L[n]) : n \in DOMAIN L}
  BY DEF Encode
<1>4. \A n \in DOMAIN L : Put(i.field[n], L[n]) \subseteq Covered(op)
  BY DEF Put, Covered
<1>5. w = Fixed(op) \cup (w \cap Covered(op)) /\ Fixed(op) \subseteq w
  BY <1>3, <1>4
<1>6. Fixed(op) = Opcode(op) \cup SubType(op) \cup Spare(op)
  BY DEF Fixed, Spare
<1>7. Opcode(op) \subseteq 0 .. 4
  BY <1>1, KeyBits
<1>8. Spare(op) \cap (Covered(op) \cup 0 .. 4 \cup SubType(op)) = {}
  <2>1. CASE op = "RMPA"
    <3>1. Spare(op) = {8, 9} /\ SubType(op) = {}
      BY <2>1 DEF Spare, SubType
    <3>2. \A b \in Covered(op) : b \in 21 .. 31
      BY <2>1 DEF Covered, Layout, DelayOps, RegOps, MathOps, MaskOps, Signed
    <3> QED BY <3>1, <3>2
  <2>2. CASE op = "JAM"
    <3>1. Spare(op) = {7} /\ SubType(op) = {}
      BY <2>2 DEF Spare, SubType
    <3>2. \A b \in Covered(op) : b = 6
      BY <2>2 DEF Covered, Layout, DelayOps, RegOps, MathOps, MaskOps, Unsigned
    <3> QED BY <3>1, <3>2
  <2>3. CASE op \notin {"RMPA", "JAM"}
    BY <2>3 DEF Spare
  <2> QED BY <2>1, <2>2, <2>3
<1> HIDE DEF w, op, L
<1>9. w \ (Covered(op) \cup 0 .. 4 \cup SubType(op)) = Spare(op)
  BY <1>5, <1>6, <1>7, <1>8
<1>10. Canonical(w)
  BY <1>2, <1>9 DEF Canonical
<1> QED BY <1>2, <1>10 DEF w, op

-----------------------------------------------------------------------------
(* The bits of an integer: its binary digits, those of a negative one in     *)
(* two's complement.                                                        *)

\* The bit of weight 2 ^ b, which a shift by b bits in two steps leaves lowest.
Low(b)  == 2 ^ (b \div 2)
High(b) == 2 ^ (b - b \div 2)
Bit(v, b) == ((v \div Low(b)) \div High(b)) % 2

\* The powers of two the fields are made of.
LEMMA Powers ==
  /\ 2 ^ 0 = 1 /\ 2 ^ 1 = 2 /\ 2 ^ 2 = 4 /\ 2 ^ 3 = 8 /\ 2 ^ 4 = 16 /\ 2 ^ 5 = 32
  /\ 2 ^ 6 = 64 /\ 2 ^ 7 = 128 /\ 2 ^ 8 = 256 /\ 2 ^ 9 = 512 /\ 2 ^ 10 = 1024
  /\ 2 ^ 11 = 2048 /\ 2 ^ 12 = 4096 /\ 2 ^ 13 = 8192 /\ 2 ^ 14 = 16384
  /\ 2 ^ 15 = 32768 /\ 2 ^ 16 = 65536
OBVIOUS

\* The steps together pass every field that ends below b.
LEMMA Steps ==
  ASSUME NEW b \in 0 .. 31
  PROVE  /\ Low(b) \in Nat \ {0} /\ High(b) \in Nat \ {0}
         /\ \A len \in {1, 2, 5, 6, 9, 15, 16, 24} : len <= b => 2 ^ len <= Low(b) * High(b)
<1>0. 2 ^ 24 = 16777216
  OBVIOUS
<1>1. CASE b = 0
  BY <1>0, <1>1, Powers DEF Low, High
<1>2. CASE b = 1
  BY <1>0, <1>2, Powers DEF Low, High
<1>3. CASE b = 2
  BY <1>0, <1>3, Powers DEF Low, High
<1>4. CASE b = 3
  BY <1>0, <1>4, Powers DEF Low, High
<1>5. CASE b = 4
  BY <1>0, <1>5, Powers DEF Low, High
<1>6. CASE b = 5
  BY <1>0, <1>6, Powers DEF Low, High
<1>7. CASE b = 6
  BY <1>0, <1>7, Powers DEF Low, High
<1>8. CASE b = 7
  BY <1>0, <1>8, Powers DEF Low, High
<1>9. CASE b = 8
  BY <1>0, <1>9, Powers DEF Low, High
<1>10. CASE b = 9
  BY <1>0, <1>10, Powers DEF Low, High
<1>11. CASE b = 10
  BY <1>0, <1>11, Powers DEF Low, High
<1>12. CASE b = 11
  BY <1>0, <1>12, Powers DEF Low, High
<1>13. CASE b = 12
  BY <1>0, <1>13, Powers DEF Low, High
<1>14. CASE b = 13
  BY <1>0, <1>14, Powers DEF Low, High
<1>15. CASE b = 14
  BY <1>0, <1>15, Powers DEF Low, High
<1>16. CASE b = 15
  BY <1>0, <1>16, Powers DEF Low, High
<1>17. CASE b = 16
  BY <1>0, <1>17, Powers DEF Low, High
<1>18. CASE b = 17
  BY <1>0, <1>18, Powers DEF Low, High
<1>19. CASE b = 18
  BY <1>0, <1>19, Powers DEF Low, High
<1>20. CASE b = 19
  BY <1>0, <1>20, Powers DEF Low, High
<1>21. CASE b = 20
  BY <1>0, <1>21, Powers DEF Low, High
<1>22. CASE b = 21
  BY <1>0, <1>22, Powers DEF Low, High
<1>23. CASE b = 22
  BY <1>0, <1>23, Powers DEF Low, High
<1>24. CASE b = 23
  BY <1>0, <1>24, Powers DEF Low, High
<1>25. CASE b = 24
  BY <1>0, <1>25, Powers DEF Low, High
<1>26. CASE b = 25
  BY <1>0, <1>26, Powers DEF Low, High
<1>27. CASE b = 26
  BY <1>0, <1>27, Powers DEF Low, High
<1>28. CASE b = 27
  BY <1>0, <1>28, Powers DEF Low, High
<1>29. CASE b = 28
  BY <1>0, <1>29, Powers DEF Low, High
<1>30. CASE b = 29
  BY <1>0, <1>30, Powers DEF Low, High
<1>31. CASE b = 30
  BY <1>0, <1>31, Powers DEF Low, High
<1>32. CASE b = 31
  BY <1>0, <1>32, Powers DEF Low, High
<1> QED BY <1>1, <1>2, <1>3, <1>4, <1>5, <1>6, <1>7, <1>8, <1>9, <1>10, <1>11,
           <1>12, <1>13, <1>14, <1>15, <1>16, <1>17, <1>18, <1>19, <1>20, <1>21, <1>22,
           <1>23, <1>24, <1>25, <1>26, <1>27, <1>28, <1>29, <1>30, <1>31, <1>32

\* Two steps that pass a number leave nothing of it.
LEMMA ShiftedOut ==
  ASSUME NEW v \in Nat, NEW h \in Nat \ {0}, NEW g \in Nat \ {0}, v < h * g
  PROVE  (v \div h) \div g = 0
<1> DEFINE q == v \div h
<1>1. q \in Nat /\ h * q <= v
  OBVIOUS
<1> HIDE DEF q
<1>2. q < g
  <2>1. ASSUME q >= g PROVE FALSE
    <3>1. h * q >= h * g
      BY <1>1, <2>1
    <3> QED BY <3>1, <1>1
  <2> QED BY <2>1, <1>1
<1>3. q \div g = 0
  BY <1>1, <1>2
<1> QED BY <1>3 DEF q

\* The bits of a small number end where its field does.
LEMMA HighBits ==
  ASSUME NEW len \in {1, 2, 5, 6, 9, 15, 16, 24}, NEW v \in 0 .. 2 ^ len - 1, NEW b \in len .. 31
  PROVE  Bit(v, b) = 0
<1>1. 2 ^ len \in Nat
  <2>1. 2 ^ 24 = 16777216
    OBVIOUS
  <2> QED BY <2>1, Powers
<1>2. b \in 0 .. 31 /\ len <= b
  OBVIOUS
<1>3. /\ Low(b) \in Nat \ {0} /\ High(b) \in Nat \ {0}
      /\ 2 ^ len <= Low(b) * High(b)
  BY <1>2, Steps
<1> DEFINE h == Low(b)
           g == High(b)
           m == 2 ^ len
<1>4. v \in Nat /\ v < m
  BY <1>1
<1> HIDE DEF h, g, m
<1>5. h \in Nat \ {0} /\ g \in Nat \ {0} /\ m <= h * g /\ m \in Nat
  BY <1>1, <1>3 DEF h, g, m
<1>6. v < h * g
  BY <1>4, <1>5
<1>7. (v \div h) \div g = 0
  BY <1>4, <1>5, <1>6, ShiftedOut
<1> QED BY <1>7 DEF Bit, h, g

\* The bits above a short signed field are copies of its sign.
LEMMA SignBits ==
  ASSUME NEW v \in Int, -1024 <= v, v <= 1023, NEW b \in 10 .. 15
  PROVE  Bit(v, b) = IF v < 0 THEN 1 ELSE 0
<1>1. CASE b = 10
  <2>1. Low(b) = 32 /\ High(b) = 32
    BY <1>1, Powers DEF Low, High
  <2>2. ((v \div 32) \div 32) % 2 = IF v < 0 THEN 1 ELSE 0
    OBVIOUS
  <2> QED BY <2>1, <2>2 DEF Bit
<1>2. CASE b = 11
  <2>1. Low(b) = 32 /\ High(b) = 64
    BY <1>2, Powers DEF Low, High
  <2>2. ((v \div 32) \div 64) % 2 = IF v < 0 THEN 1 ELSE 0
    OBVIOUS
  <2> QED BY <2>1, <2>2 DEF Bit
<1>3. CASE b = 12
  <2>1. Low(b) = 64 /\ High(b) = 64
    BY <1>3, Powers DEF Low, High
  <2>2. ((v \div 64) \div 64) % 2 = IF v < 0 THEN 1 ELSE 0
    OBVIOUS
  <2> QED BY <2>1, <2>2 DEF Bit
<1>4. CASE b = 13
  <2>1. Low(b) = 64 /\ High(b) = 128
    BY <1>4, Powers DEF Low, High
  <2>2. ((v \div 64) \div 128) % 2 = IF v < 0 THEN 1 ELSE 0
    OBVIOUS
  <2> QED BY <2>1, <2>2 DEF Bit
<1>5. CASE b = 14
  <2>1. Low(b) = 128 /\ High(b) = 128
    BY <1>5, Powers DEF Low, High
  <2>2. ((v \div 128) \div 128) % 2 = IF v < 0 THEN 1 ELSE 0
    OBVIOUS
  <2> QED BY <2>1, <2>2 DEF Bit
<1>6. CASE b = 15
  <2>1. Low(b) = 128 /\ High(b) = 256
    BY <1>6, Powers DEF Low, High
  <2>2. ((v \div 128) \div 256) % 2 = IF v < 0 THEN 1 ELSE 0
    OBVIOUS
  <2> QED BY <2>1, <2>2 DEF Bit
<1> QED BY <1>1, <1>2, <1>3, <1>4, <1>5, <1>6

\* The 1 bits among the first n of an integer.
Ones(v, n) == {b \in 0 .. n - 1 : Bit(v, b) = 1}

\* The integers a field holds.
SignedOf(len)   == -(2 ^ (len - 1)) .. 2 ^ (len - 1) - 1
UnsignedOf(len) == 0 .. 2 ^ len - 1
Held(fd) == IF fd.signed THEN SignedOf(fd.len) ELSE UnsignedOf(fd.len)

\* A field keeps whole the bits of an integer it holds.
LEMMA OnesFit ==
  ASSUME NEW op \in Ops, NEW f \in DOMAIN Layout(op), NEW v \in Held(Layout(op)[f])
  PROVE  Fits(Ones(v, IF Layout(op)[f].signed THEN 16 ELSE 32), Layout(op)[f])
<1> DEFINE fd == Layout(op)[f]
<1>1. /\ v \in Held(fd)
      /\ \/ fd.signed = FALSE /\ fd.len \in {1, 2, 5, 6, 9, 15, 16, 24}
         \/ fd.signed = TRUE /\ fd.len \in {11, 16}
  BY FieldShape
<1> HIDE DEF fd
<1> SUFFICES Fits(Ones(v, IF fd.signed THEN 16 ELSE 32), fd)
  BY DEF fd
<1>2. CASE fd.signed = FALSE /\ fd.len \in {1, 2, 5, 6, 9, 15, 16, 24}
  <2> DEFINE p == Ones(v, 32)
  <2>1. v \in 0 .. 2 ^ fd.len - 1
    BY <1>1, <1>2 DEF Held, UnsignedOf
  <2>2. \A b \in fd.len .. 31 : Bit(v, b) = 0
    BY <1>2, <2>1, HighBits
  <2>3. p = {b \in 0 .. 31 : Bit(v, b) = 1}
    BY DEF Ones
  <2> HIDE DEF p
  <2>4. p \subseteq 0 .. fd.len - 1
    BY <1>2, <2>2, <2>3
  <2>5. Fits(p, fd)
    BY <1>2, <2>4, FitsUnsigned
  <2> QED BY <1>2, <2>5 DEF p
<1>3. CASE fd.signed = TRUE /\ fd.len \in {11, 16}
  <2> DEFINE p == Ones(v, 16)
  <2>1. p = {b \in 0 .. 15 : Bit(v, b) = 1}
    BY DEF Ones
  <2> HIDE DEF p
  <2>2. ASSUME fd.len = 16 PROVE Fits(p, fd)
    <3>1. fd.len - 1 = 15 /\ fd.len \in 1 .. 16 /\ \A b \in fd.len .. 15 : FALSE
      BY <2>2
    <3>2. p \subseteq 0 .. 15
      BY <2>1
    <3>3. fd.len - 1 \in p => fd.len .. 15 \subseteq p
      BY <3>1
    <3>4. fd.len - 1 \notin p => p \subseteq 0 .. fd.len - 1
      BY <3>1, <3>2
    <3> QED BY Zenon, <1>3, <3>1, <3>2, <3>3, <3>4, FitsSigned
  <2>3. ASSUME fd.len = 11 PROVE Fits(p, fd)
    <3>1. v \in Int /\ -1024 <= v /\ v <= 1023
      <4>1. 2 ^ (11 - 1) = 1024
        OBVIOUS
      <4>2. 2 ^ (fd.len - 1) = 1024
        BY <2>3, <4>1
      <4>3. v \in -(2 ^ (fd.len - 1)) .. 2 ^ (fd.len - 1) - 1
        <5>1. fd.signed
          BY <1>3
        <5>2. v \in Held(fd)
          BY <1>1
        <5> QED BY Zenon, <5>1, <5>2 DEF Held, SignedOf
      <4> QED BY <4>2, <4>3
    <3>2. ASSUME NEW b \in 10 .. 15 PROVE Bit(v, b) = IF v < 0 THEN 1 ELSE 0
      BY ONLY <3>1, <3>2, SignBits
    <3>3. \A b \in 10 .. 15 : b \in p <=> v < 0
      BY <2>1, <3>1, <3>2
    <3>4. fd.len - 1 = 10 /\ fd.len \in 1 .. 16
      BY <2>3
    <3>5. fd.len - 1 \in p => fd.len .. 15 \subseteq p
      BY <2>3, <3>3, <3>4
    <3>6. fd.len - 1 \notin p => p \subseteq 0 .. fd.len - 1
      BY <2>1, <3>3, <3>4
    <3>7. p \subseteq 0 .. 15
      BY <2>1
    <3> QED BY Zenon, <1>3, <3>4, <3>5, <3>6, <3>7, FitsSigned
  <2>4. Fits(p, fd)
    BY Zenon, <1>3, <2>2, <2>3
  <2> QED BY <1>3, <2>4 DEF p
<1> QED BY <1>1, <1>2, <1>3

\* The short ranges of the operands as widths.
LEMMA Spans ==
  /\ 0 .. 1 = UnsignedOf(1) /\ 0 .. 3 = UnsignedOf(2) /\ 0 .. 31 = UnsignedOf(5)
  /\ 0 .. 63 = UnsignedOf(6)
<1>1. 0 .. 1 = UnsignedOf(1)
  BY Powers DEF UnsignedOf
<1>2. 0 .. 3 = UnsignedOf(2)
  BY Powers DEF UnsignedOf
<1>3. 0 .. 31 = UnsignedOf(5)
  BY Powers DEF UnsignedOf
<1>4. 0 .. 63 = UnsignedOf(6)
  BY Powers DEF UnsignedOf
<1> QED BY <1>1, <1>2, <1>3, <1>4
=============================================================================
