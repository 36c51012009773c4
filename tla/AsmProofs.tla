----------------------------- MODULE AsmProofs ------------------------------
(***************************************************************************)
(* The assembler, for every text: what the first pass keeps has its types, *)
(* the blocks MEM allocates lie apart in delay RAM, an assembled skip      *)
(* lands on the line of its label, an expression evaluates to its meaning  *)
(* and an EQU symbol keeps it, the lines and words of a program stay as    *)
(* they were read, every word decodes to the instruction its line was      *)
(* assembled to, a coefficient is the nearest its field holds to what was  *)
(* written, or 0 for NaN, and an instruction printed as a line assembles   *)
(* to itself.                                                              *)
(***************************************************************************)
EXTENDS AsmAudit, CodecProofs, TLAPS

-----------------------------------------------------------------------------
(* Integers and tables.                                                    *)

\* An i64 holds its own values.
LEMMA WrapId == ASSUME NEW v \in Int, -IntMax - 1 <= v, v <= IntMax PROVE Wrap(v) = v
<1>1. IntMax \in Nat \ {0}
  BY ExprAssumption DEF ExprAssumption
<1>2. \A x, m \in Int : 0 <= x /\ x < m => x % m = x
  OBVIOUS
<1>3. (v + IntMax + 1) % (2 * (IntMax + 1)) = v + IntMax + 1
  BY <1>1, <1>2
<1> QED BY <1>1, <1>3 DEF Wrap

\* Arithmetic stays in an i64.
LEMMA WrapType == ASSUME NEW v \in Int PROVE Wrap(v) \in -IntMax - 1 .. IntMax
<1>1. IntMax \in Nat \ {0}
  BY ExprAssumption DEF ExprAssumption
<1>2. (v + IntMax + 1) % (2 * (IntMax + 1)) \in 0 .. 2 * (IntMax + 1) - 1
  BY <1>1
<1> QED BY <1>1, <1>2 DEF Wrap

\* New entries do not disturb the old ones.
LEMMA OverHas ==
  ASSUME NEW f, NEW g
  PROVE  /\ DOMAIN Over(f, g) = DOMAIN f \cup DOMAIN g
         /\ \A x \in DOMAIN g : Over(f, g)[x] = g[x]
         /\ \A x \in DOMAIN f \ DOMAIN g : Over(f, g)[x] = f[x]
BY DEF Over

\* The table after s, with what it already held.
Grown(f, g) == DOMAIN f \subseteq DOMAIN g /\ \A x \in DOMAIN f : g[x] = f[x]

\* A table that gets new names has grown.
LEMMA OverGrows ==
  ASSUME NEW f, NEW g, DOMAIN f \cap DOMAIN g = {}
  PROVE  Grown(f, Over(f, g))
BY OverHas, Zenon DEF Grown

-----------------------------------------------------------------------------
(* Induction: a recursive function is a CHOOSE, and what it is follows     *)
(* only once a function that meets its equation is built.                  *)

\* A power is what repeated multiplication keeps.
LEMMA PowerIn ==
  ASSUME NEW V, NEW x, NEW e \in Nat, 1 \in V, \A y \in V : x * y \in V
  PROVE  PowerOf(x, e) \in V
<1> DEFINE Follows(g, n) == /\ g \in [0 .. n -> V] /\ g[0] = 1
                            /\ \A k \in 1 .. n : g[k] = x * g[k - 1]
           S == {n \in Nat : \E g : Follows(g, n)}
           By(g) == g = [k \in 0 .. e |-> IF k = 0 THEN 1 ELSE x * g[k - 1]]
<1>1. 0 \in S
  <2> DEFINE g == [k \in 0 .. 0 |-> 1]
  <2>1. Follows(g, 0)
    OBVIOUS
  <2> QED BY <2>1
<1>2. ASSUME NEW n \in Nat, n \in S PROVE n + 1 \in S
  <2>1. PICK g : Follows(g, n)
    BY <1>2
  <2> DEFINE h == [k \in 0 .. n + 1 |-> IF k <= n THEN g[k] ELSE x * g[n]]
  <2>2. \A k \in 0 .. n : g[k] \in V
    BY <2>1
  <2>3. x * g[n] \in V
    BY <2>2
  <2>4. h \in [0 .. n + 1 -> V] /\ h[0] = 1
    BY <2>1, <2>2, <2>3
  <2>5. \A k \in 1 .. n + 1 : h[k] = x * h[k - 1]
    BY <2>1, <2>4
  <2>6. Follows(h, n + 1)
    BY <2>4, <2>5
  <2> HIDE DEF Follows
  <2> QED BY <2>6
<1>3. PICK g : Follows(g, e)
  <2> HIDE DEF Follows
  <2>1. Nat \subseteq S
    <3> HIDE DEF S
    <3> QED BY <1>1, <1>2, Induct
  <2> QED BY <2>1
<1>4. By(g)
  <2> DEFINE f == [k \in 0 .. e |-> IF k = 0 THEN 1 ELSE x * g[k - 1]]
  <2>1. \A k \in 0 .. e : g[k] = f[k]
    BY <1>3
  <2> QED BY <1>3, <2>1
<1> DEFINE p == CHOOSE f : By(f)
<1>5. By(p)
  <2> HIDE DEF By
  <2> QED BY <1>4
<1>6. PowerOf(x, e) = p[e]
  BY DEF PowerOf
<1> HIDE DEF p
<1>7. p[0] = 1 /\ \A k \in 1 .. e : p[k] = x * p[k - 1]
  <2>1. \A k \in 0 .. e : p[k] = IF k = 0 THEN 1 ELSE x * p[k - 1]
    BY <1>5
  <2> QED BY <2>1
<1> DEFINE A == {k \in Nat : k <= e => p[k] \in V}
<1>8. 0 \in A
  BY <1>7
<1>9. ASSUME NEW k \in Nat, k \in A PROVE k + 1 \in A
  <2>1. CASE k + 1 <= e
    <3>1. p[k] \in V /\ k + 1 \in 1 .. e /\ (k + 1) - 1 = k
      BY <1>9, <2>1
    <3>2. p[k + 1] = x * p[(k + 1) - 1]
      BY <1>7, <3>1
    <3> QED BY <3>1, <3>2
  <2>2. CASE ~(k + 1 <= e)
    BY <2>2
  <2> QED BY <2>1, <2>2
<1>10. Nat \subseteq A
  <2> HIDE DEF A
  <2> QED BY <1>8, <1>9, Induct
<1> QED BY <1>6, <1>10

-----------------------------------------------------------------------------
(* Numbers.                                                                *)

\* The operators that come from outside give integers and numbers.
OperatorsGiveNumbers ==
  /\ \A a, b \in Num : PowF(a, b) \in Num
  /\ \A m, n \in Int : BitAnd(m, n) \in Int /\ BitOr(m, n) \in Int /\ BitXor(m, n) \in Int

\* The fields of a number.
LEMMA NumFields ==
  ASSUME NEW a \in Num
  PROVE  a.real \in BOOLEAN /\ a.n \in Int /\ a.d \in Nat /\ (~a.real => a.d = 1)
<1>1. CASE a \in [real : {FALSE}, n : Int, d : {1}]
  <2>1. a.real \in {FALSE} /\ a.n \in Int /\ a.d \in {1}
    BY <1>1, Zenon
  <2>2. a.real \in BOOLEAN
    BY <2>1, Zenon
  <2>3. a.d \in Nat /\ a.d = 1
    BY <2>1
  <2> QED BY <2>1, <2>2, <2>3, Zenon
<1>2. CASE a \in Finite
  BY <1>2 DEF Finite
<1>3. CASE a \in Nonfinite
  <2>1. a.real \in {TRUE} /\ a.n \in {-1, 0, 1} /\ a.d \in {0}
    BY <1>3, Zenon DEF Nonfinite
  <2>2. a.real = TRUE
    BY <2>1, Zenon
  <2>3. a.n \in Int /\ a.d \in Nat
    BY <2>1
  <2> QED BY <2>2, <2>3, Zenon
<1> QED BY <1>1, <1>2, <1>3 DEF Num, IntNum

\* An integer, wrapped to an i64, is a number.
LEMMA IntIsNum == ASSUME NEW v \in Int PROVE IntOf(v) \in Num
<1>1. Wrap(v) \in Int
  <2>1. IntMax \in Int
    BY ExprAssumption DEF ExprAssumption
  <2> QED BY <2>1, WrapType
<1> QED BY <1>1 DEF IntOf, Num, IntNum

\* A fraction is a number, finite or not, and a small one is itself.
LEMMA RealIsNum == ASSUME NEW n \in Int, NEW d \in Nat PROVE RealOf(n, d) \in Num
<1>1. CASE d # 0 /\ Size(n) \div d <= RealMax
  BY <1>1 DEF RealOf, Num, Finite
<1>2. CASE ~(d # 0 /\ Size(n) \div d <= RealMax)
  <2>1. RealOf(n, d) = [real |-> TRUE, n |-> IF n = 0 THEN 0 ELSE Sign(n), d |-> 0]
    BY <1>2 DEF RealOf
  <2>2. (IF n = 0 THEN 0 ELSE Sign(n)) \in {-1, 0, 1}
    BY DEF Sign
  <2> QED BY <2>1, <2>2 DEF Num, Nonfinite
<1> QED BY <1>1, <1>2

LEMMA SmallReal ==
  ASSUME NEW n \in Int, NEW d \in Nat \ {0}, Size(n) <= IntMax
  PROVE  RealOf(n, d) = [real |-> TRUE, n |-> n, d |-> d]
<1>1. Size(n) \in Nat /\ IntMax \in Nat /\ RealMax \in Nat /\ IntMax <= RealMax
  BY ExprAssumption DEF ExprAssumption, Size
<1> DEFINE m == Size(n)
           q == m \div d
           k == m % d
<1> HIDE DEF m
<1>2. q \in Nat /\ k \in Nat /\ m = d * q + k
  <2>1. m \in Nat
    BY <1>1 DEF m
  <2> QED BY <2>1, Divided
<1> HIDE DEF q, k
<1>3. d * q >= q
  <2>1. (d - 1) * q \in Nat /\ d * q = (d - 1) * q + q
    BY <1>2
  <2> QED BY <1>2, <2>1
<1>4. q <= m
  <2>1. m \in Nat /\ d * q \in Nat
    BY <1>1, <1>2 DEF m
  <2> QED BY <1>2, <1>3, <2>1
<1>5. Size(n) \div d <= RealMax
  BY <1>1, <1>2, <1>4 DEF m, q
<1> QED BY <1>5 DEF RealOf

\* An integer multiplied with itself is an integer.
LEMMA PowerInt == ASSUME NEW x \in Int, NEW e \in Nat PROVE PowerOf(x, e) \in Int
<1>1. \A y \in Int : x * y \in Int
  OBVIOUS
<1> QED BY <1>1, PowerIn

LEMMA PowerNat == ASSUME NEW x \in Nat, NEW e \in Nat PROVE PowerOf(x, e) \in Nat
<1>1. \A y \in Nat : x * y \in Nat
  OBVIOUS
<1> QED BY <1>1, PowerIn

\* A number negated is one.
LEMMA NegateNum == ASSUME NEW a \in Num PROVE Negate(a) \in Num
<1>1. -a.n \in Int
  BY NumFields
<1> QED BY <1>1, NumFields, IntIsNum, RealIsNum DEF Negate

\* NaN is a number here.
LEMMA NaNIsNum == NaN \in Num
BY RealIsNum DEF NaN

\* A sum of numbers is a number.
LEMMA AddNum == ASSUME NEW a \in Num, NEW b \in Num PROVE Add(a, b) \in Num
<1>1. a.n \in Int /\ b.n \in Int /\ a.d \in Nat /\ b.d \in Nat
  BY NumFields
<1>2. a.n * b.d + b.n * a.d \in Int /\ a.n + b.n \in Int /\ a.d * b.d \in Nat
  BY <1>1
<1> QED BY <1>2, IntIsNum, RealIsNum, NaNIsNum DEF Add

\* A product of numbers is a number.
LEMMA TimesNum == ASSUME NEW a \in Num, NEW b \in Num PROVE Times(a, b) \in Num
<1>1. a.n \in Int /\ b.n \in Int /\ a.d \in Nat /\ b.d \in Nat
  BY NumFields
<1>2. a.n * b.n \in Int /\ a.d * b.d \in Nat
  BY <1>1
<1> QED BY <1>2, IntIsNum, RealIsNum DEF Times

\* The size of an integer that is not 0, and the sign of any.
LEMMA SizeSign ==
  ASSUME NEW v \in Int
  PROVE  Size(v) \in Nat /\ (v # 0 => Size(v) # 0) /\ Sign(v) \in Int
BY DEF Size, Sign

\* A quotient is a number, of an integer or a real.
LEMMA DivNum ==
  ASSUME NEW a \in Num, NEW b \in Num, Div(a, b).ok PROVE Div(a, b).v \in Num
<1> DEFINE q == Sign(b.n) * (a.n \div Size(b.n))
<1>1. /\ a.n \in Int /\ b.n \in Int /\ a.d \in Nat /\ b.d \in Nat
      /\ a.real \in BOOLEAN /\ b.real \in BOOLEAN /\ (~b.real => b.d = 1)
  BY NumFields
<1>2. ~IsZero(b)
  BY DEF Div, Fails
<1>3. Size(b.n) \in Nat /\ Sign(b.n) \in Int
  BY <1>1, SizeSign
<1>4. Sign(b.n) * a.n * b.d \in Int /\ a.d * Size(b.n) \in Nat
  BY <1>1, <1>3
<1>5. RealOf(Sign(b.n) * a.n * b.d, a.d * Size(b.n)) \in Num
  BY <1>4, RealIsNum
<1>6. ASSUME ~AnyReal(a, b) PROVE IntOf(q) \in Num
  <2>1. Size(b.n) \in Nat \ {0}
    BY <1>1, <1>2, <1>6, SizeSign DEF IsZero, AnyReal
  <2>2. a.n \div Size(b.n) \in Int
    BY <1>1, <2>1
  <2>3. q \in Int
    BY <1>3, <2>2
  <2> QED BY <2>3, IntIsNum
<1> HIDE DEF q
<1> QED BY <1>2, <1>5, <1>6 DEF Div, Gives, Fails, q

\* math::powf gives numbers.
LEMMA RealPowerNum ==
  ASSUME OperatorsGiveNumbers, NEW a \in Num, NEW b \in Num PROVE RealPower(a, b) \in Num
<1> DEFINE e == Size(b.n) \div b.d
<1>1. a.n \in Int /\ b.n \in Int /\ a.d \in Nat /\ b.d \in Nat
  BY NumFields
<1>2. RealOf(1, 1) \in Num /\ RealOf(0, 1) \in Num /\ NaN \in Num /\ PowF(a, b) \in Num
  BY RealIsNum, NaNIsNum DEF OperatorsGiveNumbers
<1>3. ASSUME b.d # 0
      PROVE  /\ RealOf(PowerOf(a.n, e), PowerOf(a.d, e)) \in Num
             /\ RealOf(PowerOf(Sign(a.n), e) * PowerOf(a.d, e), PowerOf(Size(a.n), e)) \in Num
  <2>1. e \in Nat
    BY <1>1, <1>3, SizeSign
  <2> HIDE DEF e
  <2>2. /\ PowerOf(a.n, e) \in Int /\ PowerOf(Sign(a.n), e) \in Int
        /\ PowerOf(a.d, e) \in Nat /\ PowerOf(Size(a.n), e) \in Nat
    BY <1>1, <2>1, SizeSign, PowerInt, PowerNat
  <2>3. PowerOf(Sign(a.n), e) * PowerOf(a.d, e) \in Int
    BY <2>2
  <2> QED BY <2>2, <2>3, RealIsNum
<1> HIDE DEF e
<1> QED BY <1>2, <1>3 DEF RealPower, e

\* A power is a number if it fits.
LEMMA PowNum ==
  ASSUME OperatorsGiveNumbers, NEW a \in Num, NEW b \in Num, Pow(a, b).ok
  PROVE  Pow(a, b).v \in Num
<1>1. RealPower(a, b) \in Num
  BY RealPowerNum
<1>2. ASSUME b.n \in 0 .. 63 PROVE IntOf(PowerOf(a.n, b.n)) \in Num
  <2>1. a.n \in Int /\ b.n \in Nat
    BY <1>2, NumFields
  <2> QED BY <2>1, PowerInt, IntIsNum
<1> QED BY <1>1, <1>2 DEF Pow, Gives, Fails

\* A shift is an integer.
LEMMA ShiftNum ==
  ASSUME NEW a \in Num, NEW b \in Num, NEW left, Shift(a, b, left).ok
  PROVE  Shift(a, b, left).v \in Num
<1>1. a.n \in Int /\ b.n \in 0 .. 63
  BY NumFields DEF Shift, Fails
<1> DEFINE p == PowerOf(2, b.n)
<1>2. p \in Nat \ {0}
  <2> DEFINE V == Nat \ {0}
  <2>1. b.n \in Nat /\ 1 \in V /\ \A y \in V : 2 * y \in V
    BY <1>1
  <2> HIDE DEF V
  <2>2. p \in V
    BY <2>1, PowerIn
  <2> QED BY <2>2 DEF V
<1> HIDE DEF p
<1>3. a.n * p \in Int /\ a.n \div p \in Int
  BY <1>1, <1>2
<1>4. IntOf(a.n * p) \in Num /\ IntOf(a.n \div p) \in Num
  BY <1>3, IntIsNum
<1> QED BY <1>1, <1>4 DEF Shift, Gives, Fails, p

\* So are the bitwise operators.
LEMMA BitwiseNum ==
  ASSUME NEW a, NEW b, NEW r \in Int, Bitwise(a, b, r).ok
  PROVE  Bitwise(a, b, r).v \in Num
BY IntIsNum DEF Bitwise, Gives, Fails

\* The operators that combine two numbers.
BinaryOps == {"+", "-", "*", "/", "<", ">", "**", "&", "|", "^"}

\* Two numbers combined, if they can be, give a number.
LEMMA ApplyNum ==
  ASSUME OperatorsGiveNumbers, NEW op \in BinaryOps, NEW a \in Num, NEW b \in Num,
         Apply(op, a, b).ok
  PROVE  Apply(op, a, b).v \in Num
<1>1. a.n \in Int /\ b.n \in Int
  BY NumFields
<1>2. CASE op = "+"
  <2>1. Apply(op, a, b) = Gives(Add(a, b))
    BY <1>2 DEF Apply
  <2> QED BY <2>1, AddNum DEF Gives
<1>3. CASE op = "-"
  <2>1. Apply(op, a, b) = Gives(Add(a, Negate(b)))
    BY <1>3 DEF Apply, Minus
  <2> QED BY <2>1, AddNum, NegateNum DEF Gives
<1>4. CASE op = "*"
  <2>1. Apply(op, a, b) = Gives(Times(a, b))
    BY <1>4 DEF Apply
  <2> QED BY <2>1, TimesNum DEF Gives
<1>5. CASE op = "/"
  <2>1. Apply(op, a, b) = Div(a, b)
    BY <1>5 DEF Apply
  <2> QED BY <2>1, DivNum
<1>6. CASE op = "<"
  <2>1. Apply(op, a, b) = Shift(a, b, TRUE)
    BY <1>6 DEF Apply
  <2> QED BY <2>1, ShiftNum
<1>7. CASE op = ">"
  <2>1. Apply(op, a, b) = Shift(a, b, FALSE)
    BY <1>7 DEF Apply
  <2> QED BY <2>1, ShiftNum
<1>8. CASE op = "**"
  <2>1. Apply(op, a, b) = Pow(a, b)
    BY <1>8 DEF Apply
  <2> QED BY <2>1, PowNum
<1>9. CASE op = "&"
  <2>1. Apply(op, a, b) = Bitwise(a, b, BitAnd(a.n, b.n)) /\ BitAnd(a.n, b.n) \in Int
    BY <1>1, <1>9 DEF Apply, OperatorsGiveNumbers
  <2> QED BY <2>1, BitwiseNum
<1>10. CASE op = "|"
  <2>1. Apply(op, a, b) = Bitwise(a, b, BitOr(a.n, b.n)) /\ BitOr(a.n, b.n) \in Int
    BY <1>1, <1>10 DEF Apply, OperatorsGiveNumbers
  <2> QED BY <2>1, BitwiseNum
<1>11. CASE op = "^"
  <2>1. Apply(op, a, b) = Bitwise(a, b, BitXor(a.n, b.n)) /\ BitXor(a.n, b.n) \in Int
    BY <1>1, <1>11 DEF Apply, OperatorsGiveNumbers
  <2> QED BY <2>1, BitwiseNum
<1> QED BY <1>2, <1>3, <1>4, <1>5, <1>6, <1>7, <1>8, <1>9, <1>10, <1>11 DEF BinaryOps

\* So does a sign or a complement.
LEMMA NegatedNum ==
  ASSUME NEW op, NEW a \in Num, Negated(op, a).ok PROVE Negated(op, a).v \in Num
<1>1. (-a.n - 1) % 16777216 \in Int
  BY NumFields
<1>2. Complement(a).ok => Complement(a).v \in Num
  BY <1>1, IntIsNum DEF Complement, Gives, Fails
<1> QED BY <1>2, NegateNum DEF Negated, Gives

-----------------------------------------------------------------------------
(* Expressions: Eval reads a table of what stands at each level, position  *)
(* and value gathered, which exists because a place is read from places of *)
(* lower rank.                                                             *)

\* What a place of an expression may give: nothing, or a number and where it
\* ends, past the place if it had nothing yet.
Good(ts, at, r) ==
  \/ r = Fails
  \/ \E v \in Num, q \in Nat : /\ r = Read(v, q) /\ at[2] <= q /\ q <= Len(ts) + 1
                               /\ at[3] = Start => at[2] < q

\* A place is read from places of lower rank: to the right of it, or of a
\* tighter level.
Rank(ts, at) == 8 * ((Len(ts) + 1) - at[2]) + (8 - at[1])
Below(ts, k) == {at \in Places(ts) : Rank(ts, at) < k}

\* L gives what it may on D, and M the same.
Agreed(ts, L, M, D) == \A at \in D : Good(ts, at, L[at]) /\ M[at] = L[at]

\* To the right of a place, or at a tighter level, its rank is lower.
LEMMA Lower ==
  ASSUME NEW S, NEW ts \in Seq(S), NEW at \in Places(ts),
         NEW m \in Nat, 1 <= m, m <= UnaryLevel, NEW q \in Nat, 1 <= q, q <= Len(ts) + 1,
         NEW acc \in Num \cup {Start},
         at[2] < q \/ (at[2] = q /\ at[1] < m)
  PROVE  <<m, q, acc>> \in Below(ts, Rank(ts, at))
<1>1. at[1] \in Nat /\ at[2] \in Nat /\ 1 <= at[1] /\ at[1] <= 8 /\ Len(ts) \in Nat
  BY DEF Places, UnaryLevel
<1>2. m \in 1 .. UnaryLevel /\ q \in 1 .. Len(ts) + 1
  BY <1>1 DEF UnaryLevel
<1>3. <<m, q, acc>> \in Places(ts)
  BY <1>2, Zenon DEF Places
<1>4. 8 * ((Len(ts) + 1) - q) + (8 - m) < 8 * ((Len(ts) + 1) - at[2]) + (8 - at[1])
  <2> DEFINE n == Len(ts) + 1
             a == at[1]
             b == at[2]
  <2>1. n \in Int /\ a \in Int /\ b \in Int /\ 1 <= a /\ a <= 8
    BY <1>1
  <2>2. m <= 8
    BY DEF UnaryLevel
  <2>3. b < q \/ (b = q /\ a < m)
    BY Zenon
  <2> HIDE DEF n, a, b
  <2>4. 8 * (n - q) + (8 - m) < 8 * (n - b) + (8 - a)
    BY <2>1, <2>2, <2>3
  <2> QED BY <2>4 DEF n, a, b
<1>5. Rank(ts, <<m, q, acc>>) < Rank(ts, at)
  BY <1>4 DEF Rank
<1> QED BY <1>3, <1>5 DEF Below

\* Start is no number.
LEMMA NotStart == ASSUME NEW v \in Num PROVE v # Start
<1>1. ~v.real => v.d = 1
  BY NumFields
<1> QED BY <1>1 DEF Start

\* A level that groups to the left reads only places of lower rank, and gives
\* what it may where they do.
LEMMA GatherGood ==
  ASSUME OperatorsGiveNumbers, NEW S, NEW ts \in Seq(S), NEW L, NEW M,
         NEW at \in Places(ts), at[1] < PowerLevel,
         Agreed(ts, L, M, Below(ts, Rank(ts, at)))
  PROVE  /\ Good(ts, at, Gather(ts, L, at[1], at[2], at[3]))
         /\ Gather(ts, M, at[1], at[2], at[3]) = Gather(ts, L, at[1], at[2], at[3])
<1> DEFINE l == at[1]
           p == at[2]
           acc == at[3]
           n == Len(ts)
<1>1. /\ l \in Nat /\ 1 <= l /\ l <= 6 /\ p \in Nat /\ 1 <= p /\ p <= n + 1 /\ n \in Nat
      /\ acc \in Num \cup {Start}
  BY DEF Places, PowerLevel
<1>2. Start \in Num \cup {Start}
  OBVIOUS
<1> DEFINE first == L[<<l + 1, p, Start>>]
           rhs   == L[<<l + 1, p + 1, Start>>]
           t     == TokenAt(ts, p)
           out   == Apply(t, acc, rhs.v)
<1>3. CASE acc = Start
  <2>1. <<l + 1, p, Start>> \in Below(ts, Rank(ts, at))
    <3>1. l + 1 \in Nat /\ 1 <= l + 1 /\ l + 1 <= UnaryLevel /\ at[2] = p /\ at[1] < l + 1
      BY <1>1 DEF UnaryLevel
    <3> HIDE DEF l, p
    <3> QED BY <1>1, <1>2, <3>1, Lower
  <2>2. Good(ts, <<l + 1, p, Start>>, first) /\ M[<<l + 1, p, Start>>] = first
    BY <2>1 DEF Agreed
  <2>3. CASE first = Fails
    <3>1. ~first.ok
      BY <2>3 DEF Fails
    <3>2. Gather(ts, L, l, p, acc) = Fails /\ Gather(ts, M, l, p, acc) = Fails
      BY <1>3, <2>2, <3>1 DEF Gather
    <3> QED BY <3>2 DEF Good
  <2>4. ASSUME NEW v \in Num, NEW q \in Nat, first = Read(v, q), p < q, q <= n + 1
        PROVE  /\ Good(ts, at, Gather(ts, L, l, p, acc))
               /\ Gather(ts, M, l, p, acc) = Gather(ts, L, l, p, acc)
    <3>1. first.ok /\ first.v = v /\ first.p = q
      BY <2>4 DEF Read
    <3>2. <<l, q, v>> \in Below(ts, Rank(ts, at))
      BY <1>1, <2>4, Lower DEF UnaryLevel
    <3>3. Good(ts, <<l, q, v>>, L[<<l, q, v>>]) /\ M[<<l, q, v>>] = L[<<l, q, v>>]
      BY <3>2 DEF Agreed
    <3>4. Gather(ts, L, l, p, acc) = L[<<l, q, v>>] /\ Gather(ts, M, l, p, acc) = L[<<l, q, v>>]
      BY <1>3, <2>2, <3>1, <3>3 DEF Gather
    <3>5. Good(ts, at, L[<<l, q, v>>])
      <4> DEFINE r == L[<<l, q, v>>]
      <4>1. v # Start
        BY NotStart
      <4> HIDE DEF r
      <4>2. r = Fails \/ \E w \in Num, k \in Nat : r = Read(w, k) /\ q <= k /\ k <= n + 1
        BY <3>3 DEF Good, r
      <4>3. Good(ts, at, r)
        BY <1>1, <2>4, <4>2 DEF Good
      <4> QED BY <4>3 DEF r
    <3> QED BY <3>4, <3>5
  <2> HIDE DEF first
  <2> QED BY <2>2, <2>3, <2>4 DEF Good
<1>4. CASE acc # Start /\ t \notin Levels[l]
  <2>1. Gather(ts, L, l, p, acc) = Read(acc, p) /\ Gather(ts, M, l, p, acc) = Read(acc, p)
    BY <1>4 DEF Gather
  <2> QED BY <1>1, <1>4, <2>1 DEF Good
<1>5. CASE acc # Start /\ t \in Levels[l]
  <2>1. t \in BinaryOps /\ t # "end"
    BY <1>1, <1>5 DEF Levels, BinaryOps
  <2>2. p <= n
    BY <1>1, <2>1 DEF TokenAt
  <2>3. <<l + 1, p + 1, Start>> \in Below(ts, Rank(ts, at))
    BY <1>1, <1>2, <2>2, Lower DEF UnaryLevel
  <2>4. Good(ts, <<l + 1, p + 1, Start>>, rhs) /\ M[<<l + 1, p + 1, Start>>] = rhs
    BY <2>3 DEF Agreed
  <2>5. CASE ~rhs.ok \/ ~out.ok
    <3>1. Gather(ts, L, l, p, acc) = Fails /\ Gather(ts, M, l, p, acc) = Fails
      BY <1>5, <2>4, <2>5 DEF Gather
    <3> QED BY <3>1 DEF Good
  <2>6. CASE rhs.ok /\ out.ok
    <3>1. PICK v \in Num, q \in Nat : rhs = Read(v, q) /\ p + 1 < q /\ q <= n + 1
      BY <2>4, <2>6 DEF Good, Fails
    <3>2. rhs.v = v /\ rhs.p = q
      BY <3>1 DEF Read
    <3>3. acc \in Num
      BY <1>1, <1>5
    <3>4. out.v \in Num
      BY <2>1, <2>6, <3>2, <3>3, ApplyNum
    <3>5. <<l, q, out.v>> \in Below(ts, Rank(ts, at))
      <4> HIDE DEF out
      <4> QED BY <1>1, <3>1, <3>4, Lower DEF UnaryLevel
    <3> DEFINE next == L[<<l, q, out.v>>]
    <3>6. Good(ts, <<l, q, out.v>>, next) /\ M[<<l, q, out.v>>] = next
      BY <3>5 DEF Agreed
    <3>7. Gather(ts, L, l, p, acc) = next /\ Gather(ts, M, l, p, acc) = next
      BY <1>5, <2>4, <2>6, <3>2, <3>6 DEF Gather
    <3> HIDE DEF next, out
    <3>8. Good(ts, at, next)
      BY <1>1, <3>1, <3>6 DEF Good
    <3> QED BY <3>7, <3>8
  <2> QED BY <2>5, <2>6
<1> QED BY <1>3, <1>4, <1>5

\* So does the level of **.
LEMMA PowerGood ==
  ASSUME OperatorsGiveNumbers, NEW S, NEW ts \in Seq(S), NEW L, NEW M,
         NEW at \in Places(ts), at[1] = PowerLevel,
         Agreed(ts, L, M, Below(ts, Rank(ts, at)))
  PROVE  /\ Good(ts, at, Power(ts, L, at[2]))
         /\ Power(ts, M, at[2]) = Power(ts, L, at[2])
<1> DEFINE p == at[2]
           n == Len(ts)
           here == <<UnaryLevel, p, Start>>
           base == L[here]
           after == <<PowerLevel, base.p + 1, Start>>
           exp  == L[after]
           out  == Apply("**", base.v, exp.v)
<1>1. p \in Nat /\ 1 <= p /\ p <= n + 1 /\ n \in Nat /\ Start \in Num \cup {Start}
  BY DEF Places
<1>2. here \in Below(ts, Rank(ts, at))
  <2>1. UnaryLevel \in Nat /\ 1 <= UnaryLevel /\ UnaryLevel <= UnaryLevel
        /\ at[2] = p /\ at[1] < UnaryLevel
    BY DEF UnaryLevel, PowerLevel
  <2> HIDE DEF p
  <2> QED BY <1>1, <2>1, Lower
<1>3. Good(ts, here, base) /\ M[here] = base
  BY <1>2 DEF Agreed
<1>4. CASE ~base.ok \/ TokenAt(ts, base.p) # "**"
  <2>1. Power(ts, L, p) = base /\ Power(ts, M, p) = base
    BY <1>3, <1>4 DEF Power
  <2>2. Good(ts, at, base)
    <3> HIDE DEF base
    <3> QED BY <1>3 DEF Good
  <2> QED BY <2>1, <2>2
<1>5. CASE base.ok /\ TokenAt(ts, base.p) = "**"
  <2>1. PICK v \in Num, q \in Nat : base = Read(v, q) /\ p < q /\ q <= n + 1
    BY <1>3, <1>5 DEF Good, Fails
  <2>2. base.v = v /\ base.p = q
    BY <2>1 DEF Read
  <2>3. q <= n
    BY <1>1, <1>5, <2>1, <2>2 DEF TokenAt
  <2>4. after \in Below(ts, Rank(ts, at))
    <3>1. /\ PowerLevel \in Nat /\ 1 <= PowerLevel /\ PowerLevel <= UnaryLevel
          /\ q + 1 \in Nat /\ 1 <= q + 1 /\ q + 1 <= n + 1 /\ at[2] < q + 1
      BY <1>1, <2>1, <2>3 DEF UnaryLevel, PowerLevel
    <3>2. <<PowerLevel, q + 1, Start>> \in Below(ts, Rank(ts, at))
      BY <1>1, <3>1, Lower
    <3> QED BY <2>2, <3>2
  <2> HIDE DEF base
  <2>5. Good(ts, after, exp) /\ M[after] = exp
    BY <2>4 DEF Agreed
  <2>6. CASE ~exp.ok
    <3>1. Power(ts, L, p) = Fails /\ Power(ts, M, p) = Fails
      BY <1>3, <1>5, <2>5, <2>6 DEF Power, base
    <3> QED BY <3>1 DEF Good
  <2>7. CASE exp.ok
    <3>1. Power(ts, L, p) = Then(out, exp.p) /\ Power(ts, M, p) = Then(out, exp.p)
      BY <1>3, <1>5, <2>5, <2>7 DEF Power, base
    <3>2. PICK w \in Num, k \in Nat : exp = Read(w, k) /\ q + 1 < k /\ k <= n + 1
      <4>1. after[2] = q + 1 /\ after[3] = Start
        BY <2>2
      <4> HIDE DEF after, exp
      <4> QED BY <2>5, <2>7, <4>1 DEF Good, Fails
    <3>3. exp.v = w /\ exp.p = k
      BY <3>2 DEF Read
    <3>4. out.ok => out.v \in Num
      <4>1. "**" \in BinaryOps
        BY DEF BinaryOps
      <4> QED BY <2>2, <3>3, <4>1, ApplyNum
    <3> HIDE DEF out
    <3>5. Good(ts, at, Then(out, k))
      BY <1>1, <2>1, <3>2, <3>4 DEF Good, Then
    <3> QED BY <3>1, <3>3, <3>5
  <2> QED BY <2>6, <2>7
<1> QED BY <1>4, <1>5

\* The literals of the tokens ts and the symbols of the table are numbers.
Literals(ts)   == \A k \in 1 .. Len(ts) : ts[k].t \in {"num", "raw"} => ts[k].v \in Num
Numbers(table) == \A x \in DOMAIN table : table[x] \in Num

\* So does the level of the signs, brackets and operands.
LEMMA UnaryGood ==
  ASSUME NEW S, NEW ts \in Seq(S), NEW table, Literals(ts), Numbers(table), NEW L, NEW M,
         NEW at \in Places(ts), at[1] = UnaryLevel,
         Agreed(ts, L, M, Below(ts, Rank(ts, at)))
  PROVE  /\ Good(ts, at, Unary(ts, table, L, at[2]))
         /\ Unary(ts, table, M, at[2]) = Unary(ts, table, L, at[2])
<1> DEFINE p == at[2]
           n == Len(ts)
           t == TokenAt(ts, p)
           more == <<UnaryLevel, p + 1, Start>>
           open == <<1, p + 1, Start>>
           arg   == L[more]
           inner == L[open]
<1>1. p \in Nat /\ 1 <= p /\ p <= n + 1 /\ n \in Nat /\ Start \in Num \cup {Start}
  BY DEF Places
<1>2. t # "end" => p <= n
  BY <1>1 DEF TokenAt
<1>3. ASSUME p <= n
      PROVE  /\ Good(ts, more, arg) /\ M[more] = arg
             /\ Good(ts, open, inner) /\ M[open] = inner
  <2>1. /\ UnaryLevel \in Nat /\ 1 <= UnaryLevel /\ UnaryLevel <= UnaryLevel
        /\ 1 \in Nat /\ 1 <= 1 /\ 1 <= UnaryLevel
        /\ p + 1 \in Nat /\ 1 <= p + 1 /\ p + 1 <= n + 1 /\ at[2] < p + 1
    BY <1>1, <1>3 DEF UnaryLevel
  <2>2. more \in Below(ts, Rank(ts, at)) /\ open \in Below(ts, Rank(ts, at))
    BY <1>1, <2>1, Lower
  <2> QED BY <2>2 DEF Agreed
<1>4. ASSUME NEW v \in Num, NEW q \in Nat, p < q, q <= n + 1 PROVE Good(ts, at, Read(v, q))
  BY <1>1, <1>4 DEF Good
<1>5. Good(ts, at, Fails)
  BY DEF Good
<1>6. CASE t \in {"-", "~"}
  <2>1. p <= n
    BY <1>2, <1>6
  <2>2. Good(ts, more, arg) /\ M[more] = arg
    BY <1>3, <2>1
  <2>3. CASE ~arg.ok
    <3>1. Unary(ts, table, L, p) = Fails /\ Unary(ts, table, M, p) = Fails
      BY <1>6, <2>2, <2>3 DEF Unary
    <3> QED BY <1>5, <3>1
  <2>4. CASE arg.ok
    <3> DEFINE out == Negated(t, arg.v)
    <3>1. Unary(ts, table, L, p) = Then(out, arg.p) /\ Unary(ts, table, M, p) = Then(out, arg.p)
      BY <1>6, <2>2, <2>4 DEF Unary
    <3>2. PICK v \in Num, q \in Nat : arg = Read(v, q) /\ p + 1 < q /\ q <= n + 1
      BY <2>2, <2>4 DEF Good, Fails
    <3>3. arg.v = v /\ arg.p = q
      BY <3>2 DEF Read
    <3>4. out.ok => out.v \in Num
      BY <3>3, NegatedNum
    <3>5. out.ok => Good(ts, at, Read(out.v, q))
      <4> HIDE DEF out
      <4> QED BY <1>1, <1>4, <3>2, <3>4
    <3> HIDE DEF out
    <3>6. Good(ts, at, Then(out, q))
      BY <1>5, <3>5 DEF Then
    <3> QED BY <3>1, <3>3, <3>6
  <2> QED BY <2>3, <2>4
<1>7. CASE t = "("
  <2>1. p <= n
    BY <1>2, <1>7
  <2>2. Good(ts, open, inner) /\ M[open] = inner
    BY <1>3, <2>1
  <2>3. CASE ~(inner.ok /\ TokenAt(ts, inner.p) = ")")
    <3>1. Unary(ts, table, L, p) = Fails /\ Unary(ts, table, M, p) = Fails
      BY <1>7, <2>2, <2>3 DEF Unary
    <3> QED BY <1>5, <3>1
  <2>4. CASE inner.ok /\ TokenAt(ts, inner.p) = ")"
    <3>1. /\ Unary(ts, table, L, p) = Read(inner.v, inner.p + 1)
          /\ Unary(ts, table, M, p) = Read(inner.v, inner.p + 1)
      BY <1>7, <2>2, <2>4 DEF Unary
    <3>2. PICK v \in Num, q \in Nat : inner = Read(v, q) /\ p + 1 < q /\ q <= n + 1
      BY <2>2, <2>4 DEF Good, Fails
    <3>3. inner.v = v /\ inner.p = q
      BY <3>2 DEF Read
    <3>4. q <= n
      BY <1>1, <2>4, <3>2, <3>3 DEF TokenAt
    <3>5. Good(ts, at, Read(v, q + 1))
      BY <1>1, <1>4, <3>2, <3>4
    <3> QED BY <3>1, <3>3, <3>5
  <2> QED BY <2>3, <2>4
<1>8. CASE t \in {"num", "raw"}
  <2>1. p <= n /\ ts[p].t \in {"num", "raw"}
    BY <1>1, <1>2, <1>8 DEF TokenAt
  <2>2. ts[p].v \in Num
    BY <1>1, <2>1 DEF Literals
  <2>3. Unary(ts, table, L, p) = Read(ts[p].v, p + 1) /\ Unary(ts, table, M, p) = Read(ts[p].v, p + 1)
    BY <1>8 DEF Unary
  <2> QED BY <1>1, <1>4, <2>1, <2>2, <2>3
<1>9. CASE t = "id" /\ ts[p].s \in DOMAIN table
  <2>1. p <= n /\ table[ts[p].s] \in Num
    BY <1>2, <1>9 DEF Numbers
  <2>2. /\ Unary(ts, table, L, p) = Read(table[ts[p].s], p + 1)
        /\ Unary(ts, table, M, p) = Read(table[ts[p].s], p + 1)
    BY <1>9 DEF Unary
  <2> QED BY <1>1, <1>4, <2>1, <2>2
<1>10. CASE ~(\/ t \in {"-", "~"} \/ t = "(" \/ t \in {"num", "raw"}
              \/ (t = "id" /\ ts[p].s \in DOMAIN table))
  <2>1. Unary(ts, table, L, p) = Fails /\ Unary(ts, table, M, p) = Fails
    BY <1>10 DEF Unary
  <2> QED BY <1>5, <2>1
<1> QED BY <1>6, <1>7, <1>8, <1>9, <1>10

\* What is read at a place.
ReadAt(ts, table, L, at) == Reading(ts, table, L, at[1], at[2], at[3])

\* So does a place of any level.
LEMMA ReadingGood ==
  ASSUME OperatorsGiveNumbers, NEW S, NEW ts \in Seq(S), NEW table, Literals(ts), Numbers(table),
         NEW L, NEW M, NEW at \in Places(ts), Agreed(ts, L, M, Below(ts, Rank(ts, at)))
  PROVE  /\ Good(ts, at, ReadAt(ts, table, L, at))
         /\ ReadAt(ts, table, M, at) = ReadAt(ts, table, L, at)
<1>1. at[1] \in Nat /\ (at[1] < PowerLevel \/ at[1] = PowerLevel \/ at[1] = UnaryLevel)
  BY DEF Places, PowerLevel, UnaryLevel
<1>2. PowerLevel # UnaryLevel /\ ~(PowerLevel < PowerLevel) /\ ~(UnaryLevel < PowerLevel)
  BY DEF PowerLevel, UnaryLevel
<1>3. CASE at[1] < PowerLevel
  <2>1. /\ ReadAt(ts, table, L, at) = Gather(ts, L, at[1], at[2], at[3])
        /\ ReadAt(ts, table, M, at) = Gather(ts, M, at[1], at[2], at[3])
    BY <1>1, <1>2, <1>3 DEF ReadAt, Reading
  <2> QED BY <1>3, <2>1, GatherGood
<1>4. CASE at[1] = PowerLevel
  <2>1. /\ ReadAt(ts, table, L, at) = Power(ts, L, at[2])
        /\ ReadAt(ts, table, M, at) = Power(ts, M, at[2])
    BY <1>1, <1>2, <1>4 DEF ReadAt, Reading
  <2> QED BY <1>4, <2>1, PowerGood
<1>5. CASE at[1] = UnaryLevel
  <2>1. /\ ReadAt(ts, table, L, at) = Unary(ts, table, L, at[2])
        /\ ReadAt(ts, table, M, at) = Unary(ts, table, M, at[2])
    BY <1>1, <1>2, <1>5 DEF ReadAt, Reading
  <2> QED BY <1>5, <2>1, UnaryGood
<1> QED BY <1>1, <1>3, <1>4, <1>5

\* L is what is read at each place.
IsTable(ts, table, L) == L = [at \in Places(ts) |-> ReadAt(ts, table, L, at)]

\* Ranks are naturals below a bound.
LEMMA RankNat ==
  ASSUME NEW S, NEW ts \in Seq(S), NEW at \in Places(ts)
  PROVE  Rank(ts, at) \in Nat /\ Rank(ts, at) < 8 * (Len(ts) + 1) + 8
<1> DEFINE l == at[1]
           p == at[2]
           n == Len(ts)
<1>1. /\ l \in Nat /\ 1 <= l /\ l <= 8 /\ p \in Nat /\ 1 <= p /\ p <= n + 1 /\ n \in Nat
  BY DEF Places, UnaryLevel
<1> HIDE DEF l, p, n
<1>2. (8 * ((n + 1) - p) + (8 - l)) \in Nat /\ (8 * ((n + 1) - p) + (8 - l)) < 8 * (n + 1) + 8
  BY <1>1
<1> QED BY <1>2 DEF Rank, l, p, n

\* A higher rank has more places below it.
LEMMA BelowMono ==
  ASSUME NEW S, NEW ts \in Seq(S), NEW j \in Nat, NEW k \in Nat, j <= k
  PROVE  Below(ts, j) \subseteq Below(ts, k)
BY RankNat DEF Below

\* Such a table exists: one that is right below a rank gives one that is right
\* below the next.
LEMMA TableExists ==
  ASSUME OperatorsGiveNumbers, NEW S, NEW ts \in Seq(S), NEW table, Literals(ts), Numbers(table)
  PROVE  \E L : IsTable(ts, table, L)
<1> DEFINE Upto(L, k) ==
             /\ L = [at \in Places(ts) |-> L[at]]
             /\ \A at \in Below(ts, k) : L[at] = ReadAt(ts, table, L, at) /\ Good(ts, at, L[at])
           A == {k \in Nat : \E L : Upto(L, k)}
<1>1. 0 \in A
  <2> DEFINE L == [at \in Places(ts) |-> Fails]
  <2>1. Below(ts, 0) = {}
    BY RankNat DEF Below
  <2>2. L = [at \in Places(ts) |-> L[at]]
    OBVIOUS
  <2> HIDE DEF L
  <2>3. Upto(L, 0)
    BY <2>1, <2>2
  <2> HIDE DEF Upto
  <2> QED BY <2>3
<1>2. ASSUME NEW k \in Nat, k \in A PROVE k + 1 \in A
  <2>1. PICK L : Upto(L, k)
    BY <1>2
  <2> DEFINE Entry(at) == IF Rank(ts, at) < k THEN L[at] ELSE ReadAt(ts, table, L, at)
             M == [at \in Places(ts) |-> Entry(at)]
  <2>2. \A at \in Places(ts) : M[at] = Entry(at)
    BY Zenon
  <2>3. M = [at \in Places(ts) |-> M[at]]
    <3> HIDE DEF Entry
    <3> QED OBVIOUS
  <2>4. \A at \in Below(ts, k) : at \in Places(ts) /\ M[at] = L[at]
    BY <2>2 DEF Below
  <2> HIDE DEF M
  <2>5. ASSUME NEW at \in Below(ts, k + 1)
        PROVE  M[at] = ReadAt(ts, table, M, at) /\ Good(ts, at, M[at])
    <3>1. at \in Places(ts) /\ Rank(ts, at) \in Nat /\ Rank(ts, at) <= k
      BY <2>5, RankNat DEF Below
    <3>2. Agreed(ts, L, M, Below(ts, Rank(ts, at)))
      <4>1. Below(ts, Rank(ts, at)) \subseteq Below(ts, k)
        BY <3>1, BelowMono
      <4> QED BY <2>1, <2>4, <4>1 DEF Agreed
    <3>3. /\ Good(ts, at, ReadAt(ts, table, L, at))
          /\ ReadAt(ts, table, M, at) = ReadAt(ts, table, L, at)
      BY <3>1, <3>2, ReadingGood
    <3>4. M[at] = ReadAt(ts, table, L, at)
      <4>1. CASE Rank(ts, at) < k
        <5>1. at \in Below(ts, k)
          BY <3>1, <4>1 DEF Below
        <5> QED BY <2>1, <2>4, <5>1
      <4>2. CASE ~(Rank(ts, at) < k)
        BY <2>2, <3>1, <4>2
      <4> QED BY <4>1, <4>2
    <3> QED BY <3>3, <3>4
  <2>6. Upto(M, k + 1)
    BY <2>3, <2>5
  <2> HIDE DEF Upto
  <2> QED BY <2>6
<1>3. Nat \subseteq A
  <2> HIDE DEF A
  <2> QED BY <1>1, <1>2, Induct
<1> DEFINE top == 8 * (Len(ts) + 1) + 8
<1>4. top \in Nat
  OBVIOUS
<1> HIDE DEF top
<1>5. PICK L : Upto(L, top)
  BY <1>3, <1>4
<1>6. \A at \in Places(ts) : at \in Below(ts, top)
  BY RankNat DEF Below, top
<1>7. \A at \in Places(ts) : L[at] = ReadAt(ts, table, L, at)
  BY <1>5, <1>6
<1>8. L = [at \in Places(ts) |-> L[at]]
  BY <1>5
<1>9. IsTable(ts, table, L)
  BY <1>7, <1>8, Zenon DEF IsTable
<1> QED BY <1>9

\* And it holds numbers.
LEMMA TableGood ==
  ASSUME OperatorsGiveNumbers, NEW S, NEW ts \in Seq(S), NEW table, Literals(ts), Numbers(table),
         NEW L, IsTable(ts, table, L)
  PROVE  \A at \in Places(ts) : Good(ts, at, L[at])
<1> DEFINE A == {k \in Nat : \A at \in Below(ts, k) : Good(ts, at, L[at])}
<1>1. 0 \in A
  <2>1. Below(ts, 0) = {}
    BY RankNat DEF Below
  <2> QED BY <2>1
<1>2. ASSUME NEW k \in Nat, k \in A PROVE k + 1 \in A
  <2>1. ASSUME NEW at \in Below(ts, k + 1) PROVE Good(ts, at, L[at])
    <3>1. at \in Places(ts) /\ Rank(ts, at) \in Nat /\ Rank(ts, at) <= k
      BY <2>1, RankNat DEF Below
    <3>2. Agreed(ts, L, L, Below(ts, Rank(ts, at)))
      <4>1. Below(ts, Rank(ts, at)) \subseteq Below(ts, k)
        BY <3>1, BelowMono
      <4> QED BY <1>2, <4>1 DEF Agreed
    <3>3. Good(ts, at, ReadAt(ts, table, L, at))
      BY <3>1, <3>2, ReadingGood
    <3>4. L[at] = ReadAt(ts, table, L, at)
      BY <3>1, Zenon DEF IsTable
    <3> QED BY <3>3, <3>4
  <2> QED BY <2>1
<1>3. Nat \subseteq A
  <2> HIDE DEF A
  <2> QED BY <1>1, <1>2, Induct
<1> DEFINE top == 8 * (Len(ts) + 1) + 8
<1>4. top \in Nat
  OBVIOUS
<1>5. \A at \in Places(ts) : at \in Below(ts, top)
  BY RankNat DEF Below
<1> HIDE DEF top
<1> QED BY <1>3, <1>4, <1>5

\* Eval reads its table.
LEMMA EvalReads ==
  ASSUME OperatorsGiveNumbers, NEW S, NEW ts \in Seq(S), NEW table, Literals(ts), Numbers(table)
  PROVE  \E L : /\ IsTable(ts, table, L)
                /\ Eval(ts, table) =
                     IF L[<<1, 1, Start>>].ok /\ L[<<1, 1, Start>>].p = Len(ts) + 1
                     THEN Gives(L[<<1, 1, Start>>].v) ELSE Fails
<1> DEFINE By(L) == L = [at \in Places(ts) |-> Reading(ts, table, L, at[1], at[2], at[3])]
           Level == CHOOSE L : By(L)
<1>1. \A L : By(L) <=> IsTable(ts, table, L)
  BY Zenon DEF IsTable, ReadAt
<1>2. Eval(ts, table) = IF Level[<<1, 1, Start>>].ok /\ Level[<<1, 1, Start>>].p = Len(ts) + 1
                        THEN Gives(Level[<<1, 1, Start>>].v) ELSE Fails
  BY DEF Eval
<1>3. \E L : By(L)
  <2> HIDE DEF By
  <2> QED BY <1>1, TableExists
<1>4. By(Level)
  <2> HIDE DEF By
  <2> QED BY <1>3
<1> HIDE DEF By, Level
<1> QED BY <1>1, <1>2, <1>4

\* An expression that evaluates is an i64, a fraction, an infinity or NaN.
THEOREM EvalGivesNumbers ==
  ASSUME OperatorsGiveNumbers, NEW S, NEW ts \in Seq(S), NEW table, Literals(ts), Numbers(table),
         Eval(ts, table).ok
  PROVE  Eval(ts, table).v \in Num
<1>1. PICK L : /\ IsTable(ts, table, L)
               /\ Eval(ts, table) =
                    IF L[<<1, 1, Start>>].ok /\ L[<<1, 1, Start>>].p = Len(ts) + 1
                    THEN Gives(L[<<1, 1, Start>>].v) ELSE Fails
  BY EvalReads
<1>2. <<1, 1, Start>> \in Places(ts)
  BY DEF Places, UnaryLevel
<1> DEFINE r == L[<<1, 1, Start>>]
<1>3. Good(ts, <<1, 1, Start>>, r)
  BY <1>1, <1>2, TableGood
<1> HIDE DEF r
<1>4. r.ok /\ Eval(ts, table).v = r.v
  BY <1>1 DEF Gives, Fails, r
<1>5. r.v \in Num
  BY <1>3, <1>4 DEF Good, Fails, Read
<1> QED BY <1>4, <1>5

\* The tokens of a kind in a stretch.
Marked(ts, t, lo, k) == {j \in lo .. k : ts[j].t = t}

\* The depth of a stretch in two parts is the sum of theirs.
LEMMA DepthParts ==
  ASSUME NEW ts, NEW lo \in Int, NEW m \in Int, NEW k \in Int, lo <= m + 1, m <= k
  PROVE  /\ Depth(ts, lo, m) \in Int /\ Depth(ts, m + 1, k) \in Int
         /\ Depth(ts, lo, k) = Depth(ts, lo, m) + Depth(ts, m + 1, k)
<1>2. \A i, j : Depth(ts, i, j) = Cardinality(Marked(ts, "(", i, j)) - Cardinality(Marked(ts, ")", i, j))
  BY DEF Depth, Marked
<1> DEFINE C(t, i, j) == Cardinality(Marked(ts, t, i, j))
<1>3. ASSUME NEW t
      PROVE  /\ C(t, lo, m) \in Nat /\ C(t, m + 1, k) \in Nat
             /\ C(t, lo, k) = C(t, lo, m) + C(t, m + 1, k)
  <2> DEFINE A == Marked(ts, t, lo, m)
             B == Marked(ts, t, m + 1, k)
  <2>1. IsFiniteSet(lo .. m) /\ IsFiniteSet(m + 1 .. k)
    BY FS_Interval
  <2>2. A \subseteq lo .. m /\ B \subseteq m + 1 .. k
    BY DEF Marked
  <2>3. IsFiniteSet(A) /\ IsFiniteSet(B)
    <3> HIDE DEF A, B
    <3> QED BY <2>1, <2>2, FS_Subset
  <2>4. A \cap B = {}
    BY DEF Marked
  <2>5. Marked(ts, t, lo, k) = A \cup B
    <3>1. \A j : j \in lo .. k <=> j \in lo .. m \/ j \in m + 1 .. k
      OBVIOUS
    <3> QED BY <3>1, Zenon DEF Marked
  <2> HIDE DEF A, B
  <2>6. /\ Cardinality(A) \in Nat /\ Cardinality(B) \in Nat
        /\ Cardinality(A \cup B) = Cardinality(A) + Cardinality(B) - Cardinality(A \cap B)
    BY <2>3, FS_Union, FS_CardinalityType
  <2>7. Cardinality(A \cap B) = 0
    BY <2>4, FS_EmptySet
  <2>8. /\ Cardinality(A) \in Nat /\ Cardinality(B) \in Nat
        /\ Cardinality(A \cup B) = Cardinality(A) + Cardinality(B)
    BY <2>6, <2>7
  <2> QED BY <2>5, <2>8 DEF A, B
<1>4. \A i, j : Depth(ts, i, j) = C("(", i, j) - C(")", i, j)
  BY <1>2
<1> HIDE DEF C
<1> QED BY <1>3, <1>4

\* The depth of one token, and of none.
LEMMA DepthOne ==
  ASSUME NEW ts, NEW k \in Int
  PROVE  /\ Depth(ts, k, k) = IF ts[k].t = "(" THEN 1 ELSE IF ts[k].t = ")" THEN -1 ELSE 0
         /\ \A m \in Int : m < k => Depth(ts, k, m) = 0
<1>1. \A t, i, j : Marked(ts, t, i, j) = {q \in i .. j : ts[q].t = t}
  BY DEF Marked
<1>2. \A i, j : Depth(ts, i, j) = Cardinality(Marked(ts, "(", i, j)) - Cardinality(Marked(ts, ")", i, j))
  BY <1>1, Zenon DEF Depth
<1>3. \A t : Cardinality(Marked(ts, t, k, k)) = IF ts[k].t = t THEN 1 ELSE 0
  <2> SUFFICES ASSUME NEW t
               PROVE  Cardinality(Marked(ts, t, k, k)) = IF ts[k].t = t THEN 1 ELSE 0
    OBVIOUS
  <2>1. \A q : q \in k .. k <=> q = k
    OBVIOUS
  <2>2. CASE ts[k].t = t
    <3>1. Marked(ts, t, k, k) = {k}
      BY <2>1, <2>2, Zenon DEF Marked
    <3> QED BY <2>2, <3>1, FS_Singleton, Zenon
  <2>3. CASE ts[k].t # t
    <3>1. Marked(ts, t, k, k) = {}
      BY <2>1, <2>3, Zenon DEF Marked
    <3> QED BY <2>3, <3>1, FS_EmptySet, Zenon
  <2> QED BY <2>2, <2>3
<1>4. Depth(ts, k, k) = IF ts[k].t = "(" THEN 1 ELSE IF ts[k].t = ")" THEN -1 ELSE 0
  BY <1>2, <1>3
<1>5. ASSUME NEW m \in Int, m < k PROVE Depth(ts, k, m) = 0
  <2>1. k .. m = {}
    BY <1>5
  <2>2. \A t : Marked(ts, t, k, m) = {}
    BY <2>1, Zenon DEF Marked
  <2>3. \A t : Cardinality(Marked(ts, t, k, m)) = 0
    BY <2>2, FS_EmptySet, Zenon
  <2>4. Depth(ts, k, m) = 0 - 0
    BY <1>2, <2>3, Zenon
  <2> QED BY <2>4
<1> QED BY <1>4, <1>5

-----------------------------------------------------------------------------
(* Infix operators: what stands between two operands of a stretch, at its  *)
(* own depth.                                                              *)

\* The tokens an operand may end with.
Ends == {"num", "raw", "id", ")"}

\* A token that binds is a binary operator; no operand ends with one.
LEMMA BindsBinary ==
  ASSUME NEW t
  PROVE  /\ Binding(t) \in 1 .. 8
         /\ Binding(t) < 8 <=> t \in BinaryOps
         /\ t \in BinaryOps => t \notin Ends /\ t # "("
BY DEF Binding, BinaryOps, Ends

\* What Infix is.
LEMMA InfixIs ==
  ASSUME NEW ts, NEW lo, NEW hi, NEW k
  PROVE  k \in Infix(ts, lo, hi)
           <=> /\ k \in lo + 1 .. hi /\ Depth(ts, lo, k) = 0
               /\ ts[k].t \in BinaryOps /\ ts[k - 1].t \in Ends
BY BindsBinary, Zenon DEF Infix, Ends

\* An operator between two operands parts the operators of a stretch.
LEMMA InfixJoined ==
  ASSUME NEW ts, NEW lo \in Int, NEW k \in Int, NEW hi \in Int, lo < k, k <= hi,
         Depth(ts, lo, k - 1) = 0, ts[k].t \in BinaryOps, ts[k - 1].t \in Ends
  PROVE  /\ Infix(ts, lo, hi) = Infix(ts, lo, k - 1) \cup {k} \cup Infix(ts, k + 1, hi)
         /\ \A j \in k .. hi : Depth(ts, lo, j) = Depth(ts, k + 1, j)
         /\ k \in Infix(ts, lo, hi)
<1>1. ts[k].t \notin Ends /\ ts[k].t # "(" /\ ts[k].t # ")"
  BY BindsBinary DEF Ends
<1>2. Depth(ts, k, k) = 0
  BY <1>1, DepthOne
<1>3. Depth(ts, lo, k) = 0
  <2>1. k - 1 \in Int /\ lo <= (k - 1) + 1 /\ k - 1 <= k /\ (k - 1) + 1 = k
    OBVIOUS
  <2>2. Depth(ts, lo, k) = Depth(ts, lo, k - 1) + Depth(ts, k, k)
    BY <2>1, DepthParts
  <2> QED BY <1>2, <2>2
<1>4. ASSUME NEW j \in k .. hi PROVE Depth(ts, lo, j) = Depth(ts, k + 1, j)
  <2>1. Depth(ts, k + 1, j) \in Int /\ Depth(ts, lo, j) = Depth(ts, lo, k) + Depth(ts, k + 1, j)
    BY DepthParts
  <2> QED BY <1>3, <2>1
<1>5. ASSUME NEW j
      PROVE  j \in Infix(ts, lo, hi) <=> j \in Infix(ts, lo, k - 1) \cup {k} \cup Infix(ts, k + 1, hi)
  <2>1. CASE j \in lo + 1 .. k - 1
    <3>1. j # k /\ j \in lo + 1 .. hi /\ j \notin (k + 1) + 1 .. hi
      BY <2>1
    <3> QED BY <2>1, <3>1, InfixIs, Zenon
  <2>2. CASE j = k
    <3>1. k \in lo + 1 .. hi
      OBVIOUS
    <3>2. k \in Infix(ts, lo, hi)
      BY <1>3, <3>1, InfixIs, Zenon
    <3> QED BY <2>2, <3>2
  <2>3. CASE j = k + 1
    <3>1. j # k /\ j - 1 = k /\ j \notin lo + 1 .. k - 1 /\ j \notin (k + 1) + 1 .. hi
      BY <2>3
    <3>2. ts[j - 1].t \notin Ends
      BY <1>1, <3>1
    <3> QED BY <3>1, <3>2, InfixIs, Zenon
  <2>4. CASE j \in k + 2 .. hi
    <3>1. j # k /\ j \notin lo + 1 .. k - 1 /\ j \in (k + 1) + 1 .. hi /\ j \in lo + 1 .. hi /\ j \in k .. hi
      BY <2>4
    <3>2. Depth(ts, lo, j) = Depth(ts, k + 1, j)
      BY <1>4, <3>1
    <3> QED BY <3>1, <3>2, InfixIs, Zenon
  <2>5. CASE j \notin lo + 1 .. hi
    <3>1. j \notin lo + 1 .. k - 1 /\ j # k /\ j \notin (k + 1) + 1 .. hi
      BY <2>5
    <3> QED BY <2>5, <3>1, InfixIs, Zenon
  <2> QED BY <2>1, <2>2, <2>3, <2>4, <2>5
<1>6. k \in Infix(ts, lo, hi)
  BY <1>5, Zenon
<1> QED BY <1>4, <1>5, <1>6, Zenon

\* At an operator between two operands as many brackets are closed as opened.
LEMMA InfixParts ==
  ASSUME NEW ts, NEW lo \in Int, NEW hi \in Int, NEW k \in Infix(ts, lo, hi)
  PROVE  /\ k \in Int /\ lo < k /\ k <= hi /\ Depth(ts, lo, k - 1) = 0
         /\ ts[k].t \in BinaryOps /\ ts[k - 1].t \in Ends
<1>1. /\ k \in lo + 1 .. hi /\ Depth(ts, lo, k) = 0 /\ ts[k].t \in BinaryOps
      /\ ts[k - 1].t \in Ends
  BY InfixIs, Zenon
<1>2. k \in Int /\ lo < k /\ k <= hi /\ k - 1 \in Int /\ lo <= (k - 1) + 1 /\ k - 1 <= k /\ (k - 1) + 1 = k
  BY <1>1
<1>3. ts[k].t # "(" /\ ts[k].t # ")"
  BY <1>1, BindsBinary DEF Ends
<1>4. Depth(ts, k, k) = 0
  BY <1>2, <1>3, DepthOne
<1>5. Depth(ts, lo, k - 1) \in Int /\ Depth(ts, lo, k) = Depth(ts, lo, k - 1) + Depth(ts, k, k)
  BY <1>2, DepthParts
<1> QED BY <1>1, <1>2, <1>4, <1>5

\* A sign before a stretch parts nothing.
LEMMA InfixSigned ==
  ASSUME NEW ts, NEW lo \in Int, NEW hi \in Int, ts[lo].t \in {"-", "~"}, lo <= hi
  PROVE  /\ Infix(ts, lo, hi) = Infix(ts, lo + 1, hi)
         /\ \A k \in lo .. hi : Depth(ts, lo, k) = Depth(ts, lo + 1, k)
<1>1. Depth(ts, lo, lo) = 0
  BY DepthOne
<1>2. ASSUME NEW k \in lo .. hi PROVE Depth(ts, lo, k) = Depth(ts, lo + 1, k)
  <2>1. Depth(ts, lo + 1, k) \in Int /\ Depth(ts, lo, k) = Depth(ts, lo, lo) + Depth(ts, lo + 1, k)
    BY DepthParts
  <2> QED BY <1>1, <2>1
<1>3. ASSUME NEW k PROVE k \in Infix(ts, lo, hi) <=> k \in Infix(ts, lo + 1, hi)
  <2>1. CASE k = lo + 1
    <3>1. k - 1 = lo /\ k \notin (lo + 1) + 1 .. hi
      BY <2>1
    <3>2. ts[k - 1].t \notin Ends
      BY <3>1 DEF Ends
    <3> QED BY <3>1, <3>2, InfixIs, Zenon
  <2>2. CASE k # lo + 1 /\ k \in lo + 1 .. hi
    <3>1. k \in (lo + 1) + 1 .. hi /\ k \in lo .. hi
      BY <2>2
    <3> QED BY <1>2, <2>2, <3>1, InfixIs, Zenon
  <2>3. CASE k \notin lo + 1 .. hi
    <3>1. k \notin (lo + 1) + 1 .. hi
      BY <2>3
    <3> QED BY <2>3, <3>1, InfixIs, Zenon
  <2> QED BY <2>1, <2>2, <2>3
<1> QED BY <1>2, <1>3, Zenon

\* Every bracket of a stretch that is closed was opened in it, and closed.
Balanced(ts, lo, hi) == Depth(ts, lo, hi) = 0 /\ \A k \in lo .. hi : Depth(ts, lo, k) >= 0

\* A bracketed stretch has no operator outside its brackets.
LEMMA InfixBracketed ==
  ASSUME NEW ts, NEW lo \in Int, NEW hi \in Int, lo < hi,
         ts[lo].t = "(", ts[hi].t = ")", Balanced(ts, lo + 1, hi - 1)
  PROVE  Infix(ts, lo, hi) = {} /\ Balanced(ts, lo, hi)
<1>1. Depth(ts, lo, lo) = 1 /\ Depth(ts, hi, hi) = -1
  BY DepthOne
<1>2. ASSUME NEW k \in lo .. hi - 1 PROVE Depth(ts, lo, k) >= 1
  <2>1. Depth(ts, lo + 1, k) \in Int /\ Depth(ts, lo, k) = Depth(ts, lo, lo) + Depth(ts, lo + 1, k)
    BY DepthParts
  <2>2. Depth(ts, lo + 1, k) >= 0
    <3>1. CASE k = lo
      <4>1. lo + 1 \in Int /\ lo \in Int /\ lo < lo + 1
        OBVIOUS
      <4>2. Depth(ts, lo + 1, k) = 0
        BY <3>1, <4>1, DepthOne
      <4> QED BY <4>2
    <3>2. CASE k # lo
      <4>1. k \in lo + 1 .. hi - 1
        BY <3>2
      <4> QED BY <4>1 DEF Balanced
    <3> QED BY <3>1, <3>2
  <2> QED BY <1>1, <2>1, <2>2
<1>3. Depth(ts, lo, hi) = 0
  <2>1. hi - 1 \in Int /\ lo <= (hi - 1) + 1 /\ hi - 1 <= hi /\ (hi - 1) + 1 = hi /\ lo <= hi - 1
    OBVIOUS
  <2>2. Depth(ts, lo, hi) = Depth(ts, lo, hi - 1) + Depth(ts, hi, hi)
    BY <2>1, DepthParts
  <2>3. /\ Depth(ts, lo + 1, hi - 1) \in Int
        /\ Depth(ts, lo, hi - 1) = Depth(ts, lo, lo) + Depth(ts, lo + 1, hi - 1)
    BY <2>1, DepthParts
  <2>4. Depth(ts, lo + 1, hi - 1) = 0
    BY DEF Balanced
  <2> QED BY <1>1, <2>2, <2>3, <2>4
<1>4. \A k \in lo .. hi : k # hi => k \in lo .. hi - 1
  OBVIOUS
<1>5. Infix(ts, lo, hi) = {}
  <2>1. ASSUME NEW k \in Infix(ts, lo, hi) PROVE FALSE
    <3>1. k \in lo + 1 .. hi /\ Depth(ts, lo, k) = 0 /\ ts[k].t \in BinaryOps
      BY InfixIs, Zenon
    <3>2. k # hi
      BY <3>1, BindsBinary DEF Ends
    <3>3. k \in lo .. hi - 1
      BY <3>1, <3>2
    <3> QED BY <1>2, <3>1, <3>3
  <2> QED BY <2>1
<1>6. Balanced(ts, lo, hi)
  <2>1. \A k \in lo .. hi - 1 : Depth(ts, lo, k) >= 0
    <3> SUFFICES ASSUME NEW k \in lo .. hi - 1 PROVE Depth(ts, lo, k) >= 0
      OBVIOUS
    <3>1. Depth(ts, lo, k) \in Int
      <4>1. k \in Int /\ lo <= k + 1 /\ k <= k
        OBVIOUS
      <4> QED BY <4>1, DepthParts
    <3> QED BY <1>2, <3>1
  <2> QED BY <1>3, <1>4, <2>1 DEF Balanced
<1> QED BY <1>5, <1>6

\* Two balanced stretches with an operator between them are one.
LEMMA BalancedJoined ==
  ASSUME NEW ts, NEW lo \in Int, NEW k \in Int, NEW hi \in Int, lo < k, k < hi,
         Balanced(ts, lo, k - 1), ts[k].t \in BinaryOps, ts[k - 1].t \in Ends,
         Balanced(ts, k + 1, hi)
  PROVE  Balanced(ts, lo, hi)
<1>1. Depth(ts, lo, k - 1) = 0
  BY DEF Balanced
<1>2. \A j \in k .. hi : Depth(ts, lo, j) = Depth(ts, k + 1, j)
  <2>1. k <= hi
    OBVIOUS
  <2> QED BY <1>1, <2>1, InfixJoined, Zenon
<1>3. Depth(ts, lo, hi) = 0
  <2>1. hi \in k .. hi
    OBVIOUS
  <2>2. Depth(ts, k + 1, hi) = 0
    BY DEF Balanced
  <2> QED BY <1>2, <2>1, <2>2
<1>4. ASSUME NEW j \in lo .. hi PROVE Depth(ts, lo, j) >= 0
  <2>1. CASE j \in lo .. k - 1
    BY <2>1 DEF Balanced
  <2>2. CASE j = k
    <3>1. k + 1 \in Int /\ k < k + 1
      OBVIOUS
    <3>2. Depth(ts, k + 1, k) = 0
      BY <3>1, DepthOne
    <3> QED BY <1>2, <2>2, <3>2
  <2>3. CASE j \in k + 1 .. hi
    <3>1. j \in k .. hi
      BY <2>3
    <3>2. Depth(ts, k + 1, j) >= 0
      BY <2>3 DEF Balanced
    <3> QED BY <1>2, <3>1, <3>2
  <2> QED BY <2>1, <2>2, <2>3
<1> QED BY <1>3, <1>4 DEF Balanced

\* So is a balanced stretch with a sign before it.
LEMMA BalancedSigned ==
  ASSUME NEW ts, NEW lo \in Int, NEW hi \in Int, ts[lo].t \in {"-", "~"}, lo < hi,
         Balanced(ts, lo + 1, hi)
  PROVE  Balanced(ts, lo, hi)
<1>1. \A k \in lo .. hi : Depth(ts, lo, k) = Depth(ts, lo + 1, k)
  <2>1. lo <= hi
    OBVIOUS
  <2> QED BY <2>1, InfixSigned, Zenon
<1>2. Depth(ts, lo + 1, lo) = 0
  <2>1. lo + 1 \in Int /\ lo < lo + 1
    OBVIOUS
  <2> QED BY <2>1, DepthOne
<1>3. hi \in lo .. hi /\ \A k \in lo .. hi : k = lo \/ k \in lo + 1 .. hi
  OBVIOUS
<1>4. Depth(ts, lo + 1, hi) = 0 /\ \A k \in lo + 1 .. hi : Depth(ts, lo + 1, k) >= 0
  BY Zenon DEF Balanced
<1>5. Depth(ts, lo, hi) = 0
  BY <1>1, <1>3, <1>4, Zenon
<1>6. ASSUME NEW k \in lo .. hi PROVE Depth(ts, lo, k) >= 0
  <2>1. CASE k = lo
    BY <1>1, <1>2, <2>1
  <2>2. CASE k \in lo + 1 .. hi
    <3>1. Depth(ts, lo + 1, k) >= 0 /\ Depth(ts, lo, k) = Depth(ts, lo + 1, k)
      BY <1>1, <1>4, <2>2, Zenon
    <3> QED BY <3>1
  <2> QED BY <1>3, <2>1, <2>2
<1> QED BY <1>5, <1>6, Zenon DEF Balanced

-----------------------------------------------------------------------------
(* The outermost operator: one there is, and only one, and the stretches   *)
(* on its sides have the operators that are left.                          *)

\* The operator of ops that binds last.
BindsLast(ts, ops, k) ==
  /\ k \in ops
  /\ \A j \in ops : Binding(ts[k].t) <= Binding(ts[j].t)
  /\ \A j \in ops : Binding(ts[j].t) = Binding(ts[k].t) =>
                      IF ts[k].t = "**" THEN k <= j ELSE j <= k

\* ** alone binds as tightly as it does.
LEMMA PowerBinds == ASSUME NEW t PROVE Binding(t) = 7 <=> t = "**"
BY DEF Binding

\* The operator that binds last is the outermost.
LEMMA OutermostIs ==
  ASSUME NEW ts, NEW ops \in SUBSET Int, NEW k, BindsLast(ts, ops, k)
  PROVE  Outermost(ts, ops) = k
<1> DEFINE top == {i \in ops : \A j \in ops : Binding(ts[i].t) <= Binding(ts[j].t)}
<1>1. k \in top /\ k \in Int
  BY DEF BindsLast
<1>2. \A j \in top : Binding(ts[j].t) = Binding(ts[k].t) /\ j \in ops /\ j \in Int
  <2> SUFFICES ASSUME NEW j \in top PROVE Binding(ts[j].t) = Binding(ts[k].t)
    OBVIOUS
  <2>1. Binding(ts[j].t) <= Binding(ts[k].t) /\ Binding(ts[k].t) <= Binding(ts[j].t)
    BY <1>1 DEF BindsLast
  <2>2. Binding(ts[j].t) \in Int /\ Binding(ts[k].t) \in Int
    BY BindsBinary
  <2> QED BY <2>1, <2>2
<1>3. Outermost(ts, ops) = IF \E j \in top : ts[j].t = "**" THEN SE!Min(top) ELSE SE!Max(top)
  BY DEF Outermost
<1>4. (\E j \in top : ts[j].t = "**") <=> ts[k].t = "**"
  BY <1>1, <1>2, PowerBinds
<1> HIDE DEF top
<1>5. CASE ts[k].t = "**"
  <2>1. \A j \in top : k <= j
    BY <1>2, <1>5 DEF BindsLast
  <2>2. SE!Min(top) = CHOOSE x \in top : \A y \in top : x <= y
    BY DEF SE!Min
  <2>3. \A x \in top : (\A y \in top : x <= y) => x = k
    BY <1>1, <1>2, <2>1
  <2>4. SE!Min(top) = k
    BY <1>1, <2>1, <2>2, <2>3
  <2> QED BY <1>3, <1>4, <1>5, <2>4
<1>6. CASE ts[k].t # "**"
  <2>1. \A j \in top : k >= j
    BY <1>1, <1>2, <1>6 DEF BindsLast
  <2>2. SE!Max(top) = CHOOSE x \in top : \A y \in top : x >= y
    BY DEF SE!Max
  <2>3. \A x \in top : (\A y \in top : x >= y) => x = k
    BY <1>1, <1>2, <2>1
  <2>4. SE!Max(top) = k
    BY <1>1, <2>1, <2>2, <2>3
  <2> QED BY <1>3, <1>4, <1>6, <2>4
<1> QED BY <1>5, <1>6

\* One of the operators of a stretch, if it has any, binds last.
LEMMA SomeBindsLast ==
  ASSUME NEW ts, NEW lo \in Nat, NEW hi \in Nat, Infix(ts, lo, hi) # {}
  PROVE  \E k : BindsLast(ts, Infix(ts, lo, hi), k)
<1> DEFINE ops == Infix(ts, lo, hi)
           B(k) == Binding(ts[k].t)
<1>1. \A k \in ops : k \in Nat /\ k <= hi
  BY InfixIs
<1>2. \A k \in ops : B(k) \in Nat
  BY BindsBinary
<1>3. PICK b \in {B(k) : k \in ops} : \A c \in {B(k) : k \in ops} : b <= c
  <2>1. {B(k) : k \in ops} \in SUBSET Nat /\ {B(k) : k \in ops} # {}
    BY <1>2
  <2> QED BY <2>1, Least
<1> DEFINE top == {k \in ops : B(k) = b}
<1>4. top # {} /\ top \in SUBSET Nat
  BY <1>1, <1>3
<1>5. \A k \in top : k \in ops /\ B(k) = b /\ \A j \in ops : B(k) <= B(j)
  BY <1>3
<1>6. \A j, k \in top : ts[j].t = "**" <=> ts[k].t = "**"
  BY <1>5, PowerBinds
<1>7. PICK m \in top : \A j \in top : m <= j
  <2> HIDE DEF top
  <2> QED BY <1>4, Least
<1>8. PICK d \in {hi - k : k \in top} : \A e \in {hi - k : k \in top} : d <= e
  <2>1. {hi - k : k \in top} \in SUBSET Nat
    BY <1>1
  <2>2. {hi - k : k \in top} # {}
    <3> HIDE DEF top
    <3> QED BY <1>4
  <2> QED BY <2>1, <2>2, Least
<1>9. PICK n \in top : d = hi - n
  BY <1>8
<1>10. \A j \in top : j <= n
  <2> SUFFICES ASSUME NEW j \in top PROVE j <= n
    OBVIOUS
  <2>1. d <= hi - j
    BY <1>8
  <2>2. j \in Nat /\ n \in Nat
    BY <1>4
  <2> HIDE DEF top
  <2> QED BY <1>9, <2>1, <2>2
<1>11. \A j \in ops : B(j) = b => j \in top
  OBVIOUS
<1> HIDE DEF top, ops
<1>12. CASE ts[m].t = "**"
  <2>1. BindsLast(ts, ops, m)
    BY <1>5, <1>7, <1>11, <1>12 DEF BindsLast
  <2> QED BY <2>1 DEF ops
<1>13. CASE ts[m].t # "**"
  <2>1. ts[n].t # "**"
    BY <1>6, <1>7, <1>9, <1>13, Zenon
  <2>2. BindsLast(ts, ops, n)
    BY <1>5, <1>9, <1>10, <1>11, <2>1 DEF BindsLast
  <2> QED BY <2>2 DEF ops
<1> QED BY <1>12, <1>13

-----------------------------------------------------------------------------
(* The meaning of a stretch, by its form.                                  *)

\* A stretch with operators between its operands.
LEMMA MeaningJoined ==
  ASSUME NEW ts, NEW lo \in Nat, NEW hi \in Nat, NEW k, BindsLast(ts, Infix(ts, lo, hi), k)
  PROVE  /\ lo < k /\ k <= hi /\ k \in Nat /\ k - 1 \in Nat
         /\ \A table, Of : MeaningAt(ts, table, Of, lo, hi)
              = IF Of[<<lo, k - 1>>].ok /\ Of[<<k + 1, hi>>].ok
                THEN Apply(ts[k].t, Of[<<lo, k - 1>>].v, Of[<<k + 1, hi>>].v) ELSE Fails
<1>1. k \in Infix(ts, lo, hi)
  BY DEF BindsLast
<1>2. lo < k /\ k <= hi /\ k \in Nat /\ k - 1 \in Nat /\ ~(lo > hi)
  BY <1>1, InfixParts
<1>3. Infix(ts, lo, hi) \in SUBSET Int
  BY InfixParts
<1>4. Outermost(ts, Infix(ts, lo, hi)) = k
  BY <1>3, OutermostIs, Zenon
<1>5. Infix(ts, lo, hi) # {}
  BY <1>1
<1>6. ASSUME NEW table, NEW Of
      PROVE  MeaningAt(ts, table, Of, lo, hi)
              = IF Of[<<lo, k - 1>>].ok /\ Of[<<k + 1, hi>>].ok
                THEN Apply(ts[k].t, Of[<<lo, k - 1>>].v, Of[<<k + 1, hi>>].v) ELSE Fails
  BY <1>2, <1>4, <1>5, Zenon DEF MeaningAt
<1> QED BY <1>2, <1>6, Zenon

\* A stretch with a sign before it.
LEMMA MeaningSigned ==
  ASSUME NEW ts, NEW lo \in Nat, NEW hi \in Nat, lo <= hi, Infix(ts, lo, hi) = {},
         ts[lo].t \in {"-", "~"}
  PROVE  \A table, Of : MeaningAt(ts, table, Of, lo, hi)
           = IF Of[<<lo + 1, hi>>].ok THEN Negated(ts[lo].t, Of[<<lo + 1, hi>>].v) ELSE Fails
<1>1. ~(lo > hi)
  OBVIOUS
<1> QED BY <1>1, Zenon DEF MeaningAt

\* A stretch in brackets.
Bracketed(ts, lo, hi) == ts[lo].t = "(" /\ ts[hi].t = ")"

\* A stretch in brackets means what they hold.
LEMMA MeaningBracketed ==
  ASSUME NEW ts, NEW lo \in Nat, NEW hi \in Nat, lo <= hi, Infix(ts, lo, hi) = {},
         Bracketed(ts, lo, hi)
  PROVE  /\ lo < hi
         /\ \A table, Of : MeaningAt(ts, table, Of, lo, hi) = Of[<<lo + 1, hi - 1>>]
<1>1. ts[lo].t = "(" /\ ts[hi].t = ")"
  BY DEF Bracketed
<1>2. "(" # ")" /\ ts[lo].t \notin {"-", "~"}
  BY <1>1
<1>3. lo # hi
  BY <1>1, <1>2
<1>4. ~(lo > hi) /\ lo < hi
  BY <1>3
<1>5. \A table, Of : MeaningAt(ts, table, Of, lo, hi) = Of[<<lo + 1, hi - 1>>]
  BY <1>1, <1>2, <1>4, Zenon DEF MeaningAt
<1> QED BY <1>4, <1>5

\* One token, or no expression.
Single(ts, table, lo, hi) ==
  IF lo < hi THEN Fails
  ELSE IF ts[lo].t \in {"num", "raw"} THEN Gives(ts[lo].v)
  ELSE IF IsId(ts[lo]) /\ ts[lo].s \in DOMAIN table THEN Gives(table[ts[lo].s])
  ELSE Fails

\* A stretch of neither kind means something only as a literal or a symbol.
LEMMA MeaningSingle ==
  ASSUME NEW ts, NEW lo \in Nat, NEW hi \in Nat, lo <= hi, Infix(ts, lo, hi) = {},
         ts[lo].t \notin {"-", "~"}, ~Bracketed(ts, lo, hi)
  PROVE  \A table, Of : MeaningAt(ts, table, Of, lo, hi) = Single(ts, table, lo, hi)
<1>1. ~(lo > hi)
  OBVIOUS
<1>2. ~(ts[lo].t = "(" /\ ts[hi].t = ")")
  BY DEF Bracketed
<1> QED BY <1>1, <1>2, Zenon DEF MeaningAt, Single

\* No tokens.
LEMMA MeaningEmpty ==
  ASSUME NEW ts, NEW table, NEW Of, NEW lo \in Nat, NEW hi \in Nat, hi < lo
  PROVE  MeaningAt(ts, table, Of, lo, hi) = Fails
<1>1. lo > hi
  OBVIOUS
<1> QED BY <1>1, Zenon DEF MeaningAt

-----------------------------------------------------------------------------
(* Meaning reads a table as well, of the stretches within a stretch.       *)

Span(lo, hi) == IF lo <= hi THEN (hi - lo) + 1 ELSE 0

\* The stretches of ts that have fewer tokens than one.
Shorter(ts, lo, hi) == {at \in Stretches(ts) : Span(at[1], at[2]) < Span(lo, hi)}

\* What a stretch is.
LEMMA StretchIs ==
  ASSUME NEW S, NEW ts \in Seq(S), NEW lo, NEW hi
  PROVE  <<lo, hi>> \in Stretches(ts)
           <=> lo \in Nat /\ hi \in Nat /\ 1 <= lo /\ lo <= Len(ts) + 1 /\ hi <= Len(ts)
<1>1. Len(ts) \in Nat
  OBVIOUS
<1> QED BY <1>1 DEF Stretches

\* The parts of a stretch are shorter.
LEMMA PartsShorter ==
  ASSUME NEW S, NEW ts \in Seq(S), NEW lo, NEW hi, <<lo, hi>> \in Stretches(ts), lo <= hi
  PROVE  /\ \A k \in Nat : lo < k /\ k <= hi => /\ <<lo, k - 1>> \in Shorter(ts, lo, hi)
                                              /\ <<k + 1, hi>> \in Shorter(ts, lo, hi)
         /\ <<lo + 1, hi>> \in Shorter(ts, lo, hi)
         /\ lo < hi => <<lo + 1, hi - 1>> \in Shorter(ts, lo, hi)
<1>1. /\ lo \in Nat /\ hi \in Nat /\ 1 <= lo /\ hi <= Len(ts) /\ Len(ts) \in Nat
  BY StretchIs
<1>2. ASSUME NEW i \in Nat, NEW j \in Nat, lo <= i, i <= hi + 1, j <= hi, lo < i \/ j < hi
      PROVE  <<i, j>> \in Shorter(ts, lo, hi)
  <2>1. Span(i, j) < Span(lo, hi)
    BY <1>1, <1>2 DEF Span
  <2>2. 1 <= i /\ i <= Len(ts) + 1 /\ j <= Len(ts)
    BY <1>1, <1>2
  <2>3. <<i, j>> \in Stretches(ts)
    BY <2>2, StretchIs
  <2> QED BY <2>1, <2>3 DEF Shorter
<1>3. ASSUME NEW k \in Nat, lo < k, k <= hi
      PROVE  <<lo, k - 1>> \in Shorter(ts, lo, hi) /\ <<k + 1, hi>> \in Shorter(ts, lo, hi)
  <2>1. /\ k - 1 \in Nat /\ k + 1 \in Nat /\ k - 1 <= hi /\ k - 1 < hi /\ lo <= k + 1 /\ lo < k + 1
        /\ lo <= lo /\ lo <= hi + 1 /\ k + 1 <= hi + 1 /\ hi <= hi
    BY <1>1, <1>3
  <2> QED BY <1>1, <1>2, <2>1, Zenon
<1>4. <<lo + 1, hi>> \in Shorter(ts, lo, hi)
  <2>1. lo + 1 \in Nat /\ lo <= lo + 1 /\ lo < lo + 1 /\ hi <= hi /\ lo + 1 <= hi + 1
    BY <1>1
  <2> QED BY <1>1, <1>2, <2>1, Zenon
<1>5. ASSUME lo < hi PROVE <<lo + 1, hi - 1>> \in Shorter(ts, lo, hi)
  <2>1. /\ lo + 1 \in Nat /\ hi - 1 \in Nat /\ lo <= lo + 1 /\ lo < lo + 1 /\ hi - 1 <= hi
        /\ lo + 1 <= hi + 1
    BY <1>1, <1>5
  <2> QED BY <1>2, <2>1, Zenon
<1> QED BY <1>3, <1>4, <1>5, Zenon

\* The meaning of a stretch depends on that of shorter ones.
LEMMA MeaningSame ==
  ASSUME NEW S, NEW ts \in Seq(S), NEW table, NEW lo, NEW hi, <<lo, hi>> \in Stretches(ts),
         NEW M, NEW N, \A at \in Shorter(ts, lo, hi) : N[at] = M[at]
  PROVE  MeaningAt(ts, table, N, lo, hi) = MeaningAt(ts, table, M, lo, hi)
<1>0. lo \in Nat /\ hi \in Nat
  BY StretchIs
<1>1. CASE hi < lo
  BY <1>0, <1>1, MeaningEmpty, Zenon
<1>2. CASE lo <= hi /\ Infix(ts, lo, hi) # {}
  <2>1. PICK k : BindsLast(ts, Infix(ts, lo, hi), k)
    BY <1>0, <1>2, SomeBindsLast
  <2>2. /\ lo < k /\ k <= hi /\ k \in Nat
        /\ \A Of : MeaningAt(ts, table, Of, lo, hi)
              = IF Of[<<lo, k - 1>>].ok /\ Of[<<k + 1, hi>>].ok
                THEN Apply(ts[k].t, Of[<<lo, k - 1>>].v, Of[<<k + 1, hi>>].v) ELSE Fails
    BY <1>0, <2>1, MeaningJoined, Zenon
  <2>3. N[<<lo, k - 1>>] = M[<<lo, k - 1>>] /\ N[<<k + 1, hi>>] = M[<<k + 1, hi>>]
    BY <1>2, <2>2, PartsShorter, Zenon
  <2> QED BY <2>2, <2>3, Zenon
<1>3. CASE lo <= hi /\ Infix(ts, lo, hi) = {} /\ ts[lo].t \in {"-", "~"}
  <2>0. \A table0, Of : MeaningAt(ts, table0, Of, lo, hi)
          = IF Of[<<lo + 1, hi>>].ok THEN Negated(ts[lo].t, Of[<<lo + 1, hi>>].v) ELSE Fails
    BY <1>0, <1>3, MeaningSigned
  <2>1. N[<<lo + 1, hi>>] = M[<<lo + 1, hi>>]
    BY <1>3, PartsShorter, Zenon
  <2> QED BY <2>0, <2>1, Zenon
<1>4. CASE lo <= hi /\ Infix(ts, lo, hi) = {} /\ Bracketed(ts, lo, hi)
  <2>0. lo < hi /\ \A table0, Of : MeaningAt(ts, table0, Of, lo, hi) = Of[<<lo + 1, hi - 1>>]
    BY <1>0, <1>4, MeaningBracketed
  <2>2. N[<<lo + 1, hi - 1>>] = M[<<lo + 1, hi - 1>>]
    BY <1>4, <2>0, PartsShorter, Zenon
  <2> QED BY <2>0, <2>2, Zenon
<1>5. CASE lo <= hi /\ Infix(ts, lo, hi) = {} /\ ts[lo].t \notin {"-", "~"} /\ ~Bracketed(ts, lo, hi)
  <2>0. \A table0, Of : MeaningAt(ts, table0, Of, lo, hi) = Single(ts, table0, lo, hi)
    BY <1>0, <1>5, MeaningSingle
  <2> QED BY <2>0, Zenon
<1>6. hi < lo \/ lo <= hi
  BY <1>0
<1> QED BY <1>1, <1>2, <1>3, <1>4, <1>5, <1>6, Zenon

\* What M gives a shorter stretch a meaning, N gives it the same.
Keeps(ts, lo, hi, M, N) == \A at \in Shorter(ts, lo, hi) : M[at].ok => N[at] = M[at]

\* A stretch that means something means the same by a table that has grown.
LEMMA MeaningKept ==
  ASSUME NEW S, NEW ts \in Seq(S), NEW f, NEW g, Grown(f, g),
         NEW lo, NEW hi, <<lo, hi>> \in Stretches(ts),
         NEW M, NEW N, Keeps(ts, lo, hi, M, N),
         MeaningAt(ts, f, M, lo, hi).ok
  PROVE  MeaningAt(ts, g, N, lo, hi) = MeaningAt(ts, f, M, lo, hi)
<1>0. lo \in Nat /\ hi \in Nat
  BY StretchIs
<1>1. ~Fails.ok
  BY DEF Fails
<1>2. CASE hi < lo
  BY <1>0, <1>1, <1>2, MeaningEmpty, Zenon
<1>3. CASE lo <= hi /\ Infix(ts, lo, hi) # {}
  <2>1. PICK k : BindsLast(ts, Infix(ts, lo, hi), k)
    BY <1>0, <1>3, SomeBindsLast
  <2>2. /\ lo < k /\ k <= hi /\ k \in Nat
        /\ \A table, Of : MeaningAt(ts, table, Of, lo, hi)
              = IF Of[<<lo, k - 1>>].ok /\ Of[<<k + 1, hi>>].ok
                THEN Apply(ts[k].t, Of[<<lo, k - 1>>].v, Of[<<k + 1, hi>>].v) ELSE Fails
    BY <1>0, <2>1, MeaningJoined, Zenon
  <2>3. M[<<lo, k - 1>>].ok /\ M[<<k + 1, hi>>].ok
    BY <1>1, <2>2, Zenon
  <2>4. N[<<lo, k - 1>>] = M[<<lo, k - 1>>] /\ N[<<k + 1, hi>>] = M[<<k + 1, hi>>]
    BY <1>3, <2>2, <2>3, PartsShorter, Zenon DEF Keeps
  <2> QED BY <2>2, <2>4, Zenon
<1>4. CASE lo <= hi /\ Infix(ts, lo, hi) = {} /\ ts[lo].t \in {"-", "~"}
  <2>0. \A table0, Of : MeaningAt(ts, table0, Of, lo, hi)
          = IF Of[<<lo + 1, hi>>].ok THEN Negated(ts[lo].t, Of[<<lo + 1, hi>>].v) ELSE Fails
    BY <1>0, <1>4, MeaningSigned
  <2>1. M[<<lo + 1, hi>>].ok
    BY <1>1, <2>0, Zenon
  <2>2. N[<<lo + 1, hi>>] = M[<<lo + 1, hi>>]
    BY <1>4, <2>1, PartsShorter, Zenon DEF Keeps
  <2> QED BY <2>0, <2>2, Zenon
<1>5. CASE lo <= hi /\ Infix(ts, lo, hi) = {} /\ Bracketed(ts, lo, hi)
  <2>0. lo < hi /\ \A table0, Of : MeaningAt(ts, table0, Of, lo, hi) = Of[<<lo + 1, hi - 1>>]
    BY <1>0, <1>5, MeaningBracketed
  <2>2. M[<<lo + 1, hi - 1>>].ok
    BY <2>0, Zenon
  <2>3. N[<<lo + 1, hi - 1>>] = M[<<lo + 1, hi - 1>>]
    BY <1>5, <2>0, <2>2, PartsShorter, Zenon DEF Keeps
  <2> QED BY <2>0, <2>3, Zenon
<1>6. CASE lo <= hi /\ Infix(ts, lo, hi) = {} /\ ts[lo].t \notin {"-", "~"} /\ ~Bracketed(ts, lo, hi)
  <2>0. \A table0, Of : MeaningAt(ts, table0, Of, lo, hi) = Single(ts, table0, lo, hi)
    BY <1>0, <1>6, MeaningSingle
  <2>1. Single(ts, f, lo, hi).ok
    BY <2>0, Zenon
  <2>2. Single(ts, g, lo, hi) = Single(ts, f, lo, hi)
    BY <1>1, <2>1 DEF Single, Grown
  <2> QED BY <2>0, <2>2, Zenon
<1>7. hi < lo \/ lo <= hi
  BY <1>0
<1> QED BY <1>2, <1>3, <1>4, <1>5, <1>6, <1>7, Zenon

\* M is what each stretch means.
IsMeaning(ts, table, M) == M = [at \in Stretches(ts) |-> MeaningAt(ts, table, M, at[1], at[2])]

\* The stretches of fewer than n tokens.
Within(ts, n) == {at \in Stretches(ts) : Span(at[1], at[2]) < n}

\* A span is a number of tokens.
LEMMA SpanNat == ASSUME NEW lo \in Nat, NEW hi \in Nat PROVE Span(lo, hi) \in Nat
BY DEF Span

\* A stretch has a number of tokens.
LEMMA StretchSpan ==
  ASSUME NEW S, NEW ts \in Seq(S), NEW at \in Stretches(ts)
  PROVE  /\ at = <<at[1], at[2]>> /\ at[1] \in Nat /\ at[2] \in Nat
         /\ Span(at[1], at[2]) \in Nat /\ Span(at[1], at[2]) < Len(ts) + 1
<1>1. Len(ts) \in Nat
  OBVIOUS
<1>2. at = <<at[1], at[2]>> /\ at[1] \in 1 .. Len(ts) + 1 /\ at[2] \in 0 .. Len(ts)
  BY DEF Stretches
<1>3. at[1] \in Nat /\ at[2] \in Nat /\ 1 <= at[1] /\ at[2] <= Len(ts)
  BY <1>1, <1>2
<1>4. Span(at[1], at[2]) < Len(ts) + 1
  BY <1>1, <1>3 DEF Span
<1> QED BY <1>2, <1>3, <1>4, SpanNat

\* What is shorter than one of them has fewer tokens still.
LEMMA WithinShorter ==
  ASSUME NEW S, NEW ts \in Seq(S), NEW n \in Nat, NEW at \in Within(ts, n + 1)
  PROVE  at \in Stretches(ts) /\ Shorter(ts, at[1], at[2]) \subseteq Within(ts, n)
<1>1. at \in Stretches(ts) /\ Span(at[1], at[2]) < n + 1
  BY Zenon DEF Within
<1>2. Span(at[1], at[2]) \in Nat
  BY <1>1, StretchSpan
<1>3. ASSUME NEW b \in Shorter(ts, at[1], at[2]) PROVE b \in Within(ts, n)
  <2>1. b \in Stretches(ts) /\ Span(b[1], b[2]) < Span(at[1], at[2])
    BY Zenon DEF Shorter
  <2>2. Span(b[1], b[2]) \in Nat
    BY <2>1, StretchSpan
  <2>3. Span(b[1], b[2]) < n
    BY <1>1, <1>2, <2>1, <2>2
  <2> QED BY <2>1, <2>3, Zenon DEF Within
<1> QED BY <1>1, <1>3

\* No stretch has fewer than no tokens, and all have at most those of ts.
LEMMA WithinAll ==
  ASSUME NEW S, NEW ts \in Seq(S)
  PROVE  Within(ts, 0) = {} /\ Stretches(ts) \subseteq Within(ts, Len(ts) + 1)
<1>1. \A at \in Stretches(ts) : Span(at[1], at[2]) \in Nat /\ Span(at[1], at[2]) < Len(ts) + 1
  BY StretchSpan
<1>2. \A at \in Stretches(ts) : ~(Span(at[1], at[2]) < 0)
  BY <1>1
<1> QED BY <1>1, <1>2, Zenon DEF Within

\* Such a table exists: one that is right for the stretches of fewer than k
\* tokens gives one that is right for those of k.
LEMMA MeaningExists ==
  ASSUME NEW S, NEW ts \in Seq(S), NEW table
  PROVE  \E M : IsMeaning(ts, table, M)
<1> DEFINE Right(M, k) ==
             /\ M = [at \in Stretches(ts) |-> M[at]]
             /\ \A at \in Within(ts, k) : M[at] = MeaningAt(ts, table, M, at[1], at[2])
           A == {k \in Nat : \E M : Right(M, k)}
<1>1. 0 \in A
  <2> DEFINE M == [at \in Stretches(ts) |-> Fails]
  <2>1. Within(ts, 0) = {}
    BY WithinAll
  <2>2. M = [at \in Stretches(ts) |-> M[at]]
    OBVIOUS
  <2> HIDE DEF M
  <2>3. Right(M, 0)
    BY <2>1, <2>2
  <2> HIDE DEF Right
  <2> QED BY <2>3
<1>2. ASSUME NEW k \in Nat, k \in A PROVE k + 1 \in A
  <2>1. PICK M : Right(M, k)
    BY <1>2
  <2> DEFINE N == [at \in Stretches(ts) |-> MeaningAt(ts, table, M, at[1], at[2])]
  <2>2. \A at \in Stretches(ts) : N[at] = MeaningAt(ts, table, M, at[1], at[2])
    BY Zenon
  <2>3. N = [at \in Stretches(ts) |-> N[at]]
    BY Zenon
  <2> HIDE DEF N
  <2>4. ASSUME NEW at \in Within(ts, k) PROVE N[at] = M[at]
    <3>1. at \in Stretches(ts)
      BY Zenon DEF Within
    <3> QED BY <2>1, <2>2, <3>1, Zenon
  <2>5. ASSUME NEW at \in Within(ts, k + 1) PROVE N[at] = MeaningAt(ts, table, N, at[1], at[2])
    <3>1. at \in Stretches(ts) /\ Shorter(ts, at[1], at[2]) \subseteq Within(ts, k)
      BY WithinShorter
    <3>2. \A b \in Shorter(ts, at[1], at[2]) : N[b] = M[b]
      BY <2>4, <3>1
    <3>3. <<at[1], at[2]>> \in Stretches(ts)
      BY <3>1, StretchSpan
    <3>4. MeaningAt(ts, table, N, at[1], at[2]) = MeaningAt(ts, table, M, at[1], at[2])
      BY <3>2, <3>3, MeaningSame
    <3> QED BY <2>2, <3>1, <3>4, Zenon
  <2>6. Right(N, k + 1)
    BY <2>3, <2>5, Zenon
  <2> HIDE DEF Right
  <2> QED BY <2>6
<1>3. Nat \subseteq A
  <2> HIDE DEF A
  <2> QED BY <1>1, <1>2, Induct
<1>4. Len(ts) + 1 \in A
  <2> HIDE DEF A
  <2> QED BY <1>3
<1>5. PICK M : Right(M, Len(ts) + 1)
  BY <1>4
<1>6. \A at \in Stretches(ts) : M[at] = MeaningAt(ts, table, M, at[1], at[2])
  BY <1>5, WithinAll
<1>7. M = [at \in Stretches(ts) |-> M[at]]
  BY <1>5
<1>8. IsMeaning(ts, table, M)
  BY <1>6, <1>7, Zenon DEF IsMeaning
<1> QED BY <1>8

\* What such a table holds.
LEMMA MeaningOf ==
  ASSUME NEW S, NEW ts \in Seq(S), NEW table, NEW M, IsMeaning(ts, table, M),
         NEW lo, NEW hi, <<lo, hi>> \in Stretches(ts)
  PROVE  M[<<lo, hi>>] = MeaningAt(ts, table, M, lo, hi)
<1>1. M[<<lo, hi>>] = MeaningAt(ts, table, M, <<lo, hi>>[1], <<lo, hi>>[2])
  BY Zenon DEF IsMeaning
<1> QED BY <1>1

\* Meaning reads one.
LEMMA MeaningReads ==
  ASSUME NEW S, NEW ts \in Seq(S), NEW table
  PROVE  \E M : IsMeaning(ts, table, M) /\ Meaning(ts, table) = M[<<1, Len(ts)>>]
<1> DEFINE By(M) == M = [at \in Stretches(ts) |-> MeaningAt(ts, table, M, at[1], at[2])]
           Of == CHOOSE M : By(M)
<1>1. \A M : By(M) <=> IsMeaning(ts, table, M)
  BY Zenon DEF IsMeaning
<1>2. Meaning(ts, table) = Of[<<1, Len(ts)>>]
  BY DEF Meaning
<1>3. \E M : By(M)
  <2> HIDE DEF By
  <2> QED BY <1>1, MeaningExists
<1>4. By(Of)
  <2> HIDE DEF By
  <2> QED BY <1>3
<1> HIDE DEF By, Of
<1> QED BY <1>1, <1>2, <1>4

\* What a stretch means stays when the table grows.
LEMMA MeaningGrows ==
  ASSUME NEW S, NEW ts \in Seq(S), NEW f, NEW g, Grown(f, g), Meaning(ts, f).ok
  PROVE  Meaning(ts, g) = Meaning(ts, f)
<1>1. PICK M : IsMeaning(ts, f, M) /\ Meaning(ts, f) = M[<<1, Len(ts)>>]
  BY MeaningReads
<1>2. PICK N : IsMeaning(ts, g, N) /\ Meaning(ts, g) = N[<<1, Len(ts)>>]
  BY MeaningReads
<1> DEFINE A == {k \in Nat : \A at \in Within(ts, k) : M[at].ok => N[at] = M[at]}
<1>3. 0 \in A
  BY WithinAll
<1>4. ASSUME NEW k \in Nat, k \in A PROVE k + 1 \in A
  <2>1. ASSUME NEW at \in Within(ts, k + 1), M[at].ok PROVE N[at] = M[at]
    <3> DEFINE lo == at[1]
               hi == at[2]
    <3>1. at \in Stretches(ts) /\ Shorter(ts, lo, hi) \subseteq Within(ts, k)
      BY WithinShorter
    <3>2. at = <<lo, hi>>
      BY <3>1, StretchSpan
    <3> HIDE DEF lo, hi
    <3>3. Keeps(ts, lo, hi, M, N)
      BY <1>4, <3>1 DEF Keeps
    <3>4. M[at] = MeaningAt(ts, f, M, lo, hi) /\ N[at] = MeaningAt(ts, g, N, lo, hi)
      <4>1. <<lo, hi>> \in Stretches(ts)
        BY <3>1, <3>2, Zenon
      <4>2. M[<<lo, hi>>] = MeaningAt(ts, f, M, lo, hi)
        BY <1>1, <4>1, MeaningOf
      <4>3. N[<<lo, hi>>] = MeaningAt(ts, g, N, lo, hi)
        BY <1>2, <4>1, MeaningOf
      <4> QED BY <3>2, <4>2, <4>3, Zenon
    <3>5. MeaningAt(ts, g, N, lo, hi) = MeaningAt(ts, f, M, lo, hi)
      <4>1. MeaningAt(ts, f, M, lo, hi).ok /\ <<lo, hi>> \in Stretches(ts)
        BY <2>1, <3>1, <3>2, <3>4, Zenon
      <4> QED BY <3>3, <4>1, MeaningKept
    <3> QED BY <3>4, <3>5, Zenon
  <2> QED BY <2>1
<1>5. Nat \subseteq A
  <2> HIDE DEF A
  <2> QED BY <1>3, <1>4, Induct
<1>6. Len(ts) + 1 \in A
  <2> HIDE DEF A
  <2> QED BY <1>5
<1>7. <<1, Len(ts)>> \in Within(ts, Len(ts) + 1)
  <2>1. Len(ts) \in Nat /\ 1 <= Len(ts) + 1
    OBVIOUS
  <2>2. <<1, Len(ts)>> \in Stretches(ts)
    BY <2>1, StretchIs
  <2> QED BY <2>2, WithinAll
<1> QED BY <1>1, <1>2, <1>6, <1>7

-----------------------------------------------------------------------------
(* What Eval reads from a place is an operand whose meaning is the value.  *)

\* From lo to before q stands an operand of level l and value v.
Reads(ts, M, l, lo, q, v) ==
  /\ <<lo, q - 1>> \in Stretches(ts) /\ q \in Nat /\ lo < q
  /\ M[<<lo, q - 1>>] = Gives(v)
  /\ Balanced(ts, lo, q - 1) /\ ts[q - 1].t \in Ends
  /\ \A k \in Infix(ts, lo, q - 1) : Binding(ts[k].t) >= l

\* Two numbers combined give a number or fail.
LEMMA ApplyGives ==
  ASSUME NEW op \in BinaryOps, NEW a, NEW b, Apply(op, a, b).ok
  PROVE  Apply(op, a, b) = Gives(Apply(op, a, b).v)
<1> DEFINE Either(r) == r = Fails \/ \E v : r = Gives(v)
<1>1. \A x, y : Either(Div(x, y)) /\ Either(Pow(x, y))
  BY DEF Div, Pow
<1>2. \A x, y : Either(Shift(x, y, TRUE)) /\ Either(Shift(x, y, FALSE))
  BY DEF Shift
<1>3. \A x, y, r : Either(Bitwise(x, y, r))
  BY DEF Bitwise
<1>4. Either(Apply(op, a, b))
  <2>1. \A v : Either(Gives(v))
    OBVIOUS
  <2> HIDE DEF Either
  <2> QED BY <1>1, <1>2, <1>3, <2>1 DEF Apply, BinaryOps
<1> HIDE DEF Either
<1>5. \A r : Either(r) /\ r.ok => r = Gives(r.v)
  BY DEF Either, Fails, Gives
<1> QED BY <1>4, <1>5

\* So does one with a sign.
LEMMA NegatedGives ==
  ASSUME NEW op, NEW a, Negated(op, a).ok PROVE Negated(op, a) = Gives(Negated(op, a).v)
<1> DEFINE Either(r) == r = Fails \/ \E v : r = Gives(v)
<1>1. Either(Negated(op, a))
  <2>1. \A v : Either(Gives(v))
    OBVIOUS
  <2>2. Either(Fails)
    OBVIOUS
  <2> HIDE DEF Either
  <2> QED BY <2>1, <2>2, SMT DEF Negated, Complement
<1>2. \A r : Either(r) /\ r.ok => r = Gives(r.v)
  BY DEF Fails, Gives
<1> HIDE DEF Either
<1> QED BY <1>1, <1>2

\* An operator between two operands makes an operand of its level.
LEMMA ReadsAcross ==
  ASSUME NEW S, NEW ts \in Seq(S), NEW table, NEW M, IsMeaning(ts, table, M),
         NEW lo, NEW k, NEW q, NEW a, NEW b,
         NEW l \in 1 .. 7, NEW l1 \in l .. 8, NEW l2 \in l .. 8, l < 7 => l < l2, l = 7 => l < l1,
         Reads(ts, M, l1, lo, k, a), Binding(ts[k].t) = l, Reads(ts, M, l2, k + 1, q, b),
         Apply(ts[k].t, a, b).ok
  PROVE  Reads(ts, M, l, lo, q, Apply(ts[k].t, a, b).v)
<1> DEFINE hi == q - 1
           ops == Infix(ts, lo, hi)
           B(j) == Binding(ts[j].t)
<1>1. /\ lo \in Nat /\ k \in Nat /\ q \in Nat /\ hi \in Nat /\ 1 <= lo /\ lo < k /\ k + 1 < q
      /\ lo <= hi /\ k < hi /\ k <= hi /\ k + 1 <= hi /\ k - 1 \in Nat /\ q - 1 = hi
      /\ hi <= Len(ts) /\ Len(ts) \in Nat
  <2>1. k \in Nat /\ q \in Nat /\ lo < k /\ k + 1 < q
    BY DEF Reads
  <2>2. <<lo, k - 1>> \in Stretches(ts) /\ <<k + 1, q - 1>> \in Stretches(ts)
    BY DEF Reads
  <2>3. /\ lo \in Nat /\ 1 <= lo /\ k - 1 \in Nat
        /\ k + 1 \in Nat /\ q - 1 \in Nat /\ q - 1 <= Len(ts) /\ Len(ts) \in Nat
    BY <2>2, StretchIs
  <2> QED BY <2>1, <2>3
<1> HIDE DEF hi
<1>2. /\ Balanced(ts, lo, k - 1) /\ ts[k - 1].t \in Ends /\ M[<<lo, k - 1>>] = Gives(a)
      /\ \A j \in Infix(ts, lo, k - 1) : B(j) >= l1
  BY Zenon DEF Reads
<1>3. /\ Balanced(ts, k + 1, hi) /\ ts[hi].t \in Ends /\ M[<<k + 1, hi>>] = Gives(b)
      /\ \A j \in Infix(ts, k + 1, hi) : B(j) >= l2
  BY <1>1, Zenon DEF Reads
<1>4. ts[k].t \in BinaryOps
  BY BindsBinary
<1>5. Depth(ts, lo, k - 1) = 0
  BY <1>2, Zenon DEF Balanced
<1>6. ops = Infix(ts, lo, k - 1) \cup {k} \cup Infix(ts, k + 1, hi)
  <2>1. lo \in Int /\ k \in Int /\ hi \in Int /\ lo < k /\ k <= hi /\ ts[k - 1].t \in Ends
    BY <1>1, <1>2
  <2>2. Infix(ts, lo, hi) = Infix(ts, lo, k - 1) \cup {k} \cup Infix(ts, k + 1, hi)
    <3> HIDE DEF ops, B
    <3> QED BY <1>4, <1>5, <2>1, InfixJoined
  <2> QED BY <2>2, Zenon
<1>7. \A j \in Infix(ts, lo, k - 1) : j \in Int /\ j < k
  <2> SUFFICES ASSUME NEW j \in Infix(ts, lo, k - 1) PROVE j \in Int /\ j < k
    OBVIOUS
  <2>1. j \in Int /\ j <= k - 1
    BY <1>1, InfixParts
  <2> QED BY <1>1, <2>1
<1>8. \A j \in Infix(ts, k + 1, hi) : j \in Int /\ k < j
  <2> SUFFICES ASSUME NEW j \in Infix(ts, k + 1, hi) PROVE j \in Int /\ k < j
    OBVIOUS
  <2>1. j \in Int /\ k + 1 < j
    BY <1>1, InfixParts
  <2> QED BY <1>1, <2>1
<1>9. \A j : B(j) \in Int
  BY BindsBinary
<1>10. B(k) = l
  OBVIOUS
<1>11. \A j \in ops : B(j) >= l /\ (B(j) = l => IF l < 7 THEN j <= k ELSE k <= j)
  <2> SUFFICES ASSUME NEW j \in ops
               PROVE  B(j) >= l /\ (B(j) = l => IF l < 7 THEN j <= k ELSE k <= j)
    OBVIOUS
  <2> HIDE DEF ops, B
  <2>1. CASE j \in Infix(ts, lo, k - 1)
    BY <1>1, <1>2, <1>7, <1>9, <2>1
  <2>2. CASE j = k
    BY <1>1, <1>10, <2>2
  <2>3. CASE j \in Infix(ts, k + 1, hi)
    <3>1. j \in Int /\ k < j /\ B(j) \in Int /\ B(j) >= l2
      BY <1>3, <1>8, <1>9, <2>3, Zenon
    <3>2. l < 7 => B(j) > l
      BY <3>1
    <3> QED BY <1>1, <3>1, <3>2
  <2> QED BY <1>6, <2>1, <2>2, <2>3
<1>12. ts[k].t = "**" <=> ~(l < 7)
  <2>1. l = 7 <=> ~(l < 7)
    OBVIOUS
  <2> QED BY <2>1, PowerBinds
<1>13. BindsLast(ts, ops, k)
  <2>1. k \in ops
    BY <1>6
  <2>2. \A j \in ops : B(k) <= B(j)
    BY <1>9, <1>10, <1>11
  <2>3. \A j \in ops : B(j) = B(k) => IF ts[k].t = "**" THEN k <= j ELSE j <= k
    BY <1>10, <1>11, <1>12
  <2> QED BY <2>1, <2>2, <2>3, Zenon DEF BindsLast
<1>14. M[<<lo, hi>>] = Gives(Apply(ts[k].t, a, b).v)
  <2>1. <<lo, hi>> \in Stretches(ts)
    BY <1>1, StretchIs
  <2>2. M[<<lo, hi>>] = MeaningAt(ts, table, M, lo, hi)
    BY <2>1, MeaningOf
  <2>3. MeaningAt(ts, table, M, lo, hi)
          = IF M[<<lo, k - 1>>].ok /\ M[<<k + 1, hi>>].ok
            THEN Apply(ts[k].t, M[<<lo, k - 1>>].v, M[<<k + 1, hi>>].v) ELSE Fails
    <3>1. lo \in Nat /\ hi \in Nat /\ BindsLast(ts, Infix(ts, lo, hi), k)
      BY <1>1, <1>13, Zenon
    <3> QED BY <3>1, MeaningJoined, Zenon
  <2>4. /\ M[<<lo, k - 1>>].ok /\ M[<<lo, k - 1>>].v = a
        /\ M[<<k + 1, hi>>].ok /\ M[<<k + 1, hi>>].v = b
    BY <1>2, <1>3 DEF Gives
  <2>5. M[<<lo, hi>>] = Apply(ts[k].t, a, b)
    BY <2>2, <2>3, <2>4, Zenon
  <2> QED BY <1>4, <2>5, ApplyGives, Zenon
<1>15. Balanced(ts, lo, hi)
  BY <1>1, <1>2, <1>3, <1>4, BalancedJoined
<1>16. <<lo, hi>> \in Stretches(ts) /\ lo < q
  BY <1>1, StretchIs
<1>17. \A j \in ops : B(j) >= l
  BY <1>11
<1> QED BY <1>1, <1>3, <1>14, <1>15, <1>16, <1>17, Zenon DEF Reads

\* The operators that stand before an operand.
Signs == {"-", "~"}

\* A sign before an operand makes one of the tightest level.
LEMMA ReadsSigned ==
  ASSUME NEW S, NEW ts \in Seq(S), NEW table, NEW M, IsMeaning(ts, table, M),
         NEW p, 1 <= p, p \in Nat, NEW q, NEW a, ts[p].t \in Signs, Reads(ts, M, 8, p + 1, q, a),
         Negated(ts[p].t, a).ok
  PROVE  Reads(ts, M, 8, p, q, Negated(ts[p].t, a).v)
<1> DEFINE hi == q - 1
<1>1. /\ q \in Nat /\ hi \in Nat /\ p + 1 < q /\ p < q /\ p <= hi /\ p < hi /\ hi <= Len(ts)
      /\ Len(ts) \in Nat
  <2>1. q \in Nat /\ p + 1 < q /\ <<p + 1, q - 1>> \in Stretches(ts)
    BY DEF Reads
  <2>2. q - 1 \in Nat /\ q - 1 <= Len(ts) /\ Len(ts) \in Nat
    BY <2>1, StretchIs
  <2> QED BY <2>1, <2>2
<1>2. /\ Balanced(ts, p + 1, hi) /\ ts[hi].t \in Ends /\ M[<<p + 1, hi>>] = Gives(a)
      /\ \A j \in Infix(ts, p + 1, hi) : Binding(ts[j].t) >= 8
  BY Zenon DEF Reads
<1> HIDE DEF hi
<1>3. Infix(ts, p + 1, hi) = {}
  <2>1. ASSUME NEW j \in Infix(ts, p + 1, hi) PROVE FALSE
    <3>1. ts[j].t \in BinaryOps
      BY <1>1, InfixParts
    <3>2. Binding(ts[j].t) \in Int /\ Binding(ts[j].t) < 8
      BY <3>1, BindsBinary
    <3> QED BY <1>2, <3>2
  <2> QED BY <2>1
<1>4. Infix(ts, p, hi) = {} /\ Balanced(ts, p, hi)
  BY <1>1, <1>2, <1>3, InfixSigned, BalancedSigned DEF Signs
<1>5. <<p, hi>> \in Stretches(ts)
  BY <1>1, StretchIs
<1>6. M[<<p, hi>>] = Gives(Negated(ts[p].t, a).v)
  <2>1. M[<<p, hi>>] = MeaningAt(ts, table, M, p, hi)
    BY <1>5, MeaningOf
  <2>2. MeaningAt(ts, table, M, p, hi)
          = IF M[<<p + 1, hi>>].ok THEN Negated(ts[p].t, M[<<p + 1, hi>>].v) ELSE Fails
    BY <1>1, <1>4, MeaningSigned DEF Signs
  <2>3. M[<<p + 1, hi>>].ok /\ M[<<p + 1, hi>>].v = a
    BY <1>2 DEF Gives
  <2>4. M[<<p, hi>>] = Negated(ts[p].t, a)
    BY <2>1, <2>2, <2>3, Zenon
  <2> QED BY <2>4, NegatedGives
<1> QED BY <1>1, <1>2, <1>4, <1>5, <1>6 DEF Reads, hi

\* So do brackets around one.
LEMMA ReadsBracketed ==
  ASSUME NEW S, NEW ts \in Seq(S), NEW table, NEW M, IsMeaning(ts, table, M),
         NEW p, 1 <= p, p \in Nat, NEW q, q <= Len(ts), NEW a, Reads(ts, M, 1, p + 1, q, a),
         ts[p].t = "(", ts[q].t = ")"
  PROVE  Reads(ts, M, 8, p, q + 1, a)
<1>1. q \in Nat /\ p + 1 < q /\ p < q /\ p <= q /\ Len(ts) \in Nat /\ p < q + 1 /\ (q + 1) - 1 = q
  BY DEF Reads
<1>2. Balanced(ts, p + 1, q - 1) /\ M[<<p + 1, q - 1>>] = Gives(a)
  BY Zenon DEF Reads
<1>3. Infix(ts, p, q) = {} /\ Balanced(ts, p, q)
  <2>1. p \in Int /\ q \in Int /\ p < q
    BY <1>1
  <2> QED BY <1>2, <2>1, InfixBracketed
<1>4. <<p, q>> \in Stretches(ts)
  BY <1>1, StretchIs
<1>5. M[<<p, q>>] = Gives(a)
  <2>1. M[<<p, q>>] = MeaningAt(ts, table, M, p, q)
    BY <1>4, MeaningOf
  <2>2. MeaningAt(ts, table, M, p, q) = M[<<p + 1, q - 1>>]
    <3>1. Bracketed(ts, p, q)
      BY DEF Bracketed
    <3>2. q \in Nat /\ p <= q /\ ts[p].t \notin {"-", "~"}
      BY <1>1
    <3>3. \A f, Of : MeaningAt(ts, f, Of, p, q) = Of[<<p + 1, q - 1>>]
      BY <1>3, <3>1, <3>2, MeaningBracketed
    <3> QED BY <3>3, Zenon
  <2> QED BY <1>2, <2>1, <2>2, Zenon
<1>6. ts[q].t \in Ends
  BY DEF Ends
<1> QED BY <1>1, <1>3, <1>4, <1>5, <1>6 DEF Reads

\* So does a literal or a symbol.
LEMMA ReadsSingle ==
  ASSUME NEW S, NEW ts \in Seq(S), NEW table, NEW M, IsMeaning(ts, table, M),
         NEW p \in 1 .. Len(ts), NEW v,
         \/ ts[p].t \in {"num", "raw"} /\ v = ts[p].v
         \/ ts[p].t = "id" /\ ts[p].s \in DOMAIN table /\ v = table[ts[p].s]
  PROVE  Reads(ts, M, 8, p, p + 1, v)
<1>1. /\ p \in Nat /\ p \in Int /\ p <= p /\ p < p + 1 /\ (p + 1) - 1 = p /\ p + 1 \in Nat
      /\ 1 <= p /\ p <= Len(ts) /\ p <= Len(ts) + 1 /\ ~(p < p)
  OBVIOUS
<1>2. Infix(ts, p, p) = {}
  <2>1. p + 1 .. p = {}
    BY <1>1
  <2> QED BY <2>1, InfixIs, Zenon
<1>3. ts[p].t \in {"num", "raw", "id"}
  OBVIOUS
<1>4. Balanced(ts, p, p)
  <2>1. Depth(ts, p, p) = 0
    BY <1>1, <1>3, DepthOne
  <2>2. \A k \in p .. p : k = p
    BY <1>1
  <2> QED BY <2>1, <2>2 DEF Balanced
<1>5. <<p, p>> \in Stretches(ts)
  BY <1>1, StretchIs
<1>6. M[<<p, p>>] = Gives(v)
  <2>1. M[<<p, p>>] = MeaningAt(ts, table, M, p, p)
    BY <1>5, MeaningOf
  <2>2. ts[p].t \notin {"-", "~"} /\ ~Bracketed(ts, p, p)
    BY <1>3 DEF Bracketed
  <2>3. MeaningAt(ts, table, M, p, p) = Single(ts, table, p, p)
    BY <1>1, <1>2, <2>2, MeaningSingle
  <2>4. Single(ts, table, p, p) = Gives(v)
    BY <1>1, <1>3 DEF Single, IsId
  <2> QED BY <2>1, <2>3, <2>4, Zenon
<1>7. ts[p].t \in Ends
  BY <1>3 DEF Ends
<1> QED BY <1>1, <1>2, <1>4, <1>5, <1>6, <1>7 DEF Reads

\* An operand of a level is one of a looser level.
LEMMA ReadsLooser ==
  ASSUME NEW ts, NEW M, NEW l \in Nat, NEW m \in Nat, l <= m, NEW lo, NEW q, NEW v,
         Reads(ts, M, m, lo, q, v)
  PROVE  Reads(ts, M, l, lo, q, v)
<1>1. \A k \in Infix(ts, lo, q - 1) : Binding(ts[k].t) >= m
  BY Zenon DEF Reads
<1>2. \A k \in Infix(ts, lo, q - 1) : Binding(ts[k].t) >= l
  <2> SUFFICES ASSUME NEW k \in Infix(ts, lo, q - 1) PROVE Binding(ts[k].t) >= l
    OBVIOUS
  <2>1. Binding(ts[k].t) \in Int
    BY BindsBinary
  <2> QED BY <1>1, <2>1
<1> QED BY <1>2, Zenon DEF Reads

-----------------------------------------------------------------------------
(* Eval against Meaning.  What a place of Eval's table asks for is sound if*)
(* what it reads is a stretch with that value as its meaning.              *)

\* A level's operators are those that bind as tightly.
LEMMA LevelsBind ==
  ASSUME NEW t, NEW l \in 1 .. 6 PROVE t \in Levels[l] <=> Binding(t) = l
<1>1. CASE l = 1
  BY <1>1 DEF Levels, Binding
<1>2. CASE l = 2
  BY <1>2 DEF Levels, Binding
<1>3. CASE l = 3
  BY <1>3 DEF Levels, Binding
<1>4. CASE l = 4
  BY <1>4 DEF Levels, Binding
<1>5. CASE l = 5
  BY <1>5 DEF Levels, Binding
<1>6. CASE l = 6
  BY <1>6 DEF Levels, Binding
<1> QED BY <1>1, <1>2, <1>3, <1>4, <1>5, <1>6

\* What the table holds at each level.
LEMMA TableAt ==
  ASSUME NEW S, NEW ts \in Seq(S), NEW table, NEW L, IsTable(ts, table, L),
         NEW p \in 1 .. Len(ts) + 1
  PROVE  /\ \A l \in 1 .. 6, acc \in Num \cup {Start} : L[<<l, p, acc>>] = Gather(ts, L, l, p, acc)
         /\ L[<<7, p, Start>>] = Power(ts, L, p)
         /\ L[<<8, p, Start>>] = Unary(ts, table, L, p)
<1>1. ASSUME NEW l \in 1 .. 8, NEW acc \in Num \cup {Start}
      PROVE  L[<<l, p, acc>>] = Reading(ts, table, L, l, p, acc)
  <2>1. <<l, p, acc>> \in Places(ts)
    <3>1. l \in 1 .. UnaryLevel
      BY DEF UnaryLevel
    <3> QED BY <3>1, Zenon DEF Places
  <2>2. L[<<l, p, acc>>] = ReadAt(ts, table, L, <<l, p, acc>>)
    BY <2>1, Zenon DEF IsTable
  <2> QED BY <2>2 DEF ReadAt
<1>2. \A acc : \A l \in 1 .. 6 : Reading(ts, table, L, l, p, acc) = Gather(ts, L, l, p, acc)
  BY DEF Reading, PowerLevel, UnaryLevel
<1>3. \A acc : Reading(ts, table, L, 7, p, acc) = Power(ts, L, p)
  BY DEF Reading, PowerLevel, UnaryLevel
<1>4. \A acc : Reading(ts, table, L, 8, p, acc) = Unary(ts, table, L, p)
  BY DEF Reading, PowerLevel, UnaryLevel
<1>5. (\A l \in 1 .. 6 : l \in 1 .. 8) /\ 7 \in 1 .. 8 /\ 8 \in 1 .. 8 /\ Start \in Num \cup {Start}
  OBVIOUS
<1> QED BY <1>1, <1>2, <1>3, <1>4, <1>5, Zenon

\* A place that is read successfully gives a number, and where it ends.
LEMMA TableReads ==
  ASSUME OperatorsGiveNumbers, NEW S, NEW ts \in Seq(S), NEW table, Literals(ts), Numbers(table),
         NEW L, IsTable(ts, table, L),
         NEW l \in 1 .. 8, NEW p \in 1 .. Len(ts) + 1, NEW acc \in Num \cup {Start}, L[<<l, p, acc>>].ok
  PROVE  \E v \in Num, q \in 1 .. Len(ts) + 1 :
            L[<<l, p, acc>>] = Read(v, q) /\ p <= q /\ (acc = Start => p < q)
<1>1. <<l, p, acc>> \in Places(ts)
  <2>1. l \in 1 .. UnaryLevel
    BY DEF UnaryLevel
  <2> QED BY <2>1, Zenon DEF Places
<1> DEFINE r == L[<<l, p, acc>>]
<1>2. Good(ts, <<l, p, acc>>, r)
  BY <1>1, TableGood
<1>3. r.ok
  OBVIOUS
<1> HIDE DEF r
<1>4. PICK v \in Num, q \in Nat : r = Read(v, q) /\ p <= q /\ q <= Len(ts) + 1 /\ (acc = Start => p < q)
  BY <1>2, <1>3 DEF Good, Fails
<1>5. q \in 1 .. Len(ts) + 1
  BY <1>4
<1> QED BY <1>4, <1>5 DEF r

\* From nothing gathered, it ends further on.
LEMMA StartReads ==
  ASSUME OperatorsGiveNumbers, NEW S, NEW ts \in Seq(S), NEW table, Literals(ts), Numbers(table),
         NEW L, IsTable(ts, table, L),
         NEW l \in 1 .. 8, NEW p \in 1 .. Len(ts) + 1, L[<<l, p, Start>>].ok
  PROVE  \E v \in Num, q \in 1 .. Len(ts) + 1 : L[<<l, p, Start>>] = Read(v, q) /\ p < q
<1>1. Start \in Num \cup {Start}
  OBVIOUS
<1>2. \E v \in Num, q \in 1 .. Len(ts) + 1 :
        L[<<l, p, Start>>] = Read(v, q) /\ p <= q /\ (Start = Start => p < q)
  BY <1>1, TableReads
<1> QED BY <1>2, Zenon

\* What a read result is.
LEMMA ReadIs == ASSUME NEW v, NEW q PROVE Read(v, q).ok /\ Read(v, q).v = v /\ Read(v, q).p = q
BY DEF Read

\* Where what is gathered in acc begins: here if there is nothing yet.
From(ts, M, l, lo, p, acc) == IF acc = Start THEN lo = p ELSE Reads(ts, M, l, lo, p, acc)

\* What is read is an operand of the level whose meaning is the value.
SoundAt(ts, L, M, l, p, acc) ==
  L[<<l, p, acc>>].ok =>
    \A lo : From(ts, M, l, lo, p, acc) => Reads(ts, M, l, lo, L[<<l, p, acc>>].p, L[<<l, p, acc>>].v)

\* The places that are read: only a level that groups to the left gathers.
Asked(ts, l, p, acc) == /\ l \in 1 .. 8 /\ p \in 1 .. Len(ts) + 1 /\ acc \in Num \cup {Start}
                        /\ l <= 6 \/ acc = Start

SoundBelow(ts, L, M, k) ==
  \A l, p, acc : Asked(ts, l, p, acc) /\ Rank(ts, <<l, p, acc>>) < k => SoundAt(ts, L, M, l, p, acc)

\* A place to the right or of a tighter level is below.
LEMMA SoundLower ==
  ASSUME NEW S, NEW ts \in Seq(S), NEW L, NEW M, NEW l, NEW p, NEW acc, Asked(ts, l, p, acc),
         SoundBelow(ts, L, M, Rank(ts, <<l, p, acc>>)),
         NEW m, NEW q, NEW b, Asked(ts, m, q, b), p < q \/ (p = q /\ l < m)
  PROVE  SoundAt(ts, L, M, m, q, b)
<1>1. <<l, p, acc>> \in Places(ts)
  <2>1. l \in 1 .. UnaryLevel /\ p \in 1 .. Len(ts) + 1 /\ acc \in Num \cup {Start}
    BY DEF Asked, UnaryLevel
  <2> QED BY <2>1, Zenon DEF Places
<1>2. /\ m \in Nat /\ 1 <= m /\ m <= UnaryLevel /\ q \in Nat /\ 1 <= q /\ q <= Len(ts) + 1
      /\ b \in Num \cup {Start}
  BY DEF Asked, UnaryLevel
<1>3. <<m, q, b>> \in Below(ts, Rank(ts, <<l, p, acc>>))
  BY <1>1, <1>2, Lower
<1>4. Rank(ts, <<m, q, b>>) < Rank(ts, <<l, p, acc>>)
  BY <1>3, Zenon DEF Below
<1> QED BY <1>4, Zenon DEF SoundBelow

\* From nothing gathered, it begins where it is read.
LEMMA SoundStart ==
  ASSUME NEW ts, NEW L, NEW M, NEW l, NEW p, SoundAt(ts, L, M, l, p, Start),
         NEW v, NEW q, L[<<l, p, Start>>] = Read(v, q)
  PROVE  Reads(ts, M, l, p, q, v)
<1>1. From(ts, M, l, p, p, Start)
  BY DEF From
<1> QED BY <1>1, ReadIs DEF SoundAt

\* From a number gathered, it begins where that does.
LEMMA SoundNumber ==
  ASSUME NEW ts, NEW L, NEW M, NEW l, NEW p, NEW v \in Num, SoundAt(ts, L, M, l, p, v),
         L[<<l, p, v>>].ok, NEW lo, Reads(ts, M, l, lo, p, v)
  PROVE  Reads(ts, M, l, lo, L[<<l, p, v>>].p, L[<<l, p, v>>].v)
<1>1. From(ts, M, l, lo, p, v)
  BY NotStart DEF From
<1> QED BY <1>1, Zenon DEF SoundAt

-----------------------------------------------------------------------------
(* Every place is sound, by its rank: what it reads has read less.         *)

\* A level that groups to the left reads operands of its level.
LEMMA GatherSound ==
  ASSUME OperatorsGiveNumbers, NEW S, NEW ts \in Seq(S), NEW table, Literals(ts), Numbers(table),
         NEW L, IsTable(ts, table, L), NEW M, IsMeaning(ts, table, M),
         NEW l \in 1 .. 6, NEW p \in 1 .. Len(ts) + 1, NEW acc \in Num \cup {Start},
         SoundBelow(ts, L, M, Rank(ts, <<l, p, acc>>))
  PROVE  SoundAt(ts, L, M, l, p, acc)
<1> DEFINE r == L[<<l, p, acc>>]
           first == L[<<l + 1, p, Start>>]
           rhs == L[<<l + 1, p + 1, Start>>]
           t == TokenAt(ts, p)
           out == Apply(t, acc, rhs.v)
<1>1. r = Gather(ts, L, l, p, acc)
  BY TableAt
<1>2. /\ l + 1 \in 1 .. 8 /\ l < l + 1 /\ l \in 1 .. 8 /\ l \in Nat /\ l + 1 \in Nat /\ l <= l + 1
      /\ l <= 6 /\ p \in Nat /\ 1 <= p /\ Start \in Num \cup {Start} /\ Len(ts) \in Nat /\ p < p + 1
  OBVIOUS
<1>3. Asked(ts, l, p, acc)
  BY <1>2, Zenon DEF Asked
<1> SUFFICES ASSUME r.ok, NEW lo, From(ts, M, l, lo, p, acc) PROVE Reads(ts, M, l, lo, r.p, r.v)
  BY DEF SoundAt
<1>4. ASSUME NEW v \in Num, NEW q \in 1 .. Len(ts) + 1, p < q, r = L[<<l, q, v>>],
             Reads(ts, M, l, lo, q, v)
      PROVE  Reads(ts, M, l, lo, r.p, r.v)
  <2>1. Asked(ts, l, q, v)
    BY <1>2, Zenon DEF Asked
  <2>2. SoundAt(ts, L, M, l, q, v)
    BY <1>3, <1>4, <2>1, SoundLower
  <2> HIDE DEF r
  <2>3. Reads(ts, M, l, lo, L[<<l, q, v>>].p, L[<<l, q, v>>].v)
    BY <1>4, <2>2, SoundNumber
  <2> QED BY <1>4, <2>3
<1>5. CASE acc = Start
  <2>1. first.ok /\ r = L[<<l, first.p, first.v>>]
    BY <1>1, <1>5 DEF Gather, Fails
  <2>2. PICK v \in Num, q \in 1 .. Len(ts) + 1 : first = Read(v, q) /\ p < q
    BY <1>2, <2>1, StartReads
  <2>3. Asked(ts, l + 1, p, Start)
    BY <1>2, Zenon DEF Asked
  <2>4. SoundAt(ts, L, M, l + 1, p, Start)
    BY <1>2, <1>3, <2>3, SoundLower
  <2>5. Reads(ts, M, l + 1, p, q, v)
    BY <2>2, <2>4, SoundStart
  <2>6. Reads(ts, M, l, p, q, v)
    BY <1>2, <2>5, ReadsLooser
  <2>7. lo = p
    BY <1>5 DEF From
  <2> HIDE DEF r, first
  <2>8. r = L[<<l, q, v>>]
    <3>1. first.p = q /\ first.v = v
      BY <2>2, ReadIs
    <3> QED BY <2>1, <3>1
  <2> QED BY <1>4, <2>2, <2>6, <2>7, <2>8
<1>6. CASE acc # Start /\ t \notin Levels[l]
  <2>1. r = Read(acc, p)
    BY <1>1, <1>6 DEF Gather
  <2>2. Reads(ts, M, l, lo, p, acc)
    BY <1>6 DEF From
  <2> QED BY <2>1, <2>2, ReadIs
<1>7. CASE acc # Start /\ t \in Levels[l]
  <2>1. rhs.ok /\ out.ok /\ r = L[<<l, rhs.p, out.v>>]
    BY <1>1, <1>7 DEF Gather, Fails
  <2>2. Binding(t) = l
    BY <1>7, LevelsBind
  <2>3. p <= Len(ts) /\ p + 1 \in 1 .. Len(ts) + 1 /\ t = ts[p].t
    <3>1. Binding("end") = 8
      BY DEF Binding
    <3> QED BY <1>2, <2>2, <3>1 DEF TokenAt
  <2>4. PICK b \in Num, q \in 1 .. Len(ts) + 1 : rhs = Read(b, q) /\ p + 1 < q
    <3>1. l + 1 \in 1 .. 8 /\ p + 1 \in 1 .. Len(ts) + 1 /\ Start \in Num \cup {Start} /\ rhs.ok
      BY <1>2, <2>1, <2>3
    <3> DEFINE k == p + 1
    <3>2. k \in 1 .. Len(ts) + 1 /\ l + 1 \in 1 .. 8 /\ L[<<l + 1, k, Start>>].ok
      BY <3>1
    <3> HIDE DEF k
    <3>3. \E b \in Num, q \in 1 .. Len(ts) + 1 :
            L[<<l + 1, k, Start>>] = Read(b, q) /\ k < q
      BY <3>1, <3>2, StartReads
    <3> QED BY <3>3, Zenon DEF k
  <2>5. Asked(ts, l + 1, p + 1, Start)
    BY <1>2, <2>3, Zenon DEF Asked
  <2>6. SoundAt(ts, L, M, l + 1, p + 1, Start)
    BY <1>2, <1>3, <2>5, SoundLower
  <2>7. Reads(ts, M, l + 1, p + 1, q, b)
    BY <2>4, <2>6, SoundStart
  <2>8. Reads(ts, M, l, lo, p, acc)
    BY <1>7 DEF From
  <2>9. acc \in Num /\ t \in BinaryOps /\ rhs.v = b /\ rhs.p = q
    BY <1>2, <1>7, <2>2, <2>4, BindsBinary, ReadIs
  <2> DEFINE v == Apply(ts[p].t, acc, b).v
  <2>10. v \in Num /\ Apply(ts[p].t, acc, b).ok /\ r = L[<<l, q, v>>]
    <3>1. out = Apply(ts[p].t, acc, b)
      BY <2>3, <2>9
    <3> HIDE DEF out, r, rhs
    <3>2. Apply(ts[p].t, acc, b).ok /\ r = L[<<l, q, v>>]
      BY <2>1, <2>9, <3>1, Zenon
    <3> QED BY <2>3, <2>9, <3>2, ApplyNum
  <2>11. Reads(ts, M, l, lo, q, v)
    <3>1. l \in 1 .. 7 /\ l \in l .. 8 /\ l + 1 \in l .. 8 /\ (l = 7 => l < l) /\ (l < 7 => l < l + 1)
      BY <1>2
    <3>2. Binding(ts[p].t) = l
      BY <2>2, <2>3
    <3> QED BY <2>7, <2>8, <2>10, <3>1, <3>2, ReadsAcross, Zenon
  <2>12. p < q
    BY <1>2, <2>4
  <2> HIDE DEF r, v, rhs, out
  <2> QED BY <1>4, <2>10, <2>11, <2>12
<1> QED BY <1>5, <1>6, <1>7

\* So does the level of **.
LEMMA PowerSound ==
  ASSUME OperatorsGiveNumbers, NEW S, NEW ts \in Seq(S), NEW table, Literals(ts), Numbers(table),
         NEW L, IsTable(ts, table, L), NEW M, IsMeaning(ts, table, M),
         NEW p \in 1 .. Len(ts) + 1, SoundBelow(ts, L, M, Rank(ts, <<7, p, Start>>))
  PROVE  SoundAt(ts, L, M, 7, p, Start)
<1> DEFINE r == L[<<7, p, Start>>]
           base == L[<<8, p, Start>>]
<1>1. r = Power(ts, L, p)
  BY TableAt
<1>2. Start \in Num \cup {Start} /\ 7 \in 1 .. 8 /\ 8 \in 1 .. 8 /\ p \in Nat /\ 1 <= p /\ Len(ts) \in Nat
      /\ 7 < 8 /\ 7 <= 8 /\ 7 \in Nat /\ 8 \in Nat
  OBVIOUS
<1>3. \A q \in 1 .. Len(ts) + 1 : Asked(ts, 7, q, Start) /\ Asked(ts, 8, q, Start)
  BY <1>2, Zenon DEF Asked
<1> SUFFICES ASSUME r.ok PROVE Reads(ts, M, 7, p, r.p, r.v)
  BY DEF SoundAt, From
<1>4. base.ok
  BY <1>1 DEF Power, UnaryLevel, Fails
<1>5. PICK v \in Num, q \in 1 .. Len(ts) + 1 : base = Read(v, q) /\ p < q
  BY <1>2, <1>4, StartReads
<1>6. base.v = v /\ base.p = q
  BY <1>5, ReadIs
<1>7. Reads(ts, M, 8, p, q, v)
  <2>1. SoundAt(ts, L, M, 8, p, Start)
    BY <1>2, <1>3, SoundLower
  <2> QED BY <1>5, <2>1, SoundStart
<1>8. CASE TokenAt(ts, q) # "**"
  <2>1. r = base
    BY <1>1, <1>4, <1>6, <1>8 DEF Power, UnaryLevel
  <2>2. Reads(ts, M, 7, p, q, v)
    BY <1>2, <1>7, ReadsLooser
  <2> HIDE DEF base, r
  <2> QED BY <1>6, <2>1, <2>2
<1>9. CASE TokenAt(ts, q) = "**"
  <2> DEFINE exp == L[<<7, q + 1, Start>>]
             out == Apply("**", v, exp.v)
  <2>1. exp.ok /\ r = Then(out, exp.p)
    BY <1>1, <1>4, <1>6, <1>9 DEF Power, UnaryLevel, PowerLevel, Fails
  <2>2. q <= Len(ts) /\ q + 1 \in 1 .. Len(ts) + 1 /\ ts[q].t = "**" /\ p < q + 1
    BY <1>2, <1>5, <1>9 DEF TokenAt
  <2>3. PICK w \in Num, k \in 1 .. Len(ts) + 1 : exp = Read(w, k)
    BY <1>2, <2>1, <2>2, StartReads, SMTT(20)
  <2>4. Reads(ts, M, 7, q + 1, k, w)
    <3>1. SoundAt(ts, L, M, 7, q + 1, Start)
      BY <1>2, <1>3, <2>2, SoundLower
    <3> QED BY <2>3, <3>1, SoundStart
  <2>5. out = Apply(ts[q].t, v, w) /\ exp.p = k
    <3> HIDE DEF exp
    <3>1. exp.v = w /\ exp.p = k
      BY <2>3, ReadIs
    <3> QED BY <2>2, <3>1
  <2> HIDE DEF out
  <2>6. out.ok /\ r = Read(out.v, k)
    BY <2>1, <2>5 DEF Then, Fails
  <2>7. Reads(ts, M, 7, p, k, Apply(ts[q].t, v, w).v)
    <3>1. /\ 7 \in 1 .. 7 /\ 8 \in 7 .. 8 /\ 7 \in 7 .. 8
          /\ (7 < 7 => 7 < 7) /\ (7 = 7 => 7 < 8) /\ Binding(ts[q].t) = 7
      BY <2>2, PowerBinds
    <3> QED BY <1>7, <2>4, <2>5, <2>6, <3>1, ReadsAcross, Zenon
  <2> HIDE DEF r
  <2> QED BY <2>5, <2>6, <2>7, ReadIs
<1> QED BY <1>8, <1>9

\* So does that of the signs, brackets and operands.
LEMMA UnarySound ==
  ASSUME OperatorsGiveNumbers, NEW S, NEW ts \in Seq(S), NEW table, Literals(ts), Numbers(table),
         NEW L, IsTable(ts, table, L), NEW M, IsMeaning(ts, table, M),
         NEW p \in 1 .. Len(ts) + 1, SoundBelow(ts, L, M, Rank(ts, <<8, p, Start>>))
  PROVE  SoundAt(ts, L, M, 8, p, Start)
<1> DEFINE r == L[<<8, p, Start>>]
           t == TokenAt(ts, p)
           arg == L[<<8, p + 1, Start>>]
           inner == L[<<1, p + 1, Start>>]
<1>1. r = Unary(ts, table, L, p)
  BY TableAt
<1>2. /\ Start \in Num \cup {Start} /\ 1 \in 1 .. 8 /\ 8 \in 1 .. 8 /\ p \in Nat /\ 1 <= p
      /\ Len(ts) \in Nat /\ p < p + 1
  OBVIOUS
<1>3. \A q \in 1 .. Len(ts) + 1 : Asked(ts, 1, q, Start) /\ Asked(ts, 8, q, Start)
  BY <1>2, Zenon DEF Asked
<1>4. t # "end" => p <= Len(ts) /\ p \in 1 .. Len(ts) /\ p + 1 \in 1 .. Len(ts) + 1 /\ ts[p].t = t
  BY <1>2 DEF TokenAt
<1> SUFFICES ASSUME r.ok PROVE Reads(ts, M, 8, p, r.p, r.v)
  BY DEF SoundAt, From
<1>5. CASE t \in {"-", "~"}
  <2> DEFINE out == Negated(t, arg.v)
  <2>1. arg.ok /\ r = Then(out, arg.p)
    BY <1>1, <1>5 DEF Unary, UnaryLevel, Fails
  <2>2. p + 1 \in 1 .. Len(ts) + 1 /\ ts[p].t = t
    BY <1>4, <1>5
  <2>3. PICK v \in Num, q \in 1 .. Len(ts) + 1 : arg = Read(v, q)
    BY <1>2, <2>1, <2>2, StartReads
  <2>4. Reads(ts, M, 8, p + 1, q, v)
    <3>1. SoundAt(ts, L, M, 8, p + 1, Start)
      BY <1>2, <1>3, <2>2, SoundLower
    <3> QED BY <2>3, <3>1, SoundStart
  <2>5. out = Negated(ts[p].t, v) /\ arg.p = q
    BY <2>2, <2>3, ReadIs
  <2> HIDE DEF out
  <2>6. out.ok /\ r = Read(out.v, q)
    BY <2>1, <2>5 DEF Then, Fails
  <2>7. ts[p].t \in Signs /\ Negated(ts[p].t, v).ok
    BY <1>5, <2>2, <2>5, <2>6 DEF Signs
  <2>8. Reads(ts, M, 8, p, q, Negated(ts[p].t, v).v)
    BY <1>2, <2>4, <2>7, ReadsSigned, Zenon
  <2> HIDE DEF r
  <2> QED BY <2>5, <2>6, <2>8, ReadIs
<1>6. CASE t = "("
  <2>1. inner.ok /\ TokenAt(ts, inner.p) = ")" /\ r = Read(inner.v, inner.p + 1)
    BY <1>1, <1>6 DEF Unary, UnaryLevel, Fails
  <2>2. p + 1 \in 1 .. Len(ts) + 1 /\ ts[p].t = "("
    BY <1>4, <1>6
  <2>3. PICK v \in Num, q \in 1 .. Len(ts) + 1 : inner = Read(v, q)
    BY <1>2, <2>1, <2>2, StartReads
  <2>4. Reads(ts, M, 1, p + 1, q, v)
    <3>1. SoundAt(ts, L, M, 1, p + 1, Start)
      BY <1>2, <1>3, <2>2, SoundLower
    <3> QED BY <2>3, <3>1, SoundStart
  <2>5. inner.v = v /\ inner.p = q
    BY <2>3, ReadIs
  <2>6. q <= Len(ts) /\ ts[q].t = ")"
    BY <1>2, <2>1, <2>5 DEF TokenAt
  <2>7. Reads(ts, M, 8, p, q + 1, v)
    BY <1>2, <2>2, <2>4, <2>6, ReadsBracketed
  <2> HIDE DEF r, inner
  <2> QED BY <2>1, <2>5, <2>7, ReadIs
<1>7. ASSUME NEW v, \/ ts[p].t \in {"num", "raw"} /\ v = ts[p].v
                    \/ ts[p].t = "id" /\ ts[p].s \in DOMAIN table /\ v = table[ts[p].s],
             t # "end", r = Read(v, p + 1)
      PROVE  Reads(ts, M, 8, p, r.p, r.v)
  <2>1. Reads(ts, M, 8, p, p + 1, v)
    BY <1>4, <1>7, ReadsSingle
  <2> HIDE DEF r
  <2> QED BY <1>7, <2>1, ReadIs
<1>8. CASE t \in {"num", "raw"}
  <2>1. r = Read(ts[p].v, p + 1)
    BY <1>1, <1>8 DEF Unary
  <2>2. t # "end" /\ ts[p].t \in {"num", "raw"}
    BY <1>4, <1>8
  <2> HIDE DEF r, t
  <2> QED BY <1>7, <2>1, <2>2
<1>9. CASE t = "id" /\ ts[p].s \in DOMAIN table
  <2>1. r = Read(table[ts[p].s], p + 1)
    <3>1. Unary(ts, table, L, p) = Read(table[ts[p].s], p + 1)
      BY <1>9 DEF Unary
    <3> QED BY <1>1, <3>1
  <2>2. t # "end" /\ ts[p].t = "id"
    BY <1>4, <1>9
  <2> HIDE DEF r, t
  <2> QED BY <1>7, <1>9, <2>1, <2>2
<1>10. CASE ~(\/ t \in {"-", "~"} \/ t = "(" \/ t \in {"num", "raw"}
              \/ (t = "id" /\ ts[p].s \in DOMAIN table))
  <2>1. r = Fails
    BY <1>1, <1>10 DEF Unary
  <2> QED BY <2>1 DEF Fails
<1> QED BY <1>5, <1>6, <1>8, <1>9, <1>10

\* What Eval reads at any place is an operand of the level.
LEMMA TableSound ==
  ASSUME OperatorsGiveNumbers, NEW S, NEW ts \in Seq(S), NEW table, Literals(ts), Numbers(table),
         NEW L, IsTable(ts, table, L), NEW M, IsMeaning(ts, table, M)
  PROVE  \A l, p, acc : Asked(ts, l, p, acc) => SoundAt(ts, L, M, l, p, acc)
<1>1. \A l, p, acc : Asked(ts, l, p, acc) => <<l, p, acc>> \in Places(ts)
  BY DEF Asked, Places, UnaryLevel
<1>2. \A l, p, acc : Asked(ts, l, p, acc)
                       => Rank(ts, <<l, p, acc>>) \in Nat /\ Rank(ts, <<l, p, acc>>) < 8 * (Len(ts) + 1) + 8
  BY <1>1, RankNat
<1> DEFINE A == {k \in Nat : SoundBelow(ts, L, M, k)}
<1>3. 0 \in A
  BY <1>2 DEF SoundBelow
<1>4. ASSUME NEW k \in Nat, k \in A PROVE k + 1 \in A
  <2>1. ASSUME NEW l, NEW p, NEW acc, Asked(ts, l, p, acc), Rank(ts, <<l, p, acc>>) < k + 1
        PROVE  SoundAt(ts, L, M, l, p, acc)
    <3>1. SoundBelow(ts, L, M, Rank(ts, <<l, p, acc>>))
      <4> DEFINE R == Rank(ts, <<l, p, acc>>)
      <4>1. R \in Nat /\ R <= k
        BY <1>2, <2>1
      <4> HIDE DEF R
      <4>2. \A n \in Nat : n < R => n < k
        BY <4>1
      <4>3. SoundBelow(ts, L, M, R)
        BY <1>2, <1>4, <4>2, Zenon DEF SoundBelow
      <4> QED BY <4>3 DEF R
    <3>2. /\ l \in 1 .. 8 /\ p \in 1 .. Len(ts) + 1 /\ acc \in Num \cup {Start}
          /\ l <= 6 \/ acc = Start
      BY <2>1, Zenon DEF Asked
    <3>3. l \in 1 .. 6 \/ (l = 7 /\ acc = Start) \/ (l = 8 /\ acc = Start)
      BY <3>2
    <3> QED BY <3>1, <3>2, <3>3, GatherSound, PowerSound, UnarySound
  <2>2. SoundBelow(ts, L, M, k + 1)
    BY <2>1, Zenon DEF SoundBelow
  <2> QED BY <2>2
<1>5. Nat \subseteq A
  <2> HIDE DEF A
  <2> QED BY <1>3, <1>4, Induct
<1>6. SoundBelow(ts, L, M, 8 * (Len(ts) + 1) + 8)
  <2>1. 8 * (Len(ts) + 1) + 8 \in Nat
    OBVIOUS
  <2> QED BY <1>5, <2>1
<1> QED BY <1>2, <1>6, Zenon DEF SoundBelow

-----------------------------------------------------------------------------
(* The other way: a stretch with a meaning is read to its end at the level *)
(* of its operators, if nothing of the level or tighter comes after it.    *)

\* A stretch that has a meaning, whose operators bind at least as tightly as l.
Meaningful(ts, M, l, lo, hi) ==
  /\ <<lo, hi>> \in Stretches(ts) /\ M[<<lo, hi>>].ok
  /\ \A k \in Infix(ts, lo, hi) : Binding(ts[k].t) >= l

\* No operator of level l or tighter.
Done(t, l) == Binding(t) < l \/ Binding(t) = 8

\* Eval reads it to its end, if no operator there takes more in, as its meaning;
\* a level that groups to the left goes on from there.
Consumed(ts, L, M, l, lo, hi) ==
  /\ M[<<lo, hi>>].v \in Num
  /\ Done(TokenAt(ts, hi + 1), l) => L[<<l, lo, Start>>] = Read(M[<<lo, hi>>].v, hi + 1)
  /\ l <= 6 /\ Done(TokenAt(ts, hi + 1), l + 1)
       => L[<<l, lo, Start>>] = L[<<l, hi + 1, M[<<lo, hi>>].v>>]

\* A stretch is read from shorter ones and from itself at tighter levels.
Weight(l, lo, hi) == 8 * (hi - lo) + (8 - l)

ConsumedBelow(ts, L, M, w) ==
  \A l, lo, hi :
    l \in 1 .. 8 /\ Meaningful(ts, M, l, lo, hi) /\ Weight(l, lo, hi) < w => Consumed(ts, L, M, l, lo, hi)

\* Where a meaningful stretch stands.
LEMMA MeaningfulIs ==
  ASSUME NEW S, NEW ts \in Seq(S), NEW table, NEW M, IsMeaning(ts, table, M),
         NEW l, NEW lo, NEW hi, Meaningful(ts, M, l, lo, hi)
  PROVE  /\ lo \in Nat /\ hi \in Nat /\ 1 <= lo /\ lo <= hi /\ hi <= Len(ts) /\ Len(ts) \in Nat
         /\ lo \in 1 .. Len(ts) + 1 /\ hi + 1 \in 1 .. Len(ts) + 1
         /\ <<lo, hi>> \in Stretches(ts)
         /\ M[<<lo, hi>>] = MeaningAt(ts, table, M, lo, hi) /\ M[<<lo, hi>>].ok
<1>1. <<lo, hi>> \in Stretches(ts) /\ M[<<lo, hi>>].ok
  BY Zenon DEF Meaningful
<1>2. M[<<lo, hi>>] = MeaningAt(ts, table, M, lo, hi)
  BY <1>1, MeaningOf
<1>3. /\ lo \in Nat /\ hi \in Nat /\ 1 <= lo /\ lo <= Len(ts) + 1 /\ hi <= Len(ts)
      /\ Len(ts) \in Nat
  BY <1>1, StretchIs
<1>4. ~(hi < lo)
  <2> SUFFICES ASSUME hi < lo PROVE FALSE
    OBVIOUS
  <2>1. MeaningAt(ts, table, M, lo, hi) = Fails
    BY <1>3, MeaningEmpty
  <2>2. Fails.ok
    BY <1>1, <1>2, <2>1
  <2> QED BY <2>2 DEF Fails
<1> QED BY <1>1, <1>2, <1>3, <1>4

\* A part of a stretch, or the stretch at a tighter level, weighs less.
LEMMA ConsumedLower ==
  ASSUME NEW S, NEW ts \in Seq(S), NEW table, NEW M, IsMeaning(ts, table, M), NEW L,
         NEW l \in 1 .. 8, NEW lo, NEW hi, Meaningful(ts, M, l, lo, hi),
         ConsumedBelow(ts, L, M, Weight(l, lo, hi)),
         NEW m \in 1 .. 8, NEW i, NEW j, Meaningful(ts, M, m, i, j),
         lo <= i, j <= hi, lo < i \/ j < hi \/ l < m
  PROVE  Consumed(ts, L, M, m, i, j)
<1>1. lo \in Nat /\ hi \in Nat /\ lo <= hi
  BY MeaningfulIs
<1>2. i \in Nat /\ j \in Nat /\ i <= j
  BY MeaningfulIs
<1>3. l \in Nat /\ m \in Nat /\ 1 <= l /\ l <= 8 /\ 1 <= m /\ m <= 8
  OBVIOUS
<1>4. Weight(m, i, j) < Weight(l, lo, hi)
  BY <1>1, <1>2, <1>3 DEF Weight
<1> QED BY <1>4, Zenon DEF ConsumedBelow

\* A level that groups to the left stops where nothing takes more in.
LEMMA ConsumedEnd ==
  ASSUME NEW S, NEW ts \in Seq(S), NEW table, NEW L, IsTable(ts, table, L),
         NEW M, IsMeaning(ts, table, M), NEW l \in 1 .. 6, NEW lo, NEW hi, Meaningful(ts, M, l, lo, hi),
         M[<<lo, hi>>].v \in Num,
         Done(TokenAt(ts, hi + 1), l + 1)
           => L[<<l, lo, Start>>] = L[<<l, hi + 1, M[<<lo, hi>>].v>>]
  PROVE  Consumed(ts, L, M, l, lo, hi)
<1> DEFINE t == TokenAt(ts, hi + 1)
           v == M[<<lo, hi>>].v
<1>1. hi + 1 \in 1 .. Len(ts) + 1 /\ v \in Num \cup {Start} /\ v # Start
  BY MeaningfulIs, NotStart
<1>2. ASSUME Done(t, l) PROVE L[<<l, lo, Start>>] = Read(v, hi + 1)
  <2>1. Binding(t) \in Int /\ l \in Int /\ l <= 6
    BY BindsBinary
  <2>2. Done(t, l + 1) /\ Binding(t) # l
    <3> DEFINE b == Binding(t)
    <3>1. b \in Int /\ (b < l \/ b = 8)
      BY <1>2, <2>1 DEF Done
    <3> HIDE DEF b
    <3>2. (b < l + 1 \/ b = 8) /\ b # l
      BY <2>1, <3>1
    <3> QED BY <3>2 DEF Done, b
  <2>3. t \notin Levels[l]
    BY <2>2, LevelsBind
  <2>4. L[<<l, hi + 1, v>>] = Gather(ts, L, l, hi + 1, v)
    <3> HIDE DEF v
    <3>1. \A q \in 1 .. Len(ts) + 1 : L[<<l, q, v>>] = Gather(ts, L, l, q, v)
      BY <1>1, TableAt
    <3> QED BY <1>1, <3>1, Zenon
  <2>5. Gather(ts, L, l, hi + 1, v) = Read(v, hi + 1)
    BY <1>1, <2>3, Zenon DEF Gather
  <2> QED BY <2>2, <2>4, <2>5
<1> QED BY <1>2, Zenon DEF Consumed

\* If all its operators bind more tightly, the next level reads it.
LEMMA ConsumedTighter ==
  ASSUME NEW S, NEW ts \in Seq(S), NEW table, NEW L, IsTable(ts, table, L),
         NEW M, IsMeaning(ts, table, M), NEW l \in 1 .. 6, NEW lo, NEW hi, Meaningful(ts, M, l, lo, hi),
         Consumed(ts, L, M, l + 1, lo, hi)
  PROVE  Consumed(ts, L, M, l, lo, hi)
<1> DEFINE v == M[<<lo, hi>>].v
           first == L[<<l + 1, lo, Start>>]
<1>1. lo \in 1 .. Len(ts) + 1 /\ hi + 1 \in 1 .. Len(ts) + 1 /\ Start \in Num \cup {Start}
  BY MeaningfulIs
<1>2. v \in Num
  BY Zenon DEF Consumed
<1>3. ASSUME Done(TokenAt(ts, hi + 1), l + 1) PROVE L[<<l, lo, Start>>] = L[<<l, hi + 1, v>>]
  <2>1. first = Read(v, hi + 1)
    BY <1>3, Zenon DEF Consumed
  <2>2. L[<<l, lo, Start>>] = Gather(ts, L, l, lo, Start)
    BY <1>1, TableAt
  <2>3. first.ok /\ first.v = v /\ first.p = hi + 1
    BY <2>1, ReadIs
  <2> QED BY <2>2, <2>3, Zenon DEF Gather
<1> QED BY <1>2, <1>3, ConsumedEnd

\* Parted at an operator of level l, its operands are meaningful: both sides of
\* the levels that group to the left may have more of them only on the left.
Parted(ts, M, l, lo, k, hi) ==
  /\ k \in Nat /\ lo < k /\ k <= hi /\ lo <= k + 1 /\ lo < k + 1 /\ k - 1 <= hi /\ k - 1 < hi
  /\ l < 7 => Meaningful(ts, M, l, lo, k - 1) /\ Meaningful(ts, M, l + 1, k + 1, hi)
  /\ l = 7 => Meaningful(ts, M, 8, lo, k - 1) /\ Meaningful(ts, M, 7, k + 1, hi)
  /\ M[<<lo, hi>>] = Apply(ts[k].t, M[<<lo, k - 1>>].v, M[<<k + 1, hi>>].v)

\* A meaningful stretch is parted so at its outermost operator.
LEMMA MeaningfulJoined ==
  ASSUME NEW S, NEW ts \in Seq(S), NEW table, NEW M, IsMeaning(ts, table, M),
         NEW l \in 1 .. 7, NEW lo, NEW hi, Meaningful(ts, M, l, lo, hi),
         NEW k, BindsLast(ts, Infix(ts, lo, hi), k), Binding(ts[k].t) = l
  PROVE  Parted(ts, M, l, lo, k, hi)
<1> DEFINE ops == Infix(ts, lo, hi)
           B(j) == Binding(ts[j].t)
<1>1. /\ lo \in Nat /\ hi \in Nat /\ 1 <= lo /\ lo <= hi /\ hi <= Len(ts) /\ Len(ts) \in Nat
      /\ <<lo, hi>> \in Stretches(ts)
      /\ M[<<lo, hi>>] = MeaningAt(ts, table, M, lo, hi) /\ M[<<lo, hi>>].ok
  BY MeaningfulIs
<1>2. lo < k /\ k <= hi /\ k \in Nat /\ k - 1 \in Nat
  BY <1>1, MeaningJoined
<1>3. /\ lo \in Int /\ hi \in Int /\ k \in Int /\ lo <= k + 1 /\ lo < k + 1 /\ k - 1 <= hi /\ k - 1 < hi
      /\ k + 1 \in Nat /\ 1 <= k + 1 /\ k + 1 <= Len(ts) + 1 /\ k - 1 <= Len(ts) /\ lo <= Len(ts) + 1
  BY <1>1, <1>2
<1>4. MeaningAt(ts, table, M, lo, hi)
        = IF M[<<lo, k - 1>>].ok /\ M[<<k + 1, hi>>].ok
          THEN Apply(ts[k].t, M[<<lo, k - 1>>].v, M[<<k + 1, hi>>].v) ELSE Fails
  <2>1. \A f, Of : MeaningAt(ts, f, Of, lo, hi)
          = IF Of[<<lo, k - 1>>].ok /\ Of[<<k + 1, hi>>].ok
            THEN Apply(ts[k].t, Of[<<lo, k - 1>>].v, Of[<<k + 1, hi>>].v) ELSE Fails
    BY <1>1, MeaningJoined
  <2> QED BY <2>1, Zenon
<1>5. ~Fails.ok
  BY DEF Fails
<1>6. /\ M[<<lo, k - 1>>].ok /\ M[<<k + 1, hi>>].ok
      /\ M[<<lo, hi>>] = Apply(ts[k].t, M[<<lo, k - 1>>].v, M[<<k + 1, hi>>].v)
  BY <1>1, <1>4, <1>5, Zenon
<1>7. <<lo, k - 1>> \in Stretches(ts) /\ <<k + 1, hi>> \in Stretches(ts)
  BY <1>1, <1>2, <1>3, StretchIs
<1>8. k \in ops
  BY DEF BindsLast
<1>9. ops = Infix(ts, lo, k - 1) \cup {k} \cup Infix(ts, k + 1, hi)
  <2>1. Depth(ts, lo, k - 1) = 0 /\ ts[k].t \in BinaryOps /\ ts[k - 1].t \in Ends
    BY <1>3, <1>8, InfixParts
  <2> QED BY <1>2, <1>3, <2>1, InfixJoined
<1>10. \A j \in ops : /\ B(j) \in Int /\ B(j) >= l /\ B(j) <= 7
                      /\ B(j) = l => IF l < 7 THEN j <= k ELSE k <= j
  <2> SUFFICES ASSUME NEW j \in ops
               PROVE  /\ B(j) \in Int /\ B(j) >= l /\ B(j) <= 7
                      /\ B(j) = l => IF l < 7 THEN j <= k ELSE k <= j
    OBVIOUS
  <2>1. B(j) >= l
    BY Zenon DEF Meaningful
  <2>2. ts[j].t \in BinaryOps
    BY <1>3, InfixParts
  <2>3. B(j) \in 1 .. 8 /\ B(j) < 8
    BY <2>2, BindsBinary
  <2>4. B(j) = l => IF ts[k].t = "**" THEN k <= j ELSE j <= k
    BY Zenon DEF BindsLast
  <2>5. ts[k].t = "**" <=> ~(l < 7)
    <3>1. l = 7 <=> ~(l < 7)
      OBVIOUS
    <3> QED BY <3>1, PowerBinds
  <2> HIDE DEF B
  <2> QED BY <2>1, <2>3, <2>4, <2>5
<1> HIDE DEF ops, B
<1>11. \A j \in Infix(ts, lo, k - 1) : B(j) >= l /\ (l = 7 => B(j) >= 8)
  <2> SUFFICES ASSUME NEW j \in Infix(ts, lo, k - 1) PROVE B(j) >= l /\ (l = 7 => B(j) >= 8)
    OBVIOUS
  <2>1. j \in ops
    BY <1>9
  <2>2. j \in Int /\ j <= k - 1
    BY <1>2, <1>3, InfixParts
  <2>3. ~(k <= j)
    BY <1>3, <2>2
  <2> QED BY <1>10, <2>1, <2>3
<1>12. \A j \in Infix(ts, k + 1, hi) : B(j) >= l /\ (l < 7 => B(j) >= l + 1)
  <2> SUFFICES ASSUME NEW j \in Infix(ts, k + 1, hi) PROVE B(j) >= l /\ (l < 7 => B(j) >= l + 1)
    OBVIOUS
  <2>1. j \in ops
    BY <1>9
  <2>2. j \in Int /\ k + 1 < j
    BY <1>3, InfixParts
  <2>3. ~(j <= k)
    BY <1>3, <2>2
  <2> QED BY <1>10, <2>1, <2>3
<1>13. l < 7 => Meaningful(ts, M, l, lo, k - 1) /\ Meaningful(ts, M, l + 1, k + 1, hi)
  BY <1>6, <1>7, <1>11, <1>12, Zenon DEF Meaningful, B
<1>14. l = 7 => Meaningful(ts, M, 8, lo, k - 1) /\ Meaningful(ts, M, 7, k + 1, hi)
  <2> SUFFICES ASSUME l = 7 PROVE Meaningful(ts, M, 8, lo, k - 1) /\ Meaningful(ts, M, 7, k + 1, hi)
    OBVIOUS
  <2>1. /\ \A j \in Infix(ts, lo, k - 1) : B(j) >= 8
        /\ \A j \in Infix(ts, k + 1, hi) : B(j) >= 7
    BY <1>11, <1>12, Zenon
  <2> QED BY <1>6, <1>7, <2>1, Zenon DEF Meaningful, B
<1> QED BY <1>2, <1>3, <1>6, <1>13, <1>14, Zenon DEF Parted

-----------------------------------------------------------------------------
(* Every stretch with a meaning is read, by its weight: parts weigh less.  *)

\* A level that groups to the left reads on across its operators.
LEMMA ConsumedAcross ==
  ASSUME OperatorsGiveNumbers, NEW S, NEW ts \in Seq(S), NEW table, NEW L, IsTable(ts, table, L),
         NEW M, IsMeaning(ts, table, M), NEW l \in 1 .. 6, NEW lo, NEW hi, Meaningful(ts, M, l, lo, hi),
         ConsumedBelow(ts, L, M, Weight(l, lo, hi))
  PROVE  Consumed(ts, L, M, l, lo, hi)
<1> DEFINE ops == Infix(ts, lo, hi)
           B(j) == Binding(ts[j].t)
<1>1. /\ lo \in Nat /\ hi \in Nat /\ lo <= hi /\ <<lo, hi>> \in Stretches(ts) /\ M[<<lo, hi>>].ok
      /\ lo \in 1 .. Len(ts) + 1 /\ hi + 1 \in 1 .. Len(ts) + 1 /\ hi <= Len(ts) /\ Len(ts) \in Nat
  BY MeaningfulIs
<1>2. /\ l \in 1 .. 8 /\ l + 1 \in 1 .. 8 /\ l < l + 1 /\ lo <= lo /\ hi <= hi /\ l \in 1 .. 7
      /\ l < 7 /\ l \in Int /\ l <= 6 /\ l < 8
  BY <1>1
<1>3. CASE \A j \in ops : B(j) # l
  <2>1. \A j \in ops : B(j) >= l + 1
    <3> SUFFICES ASSUME NEW j \in ops PROVE B(j) >= l + 1
      OBVIOUS
    <3>1. B(j) >= l /\ B(j) # l
      BY <1>3, Zenon DEF Meaningful
    <3>2. B(j) \in Int
      BY BindsBinary
    <3> QED BY <1>2, <3>1, <3>2
  <2>2. Meaningful(ts, M, l + 1, lo, hi)
    BY <1>1, <2>1, Zenon DEF Meaningful
  <2>3. Consumed(ts, L, M, l + 1, lo, hi)
    BY <1>2, <2>2, ConsumedLower
  <2> QED BY <2>3, ConsumedTighter
<1>4. CASE \E j \in ops : B(j) = l
  <2>1. PICK i \in ops : B(i) = l
    BY <1>4
  <2>2. PICK k : BindsLast(ts, ops, k)
    <3>1. ops # {}
      BY <2>1
    <3> QED BY <1>1, <3>1, SomeBindsLast
  <2>3. B(k) = l
    <3>1. k \in ops /\ B(k) <= B(i)
      BY <2>1, <2>2, Zenon DEF BindsLast
    <3>2. B(k) >= l
      BY <3>1, Zenon DEF Meaningful
    <3>3. B(k) \in Int
      BY BindsBinary
    <3> HIDE DEF B
    <3> QED BY <1>2, <2>1, <3>1, <3>2, <3>3
  <2> DEFINE a == M[<<lo, k - 1>>].v
             b == M[<<k + 1, hi>>].v
             v == M[<<lo, hi>>].v
             t == ts[k].t
  <2>4. /\ k \in Nat /\ lo < k /\ k <= hi /\ lo <= k + 1 /\ lo < k + 1 /\ k - 1 <= hi /\ k - 1 < hi
        /\ Meaningful(ts, M, l, lo, k - 1) /\ Meaningful(ts, M, l + 1, k + 1, hi)
        /\ M[<<lo, hi>>] = Apply(t, a, b)
    <3> HIDE DEF ops
    <3>1. BindsLast(ts, Infix(ts, lo, hi), k) /\ Binding(ts[k].t) = l
      BY <2>2, <2>3 DEF ops
    <3>2. Parted(ts, M, l, lo, k, hi)
      BY <1>2, <3>1, MeaningfulJoined
    <3> QED BY <1>2, <3>2, Zenon DEF Parted, ops
  <2>6. Consumed(ts, L, M, l, lo, k - 1)
    BY <1>2, <2>4, ConsumedLower
  <2>7. Consumed(ts, L, M, l + 1, k + 1, hi)
    BY <1>2, <2>4, ConsumedLower
  <2>8. a \in Num /\ b \in Num
    BY <2>6, <2>7, Zenon DEF Consumed
  <2>9. k \in 1 .. Len(ts) + 1 /\ (k - 1) + 1 = k /\ TokenAt(ts, k) = t
    BY <1>1, <2>4 DEF TokenAt
  <2>10. t \in BinaryOps /\ t \in Levels[l] /\ Done(t, l + 1)
    <3>1. Binding(t) < 8 /\ Binding(t) < l + 1
      BY <1>2, <2>3
    <3> QED BY <2>3, <3>1, LevelsBind, BindsBinary DEF Done
  <2>11. v \in Num
    BY <1>1, <2>4, <2>8, <2>10, ApplyNum
  <2>12. L[<<l, lo, Start>>] = L[<<l, k, a>>]
    <3>1. Done(TokenAt(ts, (k - 1) + 1), l + 1)
      BY <2>9, <2>10
    <3>2. L[<<l, lo, Start>>] = L[<<l, (k - 1) + 1, a>>]
      BY <1>2, <2>6, <3>1, Zenon DEF Consumed
    <3> QED BY <2>9, <3>2
  <2>13. ASSUME Done(TokenAt(ts, hi + 1), l + 1) PROVE L[<<l, lo, Start>>] = L[<<l, hi + 1, v>>]
    <3>1. L[<<l + 1, k + 1, Start>>] = Read(b, hi + 1)
      BY <2>7, <2>13, Zenon DEF Consumed
    <3>2. L[<<l, k, a>>] = Gather(ts, L, l, k, a)
      <4>1. a \in Num \cup {Start}
        BY <2>8
      <4> HIDE DEF a
      <4> QED BY <2>9, <4>1, TableAt
    <3>3. a # Start
      BY <2>8, NotStart
    <3> DEFINE rhs == L[<<l + 1, k + 1, Start>>]
    <3>4. rhs.ok /\ rhs.v = b /\ rhs.p = hi + 1
      BY <3>1, ReadIs
    <3>5. Apply(t, a, b).ok /\ Apply(t, a, b).v = v
      BY <1>1, <2>4
    <3> HIDE DEF a, b, v, t
    <3>6. Gather(ts, L, l, k, a) = L[<<l, hi + 1, v>>]
      BY <2>9, <2>10, <3>3, <3>4, <3>5, Zenon DEF Gather
    <3> QED BY <2>12, <3>2, <3>6
  <2> QED BY <2>11, <2>13, ConsumedEnd
<1> QED BY <1>3, <1>4

\* So does the level of **, whose right operand is of its own level.
LEMMA ConsumedPower ==
  ASSUME OperatorsGiveNumbers, NEW S, NEW ts \in Seq(S), NEW table, NEW L, IsTable(ts, table, L),
         NEW M, IsMeaning(ts, table, M), NEW lo, NEW hi, Meaningful(ts, M, 7, lo, hi),
         ConsumedBelow(ts, L, M, Weight(7, lo, hi))
  PROVE  Consumed(ts, L, M, 7, lo, hi)
<1> DEFINE ops == Infix(ts, lo, hi)
           B(j) == Binding(ts[j].t)
           v == M[<<lo, hi>>].v
           base == L[<<8, lo, Start>>]
<1>1. /\ lo \in Nat /\ hi \in Nat /\ lo <= hi /\ <<lo, hi>> \in Stretches(ts) /\ M[<<lo, hi>>].ok
      /\ lo \in 1 .. Len(ts) + 1 /\ hi + 1 \in 1 .. Len(ts) + 1 /\ hi <= Len(ts) /\ Len(ts) \in Nat
  BY MeaningfulIs
<1>2. /\ 7 \in 1 .. 8 /\ 8 \in 1 .. 8 /\ 7 < 8 /\ 7 \in 1 .. 7 /\ ~(7 < 7) /\ ~(7 <= 6)
      /\ lo <= lo /\ hi <= hi
  BY <1>1
<1>3. L[<<7, lo, Start>>] = Power(ts, L, lo)
  BY <1>1, TableAt
<1>4. CASE ops = {}
  <2>1. Meaningful(ts, M, 8, lo, hi)
    BY <1>1, <1>4, Zenon DEF Meaningful
  <2>2. Consumed(ts, L, M, 8, lo, hi)
    BY <1>2, <2>1, ConsumedLower
  <2>3. v \in Num
    BY <2>2, Zenon DEF Consumed
  <2>4. ASSUME Done(TokenAt(ts, hi + 1), 7) PROVE L[<<7, lo, Start>>] = Read(v, hi + 1)
    <3> DEFINE t == TokenAt(ts, hi + 1)
    <3>1. Binding(t) \in 1 .. 8
      BY BindsBinary
    <3>2. Binding(t) # 7 /\ Done(t, 8)
      BY <2>4, <3>1 DEF Done
    <3>3. base = Read(v, hi + 1)
      BY <2>2, <3>2, Zenon DEF Consumed
    <3>4. base.ok /\ base.p = hi + 1
      BY <3>3, ReadIs
    <3>5. t # "**"
      BY <3>2, PowerBinds
    <3>6. Power(ts, L, lo) = base
      BY <3>4, <3>5, Zenon DEF Power, UnaryLevel
    <3> QED BY <1>3, <3>3, <3>6
  <2> QED BY <1>2, <2>3, <2>4, Zenon DEF Consumed
<1>5. CASE ops # {}
  <2>1. PICK k : BindsLast(ts, ops, k)
    BY <1>1, <1>5, SomeBindsLast
  <2>2. B(k) = 7 /\ ts[k].t = "**"
    <3>1. k \in ops
      BY <2>1, Zenon DEF BindsLast
    <3>2. B(k) >= 7
      BY <3>1, Zenon DEF Meaningful
    <3>3. ts[k].t \in BinaryOps
      <4>1. lo \in Int /\ hi \in Int
        BY <1>1
      <4> QED BY <3>1, <4>1, InfixParts
    <3>4. B(k) \in 1 .. 8 /\ B(k) < 8
      BY <3>3, BindsBinary
    <3>5. B(k) = 7
      <4> HIDE DEF B
      <4> QED BY <3>2, <3>4
    <3> QED BY <3>5, PowerBinds
  <2> DEFINE a == M[<<lo, k - 1>>].v
             b == M[<<k + 1, hi>>].v
  <2>3. /\ k \in Nat /\ lo < k /\ k <= hi /\ lo <= k + 1 /\ lo < k + 1 /\ k - 1 <= hi /\ k - 1 < hi
        /\ Meaningful(ts, M, 8, lo, k - 1) /\ Meaningful(ts, M, 7, k + 1, hi)
        /\ M[<<lo, hi>>] = Apply(ts[k].t, a, b)
    <3>1. BindsLast(ts, Infix(ts, lo, hi), k) /\ Binding(ts[k].t) = 7
      BY <2>1, <2>2
    <3>2. Parted(ts, M, 7, lo, k, hi)
      BY <1>2, <3>1, MeaningfulJoined
    <3> QED BY <1>2, <3>2, Zenon DEF Parted
  <2>5. Consumed(ts, L, M, 8, lo, k - 1)
    BY <1>2, <2>3, ConsumedLower
  <2>6. Consumed(ts, L, M, 7, k + 1, hi)
    BY <1>2, <2>3, ConsumedLower
  <2>7. a \in Num /\ b \in Num
    BY <2>5, <2>6, Zenon DEF Consumed
  <2>8. (k - 1) + 1 = k /\ TokenAt(ts, k) = "**"
    BY <1>1, <2>2, <2>3 DEF TokenAt
  <2>9. Apply("**", a, b).ok /\ Apply("**", a, b).v = v
    <3> HIDE DEF a, b
    <3> QED BY <1>1, <2>2, <2>3
  <2>10. v \in Num
    <3>1. "**" \in BinaryOps
      BY DEF BinaryOps
    <3> HIDE DEF a, b, v
    <3> QED BY <2>7, <2>9, <3>1, ApplyNum
  <2>11. base = Read(a, k)
    <3>1. Done(TokenAt(ts, (k - 1) + 1), 8)
      <4>1. Binding("**") < 8
        BY DEF Binding
      <4> QED BY <2>8, <4>1 DEF Done
    <3>2. base = Read(a, (k - 1) + 1)
      BY <2>5, <3>1, Zenon DEF Consumed
    <3> QED BY <2>8, <3>2
  <2>12. ASSUME Done(TokenAt(ts, hi + 1), 7) PROVE L[<<7, lo, Start>>] = Read(v, hi + 1)
    <3> DEFINE exp == L[<<7, k + 1, Start>>]
    <3>1. exp = Read(b, hi + 1)
      BY <2>6, <2>12, Zenon DEF Consumed
    <3>2. exp.ok /\ exp.v = b /\ exp.p = hi + 1 /\ base.ok /\ base.v = a /\ base.p = k
      BY <2>11, <3>1, ReadIs
    <3> HIDE DEF a, b, v
    <3>3. Power(ts, L, lo) = Then(Apply("**", a, b), hi + 1)
      BY <2>8, <3>2, Zenon DEF Power, UnaryLevel, PowerLevel
    <3>4. Then(Apply("**", a, b), hi + 1) = Read(v, hi + 1)
      BY <2>9, Zenon DEF Then
    <3> QED BY <1>3, <3>3, <3>4
  <2> QED BY <1>2, <2>10, <2>12, Zenon DEF Consumed
<1> QED BY <1>4, <1>5

\* So does that of the signs, brackets and operands, whatever follows.
LEMMA ConsumedUnary ==
  ASSUME NEW S, NEW ts \in Seq(S), NEW table, Literals(ts), Numbers(table), NEW L,
         IsTable(ts, table, L), NEW M, IsMeaning(ts, table, M),
         NEW lo, NEW hi, Meaningful(ts, M, 8, lo, hi),
         ConsumedBelow(ts, L, M, Weight(8, lo, hi))
  PROVE  Consumed(ts, L, M, 8, lo, hi)
<1> DEFINE v == M[<<lo, hi>>].v
           t == ts[lo].t
<1>1. /\ lo \in Nat /\ hi \in Nat /\ 1 <= lo /\ lo <= hi /\ <<lo, hi>> \in Stretches(ts)
      /\ M[<<lo, hi>>].ok /\ M[<<lo, hi>>] = MeaningAt(ts, table, M, lo, hi)
      /\ lo \in 1 .. Len(ts) + 1 /\ hi + 1 \in 1 .. Len(ts) + 1 /\ hi <= Len(ts) /\ Len(ts) \in Nat
  BY MeaningfulIs
<1>2. /\ 1 \in 1 .. 8 /\ 8 \in 1 .. 8 /\ ~(8 <= 6) /\ hi <= hi /\ lo <= lo + 1 /\ lo < lo + 1
      /\ lo <= Len(ts) /\ lo \in 1 .. Len(ts) /\ hi - 1 <= hi /\ hi - 1 < hi
  BY <1>1
<1>3. Infix(ts, lo, hi) = {}
  <2> SUFFICES ASSUME NEW j \in Infix(ts, lo, hi) PROVE FALSE
    OBVIOUS
  <2>1. lo \in Int /\ hi \in Int
    BY <1>1
  <2>2. ts[j].t \in BinaryOps
    BY <2>1, InfixParts
  <2>3. Binding(ts[j].t) \in 1 .. 8 /\ Binding(ts[j].t) < 8
    BY <2>2, BindsBinary
  <2>4. Binding(ts[j].t) >= 8
    BY Zenon DEF Meaningful
  <2> QED BY <2>3, <2>4
<1>4. L[<<8, lo, Start>>] = Unary(ts, table, L, lo)
  BY <1>1, TableAt
<1>5. TokenAt(ts, lo) = t
  BY <1>2 DEF TokenAt
<1>6. \A u : Done(u, 8)
  <2> SUFFICES ASSUME NEW u PROVE Done(u, 8)
    OBVIOUS
  <2>1. Binding(u) \in 1 .. 8
    BY BindsBinary
  <2> QED BY <2>1 DEF Done
<1>7. ASSUME v \in Num, Unary(ts, table, L, lo) = Read(v, hi + 1) PROVE Consumed(ts, L, M, 8, lo, hi)
  <2>1. L[<<8, lo, Start>>] = Read(v, hi + 1)
    BY <1>4, <1>7
  <2> QED BY <1>2, <1>7, <2>1, Zenon DEF Consumed
<1>8. ~Fails.ok
  BY DEF Fails
<1>9. CASE t \in {"-", "~"}
  <2> DEFINE a == M[<<lo + 1, hi>>].v
  <2>1. MeaningAt(ts, table, M, lo, hi)
          = IF M[<<lo + 1, hi>>].ok THEN Negated(t, a) ELSE Fails
    BY <1>1, <1>3, <1>9, MeaningSigned
  <2>2. M[<<lo + 1, hi>>].ok /\ M[<<lo, hi>>] = Negated(t, a)
    BY <1>1, <1>8, <2>1, Zenon
  <2>3. Infix(ts, lo + 1, hi) = {}
    <3>1. lo \in Int /\ hi \in Int
      BY <1>1
    <3> QED BY <1>1, <1>3, <1>9, <3>1, InfixSigned
  <2>4. <<lo + 1, hi>> \in Stretches(ts)
    BY <1>1, StretchIs
  <2>5. Meaningful(ts, M, 8, lo + 1, hi)
    BY <2>2, <2>3, <2>4, Zenon DEF Meaningful
  <2>6. Consumed(ts, L, M, 8, lo + 1, hi)
    BY <1>2, <2>5, ConsumedLower
  <2>7. a \in Num /\ L[<<8, lo + 1, Start>>] = Read(a, hi + 1)
    BY <1>6, <2>6, Zenon DEF Consumed
  <2>8. v \in Num
    BY <1>1, <2>2, <2>7, NegatedNum
  <2> DEFINE arg == L[<<8, lo + 1, Start>>]
  <2>9. arg.ok /\ arg.v = a /\ arg.p = hi + 1
    BY <2>7, ReadIs
  <2>10. Unary(ts, table, L, lo) = Then(Negated(t, a), hi + 1)
    <3> HIDE DEF a
    <3>1. Unary(ts, table, L, lo) = IF arg.ok THEN Then(Negated(t, arg.v), arg.p) ELSE Fails
      BY <1>5, <1>9 DEF Unary, UnaryLevel
    <3> HIDE DEF arg
    <3> QED BY <2>9, <3>1
  <2>11. Then(Negated(t, a), hi + 1) = Read(v, hi + 1)
    <3>1. Negated(t, a).ok /\ Negated(t, a).v = v
      BY <1>1, <2>2
    <3> HIDE DEF a, v, t
    <3> QED BY <3>1, Zenon DEF Then
  <2> QED BY <1>7, <2>8, <2>10, <2>11
<1>10. CASE Bracketed(ts, lo, hi)
  <2>1. t = "(" /\ ts[hi].t = ")"
    BY <1>10 DEF Bracketed
  <2>2. lo < hi /\ \A f, Of : MeaningAt(ts, f, Of, lo, hi) = Of[<<lo + 1, hi - 1>>]
    BY <1>1, <1>3, <1>10, MeaningBracketed
  <2>3. M[<<lo, hi>>] = M[<<lo + 1, hi - 1>>] /\ M[<<lo + 1, hi - 1>>].ok
    BY <1>1, <2>2, Zenon
  <2>4. <<lo + 1, hi - 1>> \in Stretches(ts)
    BY <1>1, <2>2, StretchIs
  <2>5. \A k : Binding(ts[k].t) >= 1
    <3> SUFFICES ASSUME NEW k PROVE Binding(ts[k].t) >= 1
      OBVIOUS
    <3>1. Binding(ts[k].t) \in 1 .. 8
      BY BindsBinary
    <3> QED BY <3>1
  <2>6. Meaningful(ts, M, 1, lo + 1, hi - 1)
    BY <2>3, <2>4, <2>5, Zenon DEF Meaningful
  <2>7. Consumed(ts, L, M, 1, lo + 1, hi - 1)
    BY <1>2, <2>6, ConsumedLower
  <2>8. (hi - 1) + 1 = hi /\ TokenAt(ts, hi) = ")" /\ Done(")", 1)
    BY <1>1, <2>1 DEF TokenAt, Done, Binding
  <2>9. v \in Num /\ L[<<1, lo + 1, Start>>] = Read(v, hi)
    <3>1. Done(TokenAt(ts, (hi - 1) + 1), 1)
      BY <2>8
    <3>2. L[<<1, lo + 1, Start>>] = Read(M[<<lo + 1, hi - 1>>].v, (hi - 1) + 1)
      BY <2>7, <3>1, Zenon DEF Consumed
    <3>3. M[<<lo + 1, hi - 1>>].v \in Num
      BY <2>7, Zenon DEF Consumed
    <3> QED BY <2>3, <2>8, <3>2, <3>3
  <2> DEFINE inner == L[<<1, lo + 1, Start>>]
  <2>10. inner.ok /\ inner.v = v /\ inner.p = hi
    BY <2>9, ReadIs
  <2>11. Unary(ts, table, L, lo) = Read(v, hi + 1)
    <3> HIDE DEF v
    <3>1. Unary(ts, table, L, lo) = IF inner.ok /\ TokenAt(ts, inner.p) = ")"
                                    THEN Read(inner.v, inner.p + 1) ELSE Fails
      BY <1>5, <2>1 DEF Unary, UnaryLevel
    <3> HIDE DEF inner
    <3> QED BY <2>8, <2>10, <3>1
  <2> QED BY <1>7, <2>9, <2>11
<1>11. CASE t \notin {"-", "~"} /\ ~Bracketed(ts, lo, hi)
  <2>1. MeaningAt(ts, table, M, lo, hi) = Single(ts, table, lo, hi)
    BY <1>1, <1>3, <1>11, MeaningSingle
  <2>2. Single(ts, table, lo, hi).ok /\ v = Single(ts, table, lo, hi).v
    BY <1>1, <2>1
  <2>3. /\ ~(lo < hi)
        /\ \/ t \in {"num", "raw"} /\ v = ts[lo].v
           \/ t = "id" /\ t \notin {"num", "raw"} /\ ts[lo].s \in DOMAIN table /\ v = table[ts[lo].s]
    <3> HIDE DEF v
    <3> QED BY <1>8, <2>2 DEF Single, Gives, IsId
  <2>4. hi = lo
    BY <1>1, <2>3
  <2>5. v \in Num
    <3>1. t \in {"num", "raw"} => ts[lo].v \in Num
      BY <1>2, Zenon DEF Literals
    <3>2. ts[lo].s \in DOMAIN table => table[ts[lo].s] \in Num
      BY Zenon DEF Numbers
    <3> HIDE DEF v, t
    <3> QED BY <2>3, <3>1, <3>2, Zenon
  <2>6. Unary(ts, table, L, lo) = Read(v, lo + 1)
    <3> HIDE DEF v
    <3>1. CASE t \in {"num", "raw"} /\ v = ts[lo].v
      BY <1>5, <3>1 DEF Unary
    <3>2. CASE t = "id" /\ ts[lo].s \in DOMAIN table /\ v = table[ts[lo].s]
      BY <1>5, <3>2 DEF Unary
    <3> QED BY <2>3, <3>1, <3>2
  <2> QED BY <1>7, <2>4, <2>5, <2>6
<1> QED BY <1>9, <1>10, <1>11

\* Eval reads every operand.
LEMMA TableConsumes ==
  ASSUME OperatorsGiveNumbers, NEW S, NEW ts \in Seq(S), NEW table, Literals(ts), Numbers(table),
         NEW L, IsTable(ts, table, L), NEW M, IsMeaning(ts, table, M)
  PROVE  \A l, lo, hi : l \in 1 .. 8 /\ Meaningful(ts, M, l, lo, hi) => Consumed(ts, L, M, l, lo, hi)
<1>1. ASSUME NEW l \in 1 .. 8, NEW lo, NEW hi, Meaningful(ts, M, l, lo, hi)
      PROVE  Weight(l, lo, hi) \in Nat /\ Weight(l, lo, hi) < 8 * Len(ts) + 8
  <2>1. lo \in Nat /\ hi \in Nat /\ 1 <= lo /\ lo <= hi /\ hi <= Len(ts) /\ Len(ts) \in Nat
    BY <1>1, MeaningfulIs
  <2> DEFINE n == Len(ts)
  <2> HIDE DEF n
  <2>2. 8 * (hi - lo) + (8 - l) \in Nat /\ 8 * (hi - lo) + (8 - l) < 8 * n + 8
    BY <2>1 DEF n
  <2> QED BY <2>2 DEF Weight, n
<1> DEFINE A == {w \in Nat : ConsumedBelow(ts, L, M, w)}
<1>2. 0 \in A
  <2>1. ASSUME NEW l, NEW lo, NEW hi, l \in 1 .. 8, Meaningful(ts, M, l, lo, hi)
        PROVE  ~(Weight(l, lo, hi) < 0)
    BY <1>1, <2>1
  <2>2. ConsumedBelow(ts, L, M, 0)
    BY <2>1, Zenon DEF ConsumedBelow
  <2> QED BY <2>2
<1>3. ASSUME NEW w \in Nat, w \in A PROVE w + 1 \in A
  <2>1. ASSUME NEW l, NEW lo, NEW hi, l \in 1 .. 8, Meaningful(ts, M, l, lo, hi),
               Weight(l, lo, hi) < w + 1
        PROVE  Consumed(ts, L, M, l, lo, hi)
    <3> DEFINE u == Weight(l, lo, hi)
    <3>1. u \in Nat /\ u <= w
      BY <1>1, <2>1
    <3>2. ConsumedBelow(ts, L, M, u)
      <4> HIDE DEF u
      <4>1. ASSUME NEW m, NEW i, NEW j, m \in 1 .. 8, Meaningful(ts, M, m, i, j), Weight(m, i, j) < u
            PROVE  Consumed(ts, L, M, m, i, j)
        <5>1. Weight(m, i, j) \in Nat
          BY <1>1, <4>1
        <5>2. Weight(m, i, j) < w
          BY <3>1, <4>1, <5>1
        <5> QED BY <1>3, <4>1, <5>2, Zenon DEF ConsumedBelow
      <4> QED BY <4>1, Zenon DEF ConsumedBelow
    <3>3. l \in 1 .. 6 \/ l = 7 \/ l = 8
      BY <2>1
    <3> QED BY <2>1, <3>2, <3>3, ConsumedAcross, ConsumedPower, ConsumedUnary
  <2>2. ConsumedBelow(ts, L, M, w + 1)
    BY <2>1, Zenon DEF ConsumedBelow
  <2> QED BY <2>2
<1>4. Nat \subseteq A
  <2> HIDE DEF A
  <2> QED BY <1>2, <1>3, Induct
<1>5. ConsumedBelow(ts, L, M, 8 * Len(ts) + 8)
  <2>1. 8 * Len(ts) + 8 \in Nat
    OBVIOUS
  <2> QED BY <1>4, <2>1
<1> QED BY <1>1, <1>5, Zenon DEF ConsumedBelow

-----------------------------------------------------------------------------
(* Expressions evaluate to what they mean.                                 *)

\* An expression evaluates exactly if it has a meaning, and to that.
THEOREM EvalMeans ==
  ASSUME OperatorsGiveNumbers, NEW S, NEW ts \in Seq(S), NEW table, Literals(ts), Numbers(table)
  PROVE  /\ Eval(ts, table).ok <=> Meaning(ts, table).ok
         /\ Eval(ts, table).ok => Meaning(ts, table) = Eval(ts, table)
<1> DEFINE n == Len(ts)
           whole(L) == L[<<1, 1, Start>>]
<1>1. PICK L : /\ IsTable(ts, table, L)
               /\ Eval(ts, table) = IF whole(L).ok /\ whole(L).p = n + 1 THEN Gives(whole(L).v) ELSE Fails
  BY EvalReads
<1>2. PICK M : IsMeaning(ts, table, M) /\ Meaning(ts, table) = M[<<1, n>>]
  BY MeaningReads
<1> DEFINE r == L[<<1, 1, Start>>]
<1>3. /\ n \in Nat /\ 1 \in 1 .. 8 /\ 1 \in 1 .. n + 1 /\ Start \in Num \cup {Start} /\ 1 <= 6
      /\ (n + 1) - 1 = n /\ 1 \in Nat /\ 1 <= 1 /\ 1 <= n + 1 /\ n <= n
  OBVIOUS
<1>4. ~Fails.ok /\ \A v : Gives(v).ok
  BY DEF Fails, Gives
<1>5. ASSUME Eval(ts, table).ok PROVE Meaning(ts, table) = Eval(ts, table) /\ Meaning(ts, table).ok
  <2>1. r.ok /\ r.p = n + 1 /\ Eval(ts, table) = Gives(r.v)
    BY <1>1, <1>4, <1>5
  <2>2. PICK v \in Num, q \in 1 .. n + 1 : r = Read(v, q) /\ 1 < q
    BY <1>1, <1>3, <2>1, StartReads
  <2>3. r.v = v /\ q = n + 1
    <3> HIDE DEF r, n
    <3> QED BY <2>1, <2>2, ReadIs
  <2>4. Asked(ts, 1, 1, Start)
    BY <1>3, Zenon DEF Asked
  <2>5. SoundAt(ts, L, M, 1, 1, Start)
    BY <1>1, <1>2, <2>4, TableSound
  <2>6. Reads(ts, M, 1, 1, q, v)
    BY <2>2, <2>5, SoundStart
  <2>7. M[<<1, q - 1>>] = Gives(v)
    BY <2>6, Zenon DEF Reads
  <2>8. q - 1 = n
    BY <1>3, <2>3
  <2> HIDE DEF r, n
  <2> QED BY <1>2, <1>4, <2>1, <2>3, <2>7, <2>8
<1>6. ASSUME Meaning(ts, table).ok PROVE Eval(ts, table).ok
  <2>1. <<1, n>> \in Stretches(ts)
    BY <1>3, StretchIs
  <2>2. \A k : Binding(ts[k].t) >= 1
    <3> SUFFICES ASSUME NEW k PROVE Binding(ts[k].t) >= 1
      OBVIOUS
    <3>1. Binding(ts[k].t) \in 1 .. 8
      BY BindsBinary
    <3> QED BY <3>1
  <2>3. Meaningful(ts, M, 1, 1, n)
    BY <1>2, <1>6, <2>1, <2>2, Zenon DEF Meaningful
  <2>4. Consumed(ts, L, M, 1, 1, n)
    BY <1>1, <1>2, <1>3, <2>3, TableConsumes
  <2>5. Done(TokenAt(ts, n + 1), 1)
    BY <1>3 DEF Done, TokenAt, Binding
  <2>6. r = Read(M[<<1, n>>].v, n + 1)
    BY <2>4, <2>5, Zenon DEF Consumed
  <2>7. r.ok /\ r.p = n + 1
    BY <2>6, ReadIs
  <2> QED BY <1>1, <1>4, <2>7
<1> QED BY <1>5, <1>6

-----------------------------------------------------------------------------
(* Lines.                                                                  *)

\* A source is lines of tokens.
LEMMA SourceType == ASSUME NEW text \in Sources PROVE text \in Seq(Seq(Tokens))
BY AsmAssumption DEF AsmAssumption

\* So is what follows a label on a line.
LEMMA BodyType == ASSUME NEW line \in Seq(Tokens) PROVE Body(line) \in Seq(Tokens)
<1>1. CASE HasLabel(line)
  <2>1. Len(line) >= 2
    BY <1>1 DEF HasLabel
  <2>2. SubSeq(line, 3, Len(line)) \in Seq(Tokens)
    BY <2>1, SubSeqProperties
  <2> QED BY <1>1, <2>2 DEF Body
<1>2. CASE ~HasLabel(line)
  BY <1>2 DEF Body
<1> QED BY <1>1, <1>2

\* A line is a number of instructions.
LEMMA CountType == ASSUME NEW body \in Seq(Tokens) PROVE Count(body) \in Nat
BY DEF Count

\* A directive that names something names it by an identifier of the line.
LEMMA NameType ==
  ASSUME NEW body \in Seq(Tokens), NEW word, Directive(body, word), Named(body, word)
  PROVE  NameOf(body, word) \in Seq(STRING)
<1>1. \A token \in Tokens : IsId(token) => token.s \in Seq(STRING)
  BY AsmAssumption DEF AsmAssumption
<1>2. Len(body) \in Nat /\ Len(body) >= 1 /\ body[1] \in Tokens /\ IsId(body[1])
  BY DEF Directive
<1>3. KeywordFirst(body, word) => body[2] \in Tokens /\ IsId(body[2])
  BY DEF Named
<1> QED BY <1>1, <1>2, <1>3 DEF NameOf

\* A block's three names are different.
LEMMA NamesDiffer ==
  ASSUME NEW name \in Seq(STRING)
  PROVE  /\ Append(name, "#") # name
         /\ Append(name, "^") # name
         /\ Append(name, "#") # Append(name, "^")
<1>1. /\ Len(Append(name, "#")) = Len(name) + 1
      /\ Len(Append(name, "^")) = Len(name) + 1
      /\ Len(name) \in Nat
  OBVIOUS
<1>2. /\ Append(name, "#")[Len(name) + 1] = "#"
      /\ Append(name, "^")[Len(name) + 1] = "^"
  OBVIOUS
<1>3. "#" # "^"
  OBVIOUS
<1>4. Append(name, "#") # Append(name, "^")
  BY <1>2, <1>3
<1>5. Len(name) # Len(name) + 1
  BY <1>1
<1>6. Append(name, "#") # name /\ Append(name, "^") # name
  BY <1>1, <1>5
<1> QED BY <1>4, <1>6

-----------------------------------------------------------------------------
(* Type correctness.                                                       *)

\* TypeOK with what its steps need: the text is one of those assembled, and
\* the instructions form a sequence.
TypeInv == /\ TypeOK
           /\ source \in Sources
           /\ \E S : code \in Seq(S)

\* The line at hand is one of the text's, and so a sequence of tokens.
LEMMA LineType ==
  ASSUME TypeInv, row <= Len(source)
  PROVE  /\ source \in Seq(Seq(Tokens)) /\ Len(source) \in Nat
         /\ row \in 1 .. Len(source) /\ source[row] \in Seq(Tokens)
         /\ Line \in Seq(Tokens)
<1>1. source \in Seq(Seq(Tokens)) /\ Len(source) \in Nat
  BY SourceType DEF TypeInv
<1>2. row \in 1 .. Len(source)
  BY <1>1 DEF TypeInv, TypeOK
<1>3. source[row] \in Seq(Tokens)
  BY <1>1, <1>2
<1> QED BY <1>1, <1>2, <1>3, BodyType DEF Line

\* A step adds names to the table and redefines none.
LEMMA TableGrows == ASSUME Next PROVE Grown(symtab, symtab')
<1>1. symtab' = symtab => Grown(symtab, symtab')
  BY DEF Grown
<1>2. ASSUME Label, symtab' # symtab PROVE Grown(symtab, symtab')
  <2> DEFINE g == [x \in {source[row][1].s} |-> IntOf(Len(pending))]
  <2>1. symtab' = Over(symtab, g) /\ source[row][1].s \notin DOMAIN symtab
    BY <1>2 DEF Label, Fail, Definable
  <2>2. DOMAIN symtab \cap DOMAIN g = {}
    BY <2>1
  <2> QED BY <2>1, <2>2, OverGrows
<1>3. ASSUME Equ, symtab' # symtab PROVE Grown(symtab, symtab')
  <2> DEFINE g == [x \in {NameOf(Line, "EQU")} |-> Eval(ValueOf(Line), symtab).v]
  <2>1. symtab' = Over(symtab, g) /\ NameOf(Line, "EQU") \notin DOMAIN symtab
    BY <1>3 DEF Equ, Fail, Definable
  <2>2. DOMAIN symtab \cap DOMAIN g = {}
    BY <2>1
  <2> QED BY <2>1, <2>2, OverGrows
<1>4. ASSUME Mem, symtab' # symtab PROVE Grown(symtab, symtab')
  <2> DEFINE name  == NameOf(Line, "MEM")
             names == {name, Append(name, "#"), Append(name, "^")}
             block == Block(mem_end, Eval(ValueOf(Line), symtab).v.n)
             g == [x \in names |-> IntOf(CASE x = name -> block.start
                                            [] x = Append(name, "#") -> block.end
                                            [] x = Append(name, "^") ->
                                 block.start + Eval(ValueOf(Line), symtab).v.n \div 2)]
  <2>1. symtab' = Over(symtab, g) /\ \A x \in names : x \notin DOMAIN symtab
    BY <1>4 DEF Mem, Fail, Definable
  <2>2. DOMAIN g = names
    OBVIOUS
  <2> HIDE DEF g, names
  <2>3. DOMAIN symtab \cap DOMAIN g = {}
    BY <2>1, <2>2
  <2> QED BY <2>1, <2>3, OverGrows
<1>5. ASSUME Blank \/ BadLine \/ Instruction \/ EndPass1 \/ Emit \/ Finish
      PROVE  symtab' = symtab
  BY <1>5 DEF Blank, BadLine, Instruction, EndPass1, Emit, Finish, Fail
<1> QED BY <1>1, <1>2, <1>3, <1>4, <1>5 DEF Next

\* The labels already in the table stay integers.
LEMMA LabelsStay ==
  ASSUME TypeInv, Next, labels' = labels
  PROVE  \A x \in labels' : x \in DOMAIN symtab' /\ symtab'[x] \in IntNum
BY TableGrows DEF Grown, TypeInv, TypeOK

\* What a failing step leaves behind.
LEMMA FailType == ASSUME TypeInv, Fail PROVE TypeInv'
BY DEF TypeInv, TypeOK, Fail

\* Label puts an integer in the table, and the name among the labels.
LEMMA LabelType == ASSUME TypeInv, Label PROVE TypeInv'
<1>1. CASE Fail
  BY <1>1, FailType
<1>2. CASE ~Fail
  <2> DEFINE name == source[row][1].s
             g == [x \in {name} |-> IntOf(Len(pending))]
  <2>1. /\ name \notin DOMAIN symtab
        /\ symtab' = Over(symtab, g) /\ labels' = labels \cup {name}
        /\ labelled' = TRUE
        /\ UNCHANGED <<source, phase, row, mem_end, pending, code>>
    BY <1>2 DEF Label, Definable
  <2>2. Len(pending) \in Nat
    BY DEF TypeInv, TypeOK
  <2>3. IntOf(Len(pending)) \in IntNum
    BY <2>2, WrapType DEF IntOf, IntNum
  <2>4. g[name] \in IntNum /\ DOMAIN g = {name}
    BY <2>3
  <2> HIDE DEF g, name
  <2>5. Grown(symtab, symtab')
    <3>1. Next
      BY DEF Next
    <3> QED BY <3>1, TableGrows
  <2>6. symtab'[name] \in IntNum /\ name \in DOMAIN symtab'
    <3>1. /\ DOMAIN Over(symtab, g) = DOMAIN symtab \cup DOMAIN g
          /\ \A x \in DOMAIN g : Over(symtab, g)[x] = g[x]
      BY OverHas
    <3>2. symtab' = Over(symtab, g)
      BY <2>1
    <3>3. name \in DOMAIN g
      BY <2>4
    <3> QED BY <3>1, <3>2, <3>3, <2>4, Zenon
  <2>7. \A x \in labels' : x \in DOMAIN symtab' /\ symtab'[x] \in IntNum
    BY <2>1, <2>5, <2>6 DEF Grown, TypeInv, TypeOK
  <2> QED BY <2>1, <2>7 DEF TypeInv, TypeOK
<1> QED BY <1>1, <1>2

\* A line read leaves the reading of the next one well-typed.
LEMMA NextLineType ==
  ASSUME TypeInv, row <= Len(source), NextLine, labels' = labels, pending' = pending, Next,
         mem_end' \in -IntMax .. DelayLen + 1
  PROVE  TypeInv'
<1>1. Len(source) \in Nat /\ row \in 1 .. Len(source)
  BY LineType
<1>2. row' \in 1 .. Len(source') + 1 /\ labelled' \in BOOLEAN
  <2>1. row' = row + 1 /\ source' = source /\ labelled' = FALSE
    BY DEF NextLine
  <2>2. row + 1 \in 1 .. Len(source) + 1
    BY <1>1
  <2> QED BY <2>1, <2>2
<1>3. \A x \in labels' : x \in DOMAIN symtab' /\ symtab'[x] \in IntNum
  BY LabelsStay
<1> QED BY <1>2, <1>3 DEF TypeInv, TypeOK, NextLine

\* A blank line changes nothing but the row.
LEMMA BlankType == ASSUME TypeInv, Blank PROVE TypeInv'
<1>1. Next /\ NextLine /\ row <= Len(source) /\ UNCHANGED <<symtab, labels, mem_end, pending>>
  BY DEF Next, Blank, At
<1> QED BY <1>1, NextLineType DEF TypeInv, TypeOK

\* EQU defines a new name.
LEMMA EquType == ASSUME TypeInv, Equ PROVE TypeInv'
<1>1. CASE Fail
  BY <1>1, FailType
<1>2. CASE ~Fail
  <2>1. Next /\ NextLine /\ row <= Len(source) /\ UNCHANGED <<labels, mem_end, pending>>
    BY <1>2 DEF Next, Equ, At
  <2> QED BY <2>1, NextLineType DEF TypeInv, TypeOK
<1> QED BY <1>1, <1>2

\* A block never ends past delay RAM, whatever its size.
LEMMA MemType == ASSUME TypeInv, Mem PROVE TypeInv'
<1>1. CASE Fail
  BY <1>1, FailType
<1>2. CASE ~Fail
  <2> DEFINE value == Eval(ValueOf(Line), symtab)
  <2>1. /\ Next /\ NextLine /\ row <= Len(source) /\ UNCHANGED <<labels, pending>>
        /\ value.v \in IntNum
        /\ Block(mem_end, value.v.n).end <= DelayLen
        /\ mem_end' = Block(mem_end, value.v.n).next
    BY <1>2 DEF Next, Mem, At
  <2> HIDE DEF value
  <2>2. value.v.n \in Int /\ mem_end \in Int
    <3>1. value.v.n \in Int
      BY <2>1 DEF IntNum
    <3>2. mem_end \in -IntMax .. DelayLen + 1
      BY DEF TypeInv, TypeOK
    <3> QED BY <3>1, <3>2
  <2>3. /\ Wrap(mem_end + value.v.n) \in -IntMax - 1 .. IntMax
        /\ Wrap(mem_end + value.v.n) <= DelayLen
        /\ mem_end' = Wrap(mem_end + value.v.n) + 1
    <3>1. mem_end + value.v.n \in Int
      BY <2>2
    <3>2. Wrap(mem_end + value.v.n) \in -IntMax - 1 .. IntMax
      BY <3>1, WrapType
    <3>3. /\ Block(mem_end, value.v.n).end = Wrap(mem_end + value.v.n)
          /\ Block(mem_end, value.v.n).next = Wrap(mem_end + value.v.n) + 1
      BY DEF Block
    <3> QED BY <3>2, <3>3, <2>1
  <2>4. IntMax \in Nat /\ DelayLen \in Nat
    BY AsmAssumption, ExprAssumption DEF AsmAssumption, ExprAssumption
  <2>5. mem_end' \in -IntMax .. DelayLen + 1
    BY <2>3, <2>4
  <2> QED BY <2>1, <2>5, NextLineType
<1> QED BY <1>1, <1>2

\* An instruction adds no more lines than a program has room for.
LEMMA InstructionType == ASSUME TypeInv, Instruction PROVE TypeInv'
<1>1. CASE Fail
  BY <1>1, FailType
<1>2. CASE ~Fail
  <2> DEFINE n == Count(Line)
             more == [k \in 1 .. n |-> row]
  <2>1. /\ row <= Len(source) /\ Len(pending) + n <= ProgLen
        /\ pending' = pending \o more
        /\ NextLine /\ UNCHANGED <<symtab, labels, mem_end>>
    BY <1>2 DEF Instruction, At, RoomFor
  <2>2. /\ Len(source) \in Nat /\ row \in 1 .. Len(source) /\ Line \in Seq(Tokens)
    BY <2>1, LineType
  <2>3. n \in Nat
    BY <2>2, CountType
  <2> HIDE DEF n
  <2>4. more \in Seq(1 .. Len(source)) /\ Len(more) = n
    BY <2>2, <2>3
  <2> HIDE DEF more
  <2>5. /\ pending \in Seq(1 .. Len(source))
        /\ pending' \in Seq(1 .. Len(source)) /\ Len(pending') = Len(pending) + n
    <3>1. pending \in Seq(1 .. Len(source))
      BY DEF TypeInv, TypeOK
    <3> QED BY <3>1, <2>1, <2>4, ConcatProperties
  <2>6. row' \in 1 .. Len(source') + 1 /\ labelled' \in BOOLEAN
    <3>1. row' = row + 1 /\ source' = source /\ labelled' = FALSE
      BY <2>1 DEF NextLine
    <3>2. row + 1 \in 1 .. Len(source) + 1
      BY <2>2
    <3> QED BY <3>1, <3>2
  <2>7. Len(code') <= Len(pending')
    <3>1. Len(code) \in Nat
      BY DEF TypeInv
    <3>2. Len(pending) \in Nat
      BY <2>5
    <3> QED BY <3>1, <3>2, <2>1, <2>3, <2>5 DEF TypeInv, TypeOK, NextLine
  <2> QED BY <2>1, <2>5, <2>6, <2>7 DEF TypeInv, TypeOK, NextLine
<1> QED BY <1>1, <1>2

\* The second pass parses one pending line at a time.
LEMMA EmitType == ASSUME TypeInv, Emit PROVE TypeInv'
<1>1. CASE Fail
  BY <1>1, FailType
<1>2. CASE ~Fail
  <2> DEFINE v == Parsed(Len(code)).v
  <2>1. /\ Len(code) < Len(pending) /\ code' = Append(code, v)
        /\ UNCHANGED <<source, phase, row, labelled, symtab, labels, mem_end, pending>>
    BY <1>2 DEF Emit
  <2> HIDE DEF v
  <2>2. PICK S : code \in Seq(S)
    BY DEF TypeInv
  <2>3. code \in Seq(S \cup {v})
    BY <2>2
  <2>4. code' \in Seq(S \cup {v}) /\ Len(code') = Len(code) + 1 /\ Len(code) \in Nat
    BY <2>1, <2>3
  <2>5. Len(pending) \in Nat
    BY DEF TypeInv, TypeOK
  <2>6. Len(code') <= Len(pending')
    BY <2>1, <2>4, <2>5
  <2> QED BY <2>1, <2>4, <2>6 DEF TypeInv, TypeOK
<1> QED BY <1>1, <1>2

\* The types hold of an assembler that has read nothing.
LEMMA TypeInit == ASSUME Init PROVE TypeInv
<1>1. Len(source) \in Nat
  BY SourceType DEF Init
<1>2. IntMax \in Nat /\ DelayLen \in Nat /\ ProgLen \in Nat
  BY AsmAssumption, ExprAssumption DEF AsmAssumption, ExprAssumption
<1>3. code \in Seq({})
  BY DEF Init
<1>4. row \in 1 .. Len(source) + 1 /\ mem_end \in -IntMax .. DelayLen + 1
  BY <1>1, <1>2 DEF Init
<1>5. labelled \in BOOLEAN /\ phase \in {"pass1", "pass2", "done", "failed"} /\ labels = {}
  BY DEF Init
<1>6. pending \in Seq(1 .. Len(source)) /\ Len(pending) <= ProgLen /\ Len(code) <= Len(pending)
  BY <1>2 DEF Init
<1> QED BY <1>3, <1>4, <1>5, <1>6 DEF Init, TypeInv, TypeOK

\* Every step keeps the types.
LEMMA TypeStep == ASSUME TypeInv, [Next]_vars PROVE TypeInv'
<1>1. CASE BadLine
  BY <1>1, FailType DEF BadLine
<1>2. CASE EndPass1
  BY <1>2 DEF EndPass1, TypeInv, TypeOK
<1>3. CASE Finish
  BY <1>3 DEF Finish, TypeInv, TypeOK
<1>4. CASE UNCHANGED vars
  BY <1>4 DEF vars, TypeInv, TypeOK
<1> QED BY <1>1, <1>2, <1>3, <1>4, LabelType, BlankType, EquType, MemType, InstructionType,
           EmitType DEF Next

\* Whatever the text, assembling keeps its types: what MEM has allocated ends
\* at most one word past delay RAM, and the instructions fit a program.
THEOREM AsmTypeInvariant == Spec => []TypeInv
<1>1. Init => TypeInv
  BY TypeInit
<1>2. TypeInv /\ [Next]_vars => TypeInv'
  BY TypeStep
<1> QED BY <1>1, <1>2, PTL DEF Spec

\* Whatever the text, every label is a number of the table, delay memory is
\* never overdrawn by more than a word, and the instructions fit a program.
THEOREM AsmTypeCorrect == Spec => []TypeOK
<1>1. TypeInv => TypeOK
  BY DEF TypeInv
<1> QED BY <1>1, AsmTypeInvariant, PTL

-----------------------------------------------------------------------------
(* MEM blocks lie apart.                                                   *)

NamesOf(name) == {name, Append(name, "#"), Append(name, "^")}

\* BlocksApart with what its steps need: the next block starts in delay RAM or
\* at the word after it, and every block's names are in the table for good.
BlockInv == /\ TypeInv
            /\ BlocksApart
            /\ mem_end \in 0 .. DelayLen + 1
            /\ \A k \in MemLines : /\ NamesOf(MemName(k)) \subseteq DOMAIN symtab
                                   /\ FirstWord(k) \in Int /\ MidWord(k) \in Int
                                   /\ LastWord(k) \in Int

\* A line is a block by its keyword alone.
LEMMA MemKind ==
  ASSUME NEW body, Kind(body) = "mem"
  PROVE  Directive(body, "MEM")
BY DEF Kind

\* The lines with a block whose names a step finds in the table keep them.
LEMMA BlocksKept ==
  ASSUME BlockInv, Next, source' = source
  PROVE  \A k \in MemLines :
           /\ NamesOf(MemName(k))' \subseteq DOMAIN symtab'
           /\ MemName(k)' = MemName(k)
           /\ FirstWord(k)' = FirstWord(k) /\ MidWord(k)' = MidWord(k)
           /\ LastWord(k)' = LastWord(k)
<1> TAKE k \in MemLines
<1>1. Grown(symtab, symtab')
  BY TableGrows
<1>2. MemName(k)' = MemName(k)
  BY DEF MemName
<1>3. NamesOf(MemName(k)) \subseteq DOMAIN symtab
  BY DEF BlockInv
<1>4. /\ MemName(k) \in DOMAIN symtab /\ Append(MemName(k), "#") \in DOMAIN symtab
      /\ Append(MemName(k), "^") \in DOMAIN symtab
  BY <1>3 DEF NamesOf
<1>5. NamesOf(MemName(k))' \subseteq DOMAIN symtab'
  BY <1>1, <1>2, <1>3 DEF Grown, NamesOf
<1>6. /\ FirstWord(k)' = FirstWord(k) /\ MidWord(k)' = MidWord(k)
      /\ LastWord(k)' = LastWord(k)
  BY <1>1, <1>2, <1>4 DEF Grown, FirstWord, MidWord, LastWord
<1> QED BY <1>2, <1>5, <1>6

\* A step past a line of another kind, or within one.
LEMMA OtherLine ==
  ASSUME BlockInv, Next, source' = source, mem_end' = mem_end,
         row' = row \/ (row' = row + 1 /\ row <= Len(source) /\ Kind(Line) # "mem")
  PROVE  BlockInv'
<1>1. TypeInv'
  BY TypeStep DEF BlockInv
<1>2. row \in Nat
  BY SourceType DEF BlockInv, TypeInv, TypeOK
<1>3. MemLines' = MemLines
  BY <1>2 DEF MemLines, Line
<1>4. BlocksApart'
  BY <1>3, BlocksKept DEF BlockInv, BlocksApart
<1> QED BY <1>1, <1>3, <1>4, BlocksKept DEF BlockInv

\* What MEM puts in the table, when the sum of where it starts and its size
\* is an i64.
LEMMA NewBlock ==
  ASSUME BlockInv, SizesFit, Mem, ~Fail, NEW CONSTANT k, k = row
  PROVE  /\ row' = row + 1 /\ row \in 1 .. Len(source) /\ source' = source
         /\ Kind(Line) = "mem"
         /\ mem_end' \in 0 .. DelayLen + 1
         /\ NamesOf(MemName(k))' \subseteq DOMAIN symtab'
         /\ FirstWord(k)' = mem_end
         /\ MidWord(k)' \in Int /\ LastWord(k)' \in Int
         /\ FirstWord(k)' <= MidWord(k)' /\ MidWord(k)' <= LastWord(k)'
         /\ LastWord(k)' < mem_end' /\ LastWord(k)' <= DelayLen
<1> DEFINE value == Eval(ValueOf(Line), symtab)
           size  == value.v.n
           block == Block(mem_end, size)
           name  == NameOf(Line, "MEM")
           names == {name, Append(name, "#"), Append(name, "^")}
           g == [x \in names |-> IntOf(CASE x = name -> block.start
                                         [] x = Append(name, "#") -> block.end
                                         [] x = Append(name, "^") ->
                                              block.start + size \div 2)]
<1>1. /\ At("mem") /\ Named(Line, "MEM") /\ value.ok /\ value.v \in IntNum /\ size >= 0
      /\ block.end <= DelayLen
      /\ symtab' = Over(symtab, g)
      /\ mem_end' = block.next
      /\ row' = row + 1 /\ source' = source
  BY DEF Mem, NextLine
<1>2. Kind(Line) = "mem" /\ row <= Len(source)
  BY <1>1 DEF At
<1>3. row \in 1 .. Len(source) /\ Line \in Seq(Tokens)
  BY <1>2, LineType DEF BlockInv
<1>4. name \in Seq(STRING)
  BY <1>1, <1>2, <1>3, MemKind, NameType
<1>5. size \in Int /\ size <= IntMax - mem_end
  BY <1>1 DEF IntNum, SizesFit
<1>6. /\ mem_end \in Int /\ 0 <= mem_end /\ mem_end <= DelayLen + 1
      /\ IntMax \in Nat /\ DelayLen \in Nat /\ DelayLen < IntMax
  BY AsmAssumption, ExprAssumption DEF AsmAssumption, ExprAssumption, BlockInv
<1> HIDE DEF size, name
<1>7. Wrap(mem_end + size) = mem_end + size
  <2>1. size >= 0
    BY <1>1
  <2>2. /\ mem_end + size \in Int /\ -IntMax - 1 <= mem_end + size
        /\ mem_end + size <= IntMax
    BY <1>5, <1>6, <2>1
  <2> QED BY <2>2, WrapId
<1>8. block.start = mem_end /\ block.end = mem_end + size /\ block.next = mem_end + size + 1
  BY <1>7 DEF Block
<1>9. mem_end + size <= DelayLen
  BY <1>1, <1>8
<1>10. /\ DOMAIN g = names
       /\ g[name] = IntOf(block.start)
       /\ g[Append(name, "#")] = IntOf(block.end)
       /\ g[Append(name, "^")] = IntOf(block.start + size \div 2)
  BY <1>4, NamesDiffer
<1> HIDE DEF g, block
<1>11. /\ DOMAIN symtab' = DOMAIN symtab \cup names
       /\ symtab'[name] = IntOf(block.start)
       /\ symtab'[Append(name, "#")] = IntOf(block.end)
       /\ symtab'[Append(name, "^")] = IntOf(block.start + size \div 2)
  <2>1. /\ DOMAIN Over(symtab, g) = DOMAIN symtab \cup DOMAIN g
        /\ \A x \in DOMAIN g : Over(symtab, g)[x] = g[x]
    BY OverHas
  <2>2. symtab' = Over(symtab, g)
    BY <1>1
  <2> QED BY <2>1, <2>2, <1>10
<1>12. MemName(k)' = name
  BY <1>1 DEF MemName, Line, name
<1>13. /\ 0 <= size \div 2 /\ size \div 2 <= size /\ size \div 2 \in Int
  BY <1>1, <1>5
<1>14. /\ Wrap(mem_end) = mem_end
       /\ Wrap(mem_end + size \div 2) = mem_end + size \div 2
  BY <1>1, <1>5, <1>6, <1>9, <1>13, WrapId
<1>15. /\ IntOf(block.start).n = mem_end
       /\ IntOf(block.end).n = mem_end + size
       /\ IntOf(block.start + size \div 2).n = mem_end + size \div 2
  BY <1>7, <1>8, <1>14 DEF IntOf
<1>16. mem_end' = mem_end + size + 1
  BY <1>1, <1>8
<1>17. /\ FirstWord(k)' = mem_end /\ LastWord(k)' = mem_end + size
       /\ MidWord(k)' = mem_end + size \div 2
  BY <1>11, <1>12, <1>15 DEF FirstWord, MidWord, LastWord
<1>18. NamesOf(MemName(k))' \subseteq DOMAIN symtab'
  BY <1>11, <1>12 DEF NamesOf
<1>19. mem_end' \in 0 .. DelayLen + 1
  BY <1>1, <1>5, <1>6, <1>9, <1>16
<1>20. /\ FirstWord(k)' <= MidWord(k)' /\ MidWord(k)' <= LastWord(k)'
       /\ LastWord(k)' < mem_end' /\ LastWord(k)' <= DelayLen
       /\ MidWord(k)' \in Int /\ LastWord(k)' \in Int
  BY <1>5, <1>6, <1>9, <1>13, <1>16, <1>17
<1> QED BY <1>1, <1>2, <1>3, <1>17, <1>18, <1>19, <1>20

\* A new block starts where the ones before it end.
LEMMA MemBlocks == ASSUME BlockInv, SizesFit, Mem PROVE BlockInv'
<1>1. CASE Fail
  <2>1. Next
    BY DEF Next
  <2> QED BY <1>1, <2>1, OtherLine DEF Fail
<1>2. CASE ~Fail
  <2>1. Next
    BY DEF Next
  <2>2. TypeInv'
    BY <2>1, TypeStep DEF BlockInv
  <2> SUFFICES ASSUME NEW CONSTANT new, new = row
               PROVE  BlockInv'
    OBVIOUS
  <2>3. /\ row' = row + 1 /\ row \in 1 .. Len(source) /\ source' = source
        /\ Kind(Line) = "mem"
        /\ mem_end' \in 0 .. DelayLen + 1
        /\ NamesOf(MemName(new))' \subseteq DOMAIN symtab'
        /\ FirstWord(new)' = mem_end
        /\ MidWord(new)' \in Int /\ LastWord(new)' \in Int
        /\ FirstWord(new)' <= MidWord(new)' /\ MidWord(new)' <= LastWord(new)'
        /\ LastWord(new)' < mem_end' /\ LastWord(new)' <= DelayLen
    BY <1>2, NewBlock
  <2>4. row \in Nat
    BY <2>3, SourceType DEF BlockInv, TypeInv, TypeOK
  <2>5. MemLines' = MemLines \cup {new}
    BY <2>3, <2>4 DEF MemLines, Line
  <2>6. \A k \in MemLines : k \in Int /\ k < new
    BY <2>4 DEF MemLines
  <2>7. mem_end \in Int /\ 0 <= mem_end /\ mem_end' \in Int
    BY <2>3, AsmAssumption DEF BlockInv, AsmAssumption
  <2>8. \A k \in MemLines :
          /\ NamesOf(MemName(k))' \subseteq DOMAIN symtab'
          /\ FirstWord(k)' = FirstWord(k) /\ MidWord(k)' = MidWord(k)
          /\ LastWord(k)' = LastWord(k)
          /\ FirstWord(k) \in Int /\ MidWord(k) \in Int /\ LastWord(k) \in Int
          /\ 0 <= FirstWord(k) /\ FirstWord(k) <= MidWord(k) /\ MidWord(k) <= LastWord(k)
          /\ LastWord(k) < mem_end /\ LastWord(k) <= DelayLen
    BY <2>1, <2>3, BlocksKept DEF BlockInv, BlocksApart
  <2>9. \A j, k \in MemLines : j < k => LastWord(j)' < FirstWord(k)'
    BY <2>8 DEF BlockInv, BlocksApart
  <2>10. mem_end < mem_end'
    BY <2>3, <2>7
  <2>11. \A k \in MemLines' :
           /\ 0 <= FirstWord(k)' /\ FirstWord(k)' <= MidWord(k)'
           /\ MidWord(k)' <= LastWord(k)'
           /\ LastWord(k)' < mem_end' /\ LastWord(k)' <= DelayLen
    <3> TAKE k \in MemLines'
    <3>1. CASE k \in MemLines
      BY <3>1, <2>7, <2>8, <2>10
    <3>2. CASE k = new
      BY <3>2, <2>3, <2>7
    <3> QED BY <3>1, <3>2, <2>5
  <2>12. \A j, k \in MemLines' : j < k => LastWord(j)' < FirstWord(k)'
    <3> TAKE j, k \in MemLines'
    <3> HAVE j < k
    <3>1. CASE j \in MemLines /\ k \in MemLines
      BY <3>1, <2>9
    <3>2. CASE j \in MemLines /\ k = new
      BY <3>2, <2>3, <2>8
    <3>3. j # new
      BY <2>3, <2>4, <2>5, <2>6
    <3> QED BY <3>1, <3>2, <3>3, <2>5
  <2>13. BlocksApart'
    BY <2>11, <2>12 DEF BlocksApart
  <2>14. \A k \in MemLines' : /\ NamesOf(MemName(k))' \subseteq DOMAIN symtab'
                              /\ FirstWord(k)' \in Int /\ MidWord(k)' \in Int
                              /\ LastWord(k)' \in Int
    BY <2>3, <2>5, <2>7, <2>8
  <2> QED BY <2>2, <2>3, <2>13, <2>14 DEF BlockInv
<1> QED BY <1>1, <1>2

\* At first no block is allocated.
LEMMA BlockInit == ASSUME Init PROVE BlockInv
<1>1. MemLines = {}
  BY DEF Init, MemLines
<1>2. mem_end \in 0 .. DelayLen + 1
  BY AsmAssumption DEF AsmAssumption, Init
<1> QED BY <1>1, <1>2, TypeInit DEF BlockInv, BlocksApart

\* Every step keeps the blocks apart.
LEMMA BlockStep == ASSUME BlockInv, SizesFit, [Next]_vars PROVE BlockInv'
<1>1. CASE Mem
  BY <1>1, MemBlocks
<1>2. CASE Label \/ BadLine \/ EndPass1 \/ Emit \/ Finish
  <2>1. Next /\ source' = source /\ mem_end' = mem_end /\ row' = row
    BY <1>2 DEF Next, Label, BadLine, EndPass1, Emit, Finish, Fail
  <2> QED BY <2>1, OtherLine
<1>3. CASE Blank \/ Equ \/ Instruction
  <2>1. /\ Next /\ source' = source /\ mem_end' = mem_end
        /\ row' = row \/ (row' = row + 1 /\ row <= Len(source))
        /\ Kind(Line) \in {"blank", "equ", "instruction"}
    BY <1>3 DEF Next, Blank, Equ, Instruction, NextLine, Fail, At
  <2>2. Kind(Line) # "mem"
    BY <2>1
  <2> QED BY <2>1, <2>2, OtherLine
<1>4. CASE UNCHANGED vars
  <2>1. TypeInv'
    BY <1>4, TypeStep DEF BlockInv
  <2>2. /\ MemLines' = MemLines /\ mem_end' = mem_end
        /\ \A k : /\ MemName(k)' = MemName(k) /\ FirstWord(k)' = FirstWord(k)
                  /\ MidWord(k)' = MidWord(k) /\ LastWord(k)' = LastWord(k)
                  /\ NamesOf(MemName(k))' = NamesOf(MemName(k))
    BY <1>4 DEF vars, MemLines, MemName, FirstWord, MidWord, LastWord, NamesOf
  <2>3. symtab' = symtab
    BY <1>4 DEF vars
  <2> QED BY <2>1, <2>2, <2>3 DEF BlockInv, BlocksApart
<1> QED BY <1>1, <1>2, <1>3, <1>4 DEF Next

\* No two names of delay memory share a word, and every middle is in its block,
\* in any text whose block sizes can be added to where they start.
THEOREM BlocksStayApart == Spec /\ []SizesFit => []BlocksApart
<1>1. Init => BlockInv
  BY BlockInit
<1>2. BlockInv /\ SizesFit /\ [Next]_vars => BlockInv'
  BY BlockStep
<1>3. BlockInv => BlocksApart
  BY DEF BlockInv
<1> QED BY <1>1, <1>2, <1>3, PTL DEF Spec

-----------------------------------------------------------------------------
(* A skip to a label.                                                      *)

\* An instruction that names a label in its target keeps the distance to it.
LEMMA TargetIs ==
  ASSUME NEW name, NEW symtab0, NEW labels0, NEW index, NEW e, name \in labels0,
         SkipTarget(<<Id(name)>>, e, symtab0, labels0, index).ok
  PROVE  SkipTarget(<<Id(name)>>, e, symtab0, labels0, index).v
           = Distance(symtab0[name].n, index)
<1>1. Len(<<Id(name)>>) = 1 /\ <<Id(name)>>[1] = Id(name) /\ IsId(Id(name)) /\ Id(name).s = name
  BY DEF Id, IsId
<1> QED BY <1>1 DEF SkipTarget, Fails, Gives

\* The operand of a target is what SkipTarget makes of it.
LEMMA TargetOperand ==
  ASSUME NEW ts, NEW e, NEW symtab0, NEW labels0, NEW index
  PROVE  Operand("target", ts, e, symtab0, labels0, index)
           = SkipTarget(ts, e, symtab0, labels0, index)
BY DEF Operand, FormatOf, RangeOf, ChoiceOf

\* SKP's second operand and JMP's only one fill the field n.
LEMMA FilledTarget ==
  ASSUME NEW mn \in {"SKP", "JMP"}, NEW groups, NEW symtab0, NEW labels0, NEW index, NEW at,
         at = Len(Form(mn)), Filled(mn, groups, symtab0, labels0, index).ok
  PROVE  /\ SkipTarget(groups[at], Eval(groups[at], symtab0), symtab0, labels0, index).ok
         /\ Filled(mn, groups, symtab0, labels0, index).v.arg.n
              = SkipTarget(groups[at], Eval(groups[at], symtab0), symtab0, labels0, index).v
<1> DEFINE form  == Form(mn)
           value == [k \in 1 .. Len(form) |->
                       Operand(form[k], groups[k], Eval(groups[k], symtab0), symtab0, labels0, index)]
           slot(f) == CHOOSE k \in 1 .. Len(form) : FieldOf[form[k]] = f
           read == [f \in {FieldOf[form[k]] : k \in 1 .. Len(form)} |-> value[slot(f)].v]
           target == SkipTarget(groups[at], Eval(groups[at], symtab0), symtab0, labels0, index)
<1> SUFFICES target.ok /\ Filled(mn, groups, symtab0, labels0, index).v.arg.n = target.v
  OBVIOUS
<1>1. \/ form = <<"cond", "target">> /\ at = 2
      \/ form = <<"target">> /\ at = 1
  BY DEF Form, DelayOps, RegOps, MathOps, MaskOps
<1>2. at \in 1 .. Len(form) /\ form[at] = "target"
  BY <1>1
<1>3. FieldOf["target"] = "n" /\ FieldOf["cond"] = "cond"
  BY DEF FieldOf
<1>4. \A k \in 1 .. Len(form) : FieldOf[form[k]] = "n" <=> k = at
  BY <1>1, <1>3
<1>5. slot("n") = at
  BY <1>2, <1>4
<1>6. value[at] = target
  BY <1>2, TargetOperand
<1>7. "n" \in DOMAIN read
  BY <1>2, <1>4
<1>8. read["n"] = target.v
  BY <1>5, <1>6, <1>7
<1>9. /\ \A k \in 1 .. Len(form) : value[k].ok
      /\ Filled(mn, groups, symtab0, labels0, index).v
           = [op |-> OpFor(mn), arg |-> Over(Given(mn), read)]
  BY DEF Filled, Gives, Fails
<1> HIDE DEF read
<1>10. Over(Given(mn), read)["n"] = read["n"]
  <2>1. \A x \in DOMAIN read : Over(Given(mn), read)[x] = read[x]
    BY OverHas
  <2> QED BY <1>7, <2>1, Zenon
<1>11. Filled(mn, groups, symtab0, labels0, index).v.arg.n = target.v
  BY <1>8, <1>9, <1>10
<1>12. target.ok
  BY <1>2, <1>6, <1>9
<1> QED BY <1>11, <1>12

\* Both skips fill their fields from the operands between commas.
LEMMA ParseFills ==
  ASSUME NEW mn \in {"SKP", "JMP"}, NEW operands, NEW symtab0, NEW labels0, NEW index
  PROVE  Parse(<<mn>>, operands, symtab0, labels0, index)
           = Filled(mn, SplitCommas(operands), symtab0, labels0, index)
<1>1. <<mn>> # <<"CHO">> /\ Len(<<mn>>) = 1 /\ <<mn>>[1] = mn /\ mn # "CHO_RDAL"
  OBVIOUS
<1>2. mn \in Mnemonics
  BY DEF Mnemonics, Ops, ChoOps, Pseudo
<1> QED BY <1>1, <1>2 DEF Parse

\* What an instruction that skips to a label carries.
LEMMA ParsedSkip ==
  ASSUME NEW p \in Nat, NEW name \in labels, JumpsTo(p, name), Parsed(p - 1).ok
  PROVE  Parsed(p - 1).v.arg.n = Distance(symtab[name].n, p - 1)
<1> DEFINE body   == Body(source[pending[p]])
           groups == SplitCommas(Operands1(body))
<1>1. Parsed(p - 1) = Parse(body[1].s, Operands1(body), symtab, labels, p - 1)
  BY DEF Parsed
<1>2. ASSUME NEW mn \in {"SKP", "JMP"}, NEW at, at = Len(Form(mn)),
             body[1].s = <<mn>>, groups[at] = <<Id(name)>>
      PROVE  Parsed(p - 1).v.arg.n = Distance(symtab[name].n, p - 1)
  <2> HIDE DEF body
  <2>1. Parsed(p - 1) = Filled(mn, groups, symtab, labels, p - 1)
    BY <1>1, <1>2, ParseFills
  <2> HIDE DEF groups
  <2> DEFINE target == SkipTarget(<<Id(name)>>, Eval(<<Id(name)>>, symtab), symtab, labels, p - 1)
  <2>2. target.ok /\ Filled(mn, groups, symtab, labels, p - 1).v.arg.n = target.v
    <3> DEFINE there == SkipTarget(groups[at], Eval(groups[at], symtab), symtab, labels, p - 1)
    <3>1. Filled(mn, groups, symtab, labels, p - 1).ok
      BY <2>1
    <3>2. mn \in {"SKP", "JMP"} /\ at = Len(Form(mn))
      BY <1>2
    <3>3. \A gs, tab, labs, index :
            Filled(mn, gs, tab, labs, index).ok =>
              /\ SkipTarget(gs[at], Eval(gs[at], tab), tab, labs, index).ok
              /\ Filled(mn, gs, tab, labs, index).v.arg.n
                   = SkipTarget(gs[at], Eval(gs[at], tab), tab, labs, index).v
      BY <3>2, FilledTarget
    <3>4. there.ok /\ Filled(mn, groups, symtab, labels, p - 1).v.arg.n = there.v
      BY <3>1, <3>3, Zenon
    <3>5. there = target
      BY <1>2
    <3> HIDE DEF there, target
    <3> QED BY <3>4, <3>5
  <2>3. target.v = Distance(symtab[name].n, p - 1)
    BY <2>2, TargetIs
  <2> QED BY <2>1, <2>2, <2>3
<1>3. Len(Form("SKP")) = 2 /\ Len(Form("JMP")) = 1
  BY DEF Form, DelayOps, RegOps, MathOps, MaskOps
<1>4. \/ body[1].s = <<"SKP">> /\ groups[2] = <<Id(name)>>
      \/ body[1].s = <<"JMP">> /\ groups[1] = <<Id(name)>>
  BY DEF JumpsTo
<1> HIDE DEF body, groups
<1> QED BY <1>2, <1>3, <1>4

-----------------------------------------------------------------------------
(* Skips land.                                                             *)

\* A label whose line has been reached, with the line's own label taken off.
Reached(k) == k < row \/ (k = row /\ labelled)

\* The value of a label counts the instructions of the lines before its own.
Counts(k) ==
  /\ LabelName(k) \in labels
  /\ symtab[LabelName(k)].n \in 0 .. Len(pending)
  /\ \A q \in 1 .. Len(pending) : pending[q] < k <=> q <= symtab[LabelName(k)].n

\* What a label counts stays so until the program is built, and the program is
\* the parsed lines.
SkipInv == /\ TypeInv
           /\ \A k \in 1 .. Len(source) : HasLabel(source[k]) /\ Reached(k) => Counts(k)
           /\ \A q \in 1 .. Len(pending) : pending[q] < row
           /\ phase = "pass1" => code = <<>>
           /\ code # <<>> \/ phase \in {"pass2", "done"} => row = Len(source) + 1
           /\ \A p \in 1 .. Len(code) : Parsed(p - 1).ok /\ code[p] = Parsed(p - 1).v

\* A step that adds no instruction and reaches no label.
LEMMA SameLabels ==
  ASSUME SkipInv, Next, source' = source, pending' = pending, labels \subseteq labels',
         NEW CONSTANT k, Counts(k)
  PROVE  Counts(k)'
<1>1. Grown(symtab, symtab')
  BY TableGrows
<1>2. LabelName(k)' = LabelName(k)
  BY DEF LabelName
<1>3. LabelName(k) \in DOMAIN symtab
  BY DEF Counts, SkipInv, TypeInv, TypeOK
<1>4. symtab'[LabelName(k)] = symtab[LabelName(k)]
  BY <1>1, <1>3 DEF Grown
<1> QED BY <1>2, <1>4 DEF Counts

\* A step that leaves the first pass's results alone.
LEMMA Frozen ==
  ASSUME SkipInv, UNCHANGED <<source, row, labelled, symtab, labels, pending>>
  PROVE  /\ \A k \in 1 .. Len(source') : HasLabel(source'[k]) /\ Reached(k)' => Counts(k)'
         /\ \A q \in 1 .. Len(pending') : pending'[q] < row'
         /\ \A p : Parsed(p - 1)' = Parsed(p - 1)
<1>1. \A k : Counts(k)' = Counts(k) /\ Reached(k)' = Reached(k)
  BY DEF Counts, Reached, LabelName
<1>2. \A p : Parsed(p - 1)' = Parsed(p - 1)
  BY DEF Parsed
<1> QED BY <1>1, <1>2 DEF SkipInv

\* An error leaves all as it was.
LEMMA FailSkips == ASSUME SkipInv, Fail, TypeInv' PROVE SkipInv'
BY Frozen DEF SkipInv, Fail

\* The line at hand has been read and has added no instruction.
LEMMA LineSkips ==
  ASSUME SkipInv, Next, TypeInv', NextLine, phase = "pass1", row <= Len(source),
         HasLabel(source[row]) => labelled, labels' = labels, pending' = pending
  PROVE  SkipInv'
<1>1. source' = source /\ row' = row + 1 /\ labelled' = FALSE /\ phase' = phase /\ code' = code
  BY DEF NextLine
<1>2. Len(source) \in Nat /\ row \in 1 .. Len(source)
  BY LineType DEF SkipInv
<1>3. \A k \in 1 .. Len(source) : HasLabel(source[k]) /\ Reached(k)' => Counts(k)
  BY <1>1, <1>2 DEF SkipInv, Reached
<1>4. \A k \in 1 .. Len(source) : HasLabel(source[k]) /\ Reached(k)' => Counts(k)'
  BY <1>1, <1>3, SameLabels
<1>5. \A q \in 1 .. Len(pending) : pending[q] \in Int /\ pending[q] < row
  BY <1>2 DEF SkipInv, TypeInv, TypeOK
<1>6. \A q \in 1 .. Len(pending') : pending'[q] < row'
  BY <1>1, <1>2, <1>5
<1>7. code' = <<>>
  BY <1>1 DEF SkipInv
<1> QED BY <1>1, <1>4, <1>6, <1>7 DEF SkipInv

\* A label takes the index of the instruction that follows it.
LEMMA LabelSkips == ASSUME SkipInv, Label, TypeInv' PROVE SkipInv'
<1>1. CASE Fail
  BY <1>1, FailSkips
<1>2. CASE ~Fail
  <2> DEFINE name == source[row][1].s
             g == [x \in {name} |-> IntOf(Len(pending))]
  <2>1. /\ name \notin DOMAIN symtab
        /\ symtab' = Over(symtab, g) /\ labels' = labels \cup {name}
        /\ labelled' = TRUE /\ row <= Len(source) /\ phase = "pass1"
        /\ UNCHANGED <<source, phase, row, mem_end, pending, code>>
    BY <1>2 DEF Label, Definable
  <2>2. Next
    BY DEF Next
  <2>3. Len(source) \in Nat /\ row \in 1 .. Len(source)
    BY <2>1, LineType DEF SkipInv
  <2>4. /\ pending \in Seq(1 .. Len(source)) /\ Len(pending) \in Nat
        /\ Len(pending) <= ProgLen /\ ProgLen \in Nat /\ ProgLen < IntMax /\ IntMax \in Nat
    BY AsmAssumption, ExprAssumption DEF AsmAssumption, ExprAssumption, SkipInv, TypeInv, TypeOK
  <2>5. Wrap(Len(pending)) = Len(pending)
    BY <2>4, WrapId
  <2>6. symtab'[name].n = Len(pending)
    <3>1. g[name] = IntOf(Len(pending)) /\ name \in DOMAIN g
      OBVIOUS
    <3> HIDE DEF g, name
    <3>2. Over(symtab, g)[name] = g[name]
      <4>1. \A x \in DOMAIN g : Over(symtab, g)[x] = g[x]
        BY OverHas
      <4> QED BY <3>1, <4>1, Zenon
    <3>3. symtab'[name] = IntOf(Len(pending))
      BY <2>1, <3>1, <3>2
    <3> QED BY <3>3, <2>5 DEF IntOf
  <2>7. \A k \in 1 .. Len(source) : k = row => Counts(k)'
    <3> SUFFICES ASSUME NEW k \in 1 .. Len(source), k = row PROVE Counts(k)'
      OBVIOUS
    <3>1. LabelName(k)' = name
      BY <2>1 DEF LabelName
    <3>2. \A q \in 1 .. Len(pending) : pending[q] < k /\ q <= Len(pending)
      BY DEF SkipInv
    <3> HIDE DEF name, g
    <3> QED BY <2>1, <2>4, <2>6, <3>1, <3>2 DEF Counts
  <2>8. \A k \in 1 .. Len(source) : HasLabel(source[k]) /\ k < row => Counts(k)'
    <3>1. \A k \in 1 .. Len(source) : HasLabel(source[k]) /\ k < row => Counts(k)
      BY DEF SkipInv, Reached
    <3> HIDE DEF name, g
    <3> QED BY <2>1, <2>2, <3>1, SameLabels
  <2>9. \A k \in 1 .. Len(source) : HasLabel(source[k]) /\ Reached(k)' => Counts(k)'
    BY <2>1, <2>7, <2>8 DEF Reached
  <2>10. code = <<>>
    BY <2>1 DEF SkipInv
  <2> HIDE DEF name, g
  <2> QED BY <2>1, <2>9, <2>10 DEF SkipInv
<1> QED BY <1>1, <1>2

\* An instruction moves the labels that follow it, not the ones before.
LEMMA InstructionSkips == ASSUME SkipInv, Instruction, TypeInv' PROVE SkipInv'
<1>1. CASE Fail
  BY <1>1, FailSkips
<1>2. CASE ~Fail
  <2> DEFINE n == Count(Line)
             more == [k \in 1 .. n |-> row]
  <2>1. /\ row <= Len(source) /\ phase = "pass1" /\ (HasLabel(source[row]) => labelled)
        /\ pending' = pending \o more
        /\ source' = source /\ row' = row + 1 /\ labelled' = FALSE /\ phase' = phase
        /\ UNCHANGED <<code, symtab, labels, mem_end>>
    BY <1>2 DEF Instruction, At, NextLine
  <2>2. /\ Len(source) \in Nat /\ row \in 1 .. Len(source) /\ Line \in Seq(Tokens)
    BY <2>1, LineType DEF SkipInv
  <2>3. n \in Nat
    BY <2>2, CountType
  <2> HIDE DEF n
  <2>4. more \in Seq(1 .. Len(source)) /\ Len(more) = n /\ \A q \in 1 .. n : more[q] = row
    BY <2>2, <2>3
  <2> HIDE DEF more
  <2>5. pending \in Seq(1 .. Len(source)) /\ Len(pending) \in Nat
    BY DEF SkipInv, TypeInv, TypeOK
  <2>6. /\ Len(pending') = Len(pending) + n
        /\ \A q \in 1 .. Len(pending') :
             pending'[q] = IF q <= Len(pending) THEN pending[q] ELSE more[q - Len(pending)]
    BY <2>1, <2>4, <2>5, Joined, Zenon
  <2>7. \A q \in 1 .. Len(pending') :
          /\ q <= Len(pending) => pending'[q] = pending[q]
          /\ q > Len(pending) => pending'[q] = row
    BY <2>3, <2>4, <2>5, <2>6
  <2>8. \A q \in 1 .. Len(pending) : pending[q] \in Int /\ pending[q] < row
    BY <2>2, <2>5 DEF SkipInv
  <2>9. \A q \in 1 .. Len(pending') : pending'[q] < row'
    <3> TAKE q \in 1 .. Len(pending')
    <3>1. CASE q <= Len(pending)
      <4>1. q \in 1 .. Len(pending)
        BY <3>1, <2>5
      <4> QED BY <3>1, <4>1, <2>1, <2>2, <2>7, <2>8
    <3>2. CASE q > Len(pending)
      BY <3>2, <2>1, <2>2, <2>7
    <3> QED BY <3>1, <3>2, <2>3, <2>5, <2>6
  <2>10. \A k \in 1 .. Len(source) : HasLabel(source[k]) /\ Reached(k)' => Counts(k) /\ k <= row
    BY <2>1, <2>2 DEF SkipInv, Reached
  <2>11. \A k \in 1 .. Len(source) : Counts(k) /\ k <= row => Counts(k)'
    <3> SUFFICES ASSUME NEW k \in 1 .. Len(source), Counts(k), k <= row PROVE Counts(k)'
      OBVIOUS
    <3> DEFINE at == symtab[LabelName(k)].n
    <3>1. at \in 0 .. Len(pending) /\ \A q \in 1 .. Len(pending) : pending[q] < k <=> q <= at
      BY DEF Counts
    <3>2. /\ LabelName(k)' = LabelName(k) /\ LabelName(k) \in labels'
          /\ symtab'[LabelName(k)].n = at
      BY <2>1 DEF LabelName, Counts
    <3> HIDE DEF at
    <3>3. at \in 0 .. Len(pending')
      BY <3>1, <2>3, <2>5, <2>6
    <3>4. \A q \in 1 .. Len(pending') : pending'[q] < k <=> q <= at
      <4> TAKE q \in 1 .. Len(pending')
      <4>1. CASE q <= Len(pending)
        BY <4>1, <3>1, <2>7, <2>5
      <4>2. CASE q > Len(pending)
        <5>1. pending'[q] = row
          BY <4>2, <2>7
        <5>2. ~(row < k)
          BY <2>2
        <5>3. ~(q <= at)
          BY <4>2, <3>1, <2>5
        <5> QED BY <5>1, <5>2, <5>3
      <4> QED BY <4>1, <4>2, <2>5, <2>6
    <3> QED BY <3>2, <3>3, <3>4 DEF Counts
  <2>12. code' = <<>>
    BY <2>1 DEF SkipInv
  <2> QED BY <2>1, <2>9, <2>10, <2>11, <2>12 DEF SkipInv
<1> QED BY <1>1, <1>2

\* The second pass takes the pending instructions in order.
LEMMA EmitSkips == ASSUME SkipInv, Emit, TypeInv' PROVE SkipInv'
<1>1. CASE Fail
  BY <1>1, FailSkips
<1>2. CASE ~Fail
  <2> DEFINE i == Parsed(Len(code))
  <2>1. /\ i.ok /\ code' = Append(code, i.v) /\ phase = "pass2" /\ phase' = phase
        /\ UNCHANGED <<source, row, labelled, symtab, labels, pending>>
    BY <1>2 DEF Emit
  <2>2. \A p : Parsed(p - 1)' = Parsed(p - 1)
    BY <2>1, Frozen
  <2>3. PICK S : code \in Seq(S)
    BY DEF SkipInv, TypeInv
  <2> HIDE DEF i
  <2>4. code \in Seq(S \cup {i.v})
    BY <2>3
  <2>5. /\ Len(code) \in Nat /\ Len(code') = Len(code) + 1
        /\ \A p \in 1 .. Len(code) : code'[p] = code[p]
        /\ code'[Len(code) + 1] = i.v
    BY <2>1, <2>4, AppendProperties
  <2>6. \A p \in 1 .. Len(code') : Parsed(p - 1).ok /\ code'[p] = Parsed(p - 1).v
    <3> TAKE p \in 1 .. Len(code')
    <3>1. CASE p \in 1 .. Len(code)
      BY <3>1, <2>5 DEF SkipInv
    <3>2. CASE p = Len(code) + 1
      <4>1. p - 1 = Len(code)
        BY <3>2, <2>5
      <4> QED BY <4>1, <3>2, <2>1, <2>5 DEF i
    <3> QED BY <3>1, <3>2, <2>5
  <2>7. \A p \in 1 .. Len(code') : Parsed(p - 1)'.ok /\ code'[p] = Parsed(p - 1)'.v
    BY <2>2, <2>6
  <2>8. row' = Len(source') + 1
    BY <2>1 DEF SkipInv
  <2> QED BY <2>1, <2>7, <2>8, Frozen DEF SkipInv
<1> QED BY <1>1, <1>2

\* At first no label is defined.
LEMMA SkipInit == ASSUME Init PROVE SkipInv
<1>1. \A k \in 1 .. Len(source) : ~Reached(k)
  <2>1. Len(source) \in Nat /\ row = 1 /\ labelled = FALSE
    BY SourceType DEF Init
  <2> QED BY <2>1 DEF Reached
<1>2. code = <<>> /\ pending = <<>> /\ phase = "pass1"
  BY DEF Init
<1> QED BY <1>1, <1>2, TypeInit DEF SkipInv

\* Every step keeps what the labels count.
LEMMA SkipStep == ASSUME SkipInv, [Next]_vars PROVE SkipInv'
<1>1. TypeInv'
  BY TypeStep DEF SkipInv
<1>2. CASE Blank
  BY <1>1, <1>2, LineSkips DEF Blank, At, Next
<1>3. CASE BadLine
  BY <1>1, <1>3, FailSkips DEF BadLine
<1>4. CASE Equ
  <2>1. CASE Fail
    BY <1>1, <2>1, FailSkips
  <2>2. CASE ~Fail
    BY <1>1, <1>4, <2>2, LineSkips DEF Equ, At, Next
  <2> QED BY <2>1, <2>2
<1>5. CASE Mem
  <2>1. CASE Fail
    BY <1>1, <2>1, FailSkips
  <2>2. CASE ~Fail
    BY <1>1, <1>5, <2>2, LineSkips DEF Mem, At, Next
  <2> QED BY <2>1, <2>2
<1>6. CASE EndPass1
  <2>1. row = Len(source) + 1
    <3>1. Len(source) \in Nat
      BY SourceType DEF SkipInv, TypeInv
    <3> QED BY <1>6, <3>1 DEF EndPass1, SkipInv, TypeInv, TypeOK
  <2>2. /\ UNCHANGED <<source, row, labelled, symtab, labels, pending, code>>
        /\ phase' = "pass2"
    BY <1>6 DEF EndPass1
  <2> QED BY <1>1, <2>1, <2>2, Frozen DEF SkipInv
<1>7. CASE Finish
  <2>1. /\ UNCHANGED <<source, row, labelled, symtab, labels, pending, code>>
        /\ phase = "pass2" /\ phase' = "done"
    BY <1>7 DEF Finish
  <2> QED BY <1>1, <2>1, Frozen DEF SkipInv
<1>8. CASE UNCHANGED vars
  <2>1. UNCHANGED <<source, phase, row, labelled, symtab, labels, pending, code>>
    BY <1>8 DEF vars
  <2> QED BY <1>1, <2>1, Frozen DEF SkipInv
<1> QED BY <1>1, <1>2, <1>3, <1>4, <1>5, <1>6, <1>7, <1>8, LabelSkips, InstructionSkips,
           EmitSkips DEF Next

\* A label that counts the instructions before it is where a skip to it lands.
LEMMA SkipsFollow == ASSUME SkipInv PROVE SkipsLand
<1> SUFFICES ASSUME NEW p \in 1 .. Len(code), NEW k \in 1 .. Len(source),
                    HasLabel(source[k]), JumpsTo(p, LabelName(k)),
                    NEW q \in 1 .. Len(pending)
             PROVE  pending[q] < k <=> q <= p + code[p].arg.n
  BY DEF SkipsLand
<1>1. Len(source) \in Nat
  BY SourceType DEF SkipInv, TypeInv
<1>2. row = Len(source) + 1
  BY DEF SkipInv
<1>3. Counts(k)
  BY <1>1, <1>2 DEF SkipInv, Reached
<1>4. p \in Nat /\ Parsed(p - 1).ok /\ code[p] = Parsed(p - 1).v
  BY DEF SkipInv, TypeInv
<1>5. code[p].arg.n = Distance(symtab[LabelName(k)].n, p - 1)
  BY <1>3, <1>4, ParsedSkip DEF Counts
<1>6. symtab[LabelName(k)].n \in Int /\ Len(pending) \in Nat
  BY <1>3 DEF Counts, SkipInv, TypeInv, TypeOK
<1>7. p + code[p].arg.n = symtab[LabelName(k)].n
  BY <1>4, <1>5, <1>6 DEF Distance
<1> QED BY <1>3, <1>7 DEF Counts

\* A skip to a label, assembled, continues at the first instruction on the
\* label's line or after it, in every program and from every instruction.
THEOREM SkipsAlwaysLand == Spec => []SkipsLand
<1>1. Init => SkipInv
  BY SkipInit
<1>2. SkipInv /\ [Next]_vars => SkipInv'
  BY SkipStep
<1>3. SkipInv => SkipsLand
  BY SkipsFollow
<1> QED BY <1>1, <1>2, <1>3, PTL DEF Spec

-----------------------------------------------------------------------------
(* Every mnemonic's line is in the program.                                *)

\* InstructionsKept with what its steps need: the instructions collected are of
\* lines that have been read.
KeptInv == /\ TypeInv
           /\ InstructionsKept
           /\ \A q \in 1 .. Len(pending) : pending[q] < row

\* The assembler counts the instructions a line writes.
LEMMA CountsWritten ==
  ASSUME NEW body \in Seq(Tokens)
  PROVE  Count(body) = Written(body)
<1>1. \A token \in Tokens : (IsId(token) /\ token.s = <<"NOP">>) <=> token = Id(<<"NOP">>)
  <2> TAKE token \in Tokens
  <2>1. IsId(token) => token = Id(token.s)
    BY AsmAssumption DEF AsmAssumption
  <2>2. token = Id(<<"NOP">>) => token.t = "id" /\ token.s = <<"NOP">>
    BY DEF Id
  <2> QED BY <2>1, <2>2 DEF IsId
<1>2. \A t \in 1 .. Len(body) : body[t] \in Tokens
  OBVIOUS
<1>3. NopRun(body) <=> \A t \in 1 .. Len(body) : body[t] = Id(<<"NOP">>)
  BY <1>1, <1>2, Zenon DEF NopRun
<1> QED BY <1>3 DEF Count, Written

\* A line that starts with a mnemonic is an instruction, whatever its operands.
LEMMA MnemonicKind ==
  ASSUME NEW body, StartsMnemonic(body)
  PROVE  Kind(body) = "instruction"
<1>1. body # <<>> /\ IsId(body[1]) /\ IsMnemonic(body[1].s)
  BY DEF StartsMnemonic
<1>2. ~Directive(body, "EQU") /\ ~Directive(body, "MEM")
  BY <1>1 DEF Directive
<1> QED BY <1>1, <1>2 DEF Kind

\* A step that collects nothing and passes no line with a mnemonic.
LEMMA PassedKept ==
  ASSUME KeptInv, TypeInv', source' = source, pending' = pending,
         row' = row \/ (row' = row + 1 /\ ~StartsMnemonic(Line))
  PROVE  KeptInv'
<1>1. row \in Nat /\ \A q \in 1 .. Len(pending) : pending[q] \in Int
  <2>1. Len(source) \in Nat
    BY SourceType DEF KeptInv, TypeInv
  <2> QED BY <2>1 DEF KeptInv, TypeInv, TypeOK
<1>2. \A k : BodyOf(k)' = BodyOf(k) /\ Entries(k)' = Entries(k)
  BY DEF BodyOf, Entries
<1>3. Line = BodyOf(row)
  BY DEF Line, BodyOf
<1>4. ASSUME NEW k \in 1 .. row' - 1, StartsMnemonic(BodyOf(k))
      PROVE  Cardinality(Entries(k)) = Written(BodyOf(k))
  <2>1. k # row \/ row' = row
    BY <1>3, <1>4
  <2>2. k \in 1 .. row - 1
    BY <1>1, <2>1
  <2> QED BY <1>4, <2>2 DEF KeptInv, InstructionsKept
<1>5. \A k \in 1 .. row' - 1 :
        StartsMnemonic(BodyOf(k)') => Cardinality(Entries(k)') = Written(BodyOf(k)')
  BY <1>2, <1>4
<1>6. InstructionsKept'
  BY <1>5 DEF KeptInv, InstructionsKept
<1>7. \A q \in 1 .. Len(pending') : pending'[q] < row'
  BY <1>1 DEF KeptInv
<1> QED BY <1>6, <1>7 DEF KeptInv

\* A line that is no instruction starts with no mnemonic.
LEMMA LineKept ==
  ASSUME KeptInv, TypeInv', NextLine, pending' = pending, NEW kind, At(kind),
         kind # "instruction"
  PROVE  KeptInv'
<1>1. Kind(Line) # "instruction"
  BY DEF At
<1>2. ~StartsMnemonic(Line)
  BY <1>1, MnemonicKind
<1> QED BY <1>2, PassedKept DEF NextLine

\* The places of the line at hand follow those of the lines before it.
LEMMA InstructionKept == ASSUME KeptInv, TypeInv', Instruction, ~Fail PROVE KeptInv'
<1> DEFINE n    == Count(Line)
           more == [j \in 1 .. n |-> row]
<1>1. /\ row <= Len(source) /\ pending' = pending \o more
      /\ source' = source /\ row' = row + 1
  BY DEF Instruction, At, NextLine
<1>2. Len(source) \in Nat /\ row \in 1 .. Len(source) /\ Line \in Seq(Tokens)
  BY <1>1, LineType DEF KeptInv
<1>3. n \in Nat /\ n = Written(Line)
  BY <1>2, CountType, CountsWritten
<1> HIDE DEF n
<1>4. more \in Seq(1 .. Len(source)) /\ Len(more) = n /\ \A q \in 1 .. n : more[q] = row
  BY <1>2, <1>3
<1> HIDE DEF more
<1>5. pending \in Seq(1 .. Len(source)) /\ Len(pending) \in Nat
  BY DEF KeptInv, TypeInv, TypeOK
<1>6. /\ Len(pending') = Len(pending) + n
      /\ \A q \in 1 .. Len(pending') :
           pending'[q] = IF q <= Len(pending) THEN pending[q] ELSE more[q - Len(pending)]
  BY <1>1, <1>4, <1>5, Joined, Zenon
<1>7. \A q \in 1 .. Len(pending) : /\ q \in 1 .. Len(pending') /\ pending'[q] = pending[q]
                                   /\ pending[q] \in Int /\ pending[q] < row
  BY <1>2, <1>3, <1>5, <1>6 DEF KeptInv
<1>8. \A q \in Len(pending) + 1 .. Len(pending') : pending'[q] = row
  <2> TAKE q \in Len(pending) + 1 .. Len(pending')
  <2>1. q \in 1 .. Len(pending') /\ ~(q <= Len(pending)) /\ q - Len(pending) \in 1 .. n
    BY <1>3, <1>5, <1>6
  <2>2. pending'[q] = more[q - Len(pending)]
    BY <2>1, <1>6
  <2> QED BY <2>1, <2>2, <1>4
<1>9. \A q \in 1 .. Len(pending') :
        q \in 1 .. Len(pending) \/ q \in Len(pending) + 1 .. Len(pending')
  BY <1>5
<1>10. ASSUME NEW k \in 1 .. row - 1 PROVE Entries(k)' = Entries(k)
  <2>1. \A q \in 1 .. Len(pending') : pending'[q] = k => q \in 1 .. Len(pending)
    BY <1>2, <1>8, <1>9
  <2> QED BY <1>7, <2>1 DEF Entries
<1>11. ASSUME NEW k, k = row PROVE Entries(k)' = Len(pending) + 1 .. Len(pending) + n
  <2>1. \A q \in 1 .. Len(pending') : pending'[q] = k <=> q \in Len(pending) + 1 .. Len(pending')
    <3> TAKE q \in 1 .. Len(pending')
    <3>1. CASE q \in 1 .. Len(pending)
      BY <3>1, <1>5, <1>7, <1>11
    <3>2. CASE q \in Len(pending) + 1 .. Len(pending')
      BY <3>2, <1>8, <1>11
    <3> QED BY <3>1, <3>2, <1>9
  <2>2. Len(pending) + 1 .. Len(pending') \subseteq 1 .. Len(pending')
    BY <1>5
  <2>3. Entries(k)' = {q \in 1 .. Len(pending') : pending'[q] = k}
    BY DEF Entries
  <2> QED BY <1>6, <2>1, <2>2, <2>3
<1>12. \A k : BodyOf(k)' = BodyOf(k)
  BY <1>1 DEF BodyOf
<1>13. ASSUME NEW k \in 1 .. row, StartsMnemonic(BodyOf(k))
       PROVE  Cardinality(Entries(k)') = Written(BodyOf(k))
  <2>1. CASE k \in 1 .. row - 1
    BY <2>1, <1>10, <1>13 DEF KeptInv, InstructionsKept
  <2>2. CASE k = row
    <3>1. BodyOf(k) = Line
      BY <2>2 DEF BodyOf, Line
    <3>2. Cardinality(Len(pending) + 1 .. Len(pending) + n) = n
      <4>1. Len(pending) + 1 \in Int /\ Len(pending) + n \in Int
        BY <1>3, <1>5
      <4>2. Cardinality(Len(pending) + 1 .. Len(pending) + n)
              = IF Len(pending) + 1 > Len(pending) + n THEN 0
                ELSE (Len(pending) + n) - (Len(pending) + 1) + 1
        BY <4>1, FS_Interval
      <4> QED BY <4>2, <1>3, <1>5
    <3>3. Entries(k)' = Len(pending) + 1 .. Len(pending) + n
      BY <2>2, <1>11
    <3> QED BY <3>1, <3>2, <3>3, <1>3
  <2> QED BY <2>1, <2>2, <1>2
<1>14. \A k \in 1 .. row' - 1 :
         StartsMnemonic(BodyOf(k)') => Cardinality(Entries(k)') = Written(BodyOf(k)')
  <2>1. row' - 1 = row
    BY <1>1, <1>2
  <2> QED BY <2>1, <1>12, <1>13
<1>15. \A p, q \in 1 .. Len(pending') : p < q => pending'[p] <= pending'[q]
  <2> SUFFICES ASSUME NEW p \in 1 .. Len(pending'), NEW q \in 1 .. Len(pending'), p < q
               PROVE  pending'[p] <= pending'[q]
    OBVIOUS
  <2>1. CASE q \in 1 .. Len(pending)
    <3>1. p \in 1 .. Len(pending)
      BY <2>1, <1>5
    <3>2. pending[p] <= pending[q]
      BY <2>1, <3>1 DEF KeptInv, InstructionsKept
    <3> QED BY <2>1, <3>1, <3>2, <1>7
  <2>2. CASE q \in Len(pending) + 1 .. Len(pending')
    <3>1. pending'[q] = row
      BY <2>2, <1>8
    <3>2. CASE p \in 1 .. Len(pending)
      BY <3>1, <3>2, <1>2, <1>7
    <3>3. CASE p \in Len(pending) + 1 .. Len(pending')
      BY <3>1, <3>3, <1>2, <1>8
    <3> QED BY <3>2, <3>3, <1>9
  <2> QED BY <2>1, <2>2, <1>9
<1>16. \A q \in 1 .. Len(pending') : pending'[q] < row'
  <2> TAKE q \in 1 .. Len(pending')
  <2>1. CASE q \in 1 .. Len(pending)
    BY <2>1, <1>1, <1>2, <1>7
  <2>2. CASE q \in Len(pending) + 1 .. Len(pending')
    BY <2>2, <1>1, <1>2, <1>8
  <2> QED BY <2>1, <2>2, <1>9
<1>17. InstructionsKept'
  BY <1>14, <1>15 DEF InstructionsKept
<1> QED BY <1>16, <1>17 DEF KeptInv

\* At first no line is pending.
LEMMA KeptInit == ASSUME Init PROVE KeptInv
<1>1. row = 1 /\ pending = <<>>
  BY DEF Init
<1>2. InstructionsKept
  BY <1>1 DEF InstructionsKept
<1> QED BY <1>1, <1>2, TypeInit DEF KeptInv

\* Every step keeps the pending lines in order.
LEMMA KeptStep == ASSUME KeptInv, [Next]_vars PROVE KeptInv'
<1>1. TypeInv'
  BY TypeStep DEF KeptInv
<1>2. CASE UNCHANGED <<source, row, pending>>
  BY <1>1, <1>2, PassedKept
<1>3. CASE Blank
  BY <1>1, <1>3, LineKept DEF Blank
<1>4. CASE Equ
  BY <1>1, <1>2, <1>4, LineKept DEF Equ, Fail
<1>5. CASE Mem
  BY <1>1, <1>2, <1>5, LineKept DEF Mem, Fail
<1>6. CASE Instruction
  BY <1>1, <1>2, <1>6, InstructionKept DEF Fail
<1>7. CASE Label \/ BadLine \/ EndPass1 \/ Emit \/ Finish
  BY <1>2, <1>7 DEF Label, BadLine, EndPass1, Emit, Finish, Fail
<1>8. CASE UNCHANGED vars
  BY <1>2, <1>8 DEF vars
<1> QED BY <1>3, <1>4, <1>5, <1>6, <1>7, <1>8 DEF Next

\* Every line that starts with a mnemonic is in the program, once or as often
\* as it repeats NOP and in the order of the text, although its operands may
\* spell a directive's keyword.
THEOREM InstructionsStay == Spec => []InstructionsKept
<1>1. Init => KeptInv
  BY KeptInit
<1>2. KeptInv /\ [Next]_vars => KeptInv'
  BY KeptStep
<1>3. KeptInv => InstructionsKept
  BY DEF KeptInv
<1> QED BY <1>1, <1>2, <1>3, PTL DEF Spec

-----------------------------------------------------------------------------
(* Fields hold what is assembled.                                          *)

\* An integer a field holds is kept in it whole.
LEMMA HeldFits ==
  ASSUME NEW op \in Ops, NEW f \in DOMAIN Layout(op), NEW v \in Held(Layout(op)[f])
  PROVE  Fits(Bits(v, IF Layout(op)[f].signed THEN 16 ELSE 32), Layout(op)[f])
BY OnesFit DEF Bits, Ones, Bit, Low, High

-----------------------------------------------------------------------------
(* Operands fit the fields they fill.                                      *)

\* v is an integer that an operand of a kind may leave.
InSpan(kind, v) ==
  /\ kind \in {"c9", "d10"} => v \in SignedOf(11)
  /\ kind \in {"c14", "d15", "rampFreq"} => v \in SignedOf(16)
  /\ kind \in {"addr", "sinAmp"} => v \in UnsignedOf(15)
  /\ kind = "sinFreq" => v \in UnsignedOf(9)
  /\ kind \in {"reg", "flags", "target"} => v \in UnsignedOf(6)
  /\ kind = "mask" => v \in UnsignedOf(24)
  /\ kind = "cond" => v \in UnsignedOf(5)
  /\ kind \in {"rampAmp", "lfo"} => v \in UnsignedOf(2)
  /\ kind \in {"sin", "ramp"} => v \in UnsignedOf(1)

\* The kinds of operand that are coefficients, in a range, or of a table.
LEMMA Kinds ==
  /\ DOMAIN FormatOf = {"c9", "c14", "d10", "d15"}
  /\ DOMAIN RangeOf = {"addr", "reg", "word", "cond", "sinFreq", "sinAmp"}
  /\ DOMAIN ChoiceOf = {"sin", "ramp", "rampAmp", "lfo"}
<1>1. DOMAIN FormatOf = {"c9", "c14", "d10", "d15"}
  BY DEF FormatOf
<1>2. DOMAIN RangeOf = {"addr", "reg", "word", "cond", "sinFreq", "sinAmp"}
  BY DEF RangeOf
<1>3. DOMAIN ChoiceOf = {"sin", "ramp", "rampAmp", "lfo"}
  BY DEF ChoiceOf
<1> QED BY <1>1, <1>2, <1>3

\* The kinds of the operands of instructions: RAW's word is none of them.
FieldKinds == DOMAIN FormatOf \cup (DOMAIN RangeOf \ {"word"}) \cup DOMAIN ChoiceOf
                \cup {"mask", "rampFreq", "flags", "target"}

\* A format is a field of its bits.
LEMMA Formats ==
  ASSUME NEW kind \in DOMAIN FormatOf
  PROVE  LET fmt == FormatOf[kind]
         IN  /\ fmt.bits = IF kind \in {"c9", "d10"} THEN 11 ELSE 16
             /\ fmt.lo = -(2 ^ (fmt.bits - 1)) /\ fmt.hi = 2 ^ (fmt.bits - 1) - 1
<1>1. CASE kind = "c9"
  <2>1. FormatOf[kind] = S1_9
    BY <1>1 DEF FormatOf
  <2>2. S1_9.bits = 11
    BY DEF S1_9, Format
  <2>3. S1_9.lo = -(2 ^ (11 - 1))
    BY DEF S1_9, Format
  <2>4. S1_9.hi = 2 ^ (11 - 1) - 1
    BY DEF S1_9, Format
  <2> QED BY <1>1, <2>1, <2>2, <2>3, <2>4
<1>2. CASE kind = "d10"
  <2>1. FormatOf[kind] = S_10
    BY <1>2 DEF FormatOf
  <2>2. S_10.bits = 11
    BY DEF S_10, Format
  <2>3. S_10.lo = -(2 ^ (11 - 1))
    BY DEF S_10, Format
  <2>4. S_10.hi = 2 ^ (11 - 1) - 1
    BY DEF S_10, Format
  <2> QED BY <1>2, <2>1, <2>2, <2>3, <2>4
<1>3. CASE kind = "c14"
  <2>1. FormatOf[kind] = S1_14
    BY <1>3 DEF FormatOf
  <2>2. S1_14.bits = 16
    BY DEF S1_14, Format
  <2>3. S1_14.lo = -(2 ^ (16 - 1))
    BY DEF S1_14, Format
  <2>4. S1_14.hi = 2 ^ (16 - 1) - 1
    BY DEF S1_14, Format
  <2> QED BY <1>3, <2>1, <2>2, <2>3, <2>4
<1>4. CASE kind = "d15"
  <2>1. FormatOf[kind] = S_15
    BY <1>4 DEF FormatOf
  <2>2. S_15.bits = 16
    BY DEF S_15, Format
  <2>3. S_15.lo = -(2 ^ (16 - 1))
    BY DEF S_15, Format
  <2>4. S_15.hi = 2 ^ (16 - 1) - 1
    BY DEF S_15, Format
  <2> QED BY <1>4, <2>1, <2>2, <2>3, <2>4
<1> QED BY <1>1, <1>2, <1>3, <1>4, Kinds

\* A literal of a field's bits is a number of the field, its upper half the
\* negative ones.
LEMMA RawHeld ==
  ASSUME NEW n, NEW bits \in {11, 16}, RawField(n, bits).ok
  PROVE  RawField(n, bits).v \in SignedOf(bits)
<1> DEFINE r == RawField(n, bits).v
           m == 2 ^ bits
           h == 2 ^ (bits - 1)
<1>1. n \in 0 .. m - 1
  BY DEF RawField, Fails
<1>2. r = IF n >= h THEN n - m ELSE n
  BY <1>1 DEF RawField, Gives
<1>3. h \in Nat /\ m = 2 * h
  <2>1. 2 ^ (11 - 1) \in Nat /\ 2 ^ 11 = 2 * 2 ^ (11 - 1)
    OBVIOUS
  <2>2. 2 ^ (16 - 1) \in Nat /\ 2 ^ 16 = 2 * 2 ^ (16 - 1)
    OBVIOUS
  <2>3. CASE bits = 11
    BY <2>1, <2>3
  <2>4. CASE bits = 16
    BY <2>2, <2>4
  <2> QED BY <2>3, <2>4
<1> HIDE DEF r, m, h
<1>4. r \in -h .. h - 1
  BY <1>1, <1>2, <1>3
<1> QED BY <1>4 DEF SignedOf, r, h

\* A quantized number lies between the bounds of its format.
LEMMA QuantizedHeld ==
  ASSUME NEW x, NEW fmt, fmt.lo \in Int, fmt.hi \in Int, fmt.lo <= fmt.hi, Quantize(x, fmt).ok
  PROVE  Quantize(x, fmt).v \in fmt.lo .. fmt.hi
<1>1. Quantize(x, fmt).v = Coeff(x, fmt)
  BY DEF Quantize, Gives, Fails
<1>2. Coeff(x, fmt) \in fmt.lo .. fmt.hi
  BY DEF Coeff, Bounded
<1> QED BY <1>1, <1>2

\* A coefficient lies in its field.
LEMMA CoefficientHeld ==
  ASSUME NEW ts, NEW e, NEW kind \in DOMAIN FormatOf, Coefficient(ts, e, FormatOf[kind]).ok
  PROVE  InSpan(kind, Coefficient(ts, e, FormatOf[kind]).v)
<1> DEFINE fmt == FormatOf[kind]
           v   == Coefficient(ts, e, fmt).v
           h   == 2 ^ (fmt.bits - 1)
<1>1. /\ fmt.bits = IF kind \in {"c9", "d10"} THEN 11 ELSE 16
      /\ fmt.lo = -h /\ fmt.hi = h - 1
  BY Formats
<1>2. h \in Nat /\ h >= 1
  <2>1. 2 ^ (11 - 1) = 1024 /\ 2 ^ (16 - 1) = 32768
    OBVIOUS
  <2>2. h = 1024 \/ h = 32768
    BY <1>1, <2>1
  <2> HIDE DEF h
  <2> QED BY <2>2
<1>3. Coefficient(ts, e, fmt).ok
  OBVIOUS
<1> HIDE DEF fmt
<1>4. \/ RawField(ts[1].v.n, fmt.bits).ok /\ v = RawField(ts[1].v.n, fmt.bits).v
      \/ Quantize(e.v, fmt).ok /\ v = Quantize(e.v, fmt).v
  BY <1>3 DEF Coefficient, Fails
<1> HIDE DEF v
<1>5. v \in SignedOf(fmt.bits)
  <2>1. CASE RawField(ts[1].v.n, fmt.bits).ok /\ v = RawField(ts[1].v.n, fmt.bits).v
    <3>1. fmt.bits \in {11, 16}
      BY <1>1
    <3> QED BY <2>1, <3>1, RawHeld
  <2>2. CASE Quantize(e.v, fmt).ok /\ v = Quantize(e.v, fmt).v
    <3> HIDE DEF h
    <3>1. v \in fmt.lo .. fmt.hi
      BY <1>1, <1>2, <2>2, QuantizedHeld
    <3>2. v \in -h .. h - 1
      BY <1>1, <3>1
    <3> QED BY <3>2 DEF SignedOf, h
  <2> QED BY <1>4, <2>1, <2>2
<1>6. \/ kind \in {"c9", "d10"} /\ v \in SignedOf(11)
      \/ kind \in {"c14", "d15"} /\ v \in SignedOf(16)
  <2>1. kind \in {"c9", "d10", "c14", "d15"}
    BY Kinds
  <2> QED BY <1>1, <1>5, <2>1
<1>7. InSpan(kind, v)
  BY <1>6 DEF InSpan
<1> QED BY <1>7 DEF v, fmt

\* A target lies at most the longest skip ahead.
LEMMA TargetHeld ==
  ASSUME NEW ts, NEW e, NEW symtab0, NEW labels0, NEW index \in Int,
         \A x \in labels0 : symtab0[x].n \in Int,
         SkipTarget(ts, e, symtab0, labels0, index).ok
  PROVE  SkipTarget(ts, e, symtab0, labels0, index).v \in 0 .. 63
<1>1. SkipMax \in 0 .. 63
  BY OperandAssumption DEF OperandAssumption
<1> DEFINE target == symtab0[ts[1].s].n
<1>2. CASE Len(ts) = 1 /\ IsId(ts[1]) /\ ts[1].s \in labels0
  <2>1. target \in Int
    BY <1>2
  <2>2. /\ target > index /\ Distance(target, index) <= SkipMax
        /\ SkipTarget(ts, e, symtab0, labels0, index).v = Distance(target, index)
    BY <1>2 DEF SkipTarget, Gives, Fails
  <2> HIDE DEF target
  <2> QED BY <1>1, <2>1, <2>2 DEF Distance
<1>3. CASE ~(Len(ts) = 1 /\ IsId(ts[1]) /\ ts[1].s \in labels0)
  BY <1>1, <1>3 DEF SkipTarget, Gives, Fails
<1> QED BY <1>2, <1>3

\* A table's entries are of its kind.
LEMMA ChoiceHeld ==
  ASSUME NEW kind \in DOMAIN ChoiceOf, NEW k \in DOMAIN ChoiceOf[kind]
  PROVE  InSpan(kind, ChoiceOf[kind][k])
<1>1. CASE kind = "sin"
  <2>1. ChoiceOf[kind][k] \in 0 .. 1
    BY <1>1 DEF ChoiceOf, SinBit
  <2> QED BY <1>1, <2>1, Spans DEF InSpan
<1>2. CASE kind = "ramp"
  <2>1. ChoiceOf[kind] = RampBit
    BY <1>2 DEF ChoiceOf
  <2>2. RampBit[k] \in 0 .. 1
    BY <2>1 DEF RampBit
  <2> QED BY <1>2, <2>1, <2>2, Spans DEF InSpan
<1>3. CASE kind = "lfo"
  <2>1. ChoiceOf[kind][k] \in 0 .. 3
    BY <1>3 DEF ChoiceOf, ChoLfo
  <2> QED BY <1>3, <2>1, Spans DEF InSpan
<1>4. CASE kind = "rampAmp"
  <2>1. ChoiceOf[kind] = RampAmp
    BY <1>4 DEF ChoiceOf
  <2>2. 4096 * 2 ^ 0 = 4096 /\ 2048 * 2 ^ 1 = 4096 /\ 1024 * 2 ^ 2 = 4096 /\ 512 * 2 ^ 3 = 4096
    OBVIOUS
  <2>3. \A j \in {4096, 2048, 1024, 512} : \E c \in 0 .. 3 : j * 2 ^ c = 4096
    BY <2>2
  <2>4. \A j \in {4096, 2048, 1024, 512} : (CHOOSE c \in 0 .. 3 : j * 2 ^ c = 4096) \in 0 .. 3
    BY <2>3
  <2>5. RampAmp[k] \in 0 .. 3
    BY <2>1, <2>4 DEF RampAmp
  <2> QED BY <1>4, <2>1, <2>5, Spans DEF InSpan
<1> QED BY <1>1, <1>2, <1>3, <1>4, Kinds

\* A number in a range is of its kind.
LEMMA RangeHeld ==
  ASSUME NEW kind \in DOMAIN RangeOf \ {"word"}, NEW v \in RangeOf[kind]
  PROVE  InSpan(kind, v)
<1>1. CASE kind = "addr"
  <2>1. v \in 0 .. 2 ^ 15 - 1
    BY <1>1 DEF RangeOf
  <2> QED BY <1>1, <2>1 DEF InSpan, UnsignedOf
<1>2. CASE kind = "sinAmp"
  <2>1. v \in 0 .. 2 ^ 15 - 1
    BY <1>2 DEF RangeOf
  <2> QED BY <1>2, <2>1 DEF InSpan, UnsignedOf
<1>3. CASE kind = "sinFreq"
  <2>1. v \in 0 .. 2 ^ 9 - 1
    BY <1>3 DEF RangeOf
  <2> QED BY <1>3, <2>1 DEF InSpan, UnsignedOf
<1>4. CASE kind = "reg"
  <2>1. v \in 0 .. 63
    BY <1>4 DEF RangeOf
  <2> QED BY <1>4, <2>1, Spans DEF InSpan
<1>5. CASE kind = "cond"
  <2>1. v \in 0 .. 31
    BY <1>5 DEF RangeOf
  <2> QED BY <1>5, <2>1, Spans DEF InSpan
<1> QED BY <1>1, <1>2, <1>3, <1>4, <1>5, Kinds

\* A mask is a word's 24 bits.
LEMMA MaskHeld ==
  ASSUME NEW e, Mask(e).ok
  PROVE  Mask(e).v \in UnsignedOf(24)
<1> DEFINE n == IF e.v.real THEN Coeff(e.v, S_23) ELSE e.v.n
           m == 2 ^ 24
<1>1. n \in -(2 ^ 23) .. m - 1 /\ Mask(e).v = n % m
  BY DEF Mask, Gives, Fails
<1>2. m \in Nat \ {0} /\ 2 ^ 23 \in Nat
  OBVIOUS
<1> DEFINE l == 2 ^ 23
<1> HIDE DEF n, m, l
<1>3. n \in -l .. m - 1 /\ l \in Nat
  BY <1>1, <1>2 DEF l
<1>4. n % m \in 0 .. m - 1
  BY <1>2, <1>3
<1> QED BY <1>1, <1>4 DEF UnsignedOf, m

\* An operand that is accepted leaves an integer of its kind.
LEMMA OperandHeld ==
  ASSUME NEW kind \in FieldKinds, NEW ts, NEW e, NEW symtab0, NEW labels0,
         NEW index \in Int, \A x \in labels0 : symtab0[x].n \in Int,
         Operand(kind, ts, e, symtab0, labels0, index).ok
  PROVE  InSpan(kind, Operand(kind, ts, e, symtab0, labels0, index).v)
<1> DEFINE o == Operand(kind, ts, e, symtab0, labels0, index)
<1> SUFFICES InSpan(kind, o.v)
  OBVIOUS
<1>1. CASE kind \in DOMAIN FormatOf
  <2>1. o = Coefficient(ts, e, FormatOf[kind])
    BY <1>1, Kinds DEF Operand
  <2> QED BY <1>1, <2>1, CoefficientHeld
<1>2. CASE kind \in DOMAIN RangeOf \ {"word"}
  <2>1. o = IntIn(e, RangeOf[kind])
    BY <1>2, Kinds DEF Operand
  <2>2. o.v \in RangeOf[kind]
    BY <2>1 DEF IntIn, Gives, Fails
  <2> HIDE DEF o
  <2> QED BY <1>2, <2>2, RangeHeld
<1>3. CASE kind \in DOMAIN ChoiceOf
  <2>1. o = Choice(e, ChoiceOf[kind])
    BY <1>3, Kinds DEF Operand
  <2>2. \E k \in DOMAIN ChoiceOf[kind] : o.v = ChoiceOf[kind][k]
    BY <2>1 DEF Choice, Gives, Fails
  <2> HIDE DEF o
  <2> QED BY <1>3, <2>2, ChoiceHeld
<1>4. CASE kind = "mask"
  <2>1. o = Mask(e)
    BY <1>4, Kinds DEF Operand
  <2>2. o.v \in UnsignedOf(24)
    BY <2>1, MaskHeld
  <2> HIDE DEF o
  <2> QED BY <1>4, <2>2 DEF InSpan
<1>5. CASE kind = "rampFreq"
  <2>1. o = RampRate(e)
    BY <1>5, Kinds DEF Operand
  <2>2. o.v \in -(2 ^ 15) .. 2 ^ 15 - 1
    BY <2>1 DEF RampRate, Gives, Fails
  <2> HIDE DEF o
  <2>3. 16 - 1 = 15
    OBVIOUS
  <2>4. o.v \in SignedOf(16)
    BY <2>2, <2>3 DEF SignedOf
  <2> QED BY <1>5, <2>4 DEF InSpan
<1>6. CASE kind = "flags"
  <2>1. o = Flags(ts, e)
    BY <1>6, Kinds DEF Operand
  <2>2. o.v \in 0 .. 63
    BY <2>1 DEF Flags, FlagBits, IntIn, Gives, Fails
  <2> HIDE DEF o
  <2> QED BY <1>6, <2>2, Spans DEF InSpan
<1>7. CASE kind = "target"
  <2>1. o = SkipTarget(ts, e, symtab0, labels0, index)
    BY <1>7, Kinds DEF Operand
  <2>2. o.v \in 0 .. 63
    BY <2>1, TargetHeld
  <2> HIDE DEF o
  <2> QED BY <1>7, <2>2, Spans DEF InSpan
<1> HIDE DEF o
<1> QED BY <1>1, <1>2, <1>3, <1>4, <1>5, <1>6, <1>7 DEF FieldKinds

-----------------------------------------------------------------------------
(* A form fills its layout.                                                *)

\* Every operand of a kind fits a field.
KindFits(kind, fd) == \A v : InSpan(kind, v) => v \in Held(fd)

\* The field each kind of operand is for.
LEMMA KindsFit ==
  ASSUME NEW at
  PROVE  /\ KindFits("addr", Unsigned(at, 16))
         /\ KindFits("c9", Signed(at, 11))
         /\ KindFits("reg", Unsigned(at, 6))
         /\ KindFits("c14", Signed(at, 16))
         /\ KindFits("d10", Signed(at, 11))
         /\ KindFits("d15", Signed(at, 16))
         /\ KindFits("mask", Unsigned(at, 24))
         /\ KindFits("cond", Unsigned(at, 5))
         /\ KindFits("target", Unsigned(at, 6))
         /\ KindFits("sin", Unsigned(at, 1))
         /\ KindFits("sinFreq", Unsigned(at, 9))
         /\ KindFits("sinAmp", Unsigned(at, 15))
         /\ KindFits("ramp", Unsigned(at, 1))
         /\ KindFits("rampFreq", Signed(at, 16))
         /\ KindFits("rampAmp", Unsigned(at, 2))
         /\ KindFits("lfo", Unsigned(at, 2))
         /\ KindFits("flags", Unsigned(at, 6))
<1>1. \A len : Held(Signed(at, len)) = SignedOf(len) /\ Held(Unsigned(at, len)) = UnsignedOf(len)
  BY DEF Held, Signed, Unsigned
<1>2. UnsignedOf(15) \subseteq UnsignedOf(16)
  <2>1. \A a, b \in Nat : a <= b => 0 .. a \subseteq 0 .. b
    OBVIOUS
  <2>2. 2 ^ 15 - 1 \in Nat /\ 2 ^ 16 - 1 \in Nat /\ 2 ^ 15 - 1 <= 2 ^ 16 - 1
    OBVIOUS
  <2> QED BY <2>1, <2>2, Zenon DEF UnsignedOf
<1>3. KindFits("addr", Unsigned(at, 16))
  BY <1>1, <1>2 DEF KindFits, InSpan
<1>4. KindFits("c9", Signed(at, 11)) /\ KindFits("reg", Unsigned(at, 6))
  BY <1>1 DEF KindFits, InSpan
<1>5. KindFits("c14", Signed(at, 16)) /\ KindFits("d10", Signed(at, 11))
  BY <1>1 DEF KindFits, InSpan
<1>6. KindFits("d15", Signed(at, 16)) /\ KindFits("mask", Unsigned(at, 24))
  BY <1>1 DEF KindFits, InSpan
<1>7. KindFits("cond", Unsigned(at, 5)) /\ KindFits("target", Unsigned(at, 6))
  BY <1>1 DEF KindFits, InSpan
<1>8. KindFits("sin", Unsigned(at, 1)) /\ KindFits("sinFreq", Unsigned(at, 9))
  BY <1>1 DEF KindFits, InSpan
<1>9. KindFits("sinAmp", Unsigned(at, 15)) /\ KindFits("ramp", Unsigned(at, 1))
  BY <1>1 DEF KindFits, InSpan
<1>10. KindFits("rampFreq", Signed(at, 16)) /\ KindFits("rampAmp", Unsigned(at, 2))
  BY <1>1 DEF KindFits, InSpan
<1>11. KindFits("lfo", Unsigned(at, 2)) /\ KindFits("flags", Unsigned(at, 6))
  BY <1>1 DEF KindFits, InSpan
<1> QED BY <1>3, <1>4, <1>5, <1>6, <1>7, <1>8, <1>9, <1>10, <1>11

\* The field each kind of operand fills.
LEMMA FieldsOf ==
  /\ FieldOf["addr"] = "addr" /\ FieldOf["reg"] = "reg" /\ FieldOf["c9"] = "c"
  /\ FieldOf["c14"] = "c" /\ FieldOf["d10"] = "d" /\ FieldOf["d15"] = "d"
  /\ FieldOf["mask"] = "mask" /\ FieldOf["cond"] = "cond" /\ FieldOf["target"] = "n"
  /\ FieldOf["sin"] = "lfo" /\ FieldOf["ramp"] = "lfo" /\ FieldOf["sinFreq"] = "freq"
  /\ FieldOf["sinAmp"] = "amp" /\ FieldOf["rampFreq"] = "freq" /\ FieldOf["rampAmp"] = "amp"
  /\ FieldOf["lfo"] = "lfo" /\ FieldOf["flags"] = "flags"
BY DEF FieldOf

\* Operands of a form and the fields given with them make up a layout.
Suits(form, given, L) ==
  /\ Len(form) \in Nat
  /\ \A k \in 1 .. Len(form) : /\ form[k] \in FieldKinds /\ FieldOf[form[k]] \in DOMAIN L
                               /\ KindFits(form[k], L[FieldOf[form[k]]])
  /\ \A j, k \in 1 .. Len(form) : FieldOf[form[j]] = FieldOf[form[k]] => j = k
  /\ \A f \in DOMAIN given : f \in DOMAIN L /\ given[f] \in Held(L[f])
  /\ \A f \in DOMAIN L : f \in DOMAIN given \/ \E k \in 1 .. Len(form) : FieldOf[form[k]] = f

\* The mnemonics whose operands fill the fields of one instruction.
Fillers == (Ops \ {"CHO_RDAL"}) \cup Pseudo

\* So they do for no operand, one, two or three: no operand.
LEMMA SuitsNone ==
  ASSUME NEW given, NEW L,
         \A f \in DOMAIN given : given[f] \in Held(L[f]),
         DOMAIN L = DOMAIN given
  PROVE  Suits(<<>>, given, L)
<1> DEFINE form == <<>>
<1>1. Len(form) = 0
  OBVIOUS
<1> HIDE DEF form
<1>4. Suits(form, given, L)
  BY <1>1 DEF Suits
<1> QED BY <1>4 DEF form

\* One operand.
LEMMA SuitsOne ==
  ASSUME NEW k1 \in FieldKinds, NEW given, NEW L,
         KindFits(k1, L[FieldOf[k1]]),
         \A f \in DOMAIN given : given[f] \in Held(L[f]),
         DOMAIN L = DOMAIN given \cup {FieldOf[k1]}
  PROVE  Suits(<<k1>>, given, L)
<1> DEFINE form == <<k1>>
<1>1. Len(form) = 1 /\ form[1] = k1
  OBVIOUS
<1> HIDE DEF form
<1>2. \A k \in 1 .. Len(form) : k = 1
  BY <1>1
<1>3. 1 \in 1 .. Len(form)
  BY <1>1
<1>4. Suits(form, given, L)
  BY <1>1, <1>2, <1>3 DEF Suits
<1> QED BY <1>4 DEF form

\* Two operands of different fields.
LEMMA SuitsTwo ==
  ASSUME NEW k1 \in FieldKinds, NEW k2 \in FieldKinds, NEW given, NEW L,
         KindFits(k1, L[FieldOf[k1]]),
         KindFits(k2, L[FieldOf[k2]]),
         FieldOf[k1] # FieldOf[k2],
         \A f \in DOMAIN given : given[f] \in Held(L[f]),
         DOMAIN L = DOMAIN given \cup {FieldOf[k1], FieldOf[k2]}
  PROVE  Suits(<<k1, k2>>, given, L)
<1> DEFINE form == <<k1, k2>>
<1>1. Len(form) = 2 /\ form[1] = k1 /\ form[2] = k2
  OBVIOUS
<1> HIDE DEF form
<1>2. \A k \in 1 .. Len(form) : k = 1 \/ k = 2
  BY <1>1
<1>3. 1 \in 1 .. Len(form) /\ 2 \in 1 .. Len(form)
  BY <1>1
<1>4. Suits(form, given, L)
  BY <1>1, <1>2, <1>3 DEF Suits
<1> QED BY <1>4 DEF form

\* Three operands of different fields.
LEMMA SuitsThree ==
  ASSUME NEW k1 \in FieldKinds, NEW k2 \in FieldKinds, NEW k3 \in FieldKinds, NEW given, NEW L,
         KindFits(k1, L[FieldOf[k1]]),
         KindFits(k2, L[FieldOf[k2]]),
         KindFits(k3, L[FieldOf[k3]]),
         FieldOf[k1] # FieldOf[k2], FieldOf[k1] # FieldOf[k3], FieldOf[k2] # FieldOf[k3],
         \A f \in DOMAIN given : given[f] \in Held(L[f]),
         DOMAIN L = DOMAIN given \cup {FieldOf[k1], FieldOf[k2], FieldOf[k3]}
  PROVE  Suits(<<k1, k2, k3>>, given, L)
<1> DEFINE form == <<k1, k2, k3>>
<1>1. Len(form) = 3 /\ form[1] = k1 /\ form[2] = k2 /\ form[3] = k3
  OBVIOUS
<1> HIDE DEF form
<1>2. \A k \in 1 .. Len(form) : k = 1 \/ k = 2 \/ k = 3
  BY <1>1
<1>3. 1 \in 1 .. Len(form) /\ 2 \in 1 .. Len(form) /\ 3 \in 1 .. Len(form)
  BY <1>1
<1>4. Suits(form, given, L)
  BY <1>1, <1>2, <1>3 DEF Suits
<1> QED BY <1>4 DEF form

\* The values a pseudo-op gives its fields.
LEMMA GivenHeld ==
  ASSUME NEW at
  PROVE  /\ \A len \in {5, 6, 24} : 0 \in Held(Unsigned(at, len))
         /\ 0 \in Held(Signed(at, 16))
         /\ 2 ^ 24 - 1 \in Held(Unsigned(at, 24))
<1>1. \A len : Held(Signed(at, len)) = SignedOf(len) /\ Held(Unsigned(at, len)) = UnsignedOf(len)
  BY DEF Held, Signed, Unsigned
<1>2. 2 ^ 5 - 1 \in Nat /\ 2 ^ 6 - 1 \in Nat /\ 2 ^ 24 - 1 \in Nat
  OBVIOUS
<1>3. -(2 ^ (16 - 1)) <= 0 /\ 0 <= 2 ^ (16 - 1) - 1 /\ 2 ^ (16 - 1) \in Nat
  OBVIOUS
<1>4. \A len \in {5, 6, 24} : 0 \in UnsignedOf(len)
  <2>1. \A a \in Nat : 0 \in 0 .. a
    OBVIOUS
  <2>2. 0 \in 0 .. 2 ^ 5 - 1 /\ 0 \in 0 .. 2 ^ 6 - 1 /\ 0 \in 0 .. 2 ^ 24 - 1
    BY <1>2, <2>1
  <2>3. 0 \in UnsignedOf(5) /\ 0 \in UnsignedOf(6) /\ 0 \in UnsignedOf(24)
    BY <2>2 DEF UnsignedOf
  <2> QED BY <2>3
<1>5. 0 \in SignedOf(16)
  BY <1>3 DEF SignedOf
<1>6. \A a \in Nat : a \in 0 .. a
  OBVIOUS
<1>7. 2 ^ 24 - 1 \in UnsignedOf(24)
  BY <1>2, <1>6, Zenon DEF UnsignedOf
<1> QED BY <1>1, <1>4, <1>5, <1>7

\* The kinds one by one.
LEMMA FieldKindsAre ==
  FieldKinds = {"addr", "c9", "reg", "c14", "d10", "d15",
                "mask", "cond", "target", "sin", "sinFreq", "sinAmp",
                "ramp", "rampFreq", "rampAmp", "lfo", "flags"}
BY Kinds DEF FieldKinds

\* Every form but that of RDAL and RAW makes up the layout of its instruction.
LEMMA FormFits ==
  ASSUME NEW mn \in Fillers
  PROVE  OpFor(mn) \in Ops /\ Suits(Form(mn), Given(mn), Layout(OpFor(mn)))
<1>1. CASE mn \in DelayOps
  <2> DEFINE L == [addr |-> Unsigned(5, 16), c |-> Signed(21, 11)]
             given == <<>>
  <2>1. /\ Form(mn) = <<"addr", "c9">> /\ Given(mn) = given /\ OpFor(mn) = mn /\ mn \in Ops
    BY <1>1 DEF Form, Given, OpFor, Ops, DelayOps, RegOps, MathOps, MaskOps, ChoOps
  <2>2. Layout(mn) = L
    BY <1>1 DEF Layout, DelayOps, RegOps, MathOps, MaskOps
  <2>3. /\ DOMAIN L = {"addr", "c"}
        /\ L["addr"] = Unsigned(5, 16) /\ L["c"] = Signed(21, 11)
        /\ DOMAIN given = {}
    OBVIOUS
  <2> HIDE DEF L, given
  <2>4. Suits(<<"addr", "c9">>, given, L)
    <3>1. KindFits("addr", L[FieldOf["addr"]]) /\ KindFits("c9", L[FieldOf["c9"]])
      BY <2>3, KindsFit, FieldsOf
    <3>2. DOMAIN L = DOMAIN given \cup {FieldOf["addr"], FieldOf["c9"]}
      BY <2>3, FieldsOf
    <3>3. "addr" \in FieldKinds /\ "c9" \in FieldKinds
      BY FieldKindsAre
    <3>4. DOMAIN given = {}
      BY <2>3
    <3> QED BY <3>1, <3>2, <3>3, <3>4, FieldsOf, SuitsTwo
  <2> QED BY <2>2, <2>1, <2>4
<1>2. CASE mn = "RMPA"
  <2> DEFINE L == [c |-> Signed(21, 11)]
             given == <<>>
  <2>1. /\ Form(mn) = <<"c9">> /\ Given(mn) = given /\ OpFor(mn) = mn /\ mn \in Ops
    BY <1>2 DEF Form, Given, OpFor, Ops, DelayOps, RegOps, MathOps, MaskOps, ChoOps
  <2>2. Layout(mn) = L
    BY <1>2 DEF Layout, DelayOps, RegOps, MathOps, MaskOps
  <2>3. /\ DOMAIN L = {"c"}
        /\ L["c"] = Signed(21, 11)
        /\ DOMAIN given = {}
    OBVIOUS
  <2> HIDE DEF L, given
  <2>4. Suits(<<"c9">>, given, L)
    <3>1. KindFits("c9", L[FieldOf["c9"]])
      BY <2>3, KindsFit, FieldsOf
    <3>2. DOMAIN L = DOMAIN given \cup {FieldOf["c9"]}
      BY <2>3, FieldsOf
    <3>3. "c9" \in FieldKinds
      BY FieldKindsAre
    <3>4. DOMAIN given = {}
      BY <2>3
    <3> QED BY <3>1, <3>2, <3>3, <3>4, FieldsOf, SuitsOne
  <2> QED BY <2>2, <2>1, <2>4
<1>3. CASE mn \in RegOps
  <2> DEFINE L == [reg |-> Unsigned(5, 6), c |-> Signed(16, 16)]
             given == <<>>
  <2>1. /\ Form(mn) = <<"reg", "c14">> /\ Given(mn) = given /\ OpFor(mn) = mn /\ mn \in Ops
    BY <1>3 DEF Form, Given, OpFor, Ops, DelayOps, RegOps, MathOps, MaskOps, ChoOps
  <2>2. Layout(mn) = L
    BY <1>3 DEF Layout, DelayOps, RegOps, MathOps, MaskOps
  <2>3. /\ DOMAIN L = {"reg", "c"}
        /\ L["reg"] = Unsigned(5, 6) /\ L["c"] = Signed(16, 16)
        /\ DOMAIN given = {}
    OBVIOUS
  <2> HIDE DEF L, given
  <2>4. Suits(<<"reg", "c14">>, given, L)
    <3>1. KindFits("reg", L[FieldOf["reg"]]) /\ KindFits("c14", L[FieldOf["c14"]])
      BY <2>3, KindsFit, FieldsOf
    <3>2. DOMAIN L = DOMAIN given \cup {FieldOf["reg"], FieldOf["c14"]}
      BY <2>3, FieldsOf
    <3>3. "reg" \in FieldKinds /\ "c14" \in FieldKinds
      BY FieldKindsAre
    <3>4. DOMAIN given = {}
      BY <2>3
    <3> QED BY <3>1, <3>2, <3>3, <3>4, FieldsOf, SuitsTwo
  <2> QED BY <2>2, <2>1, <2>4
<1>4. CASE mn = "MULX"
  <2> DEFINE L == [reg |-> Unsigned(5, 6)]
             given == <<>>
  <2>1. /\ Form(mn) = <<"reg">> /\ Given(mn) = given /\ OpFor(mn) = mn /\ mn \in Ops
    BY <1>4 DEF Form, Given, OpFor, Ops, DelayOps, RegOps, MathOps, MaskOps, ChoOps
  <2>2. Layout(mn) = L
    BY <1>4 DEF Layout, DelayOps, RegOps, MathOps, MaskOps
  <2>3. /\ DOMAIN L = {"reg"}
        /\ L["reg"] = Unsigned(5, 6)
        /\ DOMAIN given = {}
    OBVIOUS
  <2> HIDE DEF L, given
  <2>4. Suits(<<"reg">>, given, L)
    <3>1. KindFits("reg", L[FieldOf["reg"]])
      BY <2>3, KindsFit, FieldsOf
    <3>2. DOMAIN L = DOMAIN given \cup {FieldOf["reg"]}
      BY <2>3, FieldsOf
    <3>3. "reg" \in FieldKinds
      BY FieldKindsAre
    <3>4. DOMAIN given = {}
      BY <2>3
    <3> QED BY <3>1, <3>2, <3>3, <3>4, FieldsOf, SuitsOne
  <2> QED BY <2>2, <2>1, <2>4
<1>5. CASE mn \in MathOps
  <2> DEFINE L == [c |-> Signed(16, 16), d |-> Signed(5, 11)]
             given == <<>>
  <2>1. /\ Form(mn) = <<"c14", "d10">> /\ Given(mn) = given /\ OpFor(mn) = mn /\ mn \in Ops
    BY <1>5 DEF Form, Given, OpFor, Ops, DelayOps, RegOps, MathOps, MaskOps, ChoOps
  <2>2. Layout(mn) = L
    BY <1>5 DEF Layout, DelayOps, RegOps, MathOps, MaskOps
  <2>3. /\ DOMAIN L = {"c", "d"}
        /\ L["c"] = Signed(16, 16) /\ L["d"] = Signed(5, 11)
        /\ DOMAIN given = {}
    OBVIOUS
  <2> HIDE DEF L, given
  <2>4. Suits(<<"c14", "d10">>, given, L)
    <3>1. KindFits("c14", L[FieldOf["c14"]]) /\ KindFits("d10", L[FieldOf["d10"]])
      BY <2>3, KindsFit, FieldsOf
    <3>2. DOMAIN L = DOMAIN given \cup {FieldOf["c14"], FieldOf["d10"]}
      BY <2>3, FieldsOf
    <3>3. "c14" \in FieldKinds /\ "d10" \in FieldKinds
      BY FieldKindsAre
    <3>4. DOMAIN given = {}
      BY <2>3
    <3> QED BY <3>1, <3>2, <3>3, <3>4, FieldsOf, SuitsTwo
  <2> QED BY <2>2, <2>1, <2>4
<1>6. CASE mn \in MaskOps
  <2> DEFINE L == [mask |-> Unsigned(8, 24)]
             given == <<>>
  <2>1. /\ Form(mn) = <<"mask">> /\ Given(mn) = given /\ OpFor(mn) = mn /\ mn \in Ops
    BY <1>6 DEF Form, Given, OpFor, Ops, DelayOps, RegOps, MathOps, MaskOps, ChoOps
  <2>2. Layout(mn) = L
    BY <1>6 DEF Layout, DelayOps, RegOps, MathOps, MaskOps
  <2>3. /\ DOMAIN L = {"mask"}
        /\ L["mask"] = Unsigned(8, 24)
        /\ DOMAIN given = {}
    OBVIOUS
  <2> HIDE DEF L, given
  <2>4. Suits(<<"mask">>, given, L)
    <3>1. KindFits("mask", L[FieldOf["mask"]])
      BY <2>3, KindsFit, FieldsOf
    <3>2. DOMAIN L = DOMAIN given \cup {FieldOf["mask"]}
      BY <2>3, FieldsOf
    <3>3. "mask" \in FieldKinds
      BY FieldKindsAre
    <3>4. DOMAIN given = {}
      BY <2>3
    <3> QED BY <3>1, <3>2, <3>3, <3>4, FieldsOf, SuitsOne
  <2> QED BY <2>2, <2>1, <2>4
<1>7. CASE mn = "SKP"
  <2> DEFINE L == [cond |-> Unsigned(27, 5), n |-> Unsigned(21, 6)]
             given == <<>>
  <2>1. /\ Form(mn) = <<"cond", "target">> /\ Given(mn) = given /\ OpFor(mn) = mn /\ mn \in Ops
    BY <1>7 DEF Form, Given, OpFor, Ops, DelayOps, RegOps, MathOps, MaskOps, ChoOps
  <2>2. Layout(mn) = L
    BY <1>7 DEF Layout, DelayOps, RegOps, MathOps, MaskOps
  <2>3. /\ DOMAIN L = {"cond", "n"}
        /\ L["cond"] = Unsigned(27, 5) /\ L["n"] = Unsigned(21, 6)
        /\ DOMAIN given = {}
    OBVIOUS
  <2> HIDE DEF L, given
  <2>4. Suits(<<"cond", "target">>, given, L)
    <3>1. KindFits("cond", L[FieldOf["cond"]]) /\ KindFits("target", L[FieldOf["target"]])
      BY <2>3, KindsFit, FieldsOf
    <3>2. DOMAIN L = DOMAIN given \cup {FieldOf["cond"], FieldOf["target"]}
      BY <2>3, FieldsOf
    <3>3. "cond" \in FieldKinds /\ "target" \in FieldKinds
      BY FieldKindsAre
    <3>4. DOMAIN given = {}
      BY <2>3
    <3> QED BY <3>1, <3>2, <3>3, <3>4, FieldsOf, SuitsTwo
  <2> QED BY <2>2, <2>1, <2>4
<1>8. CASE mn = "WLDS"
  <2> DEFINE L == [lfo |-> Unsigned(29, 1), freq |-> Unsigned(20, 9), amp |-> Unsigned(5, 15)]
             given == <<>>
  <2>1. /\ Form(mn) = <<"sin", "sinFreq", "sinAmp">> /\ Given(mn) = given /\ OpFor(mn) = mn /\ mn \in Ops
    BY <1>8 DEF Form, Given, OpFor, Ops, DelayOps, RegOps, MathOps, MaskOps, ChoOps
  <2>2. Layout(mn) = L
    BY <1>8 DEF Layout, DelayOps, RegOps, MathOps, MaskOps
  <2>3. /\ DOMAIN L = {"lfo", "freq", "amp"}
        /\ L["lfo"] = Unsigned(29, 1) /\ L["freq"] = Unsigned(20, 9) /\ L["amp"] = Unsigned(5, 15)
        /\ DOMAIN given = {}
    OBVIOUS
  <2> HIDE DEF L, given
  <2>4. Suits(<<"sin", "sinFreq", "sinAmp">>, given, L)
    <3>1. /\ KindFits("sin", L[FieldOf["sin"]]) /\ KindFits("sinFreq", L[FieldOf["sinFreq"]])
          /\ KindFits("sinAmp", L[FieldOf["sinAmp"]])
      BY <2>3, KindsFit, FieldsOf
    <3>2. DOMAIN L = DOMAIN given \cup {FieldOf["sin"], FieldOf["sinFreq"], FieldOf["sinAmp"]}
      BY <2>3, FieldsOf
    <3>3. "sin" \in FieldKinds /\ "sinFreq" \in FieldKinds /\ "sinAmp" \in FieldKinds
      BY FieldKindsAre
    <3>4. DOMAIN given = {}
      BY <2>3
    <3> QED BY <3>1, <3>2, <3>3, <3>4, FieldsOf, SuitsThree
  <2> QED BY <2>2, <2>1, <2>4
<1>9. CASE mn = "WLDR"
  <2> DEFINE L == [lfo |-> Unsigned(29, 1), freq |-> Signed(13, 16), amp |-> Unsigned(5, 2)]
             given == <<>>
  <2>1. /\ Form(mn) = <<"ramp", "rampFreq", "rampAmp">> /\ Given(mn) = given /\ OpFor(mn) = mn /\ mn \in Ops
    BY <1>9 DEF Form, Given, OpFor, Ops, DelayOps, RegOps, MathOps, MaskOps, ChoOps
  <2>2. Layout(mn) = L
    BY <1>9 DEF Layout, DelayOps, RegOps, MathOps, MaskOps
  <2>3. /\ DOMAIN L = {"lfo", "freq", "amp"}
        /\ L["lfo"] = Unsigned(29, 1) /\ L["freq"] = Signed(13, 16) /\ L["amp"] = Unsigned(5, 2)
        /\ DOMAIN given = {}
    OBVIOUS
  <2> HIDE DEF L, given
  <2>4. Suits(<<"ramp", "rampFreq", "rampAmp">>, given, L)
    <3>1. /\ KindFits("ramp", L[FieldOf["ramp"]]) /\ KindFits("rampFreq", L[FieldOf["rampFreq"]])
          /\ KindFits("rampAmp", L[FieldOf["rampAmp"]])
      BY <2>3, KindsFit, FieldsOf
    <3>2. DOMAIN L = DOMAIN given \cup {FieldOf["ramp"], FieldOf["rampFreq"], FieldOf["rampAmp"]}
      BY <2>3, FieldsOf
    <3>3. "ramp" \in FieldKinds /\ "rampFreq" \in FieldKinds /\ "rampAmp" \in FieldKinds
      BY FieldKindsAre
    <3>4. DOMAIN given = {}
      BY <2>3
    <3> QED BY <3>1, <3>2, <3>3, <3>4, FieldsOf, SuitsThree
  <2> QED BY <2>2, <2>1, <2>4
<1>10. CASE mn = "JAM"
  <2> DEFINE L == [lfo |-> Unsigned(6, 1)]
             given == <<>>
  <2>1. /\ Form(mn) = <<"ramp">> /\ Given(mn) = given /\ OpFor(mn) = mn /\ mn \in Ops
    BY <1>10 DEF Form, Given, OpFor, Ops, DelayOps, RegOps, MathOps, MaskOps, ChoOps
  <2>2. Layout(mn) = L
    BY <1>10 DEF Layout, DelayOps, RegOps, MathOps, MaskOps
  <2>3. /\ DOMAIN L = {"lfo"}
        /\ L["lfo"] = Unsigned(6, 1)
        /\ DOMAIN given = {}
    OBVIOUS
  <2> HIDE DEF L, given
  <2>4. Suits(<<"ramp">>, given, L)
    <3>1. KindFits("ramp", L[FieldOf["ramp"]])
      BY <2>3, KindsFit, FieldsOf
    <3>2. DOMAIN L = DOMAIN given \cup {FieldOf["ramp"]}
      BY <2>3, FieldsOf
    <3>3. "ramp" \in FieldKinds
      BY FieldKindsAre
    <3>4. DOMAIN given = {}
      BY <2>3
    <3> QED BY <3>1, <3>2, <3>3, <3>4, FieldsOf, SuitsOne
  <2> QED BY <2>2, <2>1, <2>4
<1>11. CASE mn = "CHO_RDA"
  <2> DEFINE L == [lfo |-> Unsigned(21, 2), flags |-> Unsigned(24, 6), addr |-> Unsigned(5, 16)]
             given == <<>>
  <2>1. /\ Form(mn) = <<"lfo", "flags", "addr">> /\ Given(mn) = given /\ OpFor(mn) = mn /\ mn \in Ops
    BY <1>11 DEF Form, Given, OpFor, Ops, DelayOps, RegOps, MathOps, MaskOps, ChoOps
  <2>2. Layout(mn) = L
    BY <1>11 DEF Layout, DelayOps, RegOps, MathOps, MaskOps
  <2>3. /\ DOMAIN L = {"lfo", "flags", "addr"}
        /\ L["lfo"] = Unsigned(21, 2) /\ L["flags"] = Unsigned(24, 6) /\ L["addr"] = Unsigned(5, 16)
        /\ DOMAIN given = {}
    OBVIOUS
  <2> HIDE DEF L, given
  <2>4. Suits(<<"lfo", "flags", "addr">>, given, L)
    <3>1. /\ KindFits("lfo", L[FieldOf["lfo"]]) /\ KindFits("flags", L[FieldOf["flags"]])
          /\ KindFits("addr", L[FieldOf["addr"]])
      BY <2>3, KindsFit, FieldsOf
    <3>2. DOMAIN L = DOMAIN given \cup {FieldOf["lfo"], FieldOf["flags"], FieldOf["addr"]}
      BY <2>3, FieldsOf
    <3>3. "lfo" \in FieldKinds /\ "flags" \in FieldKinds /\ "addr" \in FieldKinds
      BY FieldKindsAre
    <3>4. DOMAIN given = {}
      BY <2>3
    <3> QED BY <3>1, <3>2, <3>3, <3>4, FieldsOf, SuitsThree
  <2> QED BY <2>2, <2>1, <2>4
<1>12. CASE mn = "CHO_SOF"
  <2> DEFINE L == [lfo |-> Unsigned(21, 2), flags |-> Unsigned(24, 6), d |-> Signed(5, 16)]
             given == <<>>
  <2>1. /\ Form(mn) = <<"lfo", "flags", "d15">> /\ Given(mn) = given /\ OpFor(mn) = mn /\ mn \in Ops
    BY <1>12 DEF Form, Given, OpFor, Ops, DelayOps, RegOps, MathOps, MaskOps, ChoOps
  <2>2. Layout(mn) = L
    BY <1>12 DEF Layout, DelayOps, RegOps, MathOps, MaskOps
  <2>3. /\ DOMAIN L = {"lfo", "flags", "d"}
        /\ L["lfo"] = Unsigned(21, 2) /\ L["flags"] = Unsigned(24, 6) /\ L["d"] = Signed(5, 16)
        /\ DOMAIN given = {}
    OBVIOUS
  <2> HIDE DEF L, given
  <2>4. Suits(<<"lfo", "flags", "d15">>, given, L)
    <3>1. /\ KindFits("lfo", L[FieldOf["lfo"]]) /\ KindFits("flags", L[FieldOf["flags"]])
          /\ KindFits("d15", L[FieldOf["d15"]])
      BY <2>3, KindsFit, FieldsOf
    <3>2. DOMAIN L = DOMAIN given \cup {FieldOf["lfo"], FieldOf["flags"], FieldOf["d15"]}
      BY <2>3, FieldsOf
    <3>3. "lfo" \in FieldKinds /\ "flags" \in FieldKinds /\ "d15" \in FieldKinds
      BY FieldKindsAre
    <3>4. DOMAIN given = {}
      BY <2>3
    <3> QED BY <3>1, <3>2, <3>3, <3>4, FieldsOf, SuitsThree
  <2> QED BY <2>2, <2>1, <2>4
<1>13. CASE mn = "JMP"
  <2> DEFINE L == [cond |-> Unsigned(27, 5), n |-> Unsigned(21, 6)]
             given == [cond |-> 0]
  <2>1. /\ Form(mn) = <<"target">> /\ Given(mn) = given /\ OpFor(mn) = "SKP" /\ "SKP" \in Ops
    BY <1>13 DEF Form, Given, OpFor, Ops, DelayOps, RegOps, MathOps, MaskOps, ChoOps
  <2>2. Layout("SKP") = L
    BY <1>13 DEF Layout, DelayOps, RegOps, MathOps, MaskOps
  <2>3. /\ DOMAIN L = {"cond", "n"}
        /\ L["cond"] = Unsigned(27, 5) /\ L["n"] = Unsigned(21, 6)
        /\ DOMAIN given = {"cond"} /\ given["cond"] = 0
    OBVIOUS
  <2> HIDE DEF L, given
  <2>4. Suits(<<"target">>, given, L)
    <3>1. KindFits("target", L[FieldOf["target"]])
      BY <2>3, KindsFit, FieldsOf
    <3>2. DOMAIN L = DOMAIN given \cup {FieldOf["target"]}
      BY <2>3, FieldsOf
    <3>3. "target" \in FieldKinds
      BY FieldKindsAre
    <3>4. \A f \in DOMAIN given : given[f] \in Held(L[f])
      BY <2>3, GivenHeld
    <3> QED BY <3>1, <3>2, <3>3, <3>4, FieldsOf, SuitsOne
  <2> QED BY <2>2, <2>1, <2>4
<1>14. CASE mn = "NOP"
  <2> DEFINE L == [cond |-> Unsigned(27, 5), n |-> Unsigned(21, 6)]
             given == [cond |-> 0, n |-> 0]
  <2>1. /\ Form(mn) = <<>> /\ Given(mn) = given /\ OpFor(mn) = "SKP" /\ "SKP" \in Ops
    BY <1>14 DEF Form, Given, OpFor, Ops, DelayOps, RegOps, MathOps, MaskOps, ChoOps
  <2>2. Layout("SKP") = L
    BY <1>14 DEF Layout, DelayOps, RegOps, MathOps, MaskOps
  <2>3. /\ DOMAIN L = {"cond", "n"}
        /\ L["cond"] = Unsigned(27, 5) /\ L["n"] = Unsigned(21, 6)
        /\ DOMAIN given = {"cond", "n"} /\ given["cond"] = 0 /\ given["n"] = 0
    OBVIOUS
  <2> HIDE DEF L, given
  <2>4. Suits(<<>>, given, L)
    BY <2>3, GivenHeld, SuitsNone
  <2> QED BY <2>2, <2>1, <2>4
<1>15. CASE mn = "LDAX"
  <2> DEFINE L == [reg |-> Unsigned(5, 6), c |-> Signed(16, 16)]
             given == [c |-> 0]
  <2>1. /\ Form(mn) = <<"reg">> /\ Given(mn) = given /\ OpFor(mn) = "RDFX" /\ "RDFX" \in Ops
    BY <1>15 DEF Form, Given, OpFor, Ops, DelayOps, RegOps, MathOps, MaskOps, ChoOps
  <2>2. Layout("RDFX") = L
    BY <1>15 DEF Layout, DelayOps, RegOps, MathOps, MaskOps
  <2>3. /\ DOMAIN L = {"reg", "c"}
        /\ L["reg"] = Unsigned(5, 6) /\ L["c"] = Signed(16, 16)
        /\ DOMAIN given = {"c"} /\ given["c"] = 0
    OBVIOUS
  <2> HIDE DEF L, given
  <2>4. Suits(<<"reg">>, given, L)
    <3>1. KindFits("reg", L[FieldOf["reg"]])
      BY <2>3, KindsFit, FieldsOf
    <3>2. DOMAIN L = DOMAIN given \cup {FieldOf["reg"]}
      BY <2>3, FieldsOf
    <3>3. "reg" \in FieldKinds
      BY FieldKindsAre
    <3>4. \A f \in DOMAIN given : given[f] \in Held(L[f])
      BY <2>3, GivenHeld
    <3> QED BY <3>1, <3>2, <3>3, <3>4, FieldsOf, SuitsOne
  <2> QED BY <2>2, <2>1, <2>4
<1>16. CASE mn = "CLR"
  <2> DEFINE L == [mask |-> Unsigned(8, 24)]
             given == [mask |-> 0]
  <2>1. /\ Form(mn) = <<>> /\ Given(mn) = given /\ OpFor(mn) = "AND" /\ "AND" \in Ops
    BY <1>16 DEF Form, Given, OpFor, Ops, DelayOps, RegOps, MathOps, MaskOps, ChoOps
  <2>2. Layout("AND") = L
    BY <1>16 DEF Layout, DelayOps, RegOps, MathOps, MaskOps
  <2>3. /\ DOMAIN L = {"mask"}
        /\ L["mask"] = Unsigned(8, 24)
        /\ DOMAIN given = {"mask"} /\ given["mask"] = 0
    OBVIOUS
  <2> HIDE DEF L, given
  <2>4. Suits(<<>>, given, L)
    BY <2>3, GivenHeld, SuitsNone
  <2> QED BY <2>2, <2>1, <2>4
<1>17. CASE mn = "NOT"
  <2> DEFINE L == [mask |-> Unsigned(8, 24)]
             given == [mask |-> 2 ^ 24 - 1]
  <2>1. /\ Form(mn) = <<>> /\ Given(mn) = given /\ OpFor(mn) = "XOR" /\ "XOR" \in Ops
    BY <1>17 DEF Form, Given, OpFor, Ops, DelayOps, RegOps, MathOps, MaskOps, ChoOps
  <2>2. Layout("XOR") = L
    BY <1>17 DEF Layout, DelayOps, RegOps, MathOps, MaskOps
  <2>3. /\ DOMAIN L = {"mask"}
        /\ L["mask"] = Unsigned(8, 24)
        /\ DOMAIN given = {"mask"} /\ given["mask"] = 2 ^ 24 - 1
    OBVIOUS
  <2> HIDE DEF L, given
  <2>4. Suits(<<>>, given, L)
    BY <2>3, GivenHeld, SuitsNone
  <2> QED BY <2>2, <2>1, <2>4
<1>18. CASE mn = "ABSA"
  <2> DEFINE L == [reg |-> Unsigned(5, 6), c |-> Signed(16, 16)]
             given == [reg |-> 0, c |-> 0]
  <2>1. /\ Form(mn) = <<>> /\ Given(mn) = given /\ OpFor(mn) = "MAXX" /\ "MAXX" \in Ops
    BY <1>18 DEF Form, Given, OpFor, Ops, DelayOps, RegOps, MathOps, MaskOps, ChoOps
  <2>2. Layout("MAXX") = L
    BY <1>18 DEF Layout, DelayOps, RegOps, MathOps, MaskOps
  <2>3. /\ DOMAIN L = {"reg", "c"}
        /\ L["reg"] = Unsigned(5, 6) /\ L["c"] = Signed(16, 16)
        /\ DOMAIN given = {"reg", "c"} /\ given["reg"] = 0 /\ given["c"] = 0
    OBVIOUS
  <2> HIDE DEF L, given
  <2>4. Suits(<<>>, given, L)
    BY <2>3, GivenHeld, SuitsNone
  <2> QED BY <2>2, <2>1, <2>4
<1> QED BY <1>1, <1>2, <1>3, <1>4, <1>5, <1>6, <1>7, <1>8, <1>9, <1>10, <1>11, <1>12, <1>13, <1>14, <1>15, <1>16, <1>17, <1>18
         DEF Fillers, Ops, ChoOps, Pseudo

-----------------------------------------------------------------------------
(* What is assembled fits its word.                                        *)

\* An instruction with every field of its layout, each an integer it holds.
Assembled(i) ==
  /\ i.op \in Ops
  /\ DOMAIN i.arg = DOMAIN Layout(i.op)
  /\ \A f \in DOMAIN Layout(i.op) : i.arg[f] \in Held(Layout(i.op)[f])

\* Operands that are all accepted make an assembled instruction.
LEMMA FilledHeld ==
  ASSUME NEW mn \in Fillers, NEW groups, NEW symtab0, NEW labels0,
         NEW index \in Int, \A x \in labels0 : symtab0[x].n \in Int,
         Filled(mn, groups, symtab0, labels0, index).ok
  PROVE  Assembled(Filled(mn, groups, symtab0, labels0, index).v)
<1> DEFINE form  == Form(mn)
           given == Given(mn)
           L     == Layout(OpFor(mn))
           value == [k \in 1 .. Len(form) |->
                       Operand(form[k], groups[k], Eval(groups[k], symtab0), symtab0, labels0, index)]
           slot(f) == CHOOSE k \in 1 .. Len(form) : FieldOf[form[k]] = f
           read == [f \in {FieldOf[form[k]] : k \in 1 .. Len(form)} |-> value[slot(f)].v]
           i    == Filled(mn, groups, symtab0, labels0, index).v
<1>1. OpFor(mn) \in Ops /\ Suits(form, given, L)
  BY FormFits
<1>2. /\ \A k \in 1 .. Len(form) : value[k].ok
      /\ i = [op |-> OpFor(mn), arg |-> Over(given, read)]
  BY DEF Filled, Gives, Fails
<1>3. ASSUME NEW k \in 1 .. Len(form) PROVE InSpan(form[k], value[k].v)
  <2>1. form[k] \in FieldKinds
    BY <1>1 DEF Suits
  <2>2. Operand(form[k], groups[k], Eval(groups[k], symtab0), symtab0, labels0, index).ok
    BY <1>2
  <2>3. InSpan(form[k], Operand(form[k], groups[k], Eval(groups[k], symtab0), symtab0,
                                labels0, index).v)
    BY <2>1, <2>2, OperandHeld
  <2> QED BY <2>3
<1>4. ASSUME NEW f \in DOMAIN read PROVE f \in DOMAIN L /\ read[f] \in Held(L[f])
  <2>1. \E k \in 1 .. Len(form) : FieldOf[form[k]] = f
    BY <1>4
  <2>2. slot(f) \in 1 .. Len(form) /\ FieldOf[form[slot(f)]] = f
    BY <2>1
  <2>3. read[f] = value[slot(f)].v
    OBVIOUS
  <2> DEFINE s == slot(f)
  <2> HIDE DEF s
  <2>4. s \in 1 .. Len(form) /\ FieldOf[form[s]] = f /\ read[f] = value[s].v
    BY <2>2, <2>3 DEF s
  <2>5. InSpan(form[s], value[s].v)
    BY <1>3, <2>4
  <2> HIDE DEF value, read, form, given, L
  <2>6. f \in DOMAIN L /\ KindFits(form[s], L[f])
    BY <1>1, <2>4 DEF Suits
  <2> QED BY <2>4, <2>5, <2>6 DEF KindFits
<1>5. DOMAIN read = {FieldOf[form[k]] : k \in 1 .. Len(form)}
  OBVIOUS
<1> HIDE DEF value, read, given
<1>6. /\ DOMAIN Over(given, read) = DOMAIN given \cup DOMAIN read
      /\ \A x \in DOMAIN read : Over(given, read)[x] = read[x]
      /\ \A x \in DOMAIN given \ DOMAIN read : Over(given, read)[x] = given[x]
  BY OverHas
<1> HIDE DEF L, form, i
<1>7. /\ \A f \in DOMAIN given : f \in DOMAIN L /\ given[f] \in Held(L[f])
      /\ \A f \in DOMAIN L : f \in DOMAIN given \/ f \in DOMAIN read
  BY <1>1, <1>5 DEF Suits
<1>8. DOMAIN Over(given, read) = DOMAIN L
  BY <1>4, <1>6, <1>7
<1>9. \A f \in DOMAIN L : Over(given, read)[f] \in Held(L[f])
  BY <1>4, <1>6, <1>7
<1>10. i.op = OpFor(mn) /\ i.arg = Over(given, read)
  BY <1>2
<1>11. Layout(i.op) = L
  BY <1>10 DEF L
<1>12. Assembled(i)
  BY <1>1, <1>8, <1>9, <1>10, <1>11 DEF Assembled
<1> QED BY <1>12 DEF i

\* What CHO RDAL assembles to.
RdalOne(i) == \E lfo \in 0 .. 3, flags \in 0 .. 63 :
                i = [op |-> "CHO_RDAL", arg |-> [lfo |-> lfo, flags |-> flags]]

\* Its oscillator is one of four, and its flags are six.
LEMMA RdalFits ==
  ASSUME NEW groups, NEW symtab0, Rdal(groups, symtab0).ok
  PROVE  RdalOne(Rdal(groups, symtab0).v)
<1>1. PICK e, flags : /\ Rdal(groups, symtab0) = RdalOf(e, flags)
                      /\ flags.ok => flags.v \in 0 .. 63
  <2>1. CASE Len(groups) = 1
    <3>1. Rdal(groups, symtab0) = RdalOf(Eval(groups[1], symtab0), Gives(ChoFlags.REG))
      BY <2>1 DEF Rdal
    <3>2. Gives(ChoFlags.REG).v \in 0 .. 63
      BY DEF Gives, ChoFlags
    <3> QED BY <3>1, <3>2
  <2>2. CASE Len(groups) = 2
    <3> DEFINE flags == Flags(groups[2], Eval(groups[2], symtab0))
    <3>1. Rdal(groups, symtab0) = RdalOf(Eval(groups[1], symtab0), flags)
      BY <2>2 DEF Rdal
    <3>2. flags.ok => flags.v \in 0 .. 63
      BY DEF Flags, FlagBits, IntIn, Gives, Fails
    <3> QED BY <3>1, <3>2
  <2>3. CASE Len(groups) # 1 /\ Len(groups) # 2
    BY <2>3 DEF Rdal, Fails
  <2> QED BY <2>1, <2>2, <2>3
<1> DEFINE lfo == IntIn(e, 0 .. 3 \cup {8, 9})
           cos == IF lfo.v >= 8 THEN ChoFlags.COS ELSE 0
           made == [op |-> "CHO_RDAL", arg |-> [lfo |-> lfo.v % 8, flags |-> BitOr(flags.v, cos)]]
           r    == Rdal(groups, symtab0)
<1>2. r = IF lfo.ok /\ flags.ok THEN Gives(made) ELSE Fails
  BY <1>1 DEF RdalOf
<1>3. r.ok
  OBVIOUS
<1>4. cos \in {0, 1}
  BY DEF ChoFlags
<1>5. lfo.ok => lfo.v \in 0 .. 3 \cup {8, 9}
  BY DEF IntIn, Gives, Fails
<1>6. made = [op |-> "CHO_RDAL", arg |-> [lfo |-> lfo.v % 8, flags |-> BitOr(flags.v, cos)]]
  OBVIOUS
<1> HIDE DEF made, r, lfo, cos
<1>7. lfo.ok /\ flags.ok /\ r.v = made
  BY <1>2, <1>3 DEF Gives, Fails
<1>8. lfo.v % 8 \in 0 .. 3
  BY <1>5, <1>7
<1>9. BitOr(flags.v, cos) \in 0 .. 63
  BY <1>1, <1>4, <1>7, OperandAssumption DEF OperandAssumption
<1>10. RdalOne(made)
  BY <1>6, <1>8, <1>9 DEF RdalOne
<1> QED BY <1>7, <1>10 DEF r

\* Reading through the ramp or the sine latches no more than six flags.
LEMMA RdalHeld ==
  ASSUME NEW groups, NEW symtab0, Rdal(groups, symtab0).ok
  PROVE  Assembled(Rdal(groups, symtab0).v)
<1> DEFINE i == Rdal(groups, symtab0).v
           L == Layout("CHO_RDAL")
<1>1. RdalOne(i)
  BY RdalFits
<1> HIDE DEF i
<1>2. /\ DOMAIN L = {"lfo", "flags"}
      /\ L["lfo"] = Unsigned(21, 2) /\ L["flags"] = Unsigned(24, 6)
  BY DEF Layout, DelayOps, RegOps, MathOps, MaskOps
<1>3. Held(Unsigned(21, 2)) = 0 .. 3 /\ Held(Unsigned(24, 6)) = 0 .. 63
  BY Spans DEF Held, Unsigned
<1> HIDE DEF L
<1>4. i.op = "CHO_RDAL" /\ DOMAIN i.arg = {"lfo", "flags"}
      /\ i.arg["lfo"] \in 0 .. 3 /\ i.arg["flags"] \in 0 .. 63
  BY <1>1 DEF RdalOne
<1>5. Layout(i.op) = L /\ i.op \in Ops
  BY <1>4 DEF L, Ops, ChoOps
<1>6. Assembled(i)
  BY <1>2, <1>3, <1>4, <1>5 DEF Assembled
<1> QED BY <1>6 DEF i

\* A line parsed is a CHO RDAL, or the operands of another mnemonic.
ParsesAs(r, symtab0, labels0, index) ==
  \/ \E groups : r = Rdal(groups, symtab0)
  \/ \E mn \in Fillers \cup {"RAW"} : \E groups : r = Filled(mn, groups, symtab0, labels0, index)

\* It is, whatever the mnemonic.
LEMMA ParseShape ==
  ASSUME NEW name \in Seq(STRING), NEW operands, NEW symtab0, NEW labels0, NEW index,
         Parse(name, operands, symtab0, labels0, index).ok
  PROVE  ParsesAs(Parse(name, operands, symtab0, labels0, index), symtab0, labels0, index)
<1> DEFINE groups == SplitCommas(operands)
           cho  == name = <<"CHO">>
           mn   == IF cho THEN ChoKind[groups[1][1].s[1]] ELSE name[1]
           rest == IF cho THEN Tail(groups) ELSE groups
           r    == Parse(name, operands, symtab0, labels0, index)
<1>1. /\ ~(Len(name) # 1 \/ name[1] \notin Mnemonics \/ (cho /\ ~IsCho(groups)))
      /\ r = IF mn = "CHO_RDAL" THEN Rdal(rest, symtab0)
             ELSE Filled(mn, rest, symtab0, labels0, index)
  BY DEF Parse, Fails
<1>2. mn \in Fillers \cup {"CHO_RDAL", "RAW"}
  <2>1. CASE cho
    <3> DEFINE s == groups[1][1].s[1]
    <3>1. s \in {"RDA", "SOF", "RDAL"}
      BY <1>1, <2>1 DEF IsCho, ChoKind
    <3> HIDE DEF s
    <3>2. ChoKind[s] \in {"CHO_RDA", "CHO_SOF", "CHO_RDAL"}
      BY <3>1 DEF ChoKind
    <3>3. mn = ChoKind[s]
      BY <2>1 DEF s
    <3> HIDE DEF mn
    <3> QED BY <3>2, <3>3 DEF Fillers, Ops, ChoOps
  <2>2. CASE ~cho
    <3>1. ASSUME name[1] = "CHO", Len(name) = 1 PROVE name = <<"CHO">>
      BY <3>1
    <3>2. name[1] \in Mnemonics /\ name[1] # "CHO"
      BY <1>1, <2>2, <3>1
    <3> QED BY <2>2, <3>2 DEF Fillers, Mnemonics, Ops, ChoOps
  <2> QED BY <2>1, <2>2
<1> HIDE DEF mn, rest, r
<1>3. CASE mn = "CHO_RDAL"
  BY <1>1, <1>3 DEF ParsesAs, r
<1>4. CASE mn \in Fillers \cup {"RAW"}
  <2>1. mn # "CHO_RDAL"
    BY <1>4 DEF Fillers, Pseudo
  <2> QED BY <1>1, <1>4, <2>1 DEF ParsesAs, r
<1> QED BY <1>2, <1>3, <1>4

\* A line parsed is an assembled instruction, or a word written as it is.
LEMMA ParseHeld ==
  ASSUME NEW name \in Seq(STRING), NEW operands, NEW symtab0, NEW labels0,
         NEW index \in Int, \A x \in labels0 : symtab0[x].n \in Int,
         Parse(name, operands, symtab0, labels0, index).ok,
         Parse(name, operands, symtab0, labels0, index).v.op # "RAW"
  PROVE  Assembled(Parse(name, operands, symtab0, labels0, index).v)
<1> DEFINE r == Parse(name, operands, symtab0, labels0, index)
<1>1. r.ok /\ r.v.op # "RAW" /\ ParsesAs(r, symtab0, labels0, index)
  BY ParseShape
<1> SUFFICES Assembled(r.v)
  OBVIOUS
<1> HIDE DEF r
<1>2. ASSUME NEW groups, r = Rdal(groups, symtab0)
      PROVE  Assembled(r.v)
  BY <1>1, <1>2, RdalHeld
<1>3. ASSUME NEW mn \in Fillers \cup {"RAW"}, NEW groups,
             r = Filled(mn, groups, symtab0, labels0, index)
      PROVE  Assembled(r.v)
  <2>1. CASE mn = "RAW"
    <3>1. r.v.op = OpFor(mn)
      BY <1>1, <1>3 DEF Filled, Gives, Fails
    <3>2. OpFor(mn) = "RAW"
      BY <2>1 DEF OpFor
    <3> QED BY <1>1, <3>1, <3>2
  <2>2. CASE mn \in Fillers
    BY <1>1, <1>3, <2>2, FilledHeld
  <2> QED BY <2>1, <2>2
<1> QED BY <1>1, <1>2, <1>3 DEF ParsesAs

\* An assembled instruction is one that a word stands for.
LEMMA AssembledFits ==
  ASSUME NEW i, Assembled(i)
  PROVE  Encodable(AsWord(i)) /\ AsWord(i).op # "RAW"
<1>1. "RAW" \notin Ops
  BY DEF Ops, DelayOps, RegOps, MathOps, MaskOps, ChoOps
<1> DEFINE L == Layout(i.op)
           w == AsWord(i)
           bits(f) == Bits(i.arg[f], IF L[f].signed THEN 16 ELSE 32)
<1>2. i.op \in Ops /\ DOMAIN i.arg = DOMAIN L /\ \A f \in DOMAIN L : i.arg[f] \in Held(L[f])
  BY DEF Assembled
<1>3. w = [op |-> i.op, field |-> [f \in DOMAIN L |-> bits(f)]]
  BY <1>1, <1>2 DEF AsWord
<1>4. \A f \in DOMAIN L : Fits(bits(f), L[f])
  BY <1>2, HeldFits
<1> HIDE DEF w, bits
<1>5. w.op = i.op /\ w.field = [f \in DOMAIN L |-> bits(f)]
  BY <1>3
<1>6. Layout(w.op) = L
  BY <1>5
<1> HIDE DEF L
<1>7. \A f \in DOMAIN L : w.field[f] = bits(f)
  BY <1>5
<1>8. w = [op |-> w.op, field |-> [f \in DOMAIN L |-> w.field[f]]]
  BY <1>3, <1>5, <1>7
<1>9. Encodable(w)
  BY <1>2, <1>4, <1>5, <1>6, <1>7, <1>8 DEF Encodable
<1> QED BY <1>1, <1>2, <1>5, <1>9 DEF w

\* The word of the NOP that fills a program.
LEMMA NopWord ==
  Encode(AsWord([op |-> "SKP", arg |-> [cond |-> 0, n |-> 0]])) = {0, 4}
<1> DEFINE i == [op |-> "SKP", arg |-> [cond |-> 0, n |-> 0]]
           w == AsWord(i)
           L == Layout("SKP")
<1>1. Bits(0, 32) = {}
  <2>1. \A b \in 0 .. 31 : Bit(0, b) = 0
    <3> TAKE b \in 0 .. 31
    <3>1. Low(b) \in Nat \ {0} /\ High(b) \in Nat \ {0}
      BY Steps
    <3>2. \A d \in Nat \ {0} : 0 \div d = 0
      OBVIOUS
    <3> DEFINE q == (0 \div Low(b)) \div High(b)
    <3>3. q = 0
      BY <3>1, <3>2
    <3>4. Bit(0, b) = q % 2
      BY DEF Bit
    <3> HIDE DEF q
    <3> QED BY <3>3, <3>4
  <2>2. Bits(0, 32) = {b \in 0 .. 31 : Bit(0, b) = 1}
    BY DEF Bits, Bit, Low, High
  <2> QED BY <2>1, <2>2
<1>2. /\ DOMAIN L = {"cond", "n"}
      /\ L["cond"].signed = FALSE /\ L["n"].signed = FALSE
  BY DEF Layout, DelayOps, RegOps, MathOps, MaskOps, Unsigned
<1>3. w = [op |-> "SKP", field |-> [f \in {"cond", "n"} |-> Bits(i.arg[f],
                                                     IF L[f].signed THEN 16 ELSE 32)]]
  BY DEF AsWord
<1> HIDE DEF L, w
<1>4. w.op = "SKP" /\ w.field["cond"] = {} /\ w.field["n"] = {}
  BY <1>1, <1>2, <1>3
<1>5. \A n \in DOMAIN L : Put(w.field[n], L[n]) = {}
  BY <1>2, <1>4 DEF Put
<1>6. Fixed("SKP") = {0, 4}
  <2>1. Opcode("SKP") = {0, 4}
    BY DEF Opcode, ChoOps
  <2>2. SubType("SKP") = {}
    BY DEF SubType
  <2> QED BY <2>1, <2>2 DEF Fixed
<1>7. Encode(w) = Fixed("SKP")
  BY <1>4, <1>5 DEF Encode, L
<1> QED BY <1>6, <1>7 DEF w

\* The place of an instruction is a line that starts with a name.
NamedInv == /\ TypeInv
            /\ \A q \in 1 .. Len(pending) :
                 BodyOf(pending[q]) # <<>> /\ IsId(BodyOf(pending[q])[1])

\* No line is pending at first.
LEMMA WordsInit == ASSUME Init PROVE SkipInv /\ NamedInv
<1>1. pending = <<>>
  BY DEF Init
<1>2. SkipInv /\ TypeInv
  BY SkipInit, TypeInit
<1> QED BY <1>1, <1>2 DEF NamedInv

\* Only Instruction appends to the pending lines, and its line starts with a name.
LEMMA NamedStep == ASSUME NamedInv, [Next]_vars PROVE NamedInv'
<1>1. TypeInv'
  BY TypeStep DEF NamedInv
<1>2. CASE UNCHANGED <<source, pending>>
  BY <1>1, <1>2 DEF NamedInv, BodyOf
<1>3. CASE Instruction /\ ~Fail
  <2> DEFINE n    == Count(Line)
             more == [j \in 1 .. n |-> row]
  <2>1. /\ row <= Len(source) /\ Kind(Line) = "instruction"
        /\ pending' = pending \o more /\ source' = source
    BY <1>3 DEF Instruction, At, NextLine
  <2>2. Line # <<>> /\ IsId(Line[1])
    BY <2>1 DEF Kind
  <2>3. Line = BodyOf(row)
    BY DEF Line, BodyOf
  <2>4. Len(source) \in Nat /\ row \in 1 .. Len(source) /\ Line \in Seq(Tokens)
    BY <2>1, LineType DEF NamedInv
  <2>5. n \in Nat
    BY <2>4, CountType
  <2> HIDE DEF n
  <2>6. more \in Seq(1 .. Len(source)) /\ Len(more) = n /\ \A q \in 1 .. n : more[q] = row
    BY <2>4, <2>5
  <2> HIDE DEF more
  <2>7. pending \in Seq(1 .. Len(source)) /\ Len(pending) \in Nat
    BY DEF NamedInv, TypeInv, TypeOK
  <2>8. /\ Len(pending') = Len(pending) + n
        /\ \A q \in 1 .. Len(pending') :
             pending'[q] = IF q <= Len(pending) THEN pending[q] ELSE more[q - Len(pending)]
    BY <2>1, <2>6, <2>7, Joined, Zenon
  <2>9. \A q \in 1 .. Len(pending') :
          (q \in 1 .. Len(pending) /\ pending'[q] = pending[q]) \/ pending'[q] = row
    <3> TAKE q \in 1 .. Len(pending')
    <3>1. CASE q <= Len(pending)
      BY <3>1, <2>8
    <3>2. CASE ~(q <= Len(pending))
      <4>1. q - Len(pending) \in 1 .. n
        BY <3>2, <2>5, <2>7, <2>8
      <4> QED BY <3>2, <4>1, <2>6, <2>8
    <3> QED BY <3>1, <3>2
  <2>10. \A k : BodyOf(k)' = BodyOf(k)
    BY <2>1 DEF BodyOf
  <2>11. \A q \in 1 .. Len(pending') :
           BodyOf(pending'[q]) # <<>> /\ IsId(BodyOf(pending'[q])[1])
    BY <2>2, <2>3, <2>9 DEF NamedInv
  <2>12. \A q \in 1 .. Len(pending') :
           BodyOf(pending[q])' # <<>> /\ IsId(BodyOf(pending[q])'[1])
    BY <2>10, <2>11
  <2> QED BY <1>1, <2>12 DEF NamedInv
<1>4. CASE Label \/ Blank \/ BadLine \/ Equ \/ Mem \/ EndPass1 \/ Emit \/ Finish \/ Fail
  BY <1>2, <1>4 DEF Label, Blank, BadLine, Equ, Mem, EndPass1, Emit, Finish, Fail, NextLine
<1>5. CASE UNCHANGED vars
  BY <1>2, <1>5 DEF vars
<1> QED BY <1>3, <1>4, <1>5 DEF Next

\* What the second pass has parsed are assembled instructions.
LEMMA WordsFollow == ASSUME SkipInv, NamedInv PROVE WordsFaithful
<1>1. /\ pending \in Seq(1 .. Len(source)) /\ Len(pending) \in Nat /\ Len(code) \in Nat
      /\ Len(code) <= Len(pending) /\ Len(pending) <= ProgLen /\ ProgLen \in Nat
      /\ \A x \in labels : symtab[x].n \in Int
  <2>1. Len(code) \in Nat
    BY DEF NamedInv, TypeInv
  <2>2. \A x \in labels : symtab[x] \in IntNum
    BY DEF NamedInv, TypeInv, TypeOK
  <2>3. \A x \in labels : symtab[x].n \in Int
    BY <2>2 DEF IntNum
  <2> QED BY <2>1, <2>3, AsmAssumption DEF NamedInv, TypeInv, TypeOK, AsmAssumption
<1>2. ASSUME NEW p \in 1 .. Len(code), code[p].op # "RAW"
      PROVE  Decode(Words[p - 1]) = AsWord(code[p]) /\ Canonical(Words[p - 1])
  <2> DEFINE body == BodyOf(pending[p])
  <2>1. Parsed(p - 1).ok /\ code[p] = Parsed(p - 1).v
    BY DEF SkipInv
  <2>2. Parsed(p - 1) = Parse(body[1].s, Operands1(body), symtab, labels, p - 1)
    <3>1. (p - 1) + 1 = p
      BY <1>1
    <3> QED BY <3>1 DEF Parsed, BodyOf
  <2>3. body[1].s \in Seq(STRING)
    <3>1. p \in 1 .. Len(pending) /\ pending[p] \in 1 .. Len(source)
      BY <1>1
    <3>2. source \in Seq(Seq(Tokens))
      BY SourceType DEF NamedInv, TypeInv
    <3>3. body \in Seq(Tokens)
      BY <3>1, <3>2, BodyType DEF BodyOf
    <3>4. body # <<>> /\ IsId(body[1])
      BY <3>1 DEF NamedInv
    <3> HIDE DEF body
    <3>5. body[1] \in Tokens
      BY <3>3, <3>4
    <3> QED BY <3>4, <3>5, AsmAssumption DEF AsmAssumption
  <2> HIDE DEF body
  <2>4. p - 1 \in Int /\ p - 1 \in 0 .. ProgLen - 1 /\ p - 1 < Len(code) /\ (p - 1) + 1 = p
    BY <1>1
  <2>5. Assembled(code[p])
    BY <1>1, <1>2, <2>1, <2>2, <2>3, <2>4, ParseHeld
  <2>6. Encodable(AsWord(code[p])) /\ AsWord(code[p]).op # "RAW"
    BY <2>5, AssembledFits
  <2>7. Words[p - 1] = Encode(AsWord(code[p]))
    BY <2>4 DEF Words
  <2> QED BY <2>6, <2>7, DecodeEncode, EncodeCanonical
<1>3. ASSUME NEW s \in Len(code) .. ProgLen - 1 PROVE Words[s] = {0, 4}
  <2>1. s \in 0 .. ProgLen - 1 /\ ~(s < Len(code))
    BY <1>1
  <2>2. Words[s] = Encode(AsWord([op |-> "SKP", arg |-> [cond |-> 0, n |-> 0]]))
    BY <2>1 DEF Words
  <2> QED BY <2>2, NopWord
<1> QED BY <1>2, <1>3 DEF WordsFaithful

\* Every word of a finished program decodes to the instruction its line was
\* assembled to and is in the form SpinASM writes, and NOP fills the rest:
\* every accepted operand fits the field that its instruction keeps it in.
THEOREM WordsStayFaithful == Spec => []WordsFaithful
<1>1. Init => SkipInv /\ NamedInv
  BY WordsInit
<1>2. SkipInv /\ NamedInv /\ [Next]_vars => SkipInv' /\ NamedInv'
  BY SkipStep, NamedStep
<1>3. SkipInv /\ NamedInv => WordsFaithful
  BY WordsFollow
<1> QED BY <1>1, <1>2, <1>3, PTL DEF Spec

\* Each operand of an instruction is the value of the field it is for.
LEMMA FilledValue ==
  ASSUME NEW mn \in Fillers, NEW groups, NEW symtab0, NEW labels0, NEW index,
         NEW k, k \in 1 .. Len(Form(mn)), Filled(mn, groups, symtab0, labels0, index).ok
  PROVE  LET o == Operand(Form(mn)[k], groups[k], Eval(groups[k], symtab0), symtab0,
                          labels0, index)
         IN  /\ o.ok /\ Len(groups) = Len(Form(mn))
             /\ Filled(mn, groups, symtab0, labels0, index).v.arg[FieldOf[Form(mn)[k]]] = o.v
<1> DEFINE form  == Form(mn)
           value == [j \in 1 .. Len(form) |->
                       Operand(form[j], groups[j], Eval(groups[j], symtab0), symtab0, labels0, index)]
           slot(f) == CHOOSE j \in 1 .. Len(form) : FieldOf[form[j]] = f
           read == [f \in {FieldOf[form[j]] : j \in 1 .. Len(form)} |-> value[slot(f)].v]
           f    == FieldOf[form[k]]
<1>1. \A i, j \in 1 .. Len(form) : FieldOf[form[i]] = FieldOf[form[j]] => i = j
  BY FormFits DEF Suits
<1>2. /\ \A j \in 1 .. Len(form) : value[j].ok
      /\ Len(groups) = Len(form)
      /\ Filled(mn, groups, symtab0, labels0, index).v
           = [op |-> OpFor(mn), arg |-> Over(Given(mn), read)]
  BY DEF Filled, Gives, Fails
<1>3. slot(f) = k
  BY <1>1
<1>4. f \in DOMAIN read /\ read[f] = value[k].v
  BY <1>3
<1>5. /\ value[k].ok
      /\ value[k] = Operand(form[k], groups[k], Eval(groups[k], symtab0), symtab0, labels0, index)
  BY <1>2
<1> HIDE DEF read, value, f
<1>6. Over(Given(mn), read)[f] = read[f]
  <2>1. \A x \in DOMAIN read : Over(Given(mn), read)[x] = read[x]
    BY OverHas
  <2> QED BY <1>4, <2>1, Zenon
<1>7. Filled(mn, groups, symtab0, labels0, index).v.arg[f] = value[k].v
  BY <1>2, <1>4, <1>6
<1> QED BY <1>2, <1>5, <1>7 DEF f

-----------------------------------------------------------------------------
(* Coefficients are the nearest of their field.                            *)

\* Rounding is off by at most a half.
LEMMA RoundedNear ==
  ASSUME NEW n \in Int, NEW d \in Nat \ {0}
  PROVE  Rounded(n, d) \in Int /\ 2 * Size(Rounded(n, d) * d - n) <= d
<1> DEFINE s == Size(n)
           q == s \div d
           r == s % d
           b == IF 2 * r >= d THEN 1 ELSE 0
           v == Sign(n) * (q + b)
<1>1. s \in Nat /\ n = Sign(n) * s /\ Sign(n) \in {-1, 1}
  BY DEF Size, Sign
<1> HIDE DEF s
<1>2. q \in Nat /\ r \in 0 .. d - 1 /\ s = d * q + r
  BY <1>1
<1> HIDE DEF q, r
<1>3. b \in {0, 1} /\ (b = 1 => 2 * r >= d) /\ (b = 0 => 2 * r < d)
  BY <1>2
<1> HIDE DEF b
<1>4. (q + b) * d - s = b * d - r
  BY <1>2, <1>3
<1>5. -d <= 2 * (b * d - r) /\ 2 * (b * d - r) <= d /\ b * d - r \in Int
  <2>1. CASE b = 0
    BY <2>1, <1>2, <1>3
  <2>2. CASE b = 1
    BY <2>2, <1>2, <1>3
  <2> QED BY <2>1, <2>2, <1>3
<1>6. v \in Int /\ (v * d - n = b * d - r \/ v * d - n = -(b * d - r))
  <2>1. CASE Sign(n) = 1
    BY <2>1, <1>1, <1>2, <1>3, <1>4
  <2>2. CASE Sign(n) = -1
    BY <2>2, <1>1, <1>2, <1>3, <1>4
  <2> QED BY <2>1, <2>2, <1>1
<1> HIDE DEF v
<1>7. 2 * Size(v * d - n) <= d
  BY <1>5, <1>6 DEF Size
<1>8. Rounded(n, d) = v
  BY DEF Rounded, v, b, q, r, s
<1> QED BY <1>6, <1>7, <1>8

\* Each format's bound is past its largest value.
LEMMA FormatBounds ==
  ASSUME NEW kind \in DOMAIN FormatOf
  PROVE  LET fmt == FormatOf[kind]
         IN  /\ fmt.one \in Int /\ fmt.top \in Int /\ fmt.lo \in Int /\ fmt.hi \in Int
             /\ fmt.lo <= fmt.hi /\ fmt.top * fmt.one = fmt.hi + 1
             /\ -32768 <= fmt.lo /\ fmt.hi <= 32767 /\ fmt.lo <= 0 /\ 0 <= fmt.hi
<1>1. CASE kind = "c9"
  <2>1. FormatOf[kind] = S1_9
    BY <1>1 DEF FormatOf
  <2>2. S1_9.one = 512 /\ S1_9.top = 2
    BY DEF S1_9, Format
  <2>3. S1_9.lo = -1024 /\ S1_9.hi = 1023
    BY DEF S1_9, Format
  <2> QED BY <2>1, <2>2, <2>3
<1>2. CASE kind = "d10"
  <2>1. FormatOf[kind] = S_10
    BY <1>2 DEF FormatOf
  <2>2. S_10.one = 1024 /\ S_10.top = 1
    BY DEF S_10, Format
  <2>3. S_10.lo = -1024 /\ S_10.hi = 1023
    BY DEF S_10, Format
  <2> QED BY <2>1, <2>2, <2>3
<1>3. CASE kind = "c14"
  <2>1. FormatOf[kind] = S1_14
    BY <1>3 DEF FormatOf
  <2>2. S1_14.one = 16384 /\ S1_14.top = 2
    BY DEF S1_14, Format
  <2>3. S1_14.lo = -32768 /\ S1_14.hi = 32767
    BY DEF S1_14, Format
  <2> QED BY <2>1, <2>2, <2>3
<1>4. CASE kind = "d15"
  <2>1. FormatOf[kind] = S_15
    BY <1>4 DEF FormatOf
  <2>2. S_15.one = 32768 /\ S_15.top = 1
    BY DEF S_15, Format
  <2>3. S_15.lo = -32768 /\ S_15.hi = 32767
    BY DEF S_15, Format
  <2> QED BY <2>1, <2>2, <2>3
<1> QED BY <1>1, <1>2, <1>3, <1>4, Kinds

\* The largest integer a field holds.
FieldTop == 2 ^ 24 - 1

\* Every shorter field's integers are below it.
LEMMA FieldTopIs == /\ FieldTop \in Int /\ 65535 <= FieldTop
                    /\ -(2 ^ 23) <= 0 /\ 2 ^ 24 = FieldTop + 1 /\ 2 ^ 24 \in Int /\ 2 ^ 23 \in Int
BY SMT DEF FieldTop

\* An i64 holds every field.
LEMMA IntMaxBig == /\ IntMax \in Int /\ RawMax \in Int /\ RawMax <= IntMax
                   /\ FieldTop \in Int /\ 65535 <= FieldTop /\ FieldTop <= IntMax
<1>1. IntMax \in Int
  BY ExprAssumption DEF ExprAssumption
<1>2. RawMax \in Int /\ RawMax <= IntMax /\ FieldTop <= IntMax
  BY OperandAssumption DEF OperandAssumption, FieldTop
<1> QED BY <1>1, <1>2, FieldTopIs

\* No format has an infinity among its values: only NaN is accepted of what is
\* not finite.
LEMMA FiniteOrNaN ==
  ASSUME NEW kind \in DOMAIN FormatOf, NEW x \in Num, Quantize(x, FormatOf[kind]).ok, x # NaN
  PROVE  x.d \in Nat \ {0}
<1> DEFINE fmt == FormatOf[kind]
<1>1. SUFFICES ASSUME x.d = 0 PROVE FALSE
  <2>1. x.d \in Nat
    BY NumFields
  <2> QED BY <2>1
<1>2. x = [real |-> TRUE, n |-> x.n, d |-> 0] /\ x.n \in {-1, 0, 1}
  <2>1. 0 \notin {1} /\ 0 \notin Nat \ {0}
    OBVIOUS
  <2>2. x \notin IntNum /\ x \notin Finite
    <3>1. x \in IntNum => x.d \in {1}
      BY Zenon DEF IntNum
    <3>2. x \in Finite => x.d \in Nat \ {0}
      BY Zenon DEF Finite
    <3> QED BY <1>1, <2>1, <3>1, <3>2, Zenon
  <2>3. x \in [real : {TRUE}, n : {-1, 0, 1}, d : {0}]
    BY <2>2, Zenon DEF Num, Nonfinite
  <2> QED BY <2>3
<1>3. NaN = [real |-> TRUE, n |-> 0, d |-> 0]
  BY DEF NaN, RealOf
<1>4. x.n = -1 \/ x.n = 1
  <2>1. x.n # 0
    BY <1>2, <1>3
  <2> QED BY <1>2, <2>1
<1>5. /\ -32768 <= fmt.lo /\ fmt.hi <= 32767 /\ fmt.lo \in Int /\ fmt.hi \in Int
  BY FormatBounds
<1>6. Scaled(x, fmt.one) \in fmt.lo .. fmt.hi
  BY <1>1 DEF Quantize, IsTop, Fails
<1> HIDE DEF fmt
<1>7. x.n * (IntMax + 1) \in fmt.lo .. fmt.hi
  BY <1>1, <1>6 DEF Scaled
<1>8. IntMax \in Int /\ IntMax >= 65535
  BY IntMaxBig
<1> QED BY <1>4, <1>5, <1>7, <1>8

\* NaN rounds to 0, which every field holds.
LEMMA NaNIsZero ==
  ASSUME NEW kind \in DOMAIN FormatOf
  PROVE  Quantize(NaN, FormatOf[kind]).v = 0
<1> DEFINE fmt == FormatOf[kind]
<1>1. NaN.d = 0 /\ NaN.n = 0
  BY DEF NaN, RealOf
<1>2. Scaled(NaN, fmt.one) = 0
  BY <1>1, IntMaxBig DEF Scaled
<1>3. fmt.lo \in Int /\ fmt.hi \in Int /\ fmt.lo <= 0 /\ 0 <= fmt.hi
  BY FormatBounds
<1> HIDE DEF fmt
<1>4. Coeff(NaN, fmt) = 0 /\ Scaled(NaN, fmt.one) \in fmt.lo .. fmt.hi
  BY <1>2, <1>3 DEF Coeff, Bounded
<1>5. Quantize(NaN, fmt).v = 0
  BY <1>4 DEF Quantize, Gives
<1> QED BY <1>5 DEF fmt

\* A finite number that a coefficient's field accepts is stored as the field's
\* nearest value, or as its largest if the number is the bound just past it, an
\* infinity is not accepted and NaN is stored as 0, in each of the four formats.
THEOREM QuantizeNearest ==
  ASSUME NEW kind \in DOMAIN FormatOf, NEW x \in Num, Quantize(x, FormatOf[kind]).ok
  PROVE  NearTo(Quantize(x, FormatOf[kind]).v, x, FormatOf[kind])
<1> SUFFICES ASSUME x # NaN PROVE NearTo(Quantize(x, FormatOf[kind]).v, x, FormatOf[kind])
  BY NaNIsZero DEF NearTo
<1> DEFINE fmt == FormatOf[kind]
           one == fmt.one
           raw == Rounded(x.n * one, x.d)
           v   == Quantize(x, fmt).v
<1>1. x.n \in Int /\ x.d \in Nat \ {0}
  BY NumFields, FiniteOrNaN
<1>2. /\ one \in Int /\ fmt.top \in Int /\ fmt.lo \in Int /\ fmt.hi \in Int
      /\ fmt.lo <= fmt.hi /\ fmt.top * one = fmt.hi + 1
  BY FormatBounds
<1>3. /\ raw \in fmt.lo .. fmt.hi \/ x.n = fmt.top * x.d
      /\ v = Bounded(raw, fmt.lo, fmt.hi)
  <2>1. Scaled(x, one) = raw
    BY <1>1 DEF Scaled
  <2> HIDE DEF raw
  <2> QED BY <2>1 DEF Quantize, Coeff, IsTop, Gives, Fails
<1> HIDE DEF fmt, one
<1>4. x.n * one \in Int
  BY <1>1, <1>2
<1>5. raw \in Int /\ 2 * Size(raw * x.d - x.n * one) <= x.d
  BY <1>1, <1>4, RoundedNear
<1> HIDE DEF raw, v
<1>6. CASE raw \in fmt.lo .. fmt.hi
  <2>1. v = raw
    BY <1>3, <1>6 DEF Bounded
  <2> QED BY <1>1, <1>5, <1>6, <2>1 DEF NearTo, v, fmt, one
<1>7. CASE raw \notin fmt.lo .. fmt.hi
  <2>1. x.n = fmt.top * x.d
    BY <1>3, <1>7
  <2>2. x.n * one = (fmt.hi + 1) * x.d
    <3>1. (fmt.top * x.d) * one = (fmt.top * one) * x.d
      BY <1>1, <1>2
    <3> QED BY <1>2, <2>1, <3>1
  <2>3. raw > fmt.hi
    <3>1. ASSUME raw < fmt.lo PROVE FALSE
      <4> DEFINE d == x.d
                 h == fmt.hi
                 m == (h + 1) * d
      <4> HIDE DEF d, h
      <4>1. d \in Nat \ {0} /\ h \in Int /\ raw <= h
        BY <1>1, <1>2, <1>5, <3>1 DEF d, h
      <4>2. 2 * Size(raw * d - m) <= d
        BY <1>5, <2>2 DEF d, h
      <4>3. raw * d <= h * d /\ m = h * d + d /\ raw * d \in Int /\ h * d \in Int
        BY <4>1, <1>5
      <4> HIDE DEF m
      <4>4. Size(raw * d - m) >= d
        BY <4>1, <4>3 DEF Size
      <4> QED BY <4>1, <4>2, <4>3, <4>4 DEF Size
    <3> QED BY <1>2, <1>5, <1>7, <3>1
  <2>4. v = fmt.hi
    BY <1>2, <1>3, <1>5, <2>3 DEF Bounded
  <2> QED BY <1>1, <2>1, <2>4 DEF NearTo, v, fmt
<1> QED BY <1>6, <1>7

-----------------------------------------------------------------------------
(* The table holds numbers, and so every operand that evaluates is one.    *)

\* The literals of a text are numbers.
LEMMA LiteralsOf == ASSUME NEW ts \in Seq(Tokens) PROVE Literals(ts)
<1>1. \A k \in 1 .. Len(ts) : ts[k] \in Tokens
  OBVIOUS
<1>2. \A token \in Tokens : token.t \in {"num", "raw"} => token.v \in Num
  BY AsmAssumption DEF AsmAssumption
<1> QED BY <1>1, <1>2, Zenon DEF Literals

\* A table that gets numbers holds numbers.
LEMMA OverNumbers ==
  ASSUME NEW f, NEW g, Numbers(f), Numbers(g) PROVE Numbers(Over(f, g))
BY DEF Over, Numbers

\* So does the table of predefined symbols.
LEMMA PredefinedNumbers == Numbers(Predefined)
<1> DEFINE low == Over(Registers, Selectors)
           high == Over(Conditions, ChoFlags)
           all == Over(low, high)
           Ints(f) == \A x \in DOMAIN f : f[x] \in Int
<1>1. Ints(Registers)
  BY SMTT(100) DEF Registers
<1>2. Ints(Selectors) /\ Ints(Conditions) /\ Ints(ChoFlags)
  BY DEF Selectors, Conditions, ChoFlags
<1>3. \A f, g : Ints(f) /\ Ints(g) => Ints(Over(f, g))
  BY DEF Over
<1>4. Ints(all)
  <2> HIDE DEF Ints
  <2> QED BY <1>1, <1>2, <1>3
<1> HIDE DEF all
<1>5. Predefined = [name \in {<<x>> : x \in DOMAIN all} |-> IntOf(all[name[1]])]
  BY DEF Predefined, all
<1>6. ASSUME NEW name \in {<<x>> : x \in DOMAIN all} PROVE IntOf(all[name[1]]) \in Num
  <2>1. PICK x \in DOMAIN all : name = <<x>>
    BY <1>6
  <2>2. name[1] = x
    BY <2>1
  <2>3. all[name[1]] \in Int
    BY <1>4, <2>2
  <2> QED BY <2>3, IntIsNum
<1> QED BY <1>5, <1>6, Zenon DEF Numbers

\* The symbols of the table are numbers.
NumbersInv == TypeInv /\ Numbers(symtab)

\* A directive's value is a sequence of tokens.
LEMMA ValueType ==
  ASSUME NEW body \in Seq(Tokens) PROVE ValueOf(body) \in Seq(Tokens)
<1>1. Len(body) \in Int /\ 3 \in Int /\ \A i \in 3 .. Len(body) : body[i] \in Tokens
  OBVIOUS
<1> QED BY <1>1, SubSeqProperties DEF ValueOf

\* A label is a count, a block's names are places, and an EQU symbol what Eval
\* gives.
LEMMA NumbersStep ==
  ASSUME OperatorsGiveNumbers, NumbersInv, [Next]_vars PROVE NumbersInv'
<1>1. TypeInv'
  BY TypeStep DEF NumbersInv
<1>2. symtab' = symtab => Numbers(symtab')
  BY DEF NumbersInv
<1>3. ASSUME Label, symtab' # symtab PROVE Numbers(symtab')
  <2> DEFINE g == [x \in {source[row][1].s} |-> IntOf(Len(pending))]
  <2>1. symtab' = Over(symtab, g)
    BY <1>3 DEF Label, Fail, Definable
  <2>2. Len(pending) \in Int
    BY DEF NumbersInv, TypeInv, TypeOK
  <2>3. Numbers(g)
    BY <2>2, IntIsNum DEF Numbers
  <2> HIDE DEF g
  <2> QED BY <2>1, <2>3, OverNumbers DEF NumbersInv
<1>4. ASSUME At("equ") \/ At("mem")
      PROVE  Eval(ValueOf(Line), symtab).ok => Eval(ValueOf(Line), symtab).v \in Num
  <2>1. row <= Len(source)
    BY <1>4 DEF At
  <2>2. Line \in Seq(Tokens)
    BY <2>1, LineType DEF NumbersInv
  <2>3. ValueOf(Line) \in Seq(Tokens) /\ Literals(ValueOf(Line))
    BY <2>2, ValueType, LiteralsOf
  <2> QED BY <2>3, EvalGivesNumbers DEF NumbersInv
<1>5. ASSUME Equ, symtab' # symtab PROVE Numbers(symtab')
  <2> DEFINE value == Eval(ValueOf(Line), symtab)
             g == [x \in {NameOf(Line, "EQU")} |-> value.v]
  <2>1. At("equ") /\ value.ok /\ symtab' = Over(symtab, g)
    BY <1>5 DEF Equ, Fail
  <2>2. value.v \in Num
    BY <1>4, <2>1
  <2> HIDE DEF value
  <2>3. Numbers(g)
    BY <2>2 DEF Numbers
  <2> HIDE DEF g
  <2> QED BY <2>1, <2>3, OverNumbers DEF NumbersInv
<1>6. ASSUME Mem, symtab' # symtab PROVE Numbers(symtab')
  <2> DEFINE name  == NameOf(Line, "MEM")
             names == {name, Append(name, "#"), Append(name, "^")}
             value == Eval(ValueOf(Line), symtab)
             size  == value.v.n
             block == Block(mem_end, size)
             at(x) == CASE x = name -> block.start
                        [] x = Append(name, "#") -> block.end
                        [] x = Append(name, "^") -> block.start + size \div 2
             g == [x \in names |-> IntOf(at(x))]
  <2>1. At("mem") /\ value.ok /\ symtab' = Over(symtab, g)
    BY <1>6 DEF Mem, Fail
  <2>2. size \in Int
    BY <1>4, <2>1, NumFields
  <2>3. mem_end \in Int
    <3>1. IntMax \in Int /\ DelayLen \in Int
      BY ExprAssumption, AsmAssumption DEF ExprAssumption, AsmAssumption
    <3> QED BY <3>1 DEF NumbersInv, TypeInv, TypeOK
  <2> HIDE DEF size
  <2>4. block.start \in Int /\ block.end \in Int /\ block.start + size \div 2 \in Int
    <3>1. IntMax \in Int
      BY ExprAssumption DEF ExprAssumption
    <3>2. mem_end + size \in Int
      BY <2>2, <2>3
    <3>3. Wrap(mem_end + size) \in Int
      BY <3>1, <3>2, WrapType
    <3> QED BY <2>2, <2>3, <3>3 DEF Block
  <2> HIDE DEF block, name
  <2>5. \A x \in names : at(x) \in Int
    BY <2>4
  <2> HIDE DEF at, names
  <2>6. Numbers(g)
    BY <2>5, IntIsNum DEF Numbers
  <2> HIDE DEF g
  <2> QED BY <2>1, <2>6, OverNumbers DEF NumbersInv
<1>7. ASSUME Blank \/ BadLine \/ Instruction \/ EndPass1 \/ Emit \/ Finish
      PROVE  symtab' = symtab
  BY <1>7 DEF Blank, BadLine, Instruction, EndPass1, Emit, Finish, Fail
<1>8. CASE UNCHANGED vars
  BY <1>1, <1>2, <1>8 DEF vars, NumbersInv
<1>9. CASE Next
  BY <1>1, <1>2, <1>3, <1>5, <1>6, <1>7, <1>9 DEF Next, NumbersInv
<1> QED BY <1>8, <1>9

\* At first only the predefined symbols are there.
LEMMA NumbersInit == ASSUME Init PROVE NumbersInv
BY TypeInit, PredefinedNumbers DEF Init, NumbersInv

-----------------------------------------------------------------------------
(* EQU symbols: what a line has been given by its expression's value, and  *)
(* so by its meaning, no later line changes.                               *)

\* The EQU line k has defined its name, with the value its expression means.
EquHeld(k) ==
  LET name == NameOf(BodyOf(k), "EQU")
  IN  name \in DOMAIN symtab /\ Meaning(ValueOf(BodyOf(k)), symtab) = Gives(symtab[name])

\* An EQU line that is refused has no name, a taken one, or no meaning.
EquRefused ==
  phase = "failed" /\ row <= Len(source) /\ Kind(Line) = "equ" /\ (HasLabel(source[row]) => labelled)
    => \/ ~Named(Line, "EQU")
       \/ ~Definable(NameOf(Line, "EQU"))
       \/ ~Meaning(ValueOf(Line), symtab).ok

\* A failure in the second pass is no line's.
EquInv == /\ NumbersInv
          /\ \A k \in LinesOf("equ") : EquHeld(k)
          /\ EquRefused
          /\ phase = "pass2" => row > Len(source)

\* The body of a line that has been read, and its expression, are tokens.
LEMMA ReadLine ==
  ASSUME TypeInv, NEW k \in 1 .. row - 1
  PROVE  k \in 1 .. Len(source) /\ BodyOf(k) \in Seq(Tokens) /\ ValueOf(BodyOf(k)) \in Seq(Tokens)
<1>1. source \in Seq(Seq(Tokens)) /\ Len(source) \in Nat
  BY SourceType DEF TypeInv
<1>2. k \in 1 .. Len(source)
  <2>1. row \in 1 .. Len(source) + 1
    BY DEF TypeInv, TypeOK
  <2> QED BY <1>1, <2>1
<1>3. source[k] \in Seq(Tokens)
  BY <1>1, <1>2
<1>4. BodyOf(k) \in Seq(Tokens)
  BY <1>3, BodyType DEF BodyOf
<1> QED BY <1>2, <1>4, ValueType

\* What a read line has been given stays.
LEMMA EquKept ==
  ASSUME TypeInv, Next, source' = source, NEW k \in 1 .. row - 1, EquHeld(k)
  PROVE  EquHeld(k)'
<1> DEFINE ts == ValueOf(BodyOf(k))
           name == NameOf(BodyOf(k), "EQU")
<1>1. BodyOf(k)' = BodyOf(k)
  BY DEF BodyOf
<1>2. Grown(symtab, symtab')
  BY TableGrows
<1>3. ts \in Seq(Tokens)
  BY ReadLine
<1>4. name \in DOMAIN symtab /\ Meaning(ts, symtab) = Gives(symtab[name])
  BY Zenon DEF EquHeld
<1>5. name \in DOMAIN symtab' /\ symtab'[name] = symtab[name]
  BY <1>2, <1>4 DEF Grown
<1>6. Meaning(ts, symtab).ok
  BY <1>4 DEF Gives
<1>7. Meaning(ts, symtab') = Meaning(ts, symtab)
  BY <1>2, <1>3, <1>6, MeaningGrows
<1>8. EquHeld(k)' <=> /\ name \in DOMAIN symtab'
                      /\ Meaning(ts, symtab') = Gives(symtab'[name])
  BY <1>1, Zenon DEF EquHeld
<1> QED BY <1>4, <1>5, <1>7, <1>8, Zenon

\* The read lines of a kind after a line that is, or is not, of the kind.
LEMMA NextLines ==
  ASSUME TypeInv, source' = source, NEW kind
  PROVE  /\ row' = row => LinesOf(kind)' = LinesOf(kind)
         /\ row' = row + 1 => LinesOf(kind)' = LinesOf(kind) \cup (IF Kind(Line) = kind THEN {row} ELSE {})
<1>1. \A k : BodyOf(k)' = BodyOf(k)
  BY DEF BodyOf
<1>2. LinesOf(kind)' = {k \in 1 .. row' - 1 : Kind(BodyOf(k)) = kind}
  BY <1>1, Zenon DEF LinesOf
<1>3. row \in Nat /\ 1 <= row
  <2>1. Len(source) \in Nat
    BY SourceType DEF TypeInv
  <2> QED BY <2>1 DEF TypeInv, TypeOK
<1>4. ASSUME row' = row + 1 PROVE 1 .. row' - 1 = 1 .. row - 1 \cup {row}
  BY <1>3, <1>4
<1>5. Line = BodyOf(row)
  BY DEF Line, BodyOf
<1>6. row' = row + 1 => LinesOf(kind)' = LinesOf(kind) \cup (IF Kind(Line) = kind THEN {row} ELSE {})
  BY <1>2, <1>4, <1>5 DEF LinesOf
<1> QED BY <1>2, <1>6 DEF LinesOf

\* The value of the line at hand is what its expression means.
LEMMA LineMeans ==
  ASSUME OperatorsGiveNumbers, NumbersInv, row <= Len(source)
  PROVE  LET ts == ValueOf(Line)
         IN  /\ ts \in Seq(Tokens)
             /\ Eval(ts, symtab).ok <=> Meaning(ts, symtab).ok
             /\ Eval(ts, symtab).ok => Meaning(ts, symtab) = Gives(Eval(ts, symtab).v)
<1> DEFINE ts == ValueOf(Line)
<1>1. ts \in Seq(Tokens)
  <2>1. Line \in Seq(Tokens)
    BY LineType DEF NumbersInv
  <2> QED BY <2>1, ValueType
<1>2. Literals(ts) /\ Numbers(symtab)
  BY <1>1, LiteralsOf DEF NumbersInv
<1> HIDE DEF ts
<1>3. /\ Eval(ts, symtab).ok <=> Meaning(ts, symtab).ok
      /\ Eval(ts, symtab).ok => Meaning(ts, symtab) = Eval(ts, symtab)
  BY <1>1, <1>2, EvalMeans
<1>4. Eval(ts, symtab).ok => Eval(ts, symtab) = Gives(Eval(ts, symtab).v)
  <2>1. PICK L : Eval(ts, symtab) = IF L[<<1, 1, Start>>].ok /\ L[<<1, 1, Start>>].p = Len(ts) + 1
                                    THEN Gives(L[<<1, 1, Start>>].v) ELSE Fails
    BY <1>1, <1>2, EvalReads
  <2>2. Eval(ts, symtab) = Fails \/ \E v : Eval(ts, symtab) = Gives(v)
    BY <2>1, Zenon
  <2>3. ~Fails.ok /\ \A v : Gives(v).v = v
    BY DEF Fails, Gives
  <2> QED BY <2>2, <2>3, Zenon
<1>5. Eval(ts, symtab).ok => Meaning(ts, symtab) = Gives(Eval(ts, symtab).v)
  BY <1>3, <1>4, Zenon
<1> QED BY <1>1, <1>3, <1>5 DEF ts

\* An EQU line gives its name the value its expression means, or is refused.
LEMMA EquGiven ==
  ASSUME OperatorsGiveNumbers, EquInv, Equ
  PROVE  (\A k \in LinesOf("equ")' : EquHeld(k)') /\ EquRefused'
<1> DEFINE ts == ValueOf(Line)
           value == Eval(ts, symtab)
           name == NameOf(Line, "EQU")
<1>1. /\ NumbersInv /\ TypeInv /\ phase = "pass1" /\ row <= Len(source) /\ Kind(Line) = "equ"
      /\ \A k \in LinesOf("equ") : EquHeld(k)
  BY DEF EquInv, NumbersInv, Equ, At
<1>2. /\ ts \in Seq(Tokens)
      /\ value.ok <=> Meaning(ts, symtab).ok
      /\ value.ok => Meaning(ts, symtab) = Gives(value.v)
  BY <1>1, LineMeans
<1>3. Next
  BY DEF Next
<1> HIDE DEF ts
<1>4. ASSUME NEW k \in LinesOf("equ"), source' = source PROVE EquHeld(k)'
  <2>1. k \in 1 .. row - 1 /\ EquHeld(k)
    BY <1>1, <1>4 DEF LinesOf
  <2> QED BY <1>1, <1>3, <1>4, <2>1, EquKept
<1>5. CASE Named(Line, "EQU") /\ value.ok /\ Definable(name)
  <2>1. /\ symtab' = Over(symtab, [x \in {name} |-> value.v])
        /\ row' = row + 1 /\ source' = source /\ phase' = phase
    BY <1>5, Zenon DEF Equ, NextLine, ts
  <2>2. symtab'[name] = value.v /\ name \in DOMAIN symtab'
    <3> DEFINE g == [x \in {name} |-> value.v]
    <3>1. name \in DOMAIN g /\ g[name] = value.v
      OBVIOUS
    <3>2. symtab' = Over(symtab, g)
      BY <2>1
    <3> HIDE DEF g
    <3>3. /\ DOMAIN Over(symtab, g) = DOMAIN symtab \cup DOMAIN g
          /\ \A x \in DOMAIN g : Over(symtab, g)[x] = g[x]
      BY OverHas
    <3> HIDE DEF name, value
    <3> QED BY <3>1, <3>2, <3>3, Zenon
  <2>3. Meaning(ts, symtab') = Gives(value.v)
    <3>1. Grown(symtab, symtab')
      BY <1>1, <1>3, TableGrows
    <3>2. Meaning(ts, symtab).ok
      BY <1>2, <1>5, Zenon
    <3>3. Meaning(ts, symtab') = Meaning(ts, symtab)
      BY <1>2, <3>1, <3>2, MeaningGrows
    <3> QED BY <1>2, <1>5, <3>3, Zenon
  <2>4. ASSUME NEW k, k = row PROVE EquHeld(k)'
    <3>1. BodyOf(k)' = Line
      BY <2>1, <2>4 DEF BodyOf, Line
    <3>2. EquHeld(k)' <=> /\ name \in DOMAIN symtab'
                          /\ Meaning(ts, symtab') = Gives(symtab'[name])
      BY <3>1, Zenon DEF EquHeld, ts
    <3> QED BY <2>2, <2>3, <3>2, Zenon
  <2>5. LinesOf("equ")' = LinesOf("equ") \cup {row}
    BY <1>1, <2>1, NextLines
  <2>6. EquRefused'
    <3>1. phase' # "failed"
      BY <1>1, <2>1
    <3> QED BY <3>1, Zenon DEF EquRefused
  <2>7. \A k \in LinesOf("equ")' : EquHeld(k)'
    BY <1>4, <2>1, <2>4, <2>5, Zenon
  <2> QED BY <2>6, <2>7
<1>6. CASE ~(Named(Line, "EQU") /\ value.ok /\ Definable(name))
  <2>1. UNCHANGED <<source, row, labelled, symtab>>
    BY <1>6, Zenon DEF Equ, Fail, ts
  <2>2. LinesOf("equ")' = LinesOf("equ")
    BY <1>1, <2>1, NextLines
  <2>3. Line' = Line
    BY <2>1 DEF Line
  <2>4. EquRefused'
    BY <1>2, <1>6, <2>1, <2>3, Zenon DEF EquRefused, Definable, ts
  <2> QED BY <1>4, <2>1, <2>2, <2>4
<1> QED BY <1>5, <1>6

\* A step that reads no EQU line keeps what the EQU lines have been given.
LEMMA EquStays ==
  ASSUME EquInv, Next, source' = source,
         row' = row \/ (row' = row + 1 /\ Kind(Line) # "equ")
  PROVE  \A k \in LinesOf("equ")' : EquHeld(k)'
<1>1. TypeInv /\ \A k \in LinesOf("equ") : EquHeld(k)
  BY DEF EquInv, NumbersInv
<1>2. LinesOf("equ")' = LinesOf("equ")
  BY <1>1, NextLines
<1>3. ASSUME NEW k \in LinesOf("equ") PROVE EquHeld(k)'
  <2>1. k \in 1 .. row - 1 /\ EquHeld(k)
    BY <1>1 DEF LinesOf
  <2> QED BY <1>1, <2>1, EquKept
<1> QED BY <1>2, <1>3, Zenon

\* An EQU line that fails elsewhere than in Equ fails for its label, before the
\* line is at hand, and no line fails in the second pass.
LEMMA RefusedElsewhere ==
  ASSUME EquInv, Next, ~Equ PROVE EquRefused'
<1>1. EquRefused /\ (phase = "pass2" => row > Len(source)) /\ TypeInv
  BY DEF EquInv, NumbersInv
<1>2. CASE phase' # "failed"
  BY <1>2, Zenon DEF EquRefused
<1>3. CASE Fail
  <2>1. source' = source /\ row' = row /\ labelled' = labelled /\ symtab' = symtab /\ Line' = Line
    BY <1>3 DEF Fail, Line
  <2>2. CASE Label
    BY <2>1, <2>2, Zenon DEF Label, EquRefused
  <2>3. CASE BadLine \/ Mem \/ Instruction \/ Blank
    <3>1. Kind(Line) # "equ"
      BY <2>3 DEF BadLine, Mem, Instruction, Blank, At
    <3> QED BY <2>1, <3>1, Zenon DEF EquRefused
  <2>4. CASE Emit \/ EndPass1 \/ Finish
    <3>1. row > Len(source)
      BY <1>1, <2>4 DEF Emit, EndPass1, Finish
    <3>2. ~(row <= Len(source))
      BY <1>1, <3>1, SourceType DEF TypeInv, TypeOK
    <3> QED BY <2>1, <3>2, Zenon DEF EquRefused
  <2> QED BY <2>2, <2>3, <2>4, Zenon DEF Next
<1>4. phase' = "failed" => Fail
  <2>1. CASE phase' = phase
    <3>1. phase # "failed"
      BY DEF Next, Label, Blank, BadLine, Equ, Mem, Instruction, EndPass1, Emit, Finish, At
    <3> QED BY <2>1, <3>1
  <2>2. CASE EndPass1 \/ Finish
    BY <2>2 DEF EndPass1, Finish
  <2>3. CASE phase' # phase /\ ~EndPass1 /\ ~Finish
    BY <2>3, Zenon DEF Next, Label, Blank, BadLine, Equ, Mem, Instruction, Emit, NextLine
  <2> QED BY <2>1, <2>2, <2>3
<1> QED BY <1>2, <1>3, <1>4

\* At first no line has been read.
LEMMA EquInit == ASSUME Init PROVE EquInv
<1>1. row = 1 /\ phase = "pass1"
  BY DEF Init
<1>2. LinesOf("equ") = {}
  BY <1>1 DEF LinesOf
<1> QED BY <1>1, <1>2, NumbersInit DEF EquInv, EquRefused

\* Every step keeps what the EQU lines have been given.
LEMMA EquStep ==
  ASSUME OperatorsGiveNumbers, EquInv, [Next]_vars PROVE EquInv'
<1>1. NumbersInv'
  BY NumbersStep DEF EquInv
<1>2. CASE Equ
  <2>1. phase' # "pass2"
    BY <1>2 DEF Equ, At, Fail, NextLine
  <2> QED BY <1>1, <1>2, <2>1, EquGiven DEF EquInv
<1>3. CASE Next /\ ~Equ
  <2>1. /\ source' = source
        /\ row' = row \/ (row' = row + 1 /\ Kind(Line) # "equ")
    <3>1. source' = source
      BY <1>3, Zenon DEF Next, Label, Blank, BadLine, Mem, Instruction, EndPass1, Emit, Finish,
                         NextLine, Fail
    <3>2. CASE Blank \/ Mem \/ Instruction
      <4>1. Kind(Line) # "equ"
        BY <3>2 DEF Blank, Mem, Instruction, At
      <4>2. row' = row \/ row' = row + 1
        BY <3>2, Zenon DEF Blank, Mem, Instruction, NextLine, Fail
      <4> QED BY <3>1, <4>1, <4>2
    <3>3. CASE Label \/ BadLine \/ EndPass1 \/ Emit \/ Finish
      BY <3>1, <3>3, Zenon DEF Label, BadLine, EndPass1, Emit, Finish, Fail
    <3> QED BY <1>3, <3>2, <3>3, Zenon DEF Next
  <2>2. phase' = "pass2" => row' > Len(source')
    <3>1. CASE Blank \/ Mem \/ Instruction \/ Label \/ BadLine
      BY <3>1 DEF Blank, Mem, Instruction, Label, BadLine, At, NextLine, Fail
    <3>2. CASE EndPass1
      BY <3>2 DEF EndPass1
    <3>3. CASE Emit \/ Finish
      BY <3>3 DEF Emit, Finish, Fail, EquInv
    <3> QED BY <1>3, <3>1, <3>2, <3>3, Zenon DEF Next
  <2>3. (\A k \in LinesOf("equ") : EquHeld(k))'
    BY <1>3, <2>1, EquStays
  <2> QED BY <1>1, <1>3, <2>2, <2>3, RefusedElsewhere DEF EquInv
<1>4. CASE UNCHANGED vars
  <2>1. /\ UNCHANGED <<source, row, labelled, symtab, phase>>
        /\ LinesOf("equ")' = LinesOf("equ") /\ \A k : BodyOf(k)' = BodyOf(k)
    BY <1>4 DEF vars, LinesOf, BodyOf
  <2>2. \A k : EquHeld(k)' <=> EquHeld(k)
    BY <2>1, Zenon DEF EquHeld
  <2>3. EquRefused' <=> EquRefused
    BY <2>1, Zenon DEF EquRefused, Line, Definable
  <2> QED BY <1>1, <2>1, <2>2, <2>3 DEF EquInv
<1> QED BY <1>2, <1>3, <1>4

\* What the EQU lines have been given is what their expressions mean.
LEMMA EquFollows == ASSUME EquInv PROVE EquMeans
<1>1. ASSUME NEW k \in LinesOf("equ")
      PROVE  LET meant == Meaning(ValueOf(BodyOf(k)), symtab)
             IN  meant.ok /\ symtab[NameOf(BodyOf(k), "EQU")] = meant.v
  <2>1. Meaning(ValueOf(BodyOf(k)), symtab) = Gives(symtab[NameOf(BodyOf(k), "EQU")])
    BY <1>1, Zenon DEF EquInv, EquHeld
  <2>2. \A v : Gives(v).ok /\ Gives(v).v = v
    BY DEF Gives
  <2> QED BY <2>1, <2>2, Zenon
<1>2. EquRefused
  BY DEF EquInv
<1> QED BY <1>1, <1>2, Zenon DEF EquMeans, EquRefused

\* Every EQU symbol has the value its expression means, by its outermost
\* operator, as long as the program is assembled, whatever the later lines
\* define; and a refused EQU line has no name, a taken one or no meaning.
THEOREM EquAlwaysMeans == ASSUME OperatorsGiveNumbers PROVE Spec => []EquMeans
<1>1. Init => EquInv
  BY EquInit
<1>2. EquInv /\ [Next]_vars => EquInv'
  BY EquStep
<1>3. EquInv => EquMeans
  BY EquFollows
<1> QED BY <1>1, <1>2, <1>3, PTL DEF Spec

-----------------------------------------------------------------------------
(* Coefficients.                                                           *)

\* The operands between commas are sequences of tokens.
LEMMA GroupsType ==
  ASSUME NEW T, NEW ts \in Seq(T)
  PROVE  SplitCommas(ts) \in Seq(Seq(T))
<1> DEFINE commas == {p \in 1 .. Len(ts) : ts[p].t = ","}
           ends   == commas \cup {Len(ts) + 1}
           before(p) == IF \E q \in commas : q < p
                        THEN CHOOSE q \in commas : q < p /\ \A r \in commas : r < p => r <= q
                        ELSE 0
           end(k) == CHOOSE p \in ends : Cardinality({q \in ends : q <= p}) = k
           group(k) == SubSeq(ts, before(end(k)) + 1, end(k) - 1)
<1>1. ASSUME ts # <<>>
      PROVE  SplitCommas(ts) = [k \in 1 .. Cardinality(ends) |-> group(k)]
  BY <1>1, Zenon DEF SplitCommas
<1> DEFINE last == Len(ts)
<1>2. last \in Nat /\ commas \subseteq 1 .. last /\ ends = commas \cup {last + 1}
  <2>1. last \in Nat
    OBVIOUS
  <2>2. commas \subseteq 1 .. last
    BY Zenon
  <2>3. ends = commas \cup {last + 1}
    BY Zenon
  <2> QED BY <2>1, <2>2, <2>3
<1>3. \A q \in 1 .. last : ts[q] \in T
  OBVIOUS
<1> HIDE DEF last, commas, ends
<1>4. ends \subseteq 1 .. last + 1 /\ commas \subseteq Nat /\ ends \in SUBSET Nat
  BY <1>2
<1>5. IsFiniteSet(ends)
  <2>1. 1 \in Int /\ last + 1 \in Int
    BY <1>2
  <2>2. IsFiniteSet(1 .. last + 1)
    BY <2>1, FS_Interval
  <2> QED BY <1>4, <2>2, FS_Subset
<1>6. Cardinality(ends) \in Nat
  BY <1>5, FS_CardinalityType
<1>7. ASSUME NEW k \in 1 .. Cardinality(ends) PROVE group(k) \in Seq(T)
  <2> DEFINE e == end(k)
             b == before(e)
  <2>1. e \in ends
    BY <1>4, <1>5, KthMember
  <2> HIDE DEF e
  <2>2. e \in Nat /\ 1 <= e /\ e <= last + 1
    <3>1. e \in 1 .. last + 1
      BY <1>4, <2>1, Zenon
    <3> QED BY <1>2, <3>1
  <2>3. b \in Nat
    <3>1. CASE \E q \in commas : q < e
      <4> DEFINE left == {q \in commas : q < e}
      <4>1. \E q \in commas : q < e /\ \A r \in commas : r < e => r <= q
        <5> DEFINE gaps == {e - q : q \in left}
        <5>1. gaps \in SUBSET Nat /\ gaps # {}
          BY <1>4, <2>2, <3>1
        <5>2. PICK g \in gaps : \A h \in gaps : g <= h
          <6> HIDE DEF gaps
          <6> QED BY <5>1, Least
        <5>3. PICK q \in left : g = e - q
          BY <5>2
        <5>4. ASSUME NEW r \in commas, r < e PROVE r <= q
          <6>1. e - r \in gaps
            BY <5>4
          <6>2. g <= e - r
            BY <5>2, <6>1
          <6> QED BY <1>4, <2>2, <5>3, <5>4, <6>2
        <5> QED BY <5>3, <5>4
      <4>2. b \in commas
        BY <3>1, <4>1
      <4> QED BY <1>4, <4>2
    <3>2. CASE ~(\E q \in commas : q < e)
      BY <3>2
    <3> QED BY <3>1, <3>2
  <2> HIDE DEF b
  <2>4. \A i \in b + 1 .. e - 1 : ts[i] \in T
    BY <1>2, <1>3, <2>2, <2>3
  <2>5. SubSeq(ts, b + 1, e - 1) \in Seq(T)
    <3>1. b + 1 \in Int /\ e - 1 \in Int
      BY <2>2, <2>3
    <3> QED BY <2>4, <3>1, SubSeqProperties
  <2> QED BY <2>5 DEF b, e
<1> HIDE DEF group
<1>8. ts = <<>> => SplitCommas(ts) = <<>>
  BY DEF SplitCommas
<1>9. [k \in 1 .. Cardinality(ends) |-> group(k)] \in Seq(Seq(T))
  BY <1>6, <1>7
<1>10. <<>> \in Seq(Seq(T))
  OBVIOUS
<1>11. CASE ts = <<>>
  BY <1>8, <1>10, <1>11
<1>12. CASE ts # <<>>
  BY <1>1, <1>9, <1>12, Zenon
<1> QED BY <1>11, <1>12

\* An instruction of a mnemonic with a real coefficient keeps what the operand
\* was quantized to.
LEMMA CoefficientKept ==
  ASSUME NEW mn \in Fillers, NEW groups, NEW symtab0, NEW labels0, NEW index,
         NEW k, k \in 1 .. Len(Form(mn)), Form(mn)[k] \in DOMAIN FormatOf,
         ~(Len(groups[k]) = 1 /\ groups[k][1].t = "raw"),
         Eval(groups[k], symtab0).ok => Eval(groups[k], symtab0).v \in Num,
         Filled(mn, groups, symtab0, labels0, index).ok
  PROVE  NearTo(Filled(mn, groups, symtab0, labels0, index).v.arg[FieldOf[Form(mn)[k]]],
                Eval(groups[k], symtab0).v, FormatOf[Form(mn)[k]])
<1> DEFINE kind == Form(mn)[k]
           e    == Eval(groups[k], symtab0)
           o    == Operand(kind, groups[k], e, symtab0, labels0, index)
           v    == Filled(mn, groups, symtab0, labels0, index).v.arg[FieldOf[kind]]
<1>1. o.ok /\ v = o.v
  <2>1. k \in 1 .. Len(Form(mn)) /\ Filled(mn, groups, symtab0, labels0, index).ok
    OBVIOUS
  <2> QED BY <2>1, FilledValue
<1>2. o = Coefficient(groups[k], e, FormatOf[kind])
  BY Kinds DEF Operand
<1>3. e.ok => e.v \in Num
  OBVIOUS
<1> HIDE DEF o, e, v
<1>4. e.ok /\ o = Quantize(e.v, FormatOf[kind])
  BY <1>1, <1>2 DEF Coefficient, Fails
<1> HIDE DEF kind
<1>5. kind \in DOMAIN FormatOf
  BY DEF kind
<1>6. NearTo(v, e.v, FormatOf[kind])
  BY <1>1, <1>3, <1>4, <1>5, QuantizeNearest
<1> QED BY <1>6 DEF kind, e, v

\* Every mnemonic but the two words of CHO and RAW fills a form.
LEMMA MnemonicFills ==
  ASSUME NEW name \in Seq(STRING), NEW operands, NEW symtab0, NEW labels0, NEW index,
         Parse(name, operands, symtab0, labels0, index).ok, name[1] # "CHO", name[1] # "RAW"
  PROVE  /\ name[1] \in Fillers
         /\ Parse(name, operands, symtab0, labels0, index)
              = Filled(name[1], SplitCommas(operands), symtab0, labels0, index)
<1>1. name # <<"CHO">>
  OBVIOUS
<1>2. Len(name) = 1 /\ name[1] \in Mnemonics
  BY DEF Parse, Fails
<1>3. name[1] \in Fillers /\ name[1] # "CHO_RDAL"
  BY <1>2 DEF Mnemonics, Fillers, Pseudo, Ops, ChoOps
<1>4. Parse(name, operands, symtab0, labels0, index)
        = Filled(name[1], SplitCommas(operands), symtab0, labels0, index)
  BY <1>1, <1>2, <1>3 DEF Parse
<1> QED BY <1>3, <1>4

\* CHO's first operand names the access, and the others are its operands.
LEMMA ChoFills ==
  ASSUME NEW name \in Seq(STRING), NEW operands, NEW symtab0, NEW labels0, NEW index,
         Parse(name, operands, symtab0, labels0, index).ok, name[1] = "CHO",
         Parse(name, operands, symtab0, labels0, index).v.op = "CHO_SOF"
  PROVE  /\ SplitCommas(operands) # <<>>
         /\ Parse(name, operands, symtab0, labels0, index)
              = Filled("CHO_SOF", Tail(SplitCommas(operands)), symtab0, labels0, index)
<1> DEFINE groups == SplitCommas(operands)
           mn     == ChoKind[groups[1][1].s[1]]
           i      == Parse(name, operands, symtab0, labels0, index)
<1>1. Len(name) = 1
  BY DEF Parse, Fails
<1>2. name = <<"CHO">>
  BY <1>1
<1>3. /\ IsCho(groups)
      /\ i = IF mn = "CHO_RDAL" THEN Rdal(Tail(groups), symtab0)
             ELSE Filled(mn, Tail(groups), symtab0, labels0, index)
  BY <1>2 DEF Parse, Fails
<1>4. mn \in {"CHO_RDA", "CHO_SOF", "CHO_RDAL"} /\ groups # <<>>
  <2> DEFINE s == groups[1][1].s[1]
  <2>1. s \in {"RDA", "SOF", "RDAL"} /\ groups # <<>>
    BY <1>3 DEF IsCho, ChoKind
  <2> HIDE DEF s
  <2>2. ChoKind[s] \in {"CHO_RDA", "CHO_SOF", "CHO_RDAL"}
    BY <2>1 DEF ChoKind
  <2> QED BY <2>1, <2>2 DEF s
<1>5. i.ok /\ i.v.op = "CHO_SOF"
  OBVIOUS
<1> HIDE DEF mn, i, groups
<1>6. mn # "CHO_RDAL"
  <2>1. ASSUME mn = "CHO_RDAL" PROVE FALSE
    <3>1. i = Rdal(Tail(groups), symtab0)
      BY <1>3, <2>1
    <3>2. i.v.op = "CHO_RDAL"
      BY <1>5, <3>1 DEF Rdal, RdalOf, Gives, Fails
    <3> QED BY <1>5, <3>2
  <2> QED BY <2>1
<1>7. mn # "CHO_RDA"
  <2>1. ASSUME mn = "CHO_RDA" PROVE FALSE
    <3>1. i = Filled("CHO_RDA", Tail(groups), symtab0, labels0, index)
      BY <1>3, <2>1
    <3>2. i.v.op = OpFor("CHO_RDA")
      BY <1>5, <3>1 DEF Filled, Gives, Fails
    <3>3. OpFor("CHO_RDA") = "CHO_RDA"
      BY DEF OpFor
    <3> QED BY <1>5, <3>2, <3>3
  <2> QED BY <2>1
<1>8. mn = "CHO_SOF"
  BY <1>4, <1>6, <1>7
<1> QED BY <1>3, <1>4, <1>8 DEF i, groups

\* What the second pass has parsed keeps its coefficients.
LEMMA CoefficientsFollow ==
  ASSUME OperatorsGiveNumbers, SkipInv, NamedInv, NumbersInv
  PROVE  CoefficientsNearest
<1> SUFFICES ASSUME NEW p \in 1 .. Len(code) PROVE
      LET name == BodyOf(pending[p])[1].s[1]
          cho  == name = "CHO"
          form == IF name = "CHO" THEN (IF code[p].op = "CHO_SOF" THEN Form("CHO_SOF") ELSE <<>>)
                  ELSE Form(name)
      IN  \A k \in 1 .. Len(form) :
            LET ts == GroupsOf(p)[IF cho THEN k + 1 ELSE k]
            IN  form[k] \in DOMAIN FormatOf /\ ~(Len(ts) = 1 /\ ts[1].t = "raw") =>
                  NearTo(code[p].arg[FieldOf[form[k]]], Eval(ts, symtab).v, FormatOf[form[k]])
  BY Zenon DEF CoefficientsNearest
<1> DEFINE body   == BodyOf(pending[p])
           name   == body[1].s
           groups == GroupsOf(p)
           i      == Parsed(p - 1)
<1>1. /\ Len(code) \in Nat /\ Len(pending) \in Nat /\ p \in 1 .. Len(pending)
      /\ pending[p] \in 1 .. Len(source) /\ p - 1 + 1 = p
  BY DEF NamedInv, TypeInv, TypeOK
<1>2. i.ok /\ code[p] = i.v
  BY DEF SkipInv
<1>3. i = Parse(name, Operands1(body), symtab, labels, p - 1) /\ groups = SplitCommas(Operands1(body))
  BY <1>1 DEF Parsed, BodyOf, GroupsOf
<1>4. body \in Seq(Tokens) /\ name \in Seq(STRING)
  <2>1. source \in Seq(Seq(Tokens))
    BY SourceType DEF NamedInv, TypeInv
  <2>2. body \in Seq(Tokens)
    BY <1>1, <2>1, BodyType DEF BodyOf
  <2>3. body # <<>> /\ IsId(body[1])
    BY <1>1 DEF NamedInv
  <2> HIDE DEF body
  <2>4. body[1] \in Tokens
    BY <2>2, <2>3
  <2> QED BY <2>2, <2>3, <2>4, AsmAssumption DEF AsmAssumption
<1>5. groups \in Seq(Seq(Tokens))
  <2>1. Operands1(body) \in Seq(Tokens)
    <3> HIDE DEF body
    <3>1. body # <<>> => Tail(body) \in Seq(Tokens)
      BY <1>4
    <3>2. body = <<>> => NopRun(body)
      BY DEF NopRun
    <3> QED BY <3>1, <3>2 DEF Operands1
  <2> QED BY <1>3, <2>1, GroupsType
<1>6. ASSUME NEW k \in 1 .. Len(groups)
      PROVE  Eval(groups[k], symtab).ok => Eval(groups[k], symtab).v \in Num
  <2> HIDE DEF groups
  <2>1. groups[k] \in Seq(Tokens)
    BY <1>5, <1>6
  <2> QED BY <2>1, LiteralsOf, EvalGivesNumbers DEF NumbersInv
<1> HIDE DEF body, name, groups, i
<1>7. CASE name[1] = "CHO" /\ code[p].op = "CHO_SOF"
  <2> DEFINE form == Form("CHO_SOF")
             rest == Tail(groups)
  <2>1. groups # <<>> /\ i = Filled("CHO_SOF", rest, symtab, labels, p - 1)
    BY <1>2, <1>3, <1>4, <1>7, ChoFills
  <2>2. "CHO_SOF" \in Fillers
    BY DEF Fillers, Ops, ChoOps
  <2>3. ASSUME NEW k, k \in 1 .. Len(form), form[k] \in DOMAIN FormatOf,
               ~(Len(groups[k + 1]) = 1 /\ groups[k + 1][1].t = "raw")
        PROVE  NearTo(code[p].arg[FieldOf[form[k]]], Eval(groups[k + 1], symtab).v, FormatOf[form[k]])
    <3>1. Len(rest) = Len(form)
      BY <1>2, <2>1, <2>2, <2>3, FilledValue
    <3> HIDE DEF form
    <3>2. k + 1 \in 1 .. Len(groups) /\ rest[k] = groups[k + 1]
      BY <1>5, <2>1, <2>3, <3>1
    <3>3. Eval(rest[k], symtab).ok => Eval(rest[k], symtab).v \in Num
      BY <1>6, <3>2
    <3>4. ~(Len(rest[k]) = 1 /\ rest[k][1].t = "raw")
      BY <2>3, <3>2
    <3> HIDE DEF rest
    <3>5. NearTo(i.v.arg[FieldOf[form[k]]], Eval(rest[k], symtab).v, FormatOf[form[k]])
      BY <1>2, <2>1, <2>2, <2>3, <3>3, <3>4, CoefficientKept DEF form
    <3> QED BY <1>2, <3>2, <3>5
  <2> QED BY <1>7, <2>3 DEF name, body, groups
<1>8. CASE name[1] = "CHO" /\ code[p].op # "CHO_SOF"
  BY <1>8, SMTT(30) DEF name, body
<1>9. CASE name[1] # "CHO"
  <2> DEFINE mn   == name[1]
             form == Form(mn)
  <2>1. CASE mn = "RAW"
    <3>1. form = <<"word">>
      BY <2>1 DEF Form, DelayOps, RegOps, MathOps, MaskOps
    <3>2. "word" \notin DOMAIN FormatOf
      BY Kinds
    <3>3. \A k \in 1 .. Len(form) : form[k] \notin DOMAIN FormatOf
      BY <3>1, <3>2, SMTT(30)
    <3> QED BY <1>9, <3>3 DEF name, body
  <2>2. CASE mn # "RAW"
    <3>1. mn \in Fillers /\ i = Filled(mn, groups, symtab, labels, p - 1)
      BY <1>2, <1>3, <1>4, <1>9, <2>2, MnemonicFills
    <3> HIDE DEF mn
    <3>2. ASSUME NEW k, k \in 1 .. Len(form), form[k] \in DOMAIN FormatOf,
                 ~(Len(groups[k]) = 1 /\ groups[k][1].t = "raw")
          PROVE  NearTo(code[p].arg[FieldOf[form[k]]], Eval(groups[k], symtab).v, FormatOf[form[k]])
      <4>1. Len(groups) = Len(form)
        BY <1>2, <3>1, <3>2, FilledValue
      <4>2. Eval(groups[k], symtab).ok => Eval(groups[k], symtab).v \in Num
        BY <1>6, <3>2, <4>1
      <4>3. NearTo(i.v.arg[FieldOf[form[k]]], Eval(groups[k], symtab).v, FormatOf[form[k]])
        BY <1>2, <3>1, <3>2, <4>2, CoefficientKept
      <4> QED BY <1>2, <4>3
    <3> QED BY <1>9, <3>2 DEF mn, name, body, groups
  <2> QED BY <2>1, <2>2, Zenon
<1> QED BY <1>7, <1>8, <1>9, Zenon

\* Every real coefficient of a program is the nearest value of its field to the
\* finite number its line writes, or the field's largest for its shorthand, or 0
\* for NaN, and no line writes an infinity.
THEOREM CoefficientsStayNearest ==
  ASSUME OperatorsGiveNumbers PROVE Spec => []CoefficientsNearest
<1> DEFINE I == SkipInv /\ NamedInv /\ NumbersInv
<1>1. Init => I
  BY WordsInit, NumbersInit
<1>2. I /\ [Next]_vars => I'
  BY SkipStep, NamedStep, NumbersStep
<1>3. I => CoefficientsNearest
  BY CoefficientsFollow
<1> QED BY <1>1, <1>2, <1>3, PTL DEF Spec

-----------------------------------------------------------------------------
(* Splitting: what lies between commas.                                    *)

\* The token between operands.
IsComma(token) == token.t = ","

\* ts is the parts gs, cut at the commas, which stand at p[1] to p[n - 1].
Cuts(ts, gs, p) ==
  LET n == Len(gs)
  IN  /\ \A k \in 0 .. n : p[k] \in Nat
      /\ p[0] = 0 /\ p[n] = Len(ts) + 1
      /\ \A j, k \in 0 .. n : j < k => p[j] < p[k]
      /\ \A q \in 1 .. Len(ts) : IsComma(ts[q]) <=> \E k \in 1 .. n - 1 : q = p[k]
      /\ \A k \in 1 .. n : gs[k] = SubSeq(ts, p[k - 1] + 1, p[k] - 1)

\* Cuts, each to the right of the one before it, and those up to one.
Rising(p, n) == /\ \A k \in 0 .. n : p[k] \in Nat
                /\ \A j, k \in 0 .. n : j < k => p[j] < p[k]
Upto(p, k) == {p[j] : j \in 1 .. k}

\* No two cuts are the same.
LEMMA CutCount ==
  ASSUME NEW n \in Nat, NEW p, Rising(p, n)
  PROVE  \A k \in 0 .. n : IsFiniteSet(Upto(p, k)) /\ Cardinality(Upto(p, k)) = k
<1> DEFINE upto(k) == {p[j] : j \in 1 .. k}
           A == {k \in Nat : k <= n => IsFiniteSet(upto(k)) /\ Cardinality(upto(k)) = k}
<1>1. 0 \in A
  <2>1. upto(0) = {}
    OBVIOUS
  <2> QED BY <2>1, FS_EmptySet
<1>2. ASSUME NEW k \in Nat, k \in A PROVE k + 1 \in A
  <2> SUFFICES ASSUME k + 1 <= n
               PROVE  IsFiniteSet(upto(k + 1)) /\ Cardinality(upto(k + 1)) = k + 1
    OBVIOUS
  <2>1. IsFiniteSet(upto(k)) /\ Cardinality(upto(k)) = k
    BY <1>2
  <2>2. upto(k + 1) = upto(k) \cup {p[k + 1]}
    <3>1. \A j : j \in 1 .. k + 1 <=> j \in 1 .. k \/ j = k + 1
      OBVIOUS
    <3> QED BY <3>1, Zenon
  <2>3. p[k + 1] \notin upto(k)
    <3>1. \A j \in 1 .. k : p[j] < p[k + 1] /\ p[j] \in Nat /\ p[k + 1] \in Nat
      BY DEF Rising
    <3>2. \A a, b \in Nat : a < b => a # b
      OBVIOUS
    <3> QED BY <3>1, <3>2, Zenon
  <2> HIDE DEF upto
  <2>4. /\ IsFiniteSet(upto(k) \cup {p[k + 1]})
        /\ Cardinality(upto(k) \cup {p[k + 1]}) = Cardinality(upto(k)) + 1
    BY <2>1, <2>3, FS_AddElement
  <2> QED BY <2>1, <2>2, <2>4
<1>3. Nat \subseteq A
  <2> HIDE DEF A
  <2> QED BY <1>1, <1>2, Induct
<1> QED BY <1>3 DEF Upto

\* SplitCommas finds those parts.
LEMMA SplitCuts ==
  ASSUME NEW S, NEW ts \in Seq(S), ts # <<>>, NEW G, NEW gs \in Seq(G), gs # <<>>, NEW p0,
         Cuts(ts, gs, p0)
  PROVE  SplitCommas(ts) = gs
<1> DEFINE n      == Len(gs)
           last   == Len(ts)
           commas == {p \in 1 .. Len(ts) : IsComma(ts[p])}
           ends   == commas \cup {Len(ts) + 1}
           before(p) == IF \E q \in commas : q < p
                        THEN CHOOSE q \in commas : q < p /\ \A r \in commas : r < p => r <= q
                        ELSE 0
           end(k) == CHOOSE p \in ends : Cardinality({q \in ends : q <= p}) = k
           group(k) == SubSeq(ts, before(end(k)) + 1, end(k) - 1)
<1>1. SplitCommas(ts) = [k \in 1 .. Cardinality(ends) |-> group(k)]
  BY Zenon DEF SplitCommas, IsComma
<1>2. n \in Nat /\ 1 <= n /\ last \in Nat
  OBVIOUS
<1>3. /\ \A k \in 0 .. n : p0[k] \in Nat
      /\ p0[0] = 0 /\ p0[n] = last + 1
      /\ \A j, k \in 0 .. n : j < k => p0[j] < p0[k]
      /\ \A q \in 1 .. last : IsComma(ts[q]) <=> \E k \in 1 .. n - 1 : q = p0[k]
      /\ \A k \in 1 .. n : gs[k] = SubSeq(ts, p0[k - 1] + 1, p0[k] - 1)
  BY DEF Cuts
<1>4. \A q : q \in commas <=> q \in 1 .. last /\ \E k \in 1 .. n - 1 : q = p0[k]
  BY <1>3
<1>5. ends = commas \cup {last + 1}
  OBVIOUS
<1>14. gs = [k \in 1 .. n |-> gs[k]]
  OBVIOUS
<1> HIDE DEF commas, ends, n, last
<1>16. \A k \in 0 .. n : p0[k] \in Nat
  BY <1>3, Zenon
<1>17. p0[0] = 0 /\ p0[n] = last + 1
  BY <1>3, Zenon
<1>18. \A j, k \in 0 .. n : j < k => p0[j] < p0[k]
  BY <1>3, Zenon
<1>6. \A q : q \in commas <=> \E k \in 1 .. n - 1 : q = p0[k]
  <2>1. ASSUME NEW k \in 1 .. n - 1 PROVE p0[k] \in 1 .. last
    <3>1. 0 \in 0 .. n /\ k \in 0 .. n /\ n \in 0 .. n /\ 0 < k /\ k < n
      BY <1>2
    <3>2. p0[0] < p0[k] /\ p0[k] < p0[n] /\ p0[k] \in Nat
      BY <1>16, <1>18, <3>1, Zenon
    <3>3. 0 < p0[k] /\ p0[k] < last + 1
      BY <1>17, <3>2, Zenon
    <3> QED BY <1>2, <3>2, <3>3
  <2> QED BY <1>4, <2>1
<1>7. \A q : q \in ends <=> \E k \in 1 .. n : q = p0[k]
  <2>1. \A k : k \in 1 .. n <=> k \in 1 .. n - 1 \/ k = n
    BY <1>2
  <2> QED BY <1>3, <1>5, <1>6, <2>1, Zenon
<1>15. \A k \in 0 .. n : Cardinality(Upto(p0, k)) = k
  <2>1. Rising(p0, n)
    BY <1>3 DEF Rising
  <2> QED BY <1>2, <2>1, CutCount
<1>8. \A k \in 1 .. n : p0[k] \in ends /\ Cardinality({q \in ends : q <= p0[k]}) = k
  <2> SUFFICES ASSUME NEW k \in 1 .. n
               PROVE  p0[k] \in ends /\ Cardinality({q \in ends : q <= p0[k]}) = k
    OBVIOUS
  <2>1. \A j \in 1 .. n : p0[j] <= p0[k] <=> j <= k
    <3> SUFFICES ASSUME NEW j \in 1 .. n PROVE p0[j] <= p0[k] <=> j <= k
      OBVIOUS
    <3>1. j \in 0 .. n /\ k \in 0 .. n /\ j \in Nat /\ k \in Nat
      BY <1>2
    <3>2. p0[j] \in Nat /\ p0[k] \in Nat
      BY <1>16, <3>1, Zenon
    <3>3. (j < k => p0[j] < p0[k]) /\ (k < j => p0[k] < p0[j])
      BY <1>18, <3>1, Zenon
    <3>4. CASE j = k
      BY <3>2, <3>4
    <3>5. CASE j # k
      BY <3>1, <3>2, <3>3, <3>5
    <3> QED BY <3>4, <3>5
  <2>2. \A q : q \in {r \in ends : r <= p0[k]} <=> q \in {p0[j] : j \in 1 .. k}
    <3>1. \A j : j \in 1 .. n /\ j <= k <=> j \in 1 .. k
      BY <1>2
    <3> QED BY <1>7, <2>1, <3>1, Zenon
  <2>3. {r \in ends : r <= p0[k]} = Upto(p0, k)
    BY <2>2, Zenon DEF Upto
  <2>4. k \in 0 .. n
    BY <1>2
  <2>5. p0[k] \in ends
    BY <1>7
  <2> QED BY <1>15, <2>3, <2>4, <2>5, Zenon
<1>9. Cardinality(ends) = n
  <2>1. n \in 1 .. n /\ n \in 0 .. n
    BY <1>2
  <2>2. \A q : q \in ends <=> q \in {p0[j] : j \in 1 .. n}
    BY <1>7, Zenon
  <2>3. ends = Upto(p0, n)
    BY <2>2, Zenon DEF Upto
  <2> QED BY <1>15, <2>1, <2>3, Zenon
<1>10. ASSUME NEW k \in 1 .. n PROVE end(k) = p0[k]
  <2>1. end(k) \in ends /\ Cardinality({q \in ends : q <= end(k)}) = k
    BY <1>8, Zenon
  <2>2. PICK j \in 1 .. n : end(k) = p0[j]
    BY <1>7, <2>1
  <2> HIDE DEF end
  <2> QED BY <1>8, <2>1, <2>2
<1>11. ASSUME NEW k \in 1 .. n PROVE before(p0[k]) = p0[k - 1]
  <2>1. CASE k = 1
    <3>1. ~(\E q \in commas : q < p0[k])
      <4>1. ASSUME NEW j \in 1 .. n - 1 PROVE ~(p0[j] < p0[1])
        <5>1. j \in 0 .. n /\ 1 \in 0 .. n /\ (j = 1 \/ 1 < j)
          BY <1>2
        <5>2. p0[j] \in Nat /\ p0[1] \in Nat /\ (p0[j] = p0[1] \/ p0[1] < p0[j])
          BY <1>3, <5>1
        <5> QED BY <5>2
      <4> QED BY <1>6, <2>1, <4>1
    <3>2. before(p0[k]) = 0
      BY <3>1
    <3>3. k - 1 = 0
      BY <2>1
    <3> QED BY <1>3, <3>2, <3>3
  <2>2. CASE k # 1
    <3>1. k - 1 \in 1 .. n - 1 /\ k - 1 \in 0 .. n /\ k \in 0 .. n /\ k - 1 < k
      BY <1>2, <2>2
    <3>2. p0[k - 1] \in commas /\ p0[k - 1] < p0[k]
      BY <1>3, <1>6, <3>1
    <3>3. ASSUME NEW r \in commas, r < p0[k] PROVE r <= p0[k - 1]
      <4>1. PICK j \in 1 .. n - 1 : r = p0[j]
        BY <1>6
      <4>2. j \in 0 .. n /\ (j <= k - 1 \/ j = k \/ k < j) /\ j \in Int /\ k \in Int
        BY <1>2
      <4>3. ~(k < j) /\ j # k
        <5>1. p0[j] < p0[k] /\ p0[j] \in Nat /\ p0[k] \in Nat
          BY <1>3, <3>1, <3>3, <4>1, <4>2
        <5>2. k < j => p0[k] < p0[j]
          BY <1>3, <3>1, <4>2
        <5> QED BY <5>1, <5>2
      <4>4. j = k - 1 \/ j < k - 1
        BY <4>2, <4>3
      <4>5. p0[j] \in Nat /\ p0[k - 1] \in Nat /\ (j < k - 1 => p0[j] < p0[k - 1])
        BY <1>3, <3>1, <4>2
      <4> QED BY <4>1, <4>4, <4>5
    <3> DEFINE b == before(p0[k])
    <3>4. b \in commas /\ b < p0[k] /\ \A r \in commas : r < p0[k] => r <= b
      BY <3>2, <3>3
    <3> HIDE DEF b
    <3>5. b <= p0[k - 1] /\ p0[k - 1] <= b
      BY <3>2, <3>3, <3>4
    <3>6. b \in Nat /\ p0[k - 1] \in Nat
      <4>1. PICK j \in 1 .. n - 1 : b = p0[j]
        BY <1>6, <3>4
      <4>2. j \in 0 .. n
        BY <1>2
      <4> QED BY <1>3, <3>1, <4>1, <4>2
    <3> QED BY <3>5, <3>6 DEF b
  <2> QED BY <2>1, <2>2
<1>12. \A k \in 1 .. n : group(k) = gs[k]
  <2> HIDE DEF before, end
  <2> QED BY <1>3, <1>10, <1>11
<1>13. [k \in 1 .. n |-> group(k)] = [k \in 1 .. n |-> gs[k]]
  <2> HIDE DEF group
  <2> QED BY <1>12
<1> HIDE DEF group
<1> QED BY <1>1, <1>9, <1>13, <1>14

\* No comma.
NoComma(ts) == \A q \in 1 .. Len(ts) : ~IsComma(ts[q])

\* Without a comma there is one part.
LEMMA CutsOne ==
  ASSUME NEW S, NEW ts \in Seq(S), NoComma(ts)
  PROVE  \E p : Cuts(ts, <<ts>>, p)
<1> DEFINE gs == <<ts>>
           p  == [k \in 0 .. 1 |-> IF k = 0 THEN 0 ELSE Len(ts) + 1]
<1>1. Len(gs) = 1 /\ gs[1] = ts /\ Len(ts) \in Nat
  OBVIOUS
<1>2. p[0] = 0 /\ p[1] = Len(ts) + 1
  OBVIOUS
<1>3. ts = SubSeq(ts, p[0] + 1, p[1] - 1)
  <2>1. (Len(ts) + 1) - 1 = Len(ts) /\ 0 + 1 = 1
    BY <1>1
  <2>2. ts = SubSeq(ts, 1, Len(ts))
    OBVIOUS
  <2> QED BY <1>2, <2>1, <2>2
<1> HIDE DEF gs, p
<1>4. Cuts(ts, gs, p)
  <2>1. \A k \in 0 .. 1 : p[k] \in Nat
    BY <1>1, <1>2
  <2>2. \A j, k \in 0 .. 1 : j < k => p[j] < p[k]
    BY <1>1, <1>2
  <2>3. \A q \in 1 .. Len(ts) : IsComma(ts[q]) <=> \E k \in 1 .. 1 - 1 : q = p[k]
    <3>1. \A k : k \notin 1 .. 1 - 1
      OBVIOUS
    <3> QED BY <3>1, Zenon DEF NoComma
  <2>4. \A k \in 1 .. 1 : gs[k] = SubSeq(ts, p[k - 1] + 1, p[k] - 1)
    <3>1. (\A k \in 1 .. 1 : k = 1) /\ 1 - 1 = 0
      OBVIOUS
    <3>2. gs[1] = SubSeq(ts, p[1 - 1] + 1, p[1] - 1)
      BY <1>1, <1>3, <3>1
    <3> QED BY <3>1, <3>2, Zenon
  <2> QED BY <1>1, <1>2, <2>1, <2>2, <2>3, <2>4 DEF Cuts
<1> QED BY <1>4 DEF gs

\* A piece of a sequence between two of its places.
LEMMA Piece ==
  ASSUME NEW S, NEW z \in Seq(S), NEW u \in Nat, NEW w \in Nat, u < w, w <= Len(z) + 1
  PROVE  /\ SubSeq(z, u + 1, w - 1) \in Seq(S) /\ Len(SubSeq(z, u + 1, w - 1)) = (w - u) - 1
         /\ \A i \in 1 .. (w - u) - 1 : SubSeq(z, u + 1, w - 1)[i] = z[u + i]
<1> DEFINE s == SubSeq(z, u + 1, w - 1)
           l == (w - u) - 1
<1>1. \A i \in u + 1 .. w - 1 : i \in 1 .. Len(z) /\ z[i] \in S
  OBVIOUS
<1>2. u + 1 \in Int /\ w - 1 \in Int
  OBVIOUS
<1>3. /\ s \in Seq(S) /\ Len(s) = IF u + 1 <= w - 1 THEN (w - 1) - (u + 1) + 1 ELSE 0
      /\ \A i \in 1 .. (w - 1) - (u + 1) + 1 : s[i] = z[u + 1 + i - 1]
  BY <1>1, <1>2, SubSeqProperties
<1>4. /\ (w - 1) - (u + 1) + 1 = l /\ l \in Nat /\ (l = 0 <=> ~(u + 1 <= w - 1))
      /\ \A i \in 1 .. l : u + 1 + i - 1 = u + i
  OBVIOUS
<1> HIDE DEF s, l
<1>5. s \in Seq(S) /\ Len(s) = l /\ \A i \in 1 .. l : s[i] = z[u + i]
  BY <1>3, <1>4
<1> QED BY <1>5 DEF s, l

\* A part and a comma before the others is one part more.
LEMMA CutsMore ==
  ASSUME NEW S, NEW a \in Seq(S), NoComma(a), NEW c \in S, IsComma(c), NEW ts \in Seq(S),
         NEW gs \in Seq(Seq(S)), gs # <<>>, NEW p, Cuts(ts, gs, p)
  PROVE  \E q : Cuts(a \o <<c>> \o ts, <<a>> \o gs, q)
<1> DEFINE m == Len(a) + 1
           n == Len(gs)
           whole == a \o <<c>> \o ts
           parts == <<a>> \o gs
           q  == [k \in 0 .. n + 1 |-> IF k = 0 THEN 0 ELSE p[k - 1] + m]
<1>1. /\ \A k \in 0 .. n : p[k] \in Nat
      /\ p[0] = 0 /\ p[n] = Len(ts) + 1
      /\ \A j, k \in 0 .. n : j < k => p[j] < p[k]
      /\ \A i \in 1 .. Len(ts) : IsComma(ts[i]) <=> \E k \in 1 .. n - 1 : i = p[k]
      /\ \A k \in 1 .. n : gs[k] = SubSeq(ts, p[k - 1] + 1, p[k] - 1)
  BY DEF Cuts
<1>2. n \in Nat /\ 1 <= n /\ m \in Nat /\ Len(a) \in Nat /\ Len(ts) \in Nat /\ 1 <= m
  OBVIOUS
<1>3. /\ whole \in Seq(S) /\ Len(whole) = m + Len(ts)
      /\ \A i \in 1 .. Len(a) : whole[i] = a[i]
      /\ whole[m] = c
      /\ \A i \in 1 .. Len(ts) : whole[m + i] = ts[i]
  <2> DEFINE ac == a \o <<c>>
  <2>1. <<c>> \in Seq(S) /\ Len(<<c>>) = 1 /\ <<c>>[1] = c
    OBVIOUS
  <2>2. /\ ac \in Seq(S) /\ Len(ac) = m
        /\ \A i \in 1 .. Len(a) : ac[i] = a[i]
        /\ ac[m] = c
    BY <1>2, <2>1, ConcatProperties
  <2> HIDE DEF ac, m
  <2>3. /\ ac \o ts \in Seq(S) /\ Len(ac \o ts) = m + Len(ts)
        /\ \A i \in 1 .. m + Len(ts) :
             (ac \o ts)[i] = IF i <= m THEN ac[i] ELSE ts[i - m]
    BY <2>2, ConcatProperties
  <2>4. \A i \in 1 .. m : i \in 1 .. m + Len(ts) /\ i <= m
    BY <1>2
  <2>5. \A i \in 1 .. Len(ts) : m + i \in 1 .. m + Len(ts) /\ ~(m + i <= m) /\ (m + i) - m = i
    BY <1>2
  <2>6. \A i \in 1 .. Len(a) : i \in 1 .. m
    BY <1>2 DEF m
  <2>7. m \in 1 .. m
    BY <1>2
  <2>8. /\ \A i \in 1 .. Len(a) : (ac \o ts)[i] = a[i]
        /\ (ac \o ts)[m] = c
    BY <2>2, <2>3, <2>4, <2>6, <2>7, Zenon
  <2>9. \A i \in 1 .. Len(ts) : (ac \o ts)[m + i] = ts[i]
    BY <2>3, <2>5
  <2> QED BY <2>3, <2>8, <2>9 DEF ac
<1>4. /\ parts \in Seq(Seq(S)) /\ Len(parts) = n + 1
      /\ parts[1] = a /\ \A k \in 1 .. n : parts[k + 1] = gs[k]
  <2>1. <<a>> \in Seq(Seq(S)) /\ Len(<<a>>) = 1 /\ <<a>>[1] = a
    OBVIOUS
  <2>2. /\ parts \in Seq(Seq(S)) /\ Len(parts) = 1 + n
        /\ \A k \in 1 .. 1 + n : parts[k] = IF k <= 1 THEN <<a>>[k] ELSE gs[k - 1]
    BY <2>1, ConcatProperties
  <2> HIDE DEF parts
  <2> QED BY <1>2, <2>1, <2>2
<1>5. /\ q[0] = 0
      /\ \A k \in 1 .. n + 1 : q[k] = p[k - 1] + m /\ p[k - 1] \in Nat
  BY <1>1, <1>2
<1> HIDE DEF q, n, whole, parts
<1>6. \A k \in 0 .. n + 1 : q[k] \in Nat
  <2> HIDE DEF m
  <2>1. \A k \in 0 .. n + 1 : k = 0 \/ k \in 1 .. n + 1
    BY <1>2
  <2>2. ASSUME NEW k \in 1 .. n + 1 PROVE q[k] \in Nat
    <3>1. p[k - 1] \in Nat /\ m \in Nat /\ q[k] = p[k - 1] + m
      BY <1>2, <1>5
    <3> QED BY <3>1
  <2> QED BY <1>5, <2>1, <2>2
<1>7. q[n + 1] = Len(whole) + 1
  BY <1>1, <1>2, <1>3, <1>5
<1>8. \A j, k \in 0 .. n + 1 : j < k => q[j] < q[k]
  <2> SUFFICES ASSUME NEW j \in 0 .. n + 1, NEW k \in 0 .. n + 1, j < k PROVE q[j] < q[k]
    OBVIOUS
  <2>1. k \in 1 .. n + 1 /\ k - 1 \in 0 .. n
    BY <1>2
  <2>2. q[k] = p[k - 1] + m /\ p[k - 1] \in Nat
    BY <1>5, <2>1
  <2>3. CASE j = 0
    BY <1>2, <1>5, <2>2, <2>3
  <2>4. CASE j # 0
    <3>1. j \in 1 .. n + 1 /\ j - 1 \in 0 .. n /\ j - 1 < k - 1
      BY <1>2, <2>4
    <3>2. p[j - 1] < p[k - 1] /\ q[j] = p[j - 1] + m /\ p[j - 1] \in Nat
      BY <1>1, <1>5, <2>1, <3>1
    <3> QED BY <1>2, <2>2, <3>2
  <2> QED BY <2>3, <2>4
<1>9. \A i \in 1 .. Len(whole) : IsComma(whole[i]) <=> \E k \in 1 .. (n + 1) - 1 : i = q[k]
  <2> SUFFICES ASSUME NEW i \in 1 .. Len(whole)
               PROVE  IsComma(whole[i]) <=> \E k \in 1 .. n : i = q[k]
    <3>1. (n + 1) - 1 = n
      BY <1>2
    <3> QED BY <3>1
  <2>1. \A k \in 1 .. n : k \in 1 .. n + 1
    BY <1>2
  <2>2. q[1] = m
    BY <1>1, <1>2, <1>5
  <2>3. CASE i < m
    <3>1. i \in 1 .. Len(a) /\ ~IsComma(whole[i])
      BY <1>3, <2>3 DEF NoComma
    <3>2. ASSUME NEW k \in 1 .. n PROVE q[k] # i
      <4>1. q[k] = p[k - 1] + m /\ p[k - 1] \in Nat
        BY <1>5, <2>1
      <4> HIDE DEF m
      <4> QED BY <1>2, <1>3, <2>3, <4>1
    <3> QED BY <3>1, <3>2
  <2>4. CASE i = m
    <3>1. 1 \in 1 .. n
      BY <1>2
    <3> QED BY <1>3, <2>2, <2>4, <3>1
  <2>5. CASE i > m
    <3> DEFINE j == i - m
    <3>1. j \in 1 .. Len(ts) /\ i = m + j
      BY <1>2, <1>3, <2>5
    <3> HIDE DEF j, m
    <3>2. IsComma(whole[i]) <=> \E k \in 1 .. n - 1 : j = p[k]
      BY <1>1, <1>3, <3>1
    <3>3. ASSUME NEW k \in 1 .. n - 1, j = p[k] PROVE k + 1 \in 1 .. n /\ i = q[k + 1]
      <4>1. k + 1 \in 1 .. n /\ k + 1 \in 1 .. n + 1 /\ (k + 1) - 1 = k
        BY <1>2
      <4>2. q[k + 1] = p[k] + m /\ p[k] \in Nat
        BY <1>5, <4>1
      <4> QED BY <1>2, <3>1, <3>3, <4>1, <4>2
    <3>4. ASSUME NEW k \in 1 .. n, i = q[k] PROVE k - 1 \in 1 .. n - 1 /\ j = p[k - 1]
      <4>1. q[k] = p[k - 1] + m /\ p[k - 1] \in Nat
        BY <1>5, <2>1
      <4>2. k # 1
        BY <2>2, <2>5, <3>4, <1>2
      <4>3. k - 1 \in 1 .. n - 1
        BY <1>2, <4>2
      <4>4. j = p[k - 1]
        BY <1>2, <3>1, <3>4, <4>1
      <4> QED BY <4>3, <4>4
    <3> QED BY <3>2, <3>3, <3>4
  <2>6. i \in Int /\ m \in Int /\ (i < m \/ i = m \/ i > m)
    <3>1. i \in Int /\ m \in Int
      BY <1>2, <1>3
    <3> HIDE DEF m
    <3> QED BY <3>1
  <2> QED BY <2>3, <2>4, <2>5, <2>6
<1>10. ASSUME NEW k \in 1 .. n + 1
       PROVE  parts[k] = SubSeq(whole, q[k - 1] + 1, q[k] - 1)
  <2>1. CASE k = 1
    <3>1. q[k - 1] = 0 /\ q[k] = m
      <4>1. 1 - 1 = 0 /\ 1 \in 1 .. n + 1
        BY <1>2
      <4> QED BY <1>1, <1>2, <1>5, <2>1, <4>1
    <3>2. SubSeq(whole, 0 + 1, m - 1) = a
      <4> DEFINE b == SubSeq(whole, 0 + 1, m - 1)
      <4>1. 0 < m /\ m <= Len(whole) + 1 /\ (m - 0) - 1 = Len(a)
            /\ \A i \in 1 .. Len(a) : 0 + i = i
        BY <1>2, <1>3
      <4>2. b \in Seq(S) /\ Len(b) = Len(a) /\ \A i \in 1 .. Len(a) : b[i] = a[i]
        BY <1>2, <1>3, <4>1, Piece
      <4> HIDE DEF b
      <4>3. b = a
        BY <4>2
      <4> QED BY <4>3 DEF b
    <3> HIDE DEF m
    <3> QED BY <1>4, <2>1, <3>1, <3>2
  <2>2. CASE k # 1
    <3> DEFINE j == k - 1
    <3>1. j \in 1 .. n /\ k = j + 1 /\ j \in 1 .. n + 1 /\ j - 1 \in 0 .. n /\ j \in 0 .. n
      BY <1>2, <2>2
    <3> HIDE DEF j, m
    <3> DEFINE x == p[j - 1]
               y == p[j]
    <3>2. q[k - 1] = x + m /\ q[k] = y + m
      <4>1. k - 1 = j
        BY <3>1
      <4> QED BY <1>5, <3>1, <4>1
    <3>3. gs[j] = SubSeq(ts, x + 1, y - 1) /\ parts[k] = gs[j]
      BY <1>1, <1>4, <3>1
    <3>4. x \in Nat /\ y \in Nat /\ x < y /\ y <= Len(ts) + 1
      <4>1. n \in 0 .. n /\ j - 1 < j /\ (j = n \/ j < n)
        BY <1>2, <3>1
      <4>2. x \in Nat /\ y \in Nat /\ x < y
        BY <1>1, <3>1, <4>1
      <4>3. p[n] \in Nat /\ (y = p[n] \/ y < p[n])
        BY <1>1, <3>1, <4>1
      <4> HIDE DEF x, y
      <4> QED BY <1>1, <1>2, <4>2, <4>3
    <3> HIDE DEF x, y
    <3>5. SubSeq(ts, x + 1, y - 1) = SubSeq(whole, (x + m) + 1, (y + m) - 1)
      <4> DEFINE s == SubSeq(ts, x + 1, y - 1)
                 u == x + m
                 w == y + m
                 t == SubSeq(whole, u + 1, w - 1)
                 l == (y - x) - 1
      <4>1. s \in Seq(S) /\ Len(s) = l /\ \A i \in 1 .. l : s[i] = ts[x + i]
        BY <3>4, Piece
      <4>2. t \in Seq(S) /\ Len(t) = l /\ \A i \in 1 .. l : t[i] = whole[m + (x + i)]
        <5>1. /\ u \in Nat /\ w \in Nat /\ u < w /\ w <= Len(whole) + 1 /\ (w - u) - 1 = l
              /\ \A i \in 1 .. l : u + i = m + (x + i)
          <6> HIDE DEF l
          <6>1. l = (y - x) - 1
            BY DEF l
          <6> QED BY <1>2, <1>3, <3>4, <6>1
        <5> HIDE DEF l, u, w
        <5>2. t \in Seq(S) /\ Len(t) = l /\ \A i \in 1 .. l : t[i] = whole[u + i]
          BY <1>3, <5>1, Piece
        <5> HIDE DEF t
        <5> QED BY <5>1, <5>2
      <4>3. \A i \in 1 .. l : x + i \in 1 .. Len(ts)
        BY <1>2, <3>4
      <4> HIDE DEF s, t, u, w, l
      <4>4. \A i \in 1 .. l : s[i] = t[i]
        BY <1>3, <4>1, <4>2, <4>3
      <4>5. s = t
        BY <4>1, <4>2, <4>4
      <4> QED BY <4>5 DEF s, t, u, w
    <3> QED BY <3>2, <3>3, <3>5
  <2> QED BY <2>1, <2>2
<1>11. Cuts(whole, parts, q)
  BY <1>4, <1>5, <1>6, <1>7, <1>8, <1>9, <1>10 DEF Cuts
<1> QED BY <1>11 DEF whole, parts

-----------------------------------------------------------------------------
(* What a short expression evaluates to.                                   *)

\* The end of an expression belongs to no level.
LEMMA EndOfLevels ==
  ASSUME NEW S, NEW ts \in Seq(S)
  PROVE  /\ TokenAt(ts, Len(ts) + 1) = "end"
         /\ "end" # "**"
         /\ \A l \in 1 .. 6 : "end" \notin Levels[l]
<1>1. Len(ts) \in Nat
  OBVIOUS
<1>2. TokenAt(ts, Len(ts) + 1) = "end"
  BY <1>1 DEF TokenAt
<1>3. "end" # "**"
  OBVIOUS
<1>4. ASSUME NEW l \in 1 .. 6 PROVE "end" \notin Levels[l]
  <2>1. CASE l = 1
    BY <2>1 DEF Levels
  <2>2. CASE l = 2
    BY <2>2 DEF Levels
  <2>3. CASE l = 3
    BY <2>3 DEF Levels
  <2>4. CASE l = 4
    BY <2>4 DEF Levels
  <2>5. CASE l = 5
    BY <2>5 DEF Levels
  <2>6. CASE l = 6
    BY <2>6 DEF Levels
  <2> QED BY <2>1, <2>2, <2>3, <2>4, <2>5, <2>6
<1> QED BY <1>2, <1>3, <1>4

\* A value that ends the expression passes through every looser level.
LEMMA LevelsPass ==
  ASSUME NEW S, NEW ts \in Seq(S), NEW table, NEW L, IsTable(ts, table, L),
         NEW p \in 1 .. Len(ts), NEW v \in Num,
         L[<<UnaryLevel, p, Start>>] = Read(v, Len(ts) + 1)
  PROVE  L[<<1, p, Start>>] = Read(v, Len(ts) + 1)
<1> DEFINE q == Len(ts) + 1
<1>1. p \in 1 .. q /\ q \in 1 .. q /\ Start \in Num \cup {Start} /\ v \in Num \cup {Start}
  OBVIOUS
<1>2. TokenAt(ts, q) = "end"
  BY EndOfLevels
<1> HIDE DEF q
<1>3. \A l \in 1 .. 8 : <<l, p, Start>> \in Places(ts) /\ <<l, q, v>> \in Places(ts)
  BY <1>1 DEF Places, UnaryLevel, q
<1>4. \A at \in Places(ts) : L[at] = Reading(ts, table, L, at[1], at[2], at[3])
  BY DEF IsTable, ReadAt
<1>5. Read(v, q).ok /\ Read(v, q).v = v /\ Read(v, q).p = q
  BY DEF Read
<1>6. L[<<7, p, Start>>] = Read(v, q)
  <2>1. <<7, p, Start>> \in Places(ts)
    BY <1>3
  <2>2. L[<<7, p, Start>>] = Power(ts, L, p)
    <3>1. L[<<7, p, Start>>] = Reading(ts, table, L, 7, p, Start)
      BY <1>4, <2>1
    <3>2. Reading(ts, table, L, 7, p, Start) = Power(ts, L, p)
      BY DEF Reading, PowerLevel, UnaryLevel
    <3> QED BY <3>1, <3>2
  <2>3. L[<<UnaryLevel, p, Start>>] = Read(v, q)
    BY DEF q
  <2>4. Power(ts, L, p) = L[<<UnaryLevel, p, Start>>]
    BY <1>2, <1>5, <2>3, EndOfLevels DEF Power
  <2> QED BY <2>2, <2>3, <2>4
<1>7. ASSUME NEW l \in 1 .. 6, L[<<l + 1, p, Start>>] = Read(v, q)
      PROVE  L[<<l, p, Start>>] = Read(v, q)
  <2>1. l \in 1 .. 8 /\ l < PowerLevel
    BY DEF PowerLevel
  <2>2. <<l, p, Start>> \in Places(ts) /\ <<l, q, v>> \in Places(ts)
    BY <1>3, <2>1
  <2>3. \A i, acc : <<l, i, acc>> \in Places(ts) => L[<<l, i, acc>>] = Gather(ts, L, l, i, acc)
    <3> SUFFICES ASSUME NEW i, NEW acc, <<l, i, acc>> \in Places(ts)
                 PROVE  L[<<l, i, acc>>] = Gather(ts, L, l, i, acc)
      OBVIOUS
    <3>1. L[<<l, i, acc>>] = Reading(ts, table, L, l, i, acc)
      <4>1. L[<<l, i, acc>>] = ReadAt(ts, table, L, <<l, i, acc>>)
        BY Zenon DEF IsTable
      <4> QED BY <4>1 DEF ReadAt
    <3>2. Reading(ts, table, L, l, i, acc) = Gather(ts, L, l, i, acc)
      BY <2>1 DEF Reading, PowerLevel, UnaryLevel
    <3> QED BY <3>1, <3>2
  <2>4. L[<<l, q, v>>] = Read(v, q)
    <3>1. v # Start
      BY NotStart
    <3>2. TokenAt(ts, q) \notin Levels[l]
      BY <1>2, EndOfLevels
    <3>3. Gather(ts, L, l, q, v) = Read(v, q)
      BY <3>1, <3>2, Zenon DEF Gather
    <3> QED BY <2>2, <2>3, <3>3
  <2>5. Gather(ts, L, l, p, Start) = L[<<l, q, v>>]
    BY <1>5, <1>7, Zenon DEF Gather
  <2> QED BY <2>2, <2>3, <2>4, <2>5
<1>8. L[<<6, p, Start>>] = Read(v, q)
  BY <1>6, <1>7
<1>9. L[<<5, p, Start>>] = Read(v, q)
  BY <1>7, <1>8
<1>10. L[<<4, p, Start>>] = Read(v, q)
  BY <1>7, <1>9
<1>11. L[<<3, p, Start>>] = Read(v, q)
  BY <1>7, <1>10
<1>12. L[<<2, p, Start>>] = Read(v, q)
  BY <1>7, <1>11
<1>13. L[<<1, p, Start>>] = Read(v, q)
  BY <1>7, <1>12
<1> QED BY <1>13 DEF q

\* A literal or a symbol by itself is its value.
LEMMA EvalOne ==
  ASSUME OperatorsGiveNumbers, NEW S, NEW ts \in Seq(S), NEW table, Literals(ts), Numbers(table),
         Len(ts) = 1, NEW v,
         \/ ts[1].t \in {"num", "raw"} /\ v = ts[1].v
         \/ ts[1].t = "id" /\ ts[1].s \in DOMAIN table /\ v = table[ts[1].s]
  PROVE  Eval(ts, table) = Gives(v)
<1>1. PICK L : /\ IsTable(ts, table, L)
               /\ Eval(ts, table) =
                    IF L[<<1, 1, Start>>].ok /\ L[<<1, 1, Start>>].p = Len(ts) + 1
                    THEN Gives(L[<<1, 1, Start>>].v) ELSE Fails
  BY EvalReads
<1>2. v \in Num
  <2>1. ts[1].t \in {"num", "raw"} => ts[1].v \in Num
    <3>1. 1 \in 1 .. Len(ts)
      OBVIOUS
    <3> QED BY <3>1, Zenon DEF Literals
  <2>2. ts[1].s \in DOMAIN table => table[ts[1].s] \in Num
    BY Zenon DEF Numbers
  <2> QED BY <2>1, <2>2, Zenon
<1>3. L[<<UnaryLevel, 1, Start>>] = Unary(ts, table, L, 1)
  <2>1. <<UnaryLevel, 1, Start>> \in Places(ts)
    <3>1. UnaryLevel \in 1 .. UnaryLevel /\ 1 \in 1 .. Len(ts) + 1 /\ Start \in Num \cup {Start}
      BY DEF UnaryLevel
    <3> QED BY <3>1, Zenon DEF Places
  <2>2. L[<<UnaryLevel, 1, Start>>] = Reading(ts, table, L, UnaryLevel, 1, Start)
    <3>1. L[<<UnaryLevel, 1, Start>>] = ReadAt(ts, table, L, <<UnaryLevel, 1, Start>>)
      BY <1>1, <2>1, Zenon DEF IsTable
    <3> QED BY <3>1 DEF ReadAt
  <2>3. Reading(ts, table, L, UnaryLevel, 1, Start) = Unary(ts, table, L, 1)
    BY DEF Reading, PowerLevel, UnaryLevel
  <2> QED BY <2>2, <2>3
<1>4. TokenAt(ts, 1) = ts[1].t
  BY DEF TokenAt
<1>5. Unary(ts, table, L, 1) = Read(v, 1 + 1)
  <2>1. CASE ts[1].t \in {"num", "raw"} /\ v = ts[1].v
    BY <1>4, <2>1 DEF Unary
  <2>2. CASE ts[1].t = "id" /\ ts[1].s \in DOMAIN table /\ v = table[ts[1].s]
    BY <1>4, <2>2 DEF Unary
  <2> QED BY <2>1, <2>2
<1>6. 1 + 1 = Len(ts) + 1 /\ 1 \in 1 .. Len(ts)
  OBVIOUS
<1>7. L[<<1, 1, Start>>] = Read(v, Len(ts) + 1)
  BY <1>1, <1>2, <1>3, <1>5, <1>6, LevelsPass
<1> QED BY <1>1, <1>7 DEF Read

\* A minus sign and a literal are its negative.
LEMMA EvalMinus ==
  ASSUME OperatorsGiveNumbers, NEW S, NEW ts \in Seq(S), NEW table, Literals(ts), Numbers(table),
         Len(ts) = 2, ts[1].t = "-", ts[2].t = "num"
  PROVE  Eval(ts, table) = Gives(Negate(ts[2].v))
<1> DEFINE x == ts[2].v
<1>1. PICK L : /\ IsTable(ts, table, L)
               /\ Eval(ts, table) =
                    IF L[<<1, 1, Start>>].ok /\ L[<<1, 1, Start>>].p = Len(ts) + 1
                    THEN Gives(L[<<1, 1, Start>>].v) ELSE Fails
  BY EvalReads
<1>2. x \in Num /\ Negate(x) \in Num
  <2>1. 2 \in 1 .. Len(ts) /\ ts[2].t \in {"num", "raw"}
    OBVIOUS
  <2>2. x \in Num
    BY <2>1, Zenon DEF Literals
  <2> QED BY <2>2, NegateNum
<1>3. \A p \in {1, 2} : L[<<UnaryLevel, p, Start>>] = Unary(ts, table, L, p)
  <2> SUFFICES ASSUME NEW p \in {1, 2}
               PROVE  L[<<UnaryLevel, p, Start>>] = Unary(ts, table, L, p)
    OBVIOUS
  <2>1. <<UnaryLevel, p, Start>> \in Places(ts)
    <3>1. UnaryLevel \in 1 .. UnaryLevel /\ p \in 1 .. Len(ts) + 1 /\ Start \in Num \cup {Start}
      BY DEF UnaryLevel
    <3> QED BY <3>1, Zenon DEF Places
  <2>2. L[<<UnaryLevel, p, Start>>] = Reading(ts, table, L, UnaryLevel, p, Start)
    <3>1. L[<<UnaryLevel, p, Start>>] = ReadAt(ts, table, L, <<UnaryLevel, p, Start>>)
      BY <1>1, <2>1, Zenon DEF IsTable
    <3> QED BY <3>1 DEF ReadAt
  <2>3. Reading(ts, table, L, UnaryLevel, p, Start) = Unary(ts, table, L, p)
    BY DEF Reading, PowerLevel, UnaryLevel
  <2> QED BY <2>2, <2>3
<1>4. TokenAt(ts, 1) = "-" /\ TokenAt(ts, 2) = "num"
  BY DEF TokenAt
<1> DEFINE arg == L[<<UnaryLevel, 1 + 1, Start>>]
<1>5. arg = Read(x, 3)
  <2>1. Unary(ts, table, L, 2) = Read(ts[2].v, 2 + 1)
    BY <1>4 DEF Unary
  <2>2. 1 + 1 = 2 /\ 2 + 1 = 3
    OBVIOUS
  <2> QED BY <1>3, <2>1, <2>2
<1>6. Unary(ts, table, L, 1) = Read(Negate(x), 3)
  <2>1. arg.ok /\ arg.v = x /\ arg.p = 3
    BY <1>5 DEF Read
  <2>2. Unary(ts, table, L, 1) = Then(Negated("-", arg.v), arg.p)
    <3> HIDE DEF x
    <3> QED BY <1>4, <2>1 DEF Unary
  <2>3. Negated("-", x) = Gives(Negate(x))
    BY DEF Negated
  <2> HIDE DEF arg, x
  <2> QED BY <2>1, <2>2, <2>3 DEF Then, Gives
<1>7. 3 = Len(ts) + 1 /\ 1 \in 1 .. Len(ts)
  OBVIOUS
<1>8. L[<<1, 1, Start>>] = Read(Negate(x), Len(ts) + 1)
  <2>1. L[<<UnaryLevel, 1, Start>>] = Read(Negate(x), Len(ts) + 1)
    BY <1>3, <1>6, <1>7
  <2> HIDE DEF x
  <2> QED BY <1>1, <1>2, <1>7, <2>1, LevelsPass
<1> HIDE DEF x
<1>9. Eval(ts, table) = Gives(Negate(x))
  BY <1>1, <1>8 DEF Read
<1> QED BY <1>9 DEF x

-----------------------------------------------------------------------------
(* Printed operands read back.                                             *)

\* The names an instruction is printed with, and its tokens.
Stems  == Mnemonics \cup DOMAIN ChoKind \cup DOMAIN Selectors
Glyphs == {Mark("-")} \cup {Mark(",")} \cup {Lit(x) : x \in Num} \cup {Raw(n) : n \in Int}
            \cup {Id(<<stem>>) : stem \in Stems}

\* One operand, of printed tokens.
IsOperand(ts) == ts \in Seq(Glyphs) /\ ts # <<>> /\ NoComma(ts)

\* Such an integer reads as itself.
LEMMA SmallInt ==
  ASSUME NEW v \in Int, Size(v) <= IntMax
  PROVE  IntOf(v) = [real |-> FALSE, n |-> v, d |-> 1]
<1>1. IntMax \in Int
  BY IntMaxBig
<1>2. -IntMax - 1 <= v /\ v <= IntMax
  BY <1>1 DEF Size
<1>3. Wrap(v) = v
  BY <1>2, WrapId
<1> QED BY <1>3 DEF IntOf

\* A mark between operands is none of them.
LEMMA NotCommas ==
  /\ ~IsComma(Mark("-"))
  /\ \A x : ~IsComma(Lit(x))
  /\ \A n : ~IsComma(Raw(n))
  /\ \A s : ~IsComma(Id(s))
<1>1. Mark("-").t # ","
  BY Zenon DEF Mark
<1>2. \A x : Lit(x).t = "num"
  BY DEF Lit
<1>3. \A n : Raw(n).t = "raw"
  BY DEF Raw
<1>4. \A s : Id(s).t = "id"
  BY DEF Id
<1>5. "num" # "," /\ "raw" # "," /\ "id" # ","
  BY Zenon
<1> QED BY <1>1, <1>2, <1>3, <1>4, <1>5, Zenon DEF IsComma

\* One token that is no comma.
LEMMA OneToken ==
  ASSUME NEW token \in Glyphs, ~IsComma(token)
  PROVE  IsOperand(<<token>>) /\ Len(<<token>>) = 1 /\ <<token>>[1] = token
<1>1. <<token>> \in Seq(Glyphs) /\ <<token>> # <<>> /\ Len(<<token>>) = 1 /\ <<token>>[1] = token
  OBVIOUS
<1>2. \A q \in 1 .. Len(<<token>>) : q = 1
  BY <1>1
<1>3. NoComma(<<token>>)
  BY <1>1, <1>2, Zenon DEF NoComma
<1> QED BY <1>1, <1>3 DEF IsOperand

\* A raw literal is its integer.
LEMMA RawReads ==
  ASSUME OperatorsGiveNumbers, NEW table, Numbers(table), NEW v \in Int,
         0 <= v, v <= IntMax
  PROVE  /\ IsOperand(<<Raw(v)>>)
         /\ Eval(<<Raw(v)>>, table) = Gives([real |-> FALSE, n |-> v, d |-> 1])
<1> DEFINE ts == <<Raw(v)>>
<1>1. Raw(v) \in Glyphs
  BY DEF Glyphs
<1>2. IsOperand(ts) /\ Len(ts) = 1 /\ ts[1] = Raw(v)
  BY <1>1, NotCommas, OneToken
<1>3. Raw(v).t = "raw" /\ Raw(v).v = IntOf(v)
  BY DEF Raw
<1>4. IntOf(v) \in Num /\ IntOf(v) = [real |-> FALSE, n |-> v, d |-> 1]
  <2>1. Size(v) <= IntMax
    BY DEF Size
  <2> QED BY <2>1, IntIsNum, SmallInt
<1> HIDE DEF ts
<1>5. Literals(ts)
  <2>1. \A q \in 1 .. Len(ts) : q = 1
    BY <1>2
  <2> QED BY <1>2, <1>3, <1>4, <2>1, Zenon DEF Literals
<1>6. ts \in Seq(Glyphs)
  BY <1>2 DEF IsOperand
<1>7. Eval(ts, table) = Gives(IntOf(v))
  BY <1>2, <1>3, <1>5, <1>6, EvalOne
<1> QED BY <1>2, <1>4, <1>7 DEF ts

\* A name is its symbol.
LEMMA NameReads ==
  ASSUME OperatorsGiveNumbers, NEW stem \in Stems, <<stem>> \in DOMAIN Predefined
  PROVE  /\ IsOperand(Ident(stem))
         /\ Eval(Ident(stem), Predefined) = Gives(Predefined[<<stem>>])
<1> DEFINE ts == Ident(stem)
<1>1. Id(<<stem>>) \in Glyphs
  BY DEF Glyphs
<1>2. IsOperand(ts) /\ Len(ts) = 1 /\ ts[1] = Id(<<stem>>)
  BY <1>1, NotCommas, OneToken DEF Ident
<1>3. Id(<<stem>>).t = "id" /\ Id(<<stem>>).s = <<stem>>
  BY DEF Id
<1> HIDE DEF ts
<1>5. Literals(ts)
  <2>1. \A q \in 1 .. Len(ts) : q = 1
    BY <1>2
  <2>2. "id" \notin {"num", "raw"}
    OBVIOUS
  <2> QED BY <1>2, <1>3, <2>1, <2>2, Zenon DEF Literals
<1>6. ts \in Seq(Glyphs)
  BY <1>2 DEF IsOperand
<1>7. Eval(ts, Predefined) = Gives(Predefined[<<stem>>])
  BY <1>2, <1>3, <1>5, <1>6, EvalOne, PredefinedNumbers
<1> QED BY <1>2, <1>7 DEF ts

\* A decimal is the fraction it was printed from.
LEMMA DecimalReads ==
  ASSUME OperatorsGiveNumbers, NEW table, Numbers(table), NEW v \in Int,
         NEW one \in Nat \ {0}, Size(v) <= IntMax
  PROVE  /\ IsOperand(Decimal(v, one))
         /\ Len(Decimal(v, one)) = 1 => Decimal(v, one)[1].t = "num"
         /\ v >= 0 => Len(Decimal(v, one)) = 1
         /\ \E x \in Num : /\ Eval(Decimal(v, one), table) = Gives(x)
                           /\ x.n * one = v * x.d /\ x.d # 0
                           /\ one = 1 => x = [real |-> FALSE, n |-> v, d |-> 1]
<1> DEFINE m == Size(v)
           y == IF m % one = 0 THEN IntOf(m \div one) ELSE RealOf(m, one)
           ts == Decimal(v, one)
<1>1. m \in Nat /\ m <= IntMax /\ IntMax \in Int
  BY IntMaxBig DEF Size
<1>2. ts = IF v < 0 THEN <<Mark("-"), Lit(y)>> ELSE <<Lit(y)>>
  BY Zenon DEF Decimal
<1>13. (v < 0 => m = -v) /\ (~(v < 0) => m = v)
  BY DEF Size
<1> HIDE DEF m
<1>3. /\ y \in Num /\ y.n * one = m * y.d /\ y.d # 0
      /\ one = 1 => y = [real |-> FALSE, n |-> m, d |-> 1]
      /\ y.real => y.n = m
  <2>1. CASE m % one = 0
    <3> DEFINE k == m \div one
    <3>1. k \in Nat /\ m = one * k + (m % one)
      BY <1>1, Divided
    <3>2. k <= m
      <4> HIDE DEF k
      <4>1. one >= 1 /\ one * k >= k
        BY <3>1, Multiple
      <4> QED BY <1>1, <2>1, <3>1, <4>1
    <3>3. one = 1 => k = m
      BY <1>1
    <3> HIDE DEF k
    <3>4. IntOf(k) = [real |-> FALSE, n |-> k, d |-> 1] /\ IntOf(k) \in Num
      <4>1. Size(k) <= IntMax
        BY <1>1, <3>1, <3>2 DEF Size
      <4> QED BY <3>1, <4>1, SmallInt, IntIsNum
    <3>5. k * one = m * 1
      BY <1>1, <2>1, <3>1
    <3>6. y = IntOf(k)
      BY <2>1 DEF k
    <3>7. y \in Num /\ y.n = k /\ y.d = 1 /\ ~y.real
      BY <3>4, <3>6
    <3>8. y.n * one = m * y.d
      BY <3>5, <3>7
    <3> HIDE DEF y
    <3>9. y.d # 0
      BY <3>7
    <3>10. one = 1 => y = [real |-> FALSE, n |-> m, d |-> 1]
      BY <3>3, <3>4, <3>6
    <3> QED BY <3>7, <3>8, <3>9, <3>10, Zenon
  <2>2. CASE m % one # 0
    <3>1. y = RealOf(m, one) /\ RealOf(m, one) \in Num
      BY <1>1, <2>2, RealIsNum
    <3>2. one # 1
      BY <1>1, <2>2
    <3>3. RealOf(m, one) = [real |-> TRUE, n |-> m, d |-> one]
      <4>1. Size(m) = m
        BY <1>1 DEF Size
      <4> QED BY <1>1, <4>1, SmallReal
    <3> QED BY <3>1, <3>2, <3>3
  <2> QED BY <2>1, <2>2
<1> HIDE DEF y, ts
<1>4. Lit(y) \in Glyphs /\ Mark("-") \in Glyphs /\ Lit(y).t = "num" /\ Lit(y).v = y
  <2>1. Lit(y) \in Glyphs /\ Mark("-") \in Glyphs
    BY <1>3, Zenon DEF Glyphs
  <2> QED BY <2>1 DEF Lit
<1>5. CASE v < 0
  <2>1. ts \in Seq(Glyphs) /\ ts # <<>> /\ Len(ts) = 2 /\ ts[1] = Mark("-") /\ ts[2] = Lit(y)
    BY <1>2, <1>4, <1>5
  <2>2. \A q \in 1 .. Len(ts) : q = 1 \/ q = 2
    BY <2>1
  <2>3. NoComma(ts)
    BY <2>1, <2>2, NotCommas, Zenon DEF NoComma
  <2>4. Mark("-").t = "-" /\ "-" \notin {"num", "raw"}
    BY DEF Mark
  <2>5. Literals(ts)
    BY <1>3, <1>4, <2>1, <2>2, <2>4, Zenon DEF Literals
  <2>6. Eval(ts, table) = Gives(Negate(y))
    BY <1>4, <2>1, <2>4, <2>5, EvalMinus
  <2>7. Negate(y) \in Num
    BY <1>3, NegateNum
  <2>8. /\ Negate(y).n * one = v * Negate(y).d /\ Negate(y).d # 0
        /\ one = 1 => Negate(y) = [real |-> FALSE, n |-> v, d |-> 1]
    <3>1. y.n \in Int /\ y.d \in Nat \ {0} /\ y.real \in BOOLEAN /\ (~y.real => y.d = 1)
      <4>1. y.d \in Nat /\ y.d # 0
        BY <1>3, NumFields
      <4> QED BY <1>3, <4>1, NumFields
    <3>2. v = -m
      BY <1>5, <1>13
    <3>3. CASE y.real
      <4>1. Negate(y) = RealOf(-y.n, y.d)
        BY <3>3 DEF Negate
      <4>2. (-y.n) * one = v * y.d
        <5>1. (-y.n) * one = -(y.n * one) /\ v * y.d = -(m * y.d)
          BY <1>1, <3>1, <3>2
        <5> QED BY <1>3, <5>1
      <4>3. one # 1
        BY <1>3, <3>3
      <4>4. -y.n \in Int /\ Size(-y.n) <= IntMax
        BY <1>1, <1>3, <3>1, <3>3 DEF Size
      <4>5. RealOf(-y.n, y.d) = [real |-> TRUE, n |-> -y.n, d |-> y.d]
        BY <3>1, <4>4, SmallReal
      <4> QED BY <3>1, <4>1, <4>2, <4>3, <4>5
    <3>4. CASE ~y.real
      <4>1. Negate(y) = IntOf(-y.n)
        BY <3>4 DEF Negate
      <4>2. y.n * one = m /\ y.n \in Int
        BY <1>1, <1>3, <3>1, <3>4
      <4>3. Size(-y.n) <= IntMax
        <5>1. y.n >= 0 /\ y.n <= m
          <6>1. y.n >= 0
            <7>1. \A a \in Int, b \in Nat \ {0} : a < 0 => a * b < 0
              OBVIOUS
            <7> QED BY <1>1, <4>2, <7>1
          <6>2. y.n \in Nat
            BY <4>2, <6>1
          <6>3. y.n * one >= y.n
            BY <6>2, Multiple
          <6> QED BY <4>2, <6>1, <6>3
        <5>2. Size(-y.n) = y.n
          BY <4>2, <5>1 DEF Size
        <5> QED BY <1>1, <4>2, <5>1, <5>2
      <4>4. IntOf(-y.n) = [real |-> FALSE, n |-> -y.n, d |-> 1]
        <5>1. -y.n \in Int
          BY <4>2
        <5> QED BY <4>3, <5>1, SmallInt
      <4>5. (-y.n) * one = v * 1
        <5>1. (-y.n) * one = -(y.n * one)
          BY <4>2
        <5> QED BY <1>1, <3>2, <4>2, <5>1
      <4>6. one = 1 => -y.n = v
        BY <3>2, <4>2
      <4>7. Negate(y).n = -y.n /\ Negate(y).d = 1
        BY <4>1, <4>4
      <4>8. Negate(y).n * one = v * Negate(y).d
        BY <4>5, <4>7
      <4>9. Negate(y).d # 0
        BY <4>7
      <4>10. one = 1 => Negate(y) = [real |-> FALSE, n |-> v, d |-> 1]
        BY <4>1, <4>4, <4>6
      <4> QED BY <4>8, <4>9, <4>10, Zenon
    <3> QED BY <3>1, <3>3, <3>4
  <2>9. IsOperand(ts)
    BY <2>1, <2>3 DEF IsOperand
  <2> QED BY <1>5, <2>1, <2>6, <2>7, <2>8, <2>9 DEF ts
<1>6. CASE ~(v < 0)
  <2>1. ts = <<Lit(y)>>
    BY <1>2, <1>6
  <2>2. IsOperand(ts) /\ Len(ts) = 1 /\ ts[1] = Lit(y)
    BY <1>4, <2>1, NotCommas, OneToken
  <2>3. Literals(ts)
    <3>1. \A q \in 1 .. Len(ts) : q = 1
      BY <2>2
    <3> QED BY <1>3, <1>4, <2>2, <3>1, Zenon DEF Literals
  <2>4. ts \in Seq(Glyphs)
    BY <2>2 DEF IsOperand
  <2>5. Eval(ts, table) = Gives(y)
    BY <1>4, <2>2, <2>3, <2>4, EvalOne
  <2>6. m = v
    BY <1>6, <1>13
  <2> QED BY <1>3, <1>4, <2>2, <2>5, <2>6 DEF ts
<1> QED BY <1>5, <1>6

\* What an operand of each kind may hold and be printed: a value of its field,
\* no skip longer than the longest, and no word past the largest.
Printable(kind, v) ==
  /\ v \in Int /\ InSpan(kind, v)
  /\ kind = "target" => v <= SkipMax
  /\ kind = "word" => 0 <= v /\ v <= RawMax

AllKinds == FieldKinds \cup {"word"}

\* Rounding a multiple of the denominator is exact.
LEMMA RoundedExact ==
  ASSUME NEW v \in Int, NEW d \in Nat \ {0} PROVE Rounded(v * d, d) = v
<1> DEFINE m == Size(v)
<1>1. m \in Nat /\ (v < 0 => m = -v) /\ (~(v < 0) => m = v)
  BY DEF Size
<1> HIDE DEF m
<1>2. m * d \in Nat /\ (m * d) \div d = m /\ (m * d) % d = 0
  <2>1. m * d \in Nat
    BY <1>1
  <2>2. m * d = d * m + 0 /\ 0 \in 0 .. d - 1
    BY <1>1
  <2> DEFINE a == m * d
  <2>3. a \in Nat /\ a = d * m + 0
    BY <2>1, <2>2
  <2> HIDE DEF a
  <2>4. a \div d \in Nat /\ a % d \in 0 .. d - 1 /\ a = d * (a \div d) + (a % d)
    BY <2>3, Divided
  <2> DEFINE q == a \div d
             r == a % d
  <2> HIDE DEF q, r
  <2>5. q \in Nat /\ r \in 0 .. d - 1 /\ d * q + r = d * m
    BY <1>1, <2>3, <2>4 DEF q, r
  <2>6. q = m
    <3>1. ASSUME q < m PROVE FALSE
      <4>1. m - q \in Nat \ {0} /\ d \in Nat
        BY <1>1, <2>5, <3>1
      <4>2. (m - q) * d >= d
        BY <4>1, Multiple
      <4>3. (m - q) * d = d * m - d * q
        BY <1>1, <2>5
      <4> QED BY <1>1, <2>5, <4>2, <4>3
    <3>2. ASSUME q > m PROVE FALSE
      <4>1. q - m \in Nat \ {0} /\ d \in Nat
        BY <1>1, <2>5, <3>2
      <4>2. (q - m) * d >= d
        BY <4>1, Multiple
      <4>3. (q - m) * d = d * q - d * m
        BY <1>1, <2>5
      <4> QED BY <1>1, <2>5, <4>2, <4>3
    <3> QED BY <1>1, <2>5, <3>1, <3>2
  <2>7. r = 0
    BY <1>1, <2>5, <2>6
  <2> QED BY <2>1, <2>6, <2>7 DEF q, r, a
<1>3. CASE v >= 0
  <2>1. v * d = m * d /\ v * d >= 0 /\ v = m
    BY <1>1, <1>2, <1>3
  <2>2. Size(v * d) = m * d /\ Sign(v * d) = 1
    BY <1>2, <2>1 DEF Size, Sign
  <2> QED BY <1>1, <1>2, <2>1, <2>2 DEF Rounded
<1>4. CASE v < 0
  <2>1. v = -m /\ m > 0
    BY <1>1, <1>4
  <2>2. v * d = -(m * d) /\ m * d > 0
    <3>1. v * d = -(m * d)
      BY <1>1, <2>1
    <3>2. m * d >= d
      BY <1>1, <2>1, Multiple
    <3>3. m * d > 0
      <4> DEFINE a == m * d
      <4>1. a \in Nat /\ a >= d
        BY <1>2, <3>2
      <4> HIDE DEF a
      <4>2. a > 0
        BY <4>1
      <4> QED BY <4>2 DEF a
    <3> QED BY <3>1, <3>3
  <2>3. Size(v * d) = m * d /\ Sign(v * d) = -1
    BY <1>2, <2>2 DEF Size, Sign
  <2> QED BY <1>1, <1>2, <2>1, <2>3 DEF Rounded
<1> QED BY <1>3, <1>4

\* A coefficient is quantized to the value it was printed from.
LEMMA CoefficientReads ==
  ASSUME OperatorsGiveNumbers, NEW kind \in DOMAIN FormatOf, NEW v \in Int, InSpan(kind, v),
         NEW table, Numbers(table)
  PROVE  LET ts == Decimal(v, FormatOf[kind].one)
         IN  IsOperand(ts) /\ Coefficient(ts, Eval(ts, table), FormatOf[kind]) = Gives(v)
<1> DEFINE fmt == FormatOf[kind]
           one == fmt.one
           ts  == Decimal(v, one)
<1>1. /\ one \in Nat \ {0} /\ fmt.lo \in Int /\ fmt.hi \in Int
      /\ fmt.lo <= v /\ v <= fmt.hi
      /\ -32768 <= fmt.lo /\ fmt.hi <= 32767
  <2>1. kind \in {"c9", "c14", "d10", "d15"}
    BY Kinds
  <2>2. CASE kind = "c9"
    <3>1. fmt = S1_9
      BY <2>2 DEF FormatOf
    <3>2. S1_9.one = 512 /\ S1_9.lo = -1024 /\ S1_9.hi = 1023
      BY DEF S1_9, Format
    <3>3. v \in -(2 ^ (11 - 1)) .. 2 ^ (11 - 1) - 1
      BY <2>2 DEF InSpan, SignedOf
    <3>4. -1024 <= v /\ v <= 1023
      BY <3>3
    <3> HIDE DEF fmt
    <3> QED BY <3>1, <3>2, <3>4
  <2>3. CASE kind = "d10"
    <3>1. fmt = S_10
      BY <2>3 DEF FormatOf
    <3>2. S_10.one = 1024 /\ S_10.lo = -1024 /\ S_10.hi = 1023
      BY DEF S_10, Format
    <3>3. v \in -(2 ^ (11 - 1)) .. 2 ^ (11 - 1) - 1
      BY <2>3 DEF InSpan, SignedOf
    <3>4. -1024 <= v /\ v <= 1023
      BY <3>3
    <3> HIDE DEF fmt
    <3> QED BY <3>1, <3>2, <3>4
  <2>4. CASE kind = "c14"
    <3>1. fmt = S1_14
      BY <2>4 DEF FormatOf
    <3>2. S1_14.one = 16384 /\ S1_14.lo = -32768 /\ S1_14.hi = 32767
      BY DEF S1_14, Format
    <3>3. v \in -(2 ^ (16 - 1)) .. 2 ^ (16 - 1) - 1
      BY <2>4 DEF InSpan, SignedOf
    <3>4. -32768 <= v /\ v <= 32767
      BY <3>3
    <3> HIDE DEF fmt
    <3> QED BY <3>1, <3>2, <3>4
  <2>5. CASE kind = "d15"
    <3>1. fmt = S_15
      BY <2>5 DEF FormatOf
    <3>2. S_15.one = 32768 /\ S_15.lo = -32768 /\ S_15.hi = 32767
      BY DEF S_15, Format
    <3>3. v \in -(2 ^ (16 - 1)) .. 2 ^ (16 - 1) - 1
      BY <2>5 DEF InSpan, SignedOf
    <3>4. -32768 <= v /\ v <= 32767
      BY <3>3
    <3> HIDE DEF fmt
    <3> QED BY <3>1, <3>2, <3>4
  <2> QED BY <2>1, <2>2, <2>3, <2>4, <2>5
<1> HIDE DEF fmt, one
<1>2. Size(v) <= IntMax
  BY <1>1, IntMaxBig DEF Size
<1>3. /\ IsOperand(ts) /\ (Len(ts) = 1 => ts[1].t = "num")
      /\ \E x \in Num : Eval(ts, table) = Gives(x) /\ x.n * one = v * x.d /\ x.d # 0
  BY <1>1, <1>2, DecimalReads
<1>4. PICK x \in Num : Eval(ts, table) = Gives(x) /\ x.n * one = v * x.d /\ x.d # 0
  BY <1>3
<1>5. x.d \in Nat \ {0}
  BY <1>4, NumFields
<1>6. Scaled(x, one) = v
  BY <1>4, <1>5, RoundedExact DEF Scaled
<1> HIDE DEF ts
<1>7. Coefficient(ts, Eval(ts, table), fmt) = Quantize(x, fmt)
  <2>1. "num" # "raw"
    OBVIOUS
  <2> QED BY <1>3, <1>4, <2>1 DEF Coefficient, Gives
<1>8. Quantize(x, fmt) = Gives(v)
  <2>1. v \in fmt.lo .. fmt.hi
    BY <1>1
  <2>2. Coeff(x, fmt) = v
    BY <1>6, <2>1 DEF Coeff, Bounded, one
  <2> QED BY <1>6, <2>1, <2>2 DEF Quantize, one
<1> QED BY <1>3, <1>7, <1>8 DEF ts, one, fmt

\* The names the oscillators are printed with are predefined, as their numbers.
LEMMA SelectorsNamed ==
  \A stem \in {"SIN0", "SIN1", "RMP0", "RMP1"} :
    /\ <<stem>> \in DOMAIN Predefined
    /\ Predefined[<<stem>>] = [real |-> FALSE, n |-> Selectors[stem], d |-> 1]
<1> DEFINE low == Over(Registers, Selectors)
           high == Over(Conditions, ChoFlags)
           all == Over(low, high)
<1>1. /\ DOMAIN Selectors = {"SIN0", "SIN1", "RMP0", "RMP1", "COS0", "COS1"}
      /\ Selectors["SIN0"] = 0 /\ Selectors["SIN1"] = 1 /\ Selectors["RMP0"] = 2 /\ Selectors["RMP1"] = 3
  BY DEF Selectors
<1>2. DOMAIN Conditions = {"NEG", "GEZ", "ZRO", "ZRC", "RUN"}
  BY DEF Conditions
<1>3. DOMAIN ChoFlags = {"SIN", "COS", "REG", "COMPC", "COMPA", "RPTR2", "NA"}
  BY DEF ChoFlags
<1>4. DOMAIN high = DOMAIN Conditions \cup DOMAIN ChoFlags
  BY OverHas
<1>5. ASSUME NEW stem \in {"SIN0", "SIN1", "RMP0", "RMP1"}
      PROVE  stem \in DOMAIN all /\ all[stem] = Selectors[stem]
  <2>1. stem \in DOMAIN Selectors /\ stem \notin DOMAIN high
    BY <1>1, <1>2, <1>3, <1>4
  <2>4. DOMAIN low = DOMAIN Registers \cup DOMAIN Selectors
        /\ \A x \in DOMAIN Selectors : low[x] = Selectors[x]
    BY OverHas
  <2>2. stem \in DOMAIN low /\ low[stem] = Selectors[stem]
    <3> HIDE DEF low
    <3> QED BY <2>1, <2>4
  <2> HIDE DEF low, high
  <2>3. stem \in DOMAIN low \ DOMAIN high
    BY <2>1, <2>2
  <2> QED BY <2>2, <2>3, OverHas
<1> HIDE DEF all, low, high
<1>6. Predefined = [name \in {<<x>> : x \in DOMAIN all} |-> IntOf(all[name[1]])]
  BY DEF Predefined, all, low, high
<1> TAKE stem \in {"SIN0", "SIN1", "RMP0", "RMP1"}
<1>7. <<stem>> \in {<<x>> : x \in DOMAIN all} /\ <<stem>>[1] = stem
  BY <1>5
<1>8. Selectors[stem] \in 0 .. 3
  BY <1>1
<1>9. IntOf(Selectors[stem]) = [real |-> FALSE, n |-> Selectors[stem], d |-> 1]
  <2> DEFINE n == Selectors[stem]
  <2>1. n \in Int /\ n >= 0 /\ n <= 3
    BY <1>8
  <2> HIDE DEF n
  <2>2. Size(n) <= IntMax
    BY <2>1, IntMaxBig DEF Size
  <2>3. IntOf(n) = [real |-> FALSE, n |-> n, d |-> 1]
    BY <2>1, <2>2, SmallInt
  <2> QED BY <2>3 DEF n
<1> QED BY <1>5, <1>6, <1>7, <1>9

\* An integer that is a table's key selects its entry, one in range is kept.
LEMMA IntegerReads ==
  ASSUME NEW n
  PROVE  LET e == Gives([real |-> FALSE, n |-> n, d |-> 1])
         IN  /\ e.ok /\ ~e.v.real /\ e.v.n = n /\ e.v.d = 1
             /\ \A allowed : n \in allowed => IntIn(e, allowed) = Gives(n)
             /\ \A table : n \in DOMAIN table => Choice(e, table) = Gives(table[n])
<1> DEFINE x == [real |-> FALSE, n |-> n, d |-> 1]
           e == Gives(x)
<1>1. x.real = FALSE /\ x.n = n /\ x.d = 1
  OBVIOUS
<1> HIDE DEF x
<1>2. e.ok /\ e.v = x
  BY DEF Gives
<1> HIDE DEF e
<1>3. \A allowed : n \in allowed => IntIn(e, allowed) = Gives(n)
  BY <1>1, <1>2 DEF IntIn
<1>4. \A table : n \in DOMAIN table => Choice(e, table) = Gives(table[n])
  BY <1>1, <1>2 DEF Choice
<1>5. e.ok /\ ~e.v.real /\ e.v.n = n /\ e.v.d = 1
  BY <1>1, <1>2
<1>6. e = Gives([real |-> FALSE, n |-> n, d |-> 1])
  BY DEF e, x
<1> QED BY <1>3, <1>4, <1>5, <1>6

\* A number printed whole is read whole.
LEMMA WholeReads ==
  ASSUME OperatorsGiveNumbers, NEW v \in Int, Size(v) <= FieldTop
  PROVE  LET ts == Decimal(v, 1)
         IN  /\ IsOperand(ts)
             /\ v >= 0 => Len(ts) = 1 /\ ts[1].t = "num"
             /\ Eval(ts, Predefined) = Gives([real |-> FALSE, n |-> v, d |-> 1])
<1>1. Size(v) <= IntMax /\ 1 \in Nat \ {0}
  BY IntMaxBig DEF Size
<1>2. /\ IsOperand(Decimal(v, 1))
      /\ Len(Decimal(v, 1)) = 1 => Decimal(v, 1)[1].t = "num"
      /\ v >= 0 => Len(Decimal(v, 1)) = 1
      /\ \E x \in Num : /\ Eval(Decimal(v, 1), Predefined) = Gives(x)
                        /\ x = [real |-> FALSE, n |-> v, d |-> 1]
  BY <1>1, DecimalReads, PredefinedNumbers
<1> QED BY <1>2

\* An operand of each kind, printed, reads as the value printed.
ReadsBack(kind, v) ==
  LET ts == Printed(kind, v)
  IN  /\ IsOperand(ts)
      /\ \A index : Operand(kind, ts, Eval(ts, Predefined), Predefined, {}, index) = Gives(v)

\* What an operand of each kind is printed as.
LEMMA PrintedAs ==
  ASSUME NEW v
  PROVE  /\ Printed("c9", v) = Decimal(v, S1_9.one) /\ Printed("c14", v) = Decimal(v, S1_14.one)
         /\ Printed("d10", v) = Decimal(v, S_10.one) /\ Printed("d15", v) = Decimal(v, S_15.one)
         /\ \A kind \in {"mask", "cond", "flags", "word"} : Printed(kind, v) = <<Raw(v)>>
         /\ \A kind \in {"addr", "reg", "sinFreq", "sinAmp", "target", "rampFreq"} :
              Printed(kind, v) = Decimal(v, 1)
         /\ Printed("sin", v) = Ident(IF v = 0 THEN "SIN0" ELSE "SIN1")
         /\ Printed("ramp", v) = Ident(IF v = 0 THEN "RMP0" ELSE "RMP1")
         /\ Printed("lfo", v) = Ident(<<"SIN0", "SIN1", "RMP0", "RMP1">>[v + 1])
         /\ Printed("rampAmp", v) = Decimal(4096 \div 2 ^ v, 1)
<1>1. Printed("c9", v) = Decimal(v, S1_9.one)
  BY SMT DEF Printed
<1>2. Printed("c14", v) = Decimal(v, S1_14.one)
  BY SMT DEF Printed
<1>3. Printed("d10", v) = Decimal(v, S_10.one)
  BY SMT DEF Printed
<1>4. Printed("d15", v) = Decimal(v, S_15.one)
  BY SMT DEF Printed
<1>5. Printed("mask", v) = <<Raw(v)>>
  BY SMT DEF Printed
<1>6. Printed("cond", v) = <<Raw(v)>>
  BY SMT DEF Printed
<1>7. Printed("flags", v) = <<Raw(v)>>
  BY SMT DEF Printed
<1>8. Printed("word", v) = <<Raw(v)>>
  BY SMT DEF Printed
<1>9. Printed("addr", v) = Decimal(v, 1)
  BY SMT DEF Printed
<1>10. Printed("reg", v) = Decimal(v, 1)
  BY SMT DEF Printed
<1>11. Printed("sinFreq", v) = Decimal(v, 1)
  BY SMT DEF Printed
<1>12. Printed("sinAmp", v) = Decimal(v, 1)
  BY SMT DEF Printed
<1>13. Printed("target", v) = Decimal(v, 1)
  BY SMT DEF Printed
<1>14. Printed("rampFreq", v) = Decimal(v, 1)
  BY SMT DEF Printed
<1>15. Printed("sin", v) = Ident(IF v = 0 THEN "SIN0" ELSE "SIN1")
  BY SMT DEF Printed
<1>16. Printed("ramp", v) = Ident(IF v = 0 THEN "RMP0" ELSE "RMP1")
  BY SMT DEF Printed
<1>17. Printed("lfo", v) = Ident(<<"SIN0", "SIN1", "RMP0", "RMP1">>[v + 1])
  BY SMT DEF Printed
<1>18. Printed("rampAmp", v) = Decimal(4096 \div 2 ^ v, 1)
  BY SMT DEF Printed
<1> QED BY <1>1, <1>2, <1>3, <1>4, <1>5, <1>6, <1>7, <1>8, <1>9,
           <1>10, <1>11, <1>12, <1>13, <1>14, <1>15, <1>16, <1>17, <1>18

\* A coefficient.
LEMMA CoefficientBack ==
  ASSUME OperatorsGiveNumbers, NEW kind \in DOMAIN FormatOf, NEW v, Printable(kind, v)
  PROVE  ReadsBack(kind, v)
<1>1. v \in Int /\ InSpan(kind, v)
  BY DEF Printable
<1> DEFINE fmt == FormatOf[kind]
           ts == Decimal(v, fmt.one)
<1>2. IsOperand(ts) /\ Coefficient(ts, Eval(ts, Predefined), fmt) = Gives(v)
  BY <1>1, CoefficientReads, PredefinedNumbers
<1>3. Printed(kind, v) = ts
  <2>1. /\ FormatOf["c9"] = S1_9 /\ FormatOf["c14"] = S1_14
        /\ FormatOf["d10"] = S_10 /\ FormatOf["d15"] = S_15
    BY SMT DEF FormatOf
  <2>2. kind \in {"c9", "c14", "d10", "d15"}
    BY Kinds
  <2> QED BY <2>1, <2>2, PrintedAs
<1>4. \A e, index : Operand(kind, ts, e, Predefined, {}, index) = Coefficient(ts, e, fmt)
  <2> HIDE DEF ts
  <2> QED BY Kinds DEF Operand
<1> HIDE DEF ts, fmt
<1> QED BY <1>2, <1>3, <1>4 DEF ReadsBack

\* A number in a range, printed whole.
LEMMA RangeBack ==
  ASSUME OperatorsGiveNumbers, NEW kind \in {"addr", "reg", "sinFreq", "sinAmp"},
         NEW v, Printable(kind, v)
  PROVE  ReadsBack(kind, v)
<1>1. v \in RangeOf[kind] /\ v \in Int /\ 0 <= v /\ v <= FieldTop
  <2>1. v \in Int /\ InSpan(kind, v)
    BY DEF Printable
  <2>2. CASE kind = "addr"
    <3>1. v \in 0 .. 2 ^ 15 - 1
      BY <2>1, <2>2 DEF InSpan, UnsignedOf
    <3>2. v <= FieldTop
      BY <3>1, FieldTopIs
    <3> QED BY <3>1, <3>2, <2>2 DEF RangeOf
  <2>3. CASE kind = "sinAmp"
    <3>1. v \in 0 .. 2 ^ 15 - 1
      BY <2>1, <2>3 DEF InSpan, UnsignedOf
    <3>2. v <= FieldTop
      BY <3>1, FieldTopIs
    <3> QED BY <3>1, <3>2, <2>3 DEF RangeOf
  <2>4. CASE kind = "sinFreq"
    <3>1. v \in 0 .. 2 ^ 9 - 1
      BY <2>1, <2>4 DEF InSpan, UnsignedOf
    <3>2. v <= FieldTop
      BY <3>1, FieldTopIs
    <3> QED BY <3>1, <3>2, <2>4 DEF RangeOf
  <2>5. CASE kind = "reg"
    <3>1. v \in 0 .. 63
      BY <2>1, <2>5, Spans DEF InSpan
    <3>2. v <= FieldTop
      BY <3>1, FieldTopIs
    <3> QED BY <3>1, <3>2, <2>5 DEF RangeOf
  <2> QED BY <2>2, <2>3, <2>4, <2>5
<1> DEFINE ts == Decimal(v, 1)
<1>2. IsOperand(ts) /\ Eval(ts, Predefined) = Gives([real |-> FALSE, n |-> v, d |-> 1])
  <2>1. Size(v) <= FieldTop
    BY <1>1, FieldTopIs DEF Size
  <2> QED BY <1>1, <2>1, WholeReads
<1>3. Printed(kind, v) = ts
  BY PrintedAs
<1> HIDE DEF ts
<1>4. \A e, index : Operand(kind, ts, e, Predefined, {}, index) = IntIn(e, RangeOf[kind])
  BY Kinds DEF Operand
<1>5. IntIn(Eval(ts, Predefined), RangeOf[kind]) = Gives(v)
  BY <1>1, <1>2, IntegerReads
<1> QED BY <1>2, <1>3, <1>4, <1>5 DEF ReadsBack

\* A word, a mask, a condition or flags, printed in hex.
LEMMA HexBack ==
  ASSUME OperatorsGiveNumbers, NEW kind \in {"word", "mask", "cond", "flags"},
         NEW v, Printable(kind, v)
  PROVE  ReadsBack(kind, v)
<1>1. /\ v \in Int /\ 0 <= v /\ v <= IntMax
      /\ kind = "mask" => v <= FieldTop
      /\ kind = "cond" => v \in 0 .. 31
      /\ kind = "flags" => v \in 0 .. 63
      /\ kind = "word" => v <= RawMax
  <2>1. /\ v \in Int /\ InSpan(kind, v)
        /\ kind = "word" => 0 <= v /\ v <= RawMax
    BY DEF Printable
  <2>2. CASE kind = "mask"
    <3>1. v \in 0 .. FieldTop
      BY <2>1, <2>2 DEF InSpan, UnsignedOf, FieldTop
    <3>2. 0 <= v /\ v <= FieldTop
      BY <3>1, FieldTopIs
    <3> QED BY <2>1, <2>2, <3>2, IntMaxBig
  <2>3. (kind = "cond" => v \in 0 .. 31) /\ (kind = "flags" => v \in 0 .. 63)
    BY <2>1, Spans DEF InSpan
  <2>4. CASE kind # "mask"
    BY <2>1, <2>3, <2>4, IntMaxBig
  <2> QED BY <2>2, <2>4
<1> DEFINE ts == <<Raw(v)>>
           e  == Eval(ts, Predefined)
<1>2. IsOperand(ts) /\ e = Gives([real |-> FALSE, n |-> v, d |-> 1])
  BY <1>1, RawReads, PredefinedNumbers
<1>3. Printed(kind, v) = ts
  BY PrintedAs
<1>4. ts # <<>>
  OBVIOUS
<1> HIDE DEF ts, e
<1>5. /\ e.ok /\ ~e.v.real /\ e.v.n = v
      /\ \A allowed : v \in allowed => IntIn(e, allowed) = Gives(v)
  BY <1>2, IntegerReads
<1>6. \A index : Operand(kind, ts, e, Predefined, {}, index) = Gives(v)
  <2> TAKE index
  <2>1. CASE kind = "word"
    <3>1. Operand(kind, ts, e, Predefined, {}, index) = IntIn(e, RangeOf["word"])
      BY <2>1, Kinds DEF Operand
    <3>2. RangeOf["word"] = 0 .. RawMax
      BY DEF RangeOf
    <3>3. v \in 0 .. RawMax
      BY <1>1, <2>1, IntMaxBig
    <3> QED BY <1>5, <3>1, <3>2, <3>3
  <2>2. CASE kind = "cond"
    <3>1. Operand(kind, ts, e, Predefined, {}, index) = IntIn(e, RangeOf["cond"])
      BY <2>2, Kinds DEF Operand
    <3>2. RangeOf["cond"] = 0 .. 31
      BY DEF RangeOf
    <3> QED BY <1>1, <1>5, <2>2, <3>1, <3>2
  <2>3. CASE kind = "flags"
    <3>1. Operand(kind, ts, e, Predefined, {}, index) = Flags(ts, e)
      BY <2>3, Kinds DEF Operand
    <3> QED BY <1>1, <1>4, <1>5, <2>3, <3>1 DEF Flags, FlagBits
  <2>4. CASE kind = "mask"
    <3>1. Operand(kind, ts, e, Predefined, {}, index) = Mask(e)
      BY <2>4, Kinds DEF Operand
    <3>2. v \in -(2 ^ 23) .. 2 ^ 24 - 1 /\ v % 2 ^ 24 = v
      <4>1. \A x, m \in Int : 0 <= x /\ x < m => x % m = x
        OBVIOUS
      <4>2. 0 <= v /\ v <= FieldTop /\ v < 2 ^ 24 /\ -(2 ^ 23) <= v
        BY <1>1, <2>4, FieldTopIs
      <4>3. v % (2 ^ 24) = v
        BY <1>1, <4>1, <4>2, FieldTopIs
      <4> QED BY <1>1, <4>2, <4>3, FieldTopIs
    <3> QED BY <1>5, <3>1, <3>2 DEF Mask
  <2> QED BY <2>1, <2>2, <2>3, <2>4
<1> QED BY <1>2, <1>3, <1>6 DEF ReadsBack, e

\* A skip's length or a ramp's rate, printed whole.
LEMMA SkipBack ==
  ASSUME OperatorsGiveNumbers, NEW kind \in {"target", "rampFreq"}, NEW v, Printable(kind, v)
  PROVE  ReadsBack(kind, v)
<1>1. /\ v \in Int /\ Size(v) <= FieldTop
      /\ kind = "target" => v >= 0 /\ v <= SkipMax
      /\ kind = "rampFreq" => v \in -(2 ^ 15) .. 2 ^ 15 - 1
  <2>1. v \in Int /\ InSpan(kind, v) /\ (kind = "target" => v <= SkipMax)
    BY DEF Printable
  <2>2. CASE kind = "target"
    <3>1. v \in 0 .. 63
      BY <2>1, <2>2, Spans DEF InSpan
    <3> QED BY <2>1, <2>2, <3>1, FieldTopIs DEF Size
  <2>3. CASE kind = "rampFreq"
    <3>1. 16 - 1 = 15 /\ 2 ^ 15 = 32768
      OBVIOUS
    <3>2. v \in -(2 ^ 15) .. 2 ^ 15 - 1
      BY <2>1, <2>3, <3>1 DEF InSpan, SignedOf
    <3>3. -32768 <= v /\ v <= 32767
      BY <3>1, <3>2
    <3>4. Size(v) <= FieldTop
      BY <2>1, <3>3, FieldTopIs DEF Size
    <3> QED BY <2>1, <2>3, <3>2, <3>4
  <2> QED BY <2>2, <2>3
<1> DEFINE ts == Decimal(v, 1)
           e  == Eval(ts, Predefined)
<1>2. /\ IsOperand(ts) /\ e = Gives([real |-> FALSE, n |-> v, d |-> 1])
      /\ v >= 0 => Len(ts) = 1 /\ ts[1].t = "num"
  BY <1>1, WholeReads
<1>3. Printed(kind, v) = ts
  BY PrintedAs
<1> HIDE DEF ts, e
<1>5. e.ok /\ ~e.v.real /\ e.v.n = v /\ e.v.d = 1
  BY <1>2, IntegerReads
<1>6. \A index : Operand(kind, ts, e, Predefined, {}, index) = Gives(v)
  <2> TAKE index
  <2>1. CASE kind = "target"
    <3>1. Operand(kind, ts, e, Predefined, {}, index) = SkipTarget(ts, e, Predefined, {}, index)
      BY <2>1, Kinds DEF Operand
    <3>2. v \div 1 = v /\ v \in 0 .. SkipMax
      <4>1. SkipMax \in Int
        BY OperandAssumption DEF OperandAssumption
      <4> QED BY <1>1, <2>1, <4>1
    <3>3. SkipTarget(ts, e, Predefined, {}, index) = Gives(v)
      BY <1>5, <3>2 DEF SkipTarget
    <3> QED BY <3>1, <3>3
  <2>2. CASE kind = "rampFreq"
    <3>1. Operand(kind, ts, e, Predefined, {}, index) = RampRate(e)
      BY <2>2, Kinds DEF Operand
    <3> QED BY <1>1, <1>5, <2>2, <3>1 DEF RampRate
  <2> QED BY <2>1, <2>2
<1> QED BY <1>2, <1>3, <1>6 DEF ReadsBack, e

\* The name an oscillator's number is printed with is the number's.
LEMMA NamedBack ==
  ASSUME OperatorsGiveNumbers, NEW kind \in {"sin", "ramp", "lfo"}, NEW v,
         NEW stem \in {"SIN0", "SIN1", "RMP0", "RMP1"}, Printed(kind, v) = Ident(stem),
         Selectors[stem] \in DOMAIN ChoiceOf[kind], ChoiceOf[kind][Selectors[stem]] = v
  PROVE  ReadsBack(kind, v)
<1> DEFINE ts == Ident(stem)
           e  == Eval(ts, Predefined)
           n  == Selectors[stem]
<1>1. stem \in Stems
  BY DEF Stems, Selectors
<1>2. IsOperand(ts) /\ e = Gives([real |-> FALSE, n |-> n, d |-> 1])
  BY <1>1, NameReads, SelectorsNamed
<1>3. Printed(kind, v) = ts /\ n \in DOMAIN ChoiceOf[kind] /\ ChoiceOf[kind][n] = v
  OBVIOUS
<1> HIDE DEF ts, e, n
<1>4. Choice(e, ChoiceOf[kind]) = Gives(v)
  BY <1>2, <1>3, IntegerReads
<1>5. \A index : Operand(kind, ts, e, Predefined, {}, index) = Choice(e, ChoiceOf[kind])
  BY Kinds DEF Operand
<1> QED BY <1>2, <1>3, <1>4, <1>5 DEF ReadsBack, e

\* An oscillator.
LEMMA OscillatorBack ==
  ASSUME OperatorsGiveNumbers, NEW kind \in {"sin", "ramp", "lfo"}, NEW v, Printable(kind, v)
  PROVE  ReadsBack(kind, v)
<1>1. /\ Selectors["SIN0"] = 0 /\ Selectors["SIN1"] = 1
      /\ Selectors["RMP0"] = 2 /\ Selectors["RMP1"] = 3
  BY DEF Selectors
<1>2. v \in Int /\ InSpan(kind, v)
  BY DEF Printable
<1>3. CASE kind = "sin"
  <2>1. v \in 0 .. 1
    BY <1>2, <1>3, Spans DEF InSpan
  <2>2. ChoiceOf[kind] = SinBit /\ DOMAIN SinBit = 0 .. 1 /\ \A k \in 0 .. 1 : SinBit[k] = k
    BY <1>3 DEF ChoiceOf, SinBit
  <2> DEFINE stem == IF v = 0 THEN "SIN0" ELSE "SIN1"
  <2>3. Printed(kind, v) = Ident(stem)
    BY <1>3, PrintedAs
  <2>4. stem \in {"SIN0", "SIN1", "RMP0", "RMP1"} /\ Selectors[stem] = v
    BY <1>1, <2>1
  <2> HIDE DEF stem
  <2> QED BY <2>1, <2>2, <2>3, <2>4, NamedBack
<1>4. CASE kind = "ramp"
  <2>1. v \in 0 .. 1
    BY <1>2, <1>4, Spans DEF InSpan
  <2>2. ChoiceOf[kind] = RampBit /\ DOMAIN RampBit = 0 .. 3 /\ RampBit[2] = 0 /\ RampBit[3] = 1
    <3>1. ChoiceOf[kind] = RampBit
      BY <1>4 DEF ChoiceOf
    <3>2. DOMAIN RampBit = 0 .. 3 /\ RampBit[2] = 2 % 2 /\ RampBit[3] = 3 % 2
      BY DEF RampBit
    <3> QED BY <3>1, <3>2
  <2> DEFINE stem == IF v = 0 THEN "RMP0" ELSE "RMP1"
  <2>3. Printed(kind, v) = Ident(stem)
    BY <1>4, PrintedAs
  <2>4. stem \in {"SIN0", "SIN1", "RMP0", "RMP1"} /\ Selectors[stem] = v + 2
    BY <1>1, <2>1
  <2>5. v + 2 \in 0 .. 3 /\ RampBit[v + 2] = v
    BY <2>1, <2>2
  <2> HIDE DEF stem
  <2> QED BY <2>2, <2>3, <2>4, <2>5, NamedBack
<1>5. CASE kind = "lfo"
  <2>1. v \in 0 .. 3
    BY <1>2, <1>5, Spans DEF InSpan
  <2>2. ChoiceOf[kind] = ChoLfo /\ DOMAIN ChoLfo = 0 .. 3 /\ \A k \in 0 .. 3 : ChoLfo[k] = k
    BY <1>5 DEF ChoiceOf, ChoLfo
  <2> DEFINE stem == <<"SIN0", "SIN1", "RMP0", "RMP1">>[v + 1]
  <2>3. Printed(kind, v) = Ident(stem)
    BY <1>5, PrintedAs
  <2>4. stem \in {"SIN0", "SIN1", "RMP0", "RMP1"} /\ Selectors[stem] = v
    <3>1. v = 0 \/ v = 1 \/ v = 2 \/ v = 3
      BY <2>1
    <3> QED BY <1>1, <3>1
  <2> HIDE DEF stem
  <2> QED BY <2>1, <2>2, <2>3, <2>4, NamedBack
<1> QED BY <1>3, <1>4, <1>5

\* A ramp's range, printed as its number of samples.
LEMMA RangeChoiceBack ==
  ASSUME OperatorsGiveNumbers, NEW v, Printable("rampAmp", v)
  PROVE  ReadsBack("rampAmp", v)
<1>1. v \in 0 .. 3
  BY Spans DEF Printable, InSpan
<1>2. 2 ^ 0 = 1 /\ 2 ^ 1 = 2 /\ 2 ^ 2 = 4 /\ 2 ^ 3 = 8
  OBVIOUS
<1> DEFINE n == 4096 \div 2 ^ v
           P(c) == n * 2 ^ c = 4096
<1>3. n \in {4096, 2048, 1024, 512} /\ \A c \in 0 .. 3 : P(c) <=> c = v
  <2>1. \A c \in 0 .. 3 : c = 0 \/ c = 1 \/ c = 2 \/ c = 3
    OBVIOUS
  <2>2. CASE v = 0
    <3>1. n = 4096
      BY <1>2, <2>2
    <3> HIDE DEF n
    <3> QED BY <1>2, <2>1, <2>2, <3>1
  <2>3. CASE v = 1
    <3>1. n = 2048
      BY <1>2, <2>3
    <3> HIDE DEF n
    <3> QED BY <1>2, <2>1, <2>3, <3>1
  <2>4. CASE v = 2
    <3>1. n = 1024
      BY <1>2, <2>4
    <3> HIDE DEF n
    <3> QED BY <1>2, <2>1, <2>4, <3>1
  <2>5. CASE v = 3
    <3>1. n = 512
      BY <1>2, <2>5
    <3> HIDE DEF n
    <3> QED BY <1>2, <2>1, <2>5, <3>1
  <2> HIDE DEF n, P
  <2> QED BY <1>1, <2>2, <2>3, <2>4, <2>5
<1> DEFINE ts == Decimal(n, 1)
           e  == Eval(ts, Predefined)
<1>4. Printed("rampAmp", v) = ts
  BY PrintedAs
<1> HIDE DEF n
<1>5. IsOperand(ts) /\ e = Gives([real |-> FALSE, n |-> n, d |-> 1])
  <2>1. n \in Int /\ Size(n) <= FieldTop
    BY <1>3, FieldTopIs DEF Size
  <2> QED BY <2>1, WholeReads
<1>6. n \in DOMAIN RampAmp /\ RampAmp[n] = v
  <2>1. n \in DOMAIN RampAmp /\ RampAmp[n] = CHOOSE c \in 0 .. 3 : n * 2 ^ c = 4096
    BY <1>3 DEF RampAmp
  <2>2. (CHOOSE c \in 0 .. 3 : n * 2 ^ c = 4096) = v
    <3> HIDE DEF P
    <3> DEFINE c0 == CHOOSE c \in 0 .. 3 : P(c)
    <3>3. c0 \in 0 .. 3 /\ P(c0)
      BY <1>1, <1>3
    <3>4. c0 = v
      BY <1>3, <3>3
    <3> QED BY <3>4 DEF P
  <2> QED BY <2>1, <2>2
<1>7. ChoiceOf["rampAmp"] = RampAmp
  BY DEF ChoiceOf
<1> HIDE DEF ts, e
<1>8. Choice(e, RampAmp) = Gives(v)
  BY <1>5, <1>6, IntegerReads
<1>9. \A index : Operand("rampAmp", ts, e, Predefined, {}, index) = Choice(e, RampAmp)
  BY <1>7, Kinds DEF Operand
<1> QED BY <1>4, <1>5, <1>8, <1>9 DEF ReadsBack, e

\* Every operand.
LEMMA OperandBack ==
  ASSUME OperatorsGiveNumbers, NEW kind \in AllKinds, NEW v, Printable(kind, v)
  PROVE  ReadsBack(kind, v)
<1>1. AllKinds = DOMAIN FormatOf \cup {"addr", "reg", "sinFreq", "sinAmp"}
        \cup {"word", "mask", "cond", "flags"} \cup {"target", "rampFreq"}
        \cup {"sin", "ramp", "lfo"} \cup {"rampAmp"}
  BY Kinds, FieldKindsAre DEF AllKinds
<1> QED BY <1>1, CoefficientBack, RangeBack, HexBack, SkipBack, OscillatorBack, RangeChoiceBack

-----------------------------------------------------------------------------
(* The instructions of a mnemonic.                                         *)

\* An operand that is accepted is one that can be printed.
LEMMA OperandPrintable ==
  ASSUME NEW kind \in AllKinds, NEW ts, NEW e, NEW symtab0, NEW labels0,
         NEW index \in Int, \A x \in labels0 : symtab0[x].n \in Int,
         Operand(kind, ts, e, symtab0, labels0, index).ok
  PROVE  Printable(kind, Operand(kind, ts, e, symtab0, labels0, index).v)
<1> DEFINE o == Operand(kind, ts, e, symtab0, labels0, index)
<1>1. CASE kind = "word"
  <2>1. o = IntIn(e, RangeOf["word"])
    BY <1>1, Kinds DEF Operand
  <2>2. RangeOf["word"] = 0 .. RawMax
    BY DEF RangeOf
  <2>3. o.v \in 0 .. RawMax
    BY <2>1, <2>2 DEF IntIn, Gives, Fails
  <2>4. o.v \in Int /\ 0 <= o.v /\ o.v <= RawMax
    BY <2>3, IntMaxBig
  <2> HIDE DEF o
  <2>5. InSpan(kind, o.v)
    BY <1>1 DEF InSpan
  <2>6. Printable(kind, o.v)
    BY <1>1, <2>4, <2>5 DEF Printable
  <2> QED BY <2>6 DEF o
<1>2. CASE kind # "word"
  <2>1. kind \in FieldKinds
    BY <1>2 DEF AllKinds
  <2>2. InSpan(kind, o.v)
    BY <2>1, OperandHeld
  <2>3. kind = "target" => o.v <= SkipMax
    <3>1. CASE kind = "target"
      <4>1. o = SkipTarget(ts, e, symtab0, labels0, index)
        BY <3>1, Kinds DEF Operand
      <4> DEFINE target == symtab0[ts[1].s].n
      <4>2. CASE Len(ts) = 1 /\ IsId(ts[1]) /\ ts[1].s \in labels0
        BY <4>1, <4>2 DEF SkipTarget, Gives, Fails
      <4>3. CASE ~(Len(ts) = 1 /\ IsId(ts[1]) /\ ts[1].s \in labels0)
        <5>1. o.v \in 0 .. SkipMax
          BY <4>1, <4>3 DEF SkipTarget, Gives, Fails
        <5>2. SkipMax \in Int
          BY OperandAssumption DEF OperandAssumption
        <5> HIDE DEF o
        <5> QED BY <5>1, <5>2
      <4> QED BY <4>2, <4>3
    <3> QED BY <3>1
  <2> HIDE DEF o
  <2>4. o.v \in Int
    <3>1. \A len \in Nat : SignedOf(len) \subseteq Int /\ UnsignedOf(len) \subseteq Int
      BY DEF SignedOf, UnsignedOf
    <3> QED BY <2>1, <2>2, <3>1, FieldKindsAre DEF InSpan
  <2>5. Printable(kind, o.v)
    BY <1>2, <2>2, <2>3, <2>4 DEF Printable
  <2> QED BY <2>5 DEF o
<1> QED BY <1>1, <1>2

\* An instruction of a mnemonic: the fields it gives and its operands', each of
\* which can be printed.
Fields(mn) == {FieldOf[Form(mn)[k]] : k \in 1 .. Len(Form(mn))}
Made(mn, arg) == [op |-> OpFor(mn), arg |-> Over(Given(mn), [f \in Fields(mn) |-> arg[f]])]
Fitted(mn, i) ==
  /\ i = Made(mn, i.arg)
  /\ \A k \in 1 .. Len(Form(mn)) : Printable(Form(mn)[k], i.arg[FieldOf[Form(mn)[k]]])

\* RAW has one operand.
LEMMA RawForm ==
  /\ Form("RAW") = <<"word">> /\ Given("RAW") = <<>> /\ OpFor("RAW") = "RAW"
  /\ FieldOf["word"] = "word"
BY DEF Form, Given, OpFor, FieldOf, DelayOps, RegOps, MathOps, MaskOps

\* The operands of every form, one for each of its fields.
LEMMA FormKinds ==
  ASSUME NEW mn \in Fillers \cup {"RAW"}
  PROVE  /\ Len(Form(mn)) \in Nat
         /\ \A k \in 1 .. Len(Form(mn)) : Form(mn)[k] \in AllKinds
         /\ \A j, k \in 1 .. Len(Form(mn)) :
              FieldOf[Form(mn)[j]] = FieldOf[Form(mn)[k]] => j = k
<1>1. CASE mn \in Fillers
  BY <1>1, FormFits DEF Suits, AllKinds
<1>2. CASE mn = "RAW"
  <2> DEFINE form == Form(mn)
  <2>1. Len(form) = 1 /\ form[1] = "word"
    BY <1>2, RawForm
  <2> HIDE DEF form
  <2>2. \A k \in 1 .. Len(form) : k = 1
    BY <2>1
  <2>3. "word" \in AllKinds
    BY DEF AllKinds
  <2>4. /\ Len(form) \in Nat
        /\ \A k \in 1 .. Len(form) : form[k] \in AllKinds
        /\ \A j, k \in 1 .. Len(form) : FieldOf[form[j]] = FieldOf[form[k]] => j = k
    BY <2>1, <2>2, <2>3
  <2> QED BY <2>4 DEF form
<1> QED BY <1>1, <1>2

\* What a line is assembled to is an instruction of its mnemonic.
LEMMA FilledFits ==
  ASSUME NEW mn \in Fillers \cup {"RAW"}, NEW groups, NEW symtab0, NEW labels0,
         NEW index \in Int, \A x \in labels0 : symtab0[x].n \in Int,
         Filled(mn, groups, symtab0, labels0, index).ok
  PROVE  Fitted(mn, Filled(mn, groups, symtab0, labels0, index).v)
<1> DEFINE form  == Form(mn)
           value == [k \in 1 .. Len(form) |->
                       Operand(form[k], groups[k], Eval(groups[k], symtab0), symtab0, labels0, index)]
           slot(f) == CHOOSE k \in 1 .. Len(form) : FieldOf[form[k]] = f
           read == [f \in {FieldOf[form[k]] : k \in 1 .. Len(form)} |-> value[slot(f)].v]
           i    == Filled(mn, groups, symtab0, labels0, index).v
<1>1. /\ \A k \in 1 .. Len(form) : form[k] \in AllKinds
      /\ \A j, k \in 1 .. Len(form) : FieldOf[form[j]] = FieldOf[form[k]] => j = k
  BY FormKinds
<1>2. /\ \A k \in 1 .. Len(form) : value[k].ok
      /\ i = [op |-> OpFor(mn), arg |-> Over(Given(mn), read)]
  BY DEF Filled, Gives, Fails
<1>3. ASSUME NEW k \in 1 .. Len(form)
      PROVE  /\ Printable(form[k], value[k].v)
             /\ FieldOf[form[k]] \in DOMAIN read /\ read[FieldOf[form[k]]] = value[k].v
  <2>1. Operand(form[k], groups[k], Eval(groups[k], symtab0), symtab0, labels0, index).ok
    BY <1>2
  <2>2. Printable(form[k], Operand(form[k], groups[k], Eval(groups[k], symtab0), symtab0,
                                   labels0, index).v)
    BY <1>1, <2>1, OperandPrintable
  <2>3. slot(FieldOf[form[k]]) = k
    BY <1>1
  <2> QED BY <2>2, <2>3
<1>4. DOMAIN read = Fields(mn) /\ read = [f \in DOMAIN read |-> read[f]]
  BY DEF Fields
<1> HIDE DEF read, value, i
<1>5. \A f \in DOMAIN read : Over(Given(mn), read)[f] = read[f]
  BY OverHas
<1>6. i.op = OpFor(mn) /\ i.arg = Over(Given(mn), read)
  BY <1>2
<1>7. \A f \in DOMAIN read : i.arg[f] = read[f]
  BY <1>5, <1>6
<1>8. [f \in Fields(mn) |-> i.arg[f]] = read
  BY <1>4, <1>7
<1>9. i = Made(mn, i.arg)
  BY <1>2, <1>8 DEF Made
<1>10. \A k \in 1 .. Len(form) : Printable(form[k], i.arg[FieldOf[form[k]]])
  BY <1>3, <1>7
<1> HIDE DEF form
<1>11. Fitted(mn, i)
  BY <1>9, <1>10 DEF Fitted, form
<1> QED BY <1>11 DEF i

\* An instruction's operands, as they are printed, assemble to it.
LEMMA FilledBack ==
  ASSUME OperatorsGiveNumbers, NEW mn \in Fillers \cup {"RAW"}, NEW i, Fitted(mn, i),
         NEW groups, Len(groups) = Len(Form(mn)),
         \A k \in 1 .. Len(Form(mn)) :
           groups[k] = Printed(Form(mn)[k], i.arg[FieldOf[Form(mn)[k]]]),
         NEW index
  PROVE  Filled(mn, groups, Predefined, {}, index) = Gives(i)
<1> DEFINE form  == Form(mn)
           value == [k \in 1 .. Len(form) |->
                       Operand(form[k], groups[k], Eval(groups[k], Predefined), Predefined, {}, index)]
           slot(f) == CHOOSE k \in 1 .. Len(form) : FieldOf[form[k]] = f
           read == [f \in {FieldOf[form[k]] : k \in 1 .. Len(form)} |-> value[slot(f)].v]
<1>1. \A k \in 1 .. Len(form) : form[k] \in AllKinds /\ Printable(form[k], i.arg[FieldOf[form[k]]])
  BY FormKinds DEF Fitted
<1>2. \A k \in 1 .. Len(form) : value[k] = Gives(i.arg[FieldOf[form[k]]])
  <2> TAKE k \in 1 .. Len(form)
  <2> DEFINE v == i.arg[FieldOf[form[k]]]
  <2>1. ReadsBack(form[k], v)
    BY <1>1, OperandBack
  <2>2. Operand(form[k], groups[k], Eval(groups[k], Predefined), Predefined, {}, index) = Gives(v)
    BY <2>1 DEF ReadsBack
  <2> QED BY <2>2
<1>3. \A k \in 1 .. Len(form) : value[k].ok /\ value[k].v = i.arg[FieldOf[form[k]]]
  <2>1. \A v : Gives(v).ok = TRUE /\ Gives(v).v = v
    BY DEF Gives
  <2> HIDE DEF value
  <2> QED BY <1>2, <2>1, Zenon
<1>4. read = [f \in Fields(mn) |-> i.arg[f]]
  <2>1. DOMAIN read = Fields(mn)
    BY DEF Fields
  <2>2. ASSUME NEW f \in Fields(mn) PROVE read[f] = i.arg[f]
    <3>1. \E k \in 1 .. Len(form) : FieldOf[form[k]] = f
      BY <2>2 DEF Fields
    <3>2. slot(f) \in 1 .. Len(form) /\ FieldOf[form[slot(f)]] = f
      BY <3>1
    <3>3. read[f] = value[slot(f)].v
      BY <3>1
    <3> DEFINE s == slot(f)
    <3> HIDE DEF s, value, read
    <3>4. s \in 1 .. Len(form) /\ FieldOf[form[s]] = f /\ read[f] = value[s].v
      BY <3>2, <3>3 DEF s
    <3> QED BY <1>3, <3>4
  <2>3. read = [f \in DOMAIN read |-> read[f]]
    OBVIOUS
  <2> HIDE DEF read
  <2> QED BY <2>1, <2>2, <2>3
<1>5. Filled(mn, groups, Predefined, {}, index)
        = IF Len(groups) = Len(form) /\ \A k \in 1 .. Len(form) : value[k].ok
          THEN Gives([op |-> OpFor(mn), arg |-> Over(Given(mn), read)]) ELSE Fails
  BY DEF Filled
<1> HIDE DEF read, value
<1>6. [op |-> OpFor(mn), arg |-> Over(Given(mn), read)] = i
  BY <1>4 DEF Fitted, Made
<1> QED BY <1>3, <1>5, <1>6

\* Two arguments with the same entries make the same instruction.
LEMMA SameMade ==
  ASSUME NEW mn, NEW op, NEW arg, OpFor(mn) = op,
         DOMAIN Given(mn) \cap Fields(mn) = {},
         arg = [f \in DOMAIN arg |-> arg[f]], DOMAIN arg = DOMAIN Given(mn) \cup Fields(mn),
         \A f \in DOMAIN Given(mn) : arg[f] = Given(mn)[f]
  PROVE  [op |-> op, arg |-> arg] = Made(mn, arg)
<1> DEFINE mine == [f \in Fields(mn) |-> arg[f]]
           whole == Over(Given(mn), mine)
<1>1. DOMAIN mine = Fields(mn) /\ \A f \in Fields(mn) : mine[f] = arg[f]
  OBVIOUS
<1> HIDE DEF mine
<1>2. /\ DOMAIN whole = DOMAIN Given(mn) \cup DOMAIN mine
      /\ \A x \in DOMAIN mine : whole[x] = mine[x]
      /\ \A x \in DOMAIN Given(mn) \ DOMAIN mine : whole[x] = Given(mn)[x]
  BY OverHas
<1>3. whole = [f \in DOMAIN whole |-> whole[f]]
  BY DEF Over
<1> HIDE DEF whole
<1>4. DOMAIN whole = DOMAIN arg /\ \A f \in DOMAIN arg : whole[f] = arg[f]
  BY <1>1, <1>2
<1>5. whole = arg
  BY <1>3, <1>4
<1> QED BY <1>5 DEF Made, whole, mine

\* What an instruction made of a mnemonic holds.
LEMMA MadeHas ==
  ASSUME NEW mn, NEW i, i = Made(mn, i.arg)
  PROVE  /\ i.op = OpFor(mn) /\ i = [op |-> i.op, arg |-> i.arg]
         /\ DOMAIN i.arg = DOMAIN Given(mn) \cup Fields(mn)
         /\ i.arg = [f \in DOMAIN i.arg |-> i.arg[f]]
         /\ \A f \in DOMAIN Given(mn) \ Fields(mn) : i.arg[f] = Given(mn)[f]
<1> DEFINE mine == [f \in Fields(mn) |-> i.arg[f]]
           whole == Over(Given(mn), mine)
<1>1. i = [op |-> OpFor(mn), arg |-> whole]
  BY DEF Made
<1>2. DOMAIN mine = Fields(mn)
  OBVIOUS
<1> HIDE DEF mine
<1>3. /\ DOMAIN whole = DOMAIN Given(mn) \cup DOMAIN mine
      /\ \A x \in DOMAIN Given(mn) \ DOMAIN mine : whole[x] = Given(mn)[x]
      /\ whole = [f \in DOMAIN whole |-> whole[f]]
  BY OverHas DEF Over
<1> HIDE DEF whole
<1>4. i.op = OpFor(mn) /\ i.arg = whole
  BY <1>1
<1> QED BY <1>1, <1>2, <1>3, <1>4

\* The fields of a form of no operand, one or two.
LEMMA FieldsList ==
  ASSUME NEW mn, NEW a, NEW b
  PROVE  /\ Form(mn) = <<>> => Len(Form(mn)) = 0 /\ Fields(mn) = {}
         /\ Form(mn) = <<a>> => /\ Len(Form(mn)) = 1 /\ Form(mn)[1] = a
                                /\ Fields(mn) = {FieldOf[a]}
         /\ Form(mn) = <<a, b>> => /\ Len(Form(mn)) = 2 /\ Form(mn)[1] = a /\ Form(mn)[2] = b
                                   /\ Fields(mn) = {FieldOf[a], FieldOf[b]}
<1> DEFINE form == Form(mn)
           fields == {FieldOf[form[k]] : k \in 1 .. Len(form)}
<1>1. CASE form = <<>>
  <2>1. Len(form) = 0 /\ form # <<a>> /\ form # <<a, b>>
    BY <1>1
  <2> HIDE DEF form
  <2>2. fields = {}
    BY <2>1
  <2> QED BY <1>1, <2>1, <2>2 DEF form, Fields
<1>2. CASE form = <<a>>
  <2>1. Len(form) = 1 /\ form[1] = a /\ form # <<>> /\ form # <<a, b>>
    BY <1>2
  <2> HIDE DEF form
  <2>2. \A k \in 1 .. Len(form) : k = 1
    BY <2>1
  <2>3. 1 \in 1 .. Len(form)
    BY <2>1
  <2>4. fields = {FieldOf[a]}
    BY <2>1, <2>2, <2>3
  <2> QED BY <1>2, <2>1, <2>4 DEF form, Fields
<1>3. CASE form = <<a, b>>
  <2>1. Len(form) = 2 /\ form[1] = a /\ form[2] = b /\ form # <<>> /\ form # <<a>>
    BY <1>3
  <2> HIDE DEF form
  <2>2. \A k \in 1 .. Len(form) : k = 1 \/ k = 2
    BY <2>1
  <2>3. 1 \in 1 .. Len(form) /\ 2 \in 1 .. Len(form)
    BY <2>1
  <2>4. fields = {FieldOf[a], FieldOf[b]}
    BY <2>1, <2>2, <2>3
  <2> QED BY <1>3, <2>1, <2>4 DEF form, Fields
<1> QED BY <1>1, <1>2, <1>3 DEF form

\* The values pseudo-ops give can be printed.
LEMMA GivenPrintable ==
  /\ Printable("cond", 0) /\ Printable("target", 0) /\ Printable("c14", 0) /\ Printable("reg", 0)
  /\ Printable("mask", 0) /\ Printable("mask", 2 ^ 24 - 1)
<1>1. \A len \in {5, 6, 24} : 0 \in UnsignedOf(len)
  BY GivenHeld DEF Held, Unsigned
<1>2. 0 \in SignedOf(16) /\ 2 ^ 24 - 1 \in UnsignedOf(24)
  BY GivenHeld DEF Held, Unsigned, Signed
<1>3. 0 <= SkipMax
  BY OperandAssumption DEF OperandAssumption
<1>4. 2 ^ 24 - 1 \in Int
  OBVIOUS
<1>5. Printable("cond", 0) /\ Printable("target", 0) /\ Printable("reg", 0)
  BY <1>1, <1>3 DEF Printable, InSpan
<1>6. Printable("c14", 0)
  BY <1>2 DEF Printable, InSpan
<1>7. Printable("mask", 0)
  BY <1>1 DEF Printable, InSpan
<1>8. Printable("mask", 2 ^ 24 - 1)
  <2> DEFINE top == 2 ^ 24 - 1
  <2>1. top \in Int /\ top \in UnsignedOf(24)
    BY <1>2, <1>4
  <2> HIDE DEF top
  <2>2. Printable("mask", top)
    BY <2>1 DEF Printable, InSpan
  <2> QED BY <2>2 DEF top
<1> QED BY <1>5, <1>6, <1>7, <1>8

\* A pseudo-op stands for an instruction whose other fields it gives.
StandsFor(mn, op) ==
  /\ op \in Fillers /\ OpFor(mn) = op /\ OpFor(op) = op /\ DOMAIN Given(op) = {}
  /\ DOMAIN Given(mn) \cap Fields(mn) = {}
  /\ Fields(op) = DOMAIN Given(mn) \cup Fields(mn)
  /\ \A k \in 1 .. Len(Form(op)) :
       LET kind == Form(op)[k]
       IN  \/ FieldOf[kind] \in DOMAIN Given(mn) /\ Printable(kind, Given(mn)[FieldOf[kind]])
           \/ \E j \in 1 .. Len(Form(mn)) : Form(mn)[j] = kind
  /\ \A k \in 1 .. Len(Form(mn)) : \E j \in 1 .. Len(Form(op)) : Form(op)[j] = Form(mn)[k]

\* The six pseudo-ops do.
LEMMA PseudosStand ==
  /\ StandsFor("JMP", "SKP") /\ StandsFor("NOP", "SKP") /\ StandsFor("LDAX", "RDFX")
  /\ StandsFor("CLR", "AND") /\ StandsFor("NOT", "XOR") /\ StandsFor("ABSA", "MAXX")
<1>1. /\ \A op \in {"SKP", "RDFX", "AND", "XOR", "MAXX"} :
           op \in Fillers /\ OpFor(op) = op /\ Given(op) = <<>>
      /\ DOMAIN <<>> = {}
  BY DEF Fillers, Ops, RegOps, MaskOps, OpFor, Given
<1>2. /\ Form("SKP") = <<"cond", "target">> /\ Form("RDFX") = <<"reg", "c14">>
      /\ Form("AND") = <<"mask">> /\ Form("XOR") = <<"mask">> /\ Form("MAXX") = <<"reg", "c14">>
      /\ Form("JMP") = <<"target">> /\ Form("NOP") = <<>> /\ Form("LDAX") = <<"reg">>
      /\ Form("CLR") = <<>> /\ Form("NOT") = <<>> /\ Form("ABSA") = <<>>
  BY DEF Form, DelayOps, RegOps, MathOps, MaskOps
<1>3. /\ OpFor("JMP") = "SKP" /\ OpFor("NOP") = "SKP" /\ OpFor("LDAX") = "RDFX"
      /\ OpFor("CLR") = "AND" /\ OpFor("NOT") = "XOR" /\ OpFor("ABSA") = "MAXX"
  BY DEF OpFor
<1>4. /\ DOMAIN Given("JMP") = {"cond"} /\ Given("JMP")["cond"] = 0
      /\ DOMAIN Given("NOP") = {"cond", "n"} /\ Given("NOP")["cond"] = 0 /\ Given("NOP")["n"] = 0
      /\ DOMAIN Given("LDAX") = {"c"} /\ Given("LDAX")["c"] = 0
      /\ DOMAIN Given("CLR") = {"mask"} /\ Given("CLR")["mask"] = 0
      /\ DOMAIN Given("NOT") = {"mask"} /\ Given("NOT")["mask"] = 2 ^ 24 - 1
      /\ DOMAIN Given("ABSA") = {"reg", "c"} /\ Given("ABSA")["reg"] = 0 /\ Given("ABSA")["c"] = 0
  <2>1. DOMAIN Given("JMP") = {"cond"} /\ Given("JMP")["cond"] = 0
    BY DEF Given
  <2>2. DOMAIN Given("NOP") = {"cond", "n"} /\ Given("NOP")["cond"] = 0 /\ Given("NOP")["n"] = 0
    BY DEF Given
  <2>3. DOMAIN Given("LDAX") = {"c"} /\ Given("LDAX")["c"] = 0
    BY DEF Given
  <2>4. DOMAIN Given("CLR") = {"mask"} /\ Given("CLR")["mask"] = 0
    BY DEF Given
  <2>5. DOMAIN Given("NOT") = {"mask"} /\ Given("NOT")["mask"] = 2 ^ 24 - 1
    BY DEF Given
  <2>6. DOMAIN Given("ABSA") = {"reg", "c"} /\ Given("ABSA")["reg"] = 0 /\ Given("ABSA")["c"] = 0
    BY DEF Given
  <2> QED BY <2>1, <2>2, <2>3, <2>4, <2>5, <2>6
<1>5. /\ Len(Form("SKP")) = 2 /\ Form("SKP")[1] = "cond" /\ Form("SKP")[2] = "target"
      /\ Fields("SKP") = {"cond", "n"}
      /\ Len(Form("RDFX")) = 2 /\ Form("RDFX")[1] = "reg" /\ Form("RDFX")[2] = "c14"
      /\ Fields("RDFX") = {"reg", "c"}
      /\ Len(Form("MAXX")) = 2 /\ Form("MAXX")[1] = "reg" /\ Form("MAXX")[2] = "c14"
      /\ Fields("MAXX") = {"reg", "c"}
      /\ Len(Form("AND")) = 1 /\ Form("AND")[1] = "mask" /\ Fields("AND") = {"mask"}
      /\ Len(Form("XOR")) = 1 /\ Form("XOR")[1] = "mask" /\ Fields("XOR") = {"mask"}
      /\ Len(Form("JMP")) = 1 /\ Form("JMP")[1] = "target" /\ Fields("JMP") = {"n"}
      /\ Len(Form("LDAX")) = 1 /\ Form("LDAX")[1] = "reg" /\ Fields("LDAX") = {"reg"}
      /\ \A mn \in {"NOP", "CLR", "NOT", "ABSA"} : Len(Form(mn)) = 0 /\ Fields(mn) = {}
  BY <1>2, FieldsList, FieldsOf
<1>6. /\ FieldOf["cond"] = "cond" /\ FieldOf["target"] = "n" /\ FieldOf["reg"] = "reg"
      /\ FieldOf["c14"] = "c" /\ FieldOf["mask"] = "mask"
  BY FieldsOf
<1>7. /\ 1 .. 0 = {} /\ \A k \in 1 .. 1 : k = 1
      /\ \A k \in 1 .. 2 : k = 1 \/ k = 2
      /\ 1 \in 1 .. 1 /\ 1 \in 1 .. 2 /\ 2 \in 1 .. 2
  OBVIOUS
<1>8. StandsFor("JMP", "SKP")
  BY <1>1, <1>3, <1>4, <1>5, <1>6, <1>7, GivenPrintable DEF StandsFor
<1>9. StandsFor("NOP", "SKP")
  BY <1>1, <1>3, <1>4, <1>5, <1>6, <1>7, GivenPrintable DEF StandsFor
<1>10. StandsFor("LDAX", "RDFX")
  BY <1>1, <1>3, <1>4, <1>5, <1>6, <1>7, GivenPrintable DEF StandsFor
<1>11. StandsFor("CLR", "AND")
  BY <1>1, <1>3, <1>4, <1>5, <1>6, <1>7, GivenPrintable DEF StandsFor
<1>12. StandsFor("NOT", "XOR")
  BY <1>1, <1>3, <1>4, <1>5, <1>6, <1>7, GivenPrintable DEF StandsFor
<1>13. StandsFor("ABSA", "MAXX")
  BY <1>1, <1>3, <1>4, <1>5, <1>6, <1>7, GivenPrintable DEF StandsFor
<1> QED BY <1>8, <1>9, <1>10, <1>11, <1>12, <1>13

\* What a pseudo-op is assembled to is an instruction of what it stands for.
LEMMA Promoted ==
  ASSUME NEW mn, NEW op, StandsFor(mn, op), NEW i, Fitted(mn, i)
  PROVE  Fitted(op, i)
<1>1. /\ i.op = op /\ i = [op |-> op, arg |-> i.arg]
      /\ DOMAIN i.arg = DOMAIN Given(mn) \cup Fields(mn)
      /\ i.arg = [f \in DOMAIN i.arg |-> i.arg[f]]
      /\ \A f \in DOMAIN Given(mn) \ Fields(mn) : i.arg[f] = Given(mn)[f]
  <2>1. i = Made(mn, i.arg)
    BY DEF Fitted
  <2>2. OpFor(mn) = op
    BY DEF StandsFor
  <2> QED BY <2>1, <2>2, MadeHas
<1>2. DOMAIN i.arg = DOMAIN Given(op) \cup Fields(op) /\ DOMAIN Given(op) = {} /\ OpFor(op) = op
  BY <1>1 DEF StandsFor
<1>3. [op |-> op, arg |-> i.arg] = Made(op, i.arg)
  <2> DEFINE arg == i.arg
  <2>1. /\ arg = [f \in DOMAIN arg |-> arg[f]] /\ DOMAIN arg = DOMAIN Given(op) \cup Fields(op)
        /\ OpFor(op) = op
    BY <1>1, <1>2
  <2> HIDE DEF arg
  <2>2. /\ DOMAIN Given(op) \cap Fields(op) = {}
        /\ \A f \in DOMAIN Given(op) : arg[f] = Given(op)[f]
    BY <1>2
  <2>3. [op |-> op, arg |-> arg] = Made(op, arg)
    BY <2>1, <2>2, SameMade
  <2> QED BY <2>3 DEF arg
<1>4. ASSUME NEW k \in 1 .. Len(Form(op)) PROVE Printable(Form(op)[k], i.arg[FieldOf[Form(op)[k]]])
  <2> DEFINE kind == Form(op)[k]
  <2>1. CASE FieldOf[kind] \in DOMAIN Given(mn) /\ Printable(kind, Given(mn)[FieldOf[kind]])
    <3>1. FieldOf[kind] \in DOMAIN Given(mn) \ Fields(mn)
      BY <2>1 DEF StandsFor
    <3> QED BY <1>1, <2>1, <3>1
  <2>2. CASE \E j \in 1 .. Len(Form(mn)) : Form(mn)[j] = kind
    BY <2>2 DEF Fitted
  <2> QED BY <2>1, <2>2 DEF StandsFor
<1> QED BY <1>1, <1>3, <1>4 DEF Fitted

\* An instruction a pseudo-op stands for, with the fields it gives, is one of it.
LEMMA Demoted ==
  ASSUME NEW mn, NEW op, StandsFor(mn, op), NEW i, Fitted(op, i),
         \A f \in DOMAIN Given(mn) : i.arg[f] = Given(mn)[f]
  PROVE  Fitted(mn, i)
<1>1. /\ i.op = op /\ i = [op |-> op, arg |-> i.arg]
      /\ DOMAIN i.arg = DOMAIN Given(op) \cup Fields(op)
      /\ i.arg = [f \in DOMAIN i.arg |-> i.arg[f]]
  <2>1. i = Made(op, i.arg)
    BY DEF Fitted
  <2>2. OpFor(op) = op
    BY DEF StandsFor
  <2> QED BY <2>1, <2>2, MadeHas
<1>2. /\ DOMAIN i.arg = DOMAIN Given(mn) \cup Fields(mn) /\ OpFor(mn) = op
      /\ DOMAIN Given(mn) \cap Fields(mn) = {}
  BY <1>1 DEF StandsFor
<1>3. [op |-> op, arg |-> i.arg] = Made(mn, i.arg)
  BY <1>1, <1>2, SameMade
<1>4. ASSUME NEW k \in 1 .. Len(Form(mn)) PROVE Printable(Form(mn)[k], i.arg[FieldOf[Form(mn)[k]]])
  <2>1. PICK j \in 1 .. Len(Form(op)) : Form(op)[j] = Form(mn)[k]
    BY DEF StandsFor
  <2> QED BY <2>1 DEF Fitted
<1> QED BY <1>1, <1>3, <1>4 DEF Fitted

\* The mnemonic an instruction is printed with is one it can be made of.
LEMMA ShownFits ==
  ASSUME NEW mn \in Fillers \cup {"RAW"}, NEW i, Fitted(mn, i)
  PROVE  Shown(i) \in Fillers \cup {"RAW"} /\ Fitted(Shown(i), i)
<1>1. i.op \in Fillers \cup {"RAW"} /\ Fitted(i.op, i)
  <2>1. CASE mn \in Pseudo
    <3>1. PICK op : StandsFor(mn, op)
      BY <2>1, PseudosStand DEF Pseudo
    <3>2. op \in Fillers /\ Fitted(op, i)
      BY <3>1, Promoted DEF StandsFor
    <3>3. i = Made(op, i.arg) /\ OpFor(op) = op
      BY <3>1, <3>2 DEF StandsFor, Fitted
    <3>4. i.op = op
      BY <3>3, MadeHas
    <3> QED BY <3>2, <3>4
  <2>2. CASE mn \notin Pseudo
    <3>1. OpFor(mn) = mn
      BY <2>2 DEF OpFor, Pseudo
    <3>2. i = Made(mn, i.arg)
      BY DEF Fitted
    <3>3. i.op = mn
      BY <3>1, <3>2, MadeHas
    <3> QED BY <3>3
  <2> QED BY <2>1, <2>2
<1>2. Pseudo \subseteq Fillers
  BY DEF Fillers
<1>3. CASE i.op = "AND" /\ i.arg = Given("CLR")
  <2>1. Shown(i) = "CLR"
    BY <1>3 DEF Shown
  <2>2. Fitted("AND", i)
    BY <1>1, <1>3
  <2>3. Fitted("CLR", i)
    BY <1>3, <2>2, Demoted, PseudosStand
  <2> QED BY <1>2, <2>1, <2>3 DEF Pseudo
<1>4. CASE i.op = "XOR" /\ i.arg = Given("NOT")
  <2>1. Shown(i) = "NOT"
    BY <1>4 DEF Shown
  <2>2. Fitted("XOR", i)
    BY <1>1, <1>4
  <2>3. Fitted("NOT", i)
    BY <1>4, <2>2, Demoted, PseudosStand
  <2> QED BY <1>2, <2>1, <2>3 DEF Pseudo
<1>5. CASE i.op = "MAXX" /\ i.arg = Given("ABSA")
  <2>1. Shown(i) = "ABSA"
    BY <1>5 DEF Shown
  <2>2. Fitted("MAXX", i)
    BY <1>1, <1>5
  <2>3. Fitted("ABSA", i)
    BY <1>5, <2>2, Demoted, PseudosStand
  <2> QED BY <1>2, <2>1, <2>3 DEF Pseudo
<1>6. CASE i.op = "SKP" /\ i.arg = Given("NOP")
  <2>1. Shown(i) = "NOP"
    BY <1>6 DEF Shown
  <2>2. Fitted("SKP", i)
    BY <1>1, <1>6
  <2>3. Fitted("NOP", i)
    BY <1>6, <2>2, Demoted, PseudosStand
  <2> QED BY <1>2, <2>1, <2>3 DEF Pseudo
<1>7. CASE i.op = "RDFX" /\ i.arg.c = 0
  <2>1. Shown(i) = "LDAX"
    BY <1>7 DEF Shown
  <2>2. Fitted("RDFX", i)
    BY <1>1, <1>7
  <2>3. \A f \in DOMAIN Given("LDAX") : i.arg[f] = Given("LDAX")[f]
    <3>1. DOMAIN Given("LDAX") = {"c"} /\ Given("LDAX")["c"] = 0
      BY DEF Given
    <3> QED BY <1>7, <3>1
  <2>4. Fitted("LDAX", i)
    BY <2>2, <2>3, Demoted, PseudosStand
  <2> QED BY <1>2, <2>1, <2>4 DEF Pseudo
<1>8. CASE /\ ~(i.op = "AND" /\ i.arg = Given("CLR")) /\ ~(i.op = "XOR" /\ i.arg = Given("NOT"))
           /\ ~(i.op = "MAXX" /\ i.arg = Given("ABSA")) /\ ~(i.op = "SKP" /\ i.arg = Given("NOP"))
           /\ ~(i.op = "RDFX" /\ i.arg.c = 0)
  <2>1. Shown(i) = i.op
    BY <1>8 DEF Shown
  <2> QED BY <1>1, <2>1
<1> QED BY <1>3, <1>4, <1>5, <1>6, <1>7, <1>8

-----------------------------------------------------------------------------
(* Printed lines read back.                                                *)

\* What stands between printed operands.
Comma == <<Mark(",")>>

\* ts is cut at its commas into gs.
SplitsTo(ts, gs) == /\ ts \in Seq(Glyphs) /\ ts # <<>>
                    /\ gs \in Seq(Seq(Glyphs)) /\ gs # <<>>
                    /\ \E p : Cuts(ts, gs, p)

\* A comma is a printed token.
LEMMA CommaIs == Comma \in Seq(Glyphs) /\ Len(Comma) = 1 /\ IsComma(Comma[1]) /\ Comma[1] \in Glyphs
                   /\ Comma = <<Comma[1]>>
<1> DEFINE c == Mark(",")
<1>1. IsComma(c)
  BY Zenon DEF IsComma, Mark
<1>2. c \in Glyphs
  BY Zenon DEF Glyphs
<1> HIDE DEF c
<1>3. <<c>> \in Seq(Glyphs) /\ Len(<<c>>) = 1 /\ <<c>>[1] = c
  BY <1>2
<1>4. Comma = <<c>>
  BY Zenon DEF Comma, c
<1> QED BY <1>1, <1>2, <1>3, <1>4, Zenon

\* An operand is not cut.
LEMMA SplitsOne == ASSUME NEW a, IsOperand(a) PROVE SplitsTo(a, <<a>>)
<1>1. a \in Seq(Glyphs) /\ a # <<>> /\ NoComma(a)
  BY DEF IsOperand
<1>2. <<a>> \in Seq(Seq(Glyphs)) /\ <<a>> # <<>>
  BY <1>1
<1>3. \E p : Cuts(a, <<a>>, p)
  BY <1>1, CutsOne
<1> QED BY <1>1, <1>2, <1>3 DEF SplitsTo

\* An operand and a comma in front of a list is one more part.
LEMMA SplitsMore ==
  ASSUME NEW a, IsOperand(a), NEW ts, NEW gs, SplitsTo(ts, gs)
  PROVE  SplitsTo(a \o (Comma \o ts), <<a>> \o gs)
<1>1. a \in Seq(Glyphs) /\ a # <<>> /\ NoComma(a)
  BY DEF IsOperand
<1>2. ts \in Seq(Glyphs) /\ gs \in Seq(Seq(Glyphs)) /\ gs # <<>> /\ \E p : Cuts(ts, gs, p)
  BY DEF SplitsTo
<1>3. PICK p : Cuts(ts, gs, p)
  BY <1>2
<1> DEFINE c == Comma[1]
<1>4. c \in Glyphs /\ IsComma(c) /\ Comma = <<c>> /\ Comma \in Seq(Glyphs)
  BY CommaIs
<1> HIDE DEF c
<1>5. \E q : Cuts(a \o <<c>> \o ts, <<a>> \o gs, q)
  BY <1>1, <1>2, <1>3, <1>4, CutsMore
<1>6. a \o <<c>> \o ts = a \o (Comma \o ts)
  <2>1. (a \o Comma) \o ts = a \o (Comma \o ts)
    BY <1>1, <1>2, <1>4, ConcatAssociative
  <2> QED BY <1>4, <2>1, Zenon
<1>7. a \o (Comma \o ts) \in Seq(Glyphs) /\ a \o (Comma \o ts) # <<>>
  <2>1. Comma \o ts \in Seq(Glyphs)
    BY <1>2, <1>4
  <2> DEFINE u == Comma \o ts
  <2> HIDE DEF u
  <2>2. u \in Seq(Glyphs)
    BY <2>1 DEF u
  <2>3. a \o u \in Seq(Glyphs) /\ a \o u # <<>>
    BY <1>1, <2>2, ConcatEqualIffEmpty, ConcatProperties
  <2> QED BY <2>3 DEF u
<1>8. <<a>> \o gs \in Seq(Seq(Glyphs)) /\ <<a>> \o gs # <<>>
  <2>1. <<a>> \in Seq(Seq(Glyphs)) /\ <<a>> # <<>>
    BY <1>1
  <2> QED BY <1>2, <2>1, ConcatEqualIffEmpty, ConcatProperties
<1> QED BY <1>5, <1>6, <1>7, <1>8 DEF SplitsTo

\* The parts are what SplitCommas gives.
LEMMA SplitsAre == ASSUME NEW ts, NEW gs, SplitsTo(ts, gs) PROVE SplitCommas(ts) = gs
BY SplitCuts DEF SplitsTo

\* Up to three sequences, one after another.
LEMMA FlattenUpto ==
  ASSUME NEW n \in 1 .. 3, NEW f, Len(f) = n
  PROVE  /\ n = 1 => SE!FlattenSeq(f) = f[1]
         /\ n = 2 => SE!FlattenSeq(f) = f[1] \o f[2]
         /\ n = 3 => SE!FlattenSeq(f) = (f[1] \o f[2]) \o f[3]
<1> DEFINE By(g) == g = [i \in 1 .. Len(f) |-> IF i = 1 THEN f[i] ELSE g[i - 1] \o f[i]]
           h == [i \in 1 .. n |-> IF i = 1 THEN f[1] ELSE IF i = 2 THEN f[1] \o f[2]
                                  ELSE (f[1] \o f[2]) \o f[3]]
           flat == CHOOSE g : By(g)
<1>1. By(h)
  <2>1. \A i \in 1 .. n : h[i] = IF i = 1 THEN f[i] ELSE h[i - 1] \o f[i]
    <3> TAKE i \in 1 .. n
    <3>1. CASE i = 1
      BY <3>1
    <3>2. CASE i = 2
      <4>1. i - 1 = 1 /\ 1 \in 1 .. n /\ i # 1
        BY <3>2
      <4>2. h[i - 1] = f[1] /\ h[i] = f[1] \o f[2]
        BY <3>2, <4>1
      <4> QED BY <3>2, <4>1, <4>2
    <3>3. CASE i = 3
      <4>1. i - 1 = 2 /\ 2 \in 1 .. n /\ i # 1 /\ i # 2
        BY <3>3
      <4>2. h[i - 1] = f[1] \o f[2] /\ h[i] = (f[1] \o f[2]) \o f[3]
        BY <3>3, <4>1
      <4> QED BY <3>3, <4>1, <4>2
    <3> QED BY <3>1, <3>2, <3>3
  <2>2. DOMAIN h = 1 .. Len(f) /\ h = [i \in DOMAIN h |-> h[i]]
    OBVIOUS
  <2> HIDE DEF h
  <2> QED BY <2>1, <2>2
<1> HIDE DEF h
<1>2. By(flat)
  <2> HIDE DEF By
  <2> QED BY <1>1
<1>3. SE!FlattenSeq(f) = flat[Len(f)]
  BY DEF SE!FlattenSeq
<1> HIDE DEF flat
<1>4. \A i \in 1 .. n : flat[i] = IF i = 1 THEN f[i] ELSE flat[i - 1] \o f[i]
  BY <1>2
<1>5. flat[1] = f[1]
  BY <1>4
<1>6. ASSUME n = 1 PROVE SE!FlattenSeq(f) = f[1]
  BY <1>3, <1>5, <1>6
<1>7. ASSUME n = 2 \/ n = 3 PROVE flat[2] = f[1] \o f[2]
  <2>1. 2 \in 1 .. n /\ 2 # 1 /\ 2 - 1 = 1
    BY <1>7
  <2>2. flat[2] = flat[1] \o f[2]
    BY <1>4, <2>1
  <2> QED BY <1>5, <2>2
<1>8. ASSUME n = 2 PROVE SE!FlattenSeq(f) = f[1] \o f[2]
  <2>1. SE!FlattenSeq(f) = flat[2]
    BY <1>3, <1>8
  <2> QED BY <1>7, <1>8, <2>1, Zenon
<1>9. ASSUME n = 3 PROVE SE!FlattenSeq(f) = (f[1] \o f[2]) \o f[3]
  <2>1. 3 \in 1 .. n /\ 3 # 1 /\ 3 - 1 = 2
    BY <1>9
  <2>2. flat[3] = flat[2] \o f[3]
    BY <1>4, <2>1
  <2>3. SE!FlattenSeq(f) = flat[3]
    BY <1>3, <1>9
  <2> QED BY <1>7, <1>9, <2>2, <2>3, Zenon
<1> QED BY <1>6, <1>8, <1>9, Zenon

\* Printed operands, a comma before each but the first.
Pair(a, b)      == a \o (Comma \o b)
Triple(a, b, d) == a \o (Comma \o Pair(b, d))

\* However the commas are put in front, the operands are listed the same.
LEMMA Regrouped ==
  ASSUME NEW a \in Seq(Glyphs), NEW b \in Seq(Glyphs), NEW d \in Seq(Glyphs)
  PROVE  /\ Pair(a, b) \in Seq(Glyphs) /\ Triple(a, b, d) \in Seq(Glyphs)
         /\ (a \o (Comma \o b)) \o (Comma \o d) = Triple(a, b, d)
         /\ (Comma \o a) \o (Comma \o b) = Comma \o Pair(a, b)
         /\ ((Comma \o a) \o (Comma \o b)) \o (Comma \o d) = Comma \o Triple(a, b, d)
<1> DEFINE c == Comma
<1>1. c \in Seq(Glyphs)
  BY CommaIs
<1> HIDE DEF c
<1>2. \A u, v, w \in Seq(Glyphs) : (u \o v) \o w = u \o (v \o w)
  BY ConcatAssociative
<1>3. \A u, v \in Seq(Glyphs) : u \o v \in Seq(Glyphs)
  BY ConcatProperties
<1> DEFINE cb == c \o b
           cd == c \o d
           pab == a \o cb
           pbd == b \o cd
<1>4. cb \in Seq(Glyphs) /\ cd \in Seq(Glyphs)
  BY <1>1, <1>3
<1>5. pab \in Seq(Glyphs) /\ pbd \in Seq(Glyphs) /\ c \o pbd \in Seq(Glyphs)
      /\ a \o (c \o pbd) \in Seq(Glyphs)
  <2> HIDE DEF cb, cd
  <2>1. pab \in Seq(Glyphs) /\ pbd \in Seq(Glyphs)
    BY <1>3, <1>4
  <2> HIDE DEF pab, pbd
  <2>2. c \o pbd \in Seq(Glyphs)
    BY <1>1, <1>3, <2>1
  <2> QED BY <1>3, <2>1, <2>2
<1>6. cb \o cd = c \o pbd
  <2>1. (c \o b) \o cd = c \o (b \o cd)
    BY <1>1, <1>2, <1>4, Zenon
  <2> QED BY <2>1
<1>7. pab \o cd = a \o (c \o pbd)
  <2>1. (a \o cb) \o cd = a \o (cb \o cd)
    BY <1>2, <1>4, Zenon
  <2> QED BY <1>6, <2>1, Zenon
<1>8. (c \o a) \o cb = c \o pab
  BY <1>1, <1>2, <1>4, Zenon
<1>9. (c \o pab) \o cd = c \o (pab \o cd)
  BY <1>1, <1>2, <1>4, <1>5, ZenonT(40)
<1>10. ((c \o a) \o cb) \o cd = c \o (a \o (c \o pbd))
  BY <1>7, <1>8, <1>9, Zenon
<1>11. c = Comma
  BY DEF c
<1> QED BY <1>5, <1>7, <1>8, <1>10, <1>11, Zenon DEF Pair, Triple

\* Two operands split off again.
LEMMA SplitsTwo ==
  ASSUME NEW a, IsOperand(a), NEW b, IsOperand(b)
  PROVE  SplitsTo(Pair(a, b), <<a>> \o <<b>>)
BY SplitsOne, SplitsMore DEF Pair

\* Three operands split off again.
LEMMA SplitsThree ==
  ASSUME NEW a, IsOperand(a), NEW b, IsOperand(b), NEW d, IsOperand(d)
  PROVE  SplitsTo(Triple(a, b, d), <<a>> \o (<<b>> \o <<d>>))
BY SplitsTwo, SplitsMore DEF Triple

\* Lists of one and two, joined.
LEMMA Listing ==
  ASSUME NEW S, NEW a \in S, NEW b \in S, NEW d \in S
  PROVE  <<a>> \o <<b>> = <<a, b>> /\ <<a>> \o <<b, d>> = <<a, b, d>>
<1>1. <<a>> \in Seq(S) /\ <<b>> \in Seq(S) /\ <<b, d>> \in Seq(S)
  OBVIOUS
<1>2. <<a, b>> \in Seq(S) /\ <<a, b, d>> \in Seq(S)
  OBVIOUS
<1> DEFINE one == <<a>> \o <<b>>
           two == <<a>> \o <<b, d>>
<1>3. one \in Seq(S) /\ Len(one) = 2 /\ one[1] = a /\ one[2] = b
  BY <1>1, ConcatProperties
<1>4. two \in Seq(S) /\ Len(two) = 3 /\ two[1] = a /\ two[2] = b /\ two[3] = d
  BY <1>1, ConcatProperties
<1> HIDE DEF one, two
<1>5. one = <<a, b>>
  BY <1>2, <1>3, SeqEqual
<1>6. two = <<a, b, d>>
  BY <1>2, <1>4, SeqEqual
<1> QED BY <1>5, <1>6 DEF one, two

\* The first n of the operands fs.
Parts(fs, n) == [k \in 1 .. n |-> fs[k]]

\* They are a list.
LEMMA PartsAre ==
  ASSUME NEW fs
  PROVE  /\ Parts(fs, 1) = <<fs[1]>> /\ Parts(fs, 2) = <<fs[1]>> \o <<fs[2]>>
         /\ Parts(fs, 3) = <<fs[1]>> \o (<<fs[2]>> \o <<fs[3]>>)
<1> DEFINE a == fs[1]
           b == fs[2]
           d == fs[3]
           S == {a, b, d}
<1>1. Parts(fs, 1) = <<a>> /\ Parts(fs, 2) = <<a, b>> /\ Parts(fs, 3) = <<a, b, d>>
  BY DEF Parts
<1>2. a \in S /\ b \in S /\ d \in S
  OBVIOUS
<1> HIDE DEF a, b, d, S
<1>3. <<a>> \o <<b>> = <<a, b>>
  BY <1>2, Listing
<1>4. <<b>> \o <<d>> = <<b, d>>
  BY <1>2, Listing
<1>5. <<a>> \o <<b, d>> = <<a, b, d>>
  BY <1>2, Listing
<1>6. <<a>> \o (<<b>> \o <<d>>) = <<a, b, d>>
  BY <1>4, <1>5
<1> QED BY <1>1, <1>3, <1>6 DEF a, b, d

\* After a mnemonic.
LEMMA SplitListed ==
  ASSUME NEW n \in 1 .. 3, NEW fs, \A k \in 1 .. n : IsOperand(fs[k]),
         NEW pieces, Len(pieces) = n, pieces[1] = fs[1],
         \A k \in 2 .. n : pieces[k] = Comma \o fs[k]
  PROVE  SplitsTo(SE!FlattenSeq(pieces), Parts(fs, n))
<1>1. IsOperand(fs[1]) /\ fs[1] \in Seq(Glyphs)
  BY DEF IsOperand
<1>2. CASE n = 1
  <2>1. SE!FlattenSeq(pieces) = fs[1] /\ Parts(fs, n) = <<fs[1]>>
    BY <1>2, FlattenUpto, PartsAre
  <2>2. SplitsTo(fs[1], <<fs[1]>>)
    BY <1>1, SplitsOne
  <2> QED BY <2>1, <2>2, Zenon
<1>3. CASE n >= 2
  <2>1. 2 \in 1 .. n /\ 2 \in 2 .. n
    BY <1>3
  <2>2. IsOperand(fs[2]) /\ fs[2] \in Seq(Glyphs) /\ pieces[2] = Comma \o fs[2]
    BY <2>1 DEF IsOperand
  <2>3. CASE n = 2
    <3>1. SE!FlattenSeq(pieces) = pieces[1] \o pieces[2]
      BY <2>3, FlattenUpto
    <3>2. SE!FlattenSeq(pieces) = Pair(fs[1], fs[2])
      BY <2>2, <3>1, Zenon DEF Pair
    <3>3. Parts(fs, n) = <<fs[1]>> \o <<fs[2]>>
      BY <2>3, PartsAre
    <3>4. SplitsTo(Pair(fs[1], fs[2]), <<fs[1]>> \o <<fs[2]>>)
      BY <1>1, <2>2, SplitsTwo
    <3> QED BY <3>2, <3>3, <3>4, Zenon
  <2>4. CASE n = 3
    <3>1. 3 \in 1 .. n /\ 3 \in 2 .. n
      BY <2>4
    <3>2. IsOperand(fs[3]) /\ fs[3] \in Seq(Glyphs) /\ pieces[3] = Comma \o fs[3]
      BY <3>1 DEF IsOperand
    <3>3. SE!FlattenSeq(pieces) = (pieces[1] \o pieces[2]) \o pieces[3]
      BY <2>4, FlattenUpto
    <3>4. SE!FlattenSeq(pieces) = (fs[1] \o (Comma \o fs[2])) \o (Comma \o fs[3])
      BY <2>2, <3>2, <3>3, Zenon
    <3>5. (fs[1] \o (Comma \o fs[2])) \o (Comma \o fs[3]) = Triple(fs[1], fs[2], fs[3])
      BY <1>1, <2>2, <3>2, Regrouped
    <3>6. Parts(fs, n) = <<fs[1]>> \o (<<fs[2]>> \o <<fs[3]>>)
      BY <2>4, PartsAre
    <3>7. SplitsTo(Triple(fs[1], fs[2], fs[3]), <<fs[1]>> \o (<<fs[2]>> \o <<fs[3]>>))
      BY <1>1, <2>2, <3>2, SplitsThree
    <3> QED BY <3>4, <3>5, <3>6, <3>7, Zenon
  <2> QED BY <1>3, <2>3, <2>4
<1> QED BY <1>2, <1>3

\* After CHO and the access it names.
LEMMA SplitChoListed ==
  ASSUME NEW x, IsOperand(x), NEW fs, \A k \in 1 .. 3 : IsOperand(fs[k]),
         NEW pieces, Len(pieces) = 3, \A k \in 1 .. 3 : pieces[k] = Comma \o fs[k]
  PROVE  SplitsTo(x \o SE!FlattenSeq(pieces), <<x>> \o Parts(fs, 3))
<1>1. /\ IsOperand(fs[1]) /\ fs[1] \in Seq(Glyphs) /\ pieces[1] = Comma \o fs[1]
      /\ IsOperand(fs[2]) /\ fs[2] \in Seq(Glyphs) /\ pieces[2] = Comma \o fs[2]
      /\ IsOperand(fs[3]) /\ fs[3] \in Seq(Glyphs) /\ pieces[3] = Comma \o fs[3]
  BY DEF IsOperand
<1>2. SE!FlattenSeq(pieces) = (pieces[1] \o pieces[2]) \o pieces[3]
  <2>1. 3 \in 1 .. 3 /\ Len(pieces) = 3
    OBVIOUS
  <2> QED BY <2>1, FlattenUpto
<1>3. SE!FlattenSeq(pieces) = ((Comma \o fs[1]) \o (Comma \o fs[2])) \o (Comma \o fs[3])
  BY <1>1, <1>2, Zenon
<1>4. ((Comma \o fs[1]) \o (Comma \o fs[2])) \o (Comma \o fs[3])
        = Comma \o Triple(fs[1], fs[2], fs[3])
  BY <1>1, Regrouped
<1>5. SplitsTo(Triple(fs[1], fs[2], fs[3]), <<fs[1]>> \o (<<fs[2]>> \o <<fs[3]>>))
  BY <1>1, SplitsThree
<1>6. SplitsTo(Triple(fs[1], fs[2], fs[3]), Parts(fs, 3))
  BY <1>5, PartsAre, Zenon
<1>7. SplitsTo(x \o (Comma \o Triple(fs[1], fs[2], fs[3])), <<x>> \o Parts(fs, 3))
  BY <1>6, SplitsMore
<1> QED BY <1>3, <1>4, <1>7, Zenon

\* No mnemonic takes more than three operands.
LEMMA FormShort ==
  ASSUME NEW mn \in Fillers \cup {"RAW"}
  PROVE  /\ Len(Form(mn)) \in 0 .. 3
         /\ mn \in {"CHO_RDA", "CHO_SOF"} => Len(Form(mn)) = 3
<1> DEFINE form == Form(mn)
<1>1. \/ form = <<>>
      \/ form \in {<<"c9">>, <<"reg">>, <<"mask">>, <<"target">>, <<"ramp">>, <<"word">>}
      \/ form \in {<<"addr", "c9">>, <<"reg", "c14">>, <<"c14", "d10">>, <<"cond", "target">>}
      \/ form \in {<<"sin", "sinFreq", "sinAmp">>, <<"ramp", "rampFreq", "rampAmp">>,
                   <<"lfo", "flags", "addr">>, <<"lfo", "flags", "d15">>}
  BY DEF Form, Fillers, Pseudo, Ops, DelayOps, RegOps, MathOps, MaskOps, ChoOps
<1>2. mn \in {"CHO_RDA", "CHO_SOF"} =>
        form \in {<<"lfo", "flags", "addr">>, <<"lfo", "flags", "d15">>}
  BY DEF Form, DelayOps, RegOps, MathOps, MaskOps, ChoOps
<1> HIDE DEF form
<1>3. Len(form) \in 0 .. 3
  BY <1>1
<1>4. mn \in {"CHO_RDA", "CHO_SOF"} => Len(form) = 3
  BY <1>2
<1> QED BY <1>3, <1>4 DEF form

\* A line is its head and its operands.
Spelled(i, form, head) ==
  LET fields == [k \in 1 .. Len(form) |-> Printed(form[k], i.arg[FieldOf[form[k]]])]
      comma(k) == IF k = 1 /\ Len(head) = 1 THEN <<>> ELSE Comma
  IN  [k \in 1 .. Len(form) |-> comma(k) \o fields[k]]

\* Which head and which operands, for CHO and for the others.
LEMMA ListedAs ==
  ASSUME NEW i
  PROVE  /\ Shown(i) \notin {"CHO_RDA", "CHO_SOF", "CHO_RDAL"} =>
              Listed(i) = Ident(Shown(i))
                            \o SE!FlattenSeq(Spelled(i, Form(Shown(i)), Ident(Shown(i))))
         /\ Shown(i) = "CHO_RDA" =>
              Listed(i) = (Ident("CHO") \o Ident("RDA"))
                            \o SE!FlattenSeq(Spelled(i, Form("CHO_RDA"), Ident("CHO") \o Ident("RDA")))
         /\ Shown(i) = "CHO_SOF" =>
              Listed(i) = (Ident("CHO") \o Ident("SOF"))
                            \o SE!FlattenSeq(Spelled(i, Form("CHO_SOF"), Ident("CHO") \o Ident("SOF")))
         /\ Shown(i) = "CHO_RDAL" =>
              Listed(i) = (Ident("CHO") \o Ident("RDAL"))
                            \o SE!FlattenSeq(Spelled(i, <<"lfo", "flags">>, Ident("CHO") \o Ident("RDAL")))
<1>1. /\ "CHO_RDA" # "CHO_SOF" /\ "CHO_RDA" # "CHO_RDAL" /\ "CHO_SOF" # "CHO_RDAL"
  OBVIOUS
<1>2. ASSUME Shown(i) \notin {"CHO_RDA", "CHO_SOF", "CHO_RDAL"}
      PROVE  Listed(i) = Ident(Shown(i))
                            \o SE!FlattenSeq(Spelled(i, Form(Shown(i)), Ident(Shown(i))))
  BY <1>2, Zenon DEF Listed, Spelled, Comma
<1>3. ASSUME Shown(i) = "CHO_RDA"
      PROVE  Listed(i) = (Ident("CHO") \o Ident("RDA"))
                            \o SE!FlattenSeq(Spelled(i, Form("CHO_RDA"), Ident("CHO") \o Ident("RDA")))
  BY <1>1, <1>3, Zenon DEF Listed, Spelled, Comma
<1>4. ASSUME Shown(i) = "CHO_SOF"
      PROVE  Listed(i) = (Ident("CHO") \o Ident("SOF"))
                            \o SE!FlattenSeq(Spelled(i, Form("CHO_SOF"), Ident("CHO") \o Ident("SOF")))
  BY <1>1, <1>4, Zenon DEF Listed, Spelled, Comma
<1>5. ASSUME Shown(i) = "CHO_RDAL"
      PROVE  Listed(i) = (Ident("CHO") \o Ident("RDAL"))
                            \o SE!FlattenSeq(Spelled(i, <<"lfo", "flags">>, Ident("CHO") \o Ident("RDAL")))
  BY <1>1, <1>5, Zenon DEF Listed, Spelled, Comma
<1> QED BY <1>2, <1>3, <1>4, <1>5, Zenon

\* The first token of a line and the rest.
LEMMA HeadOff ==
  ASSUME NEW S, NEW x \in S, NEW ts \in Seq(S)
  PROVE  /\ <<x>> \o ts \in Seq(S) /\ (<<x>> \o ts)[1] = x /\ Tail(<<x>> \o ts) = ts
<1> DEFINE one == <<x>>
           u == one \o ts
<1>1. one \in Seq(S) /\ Len(one) = 1 /\ one[1] = x
  OBVIOUS
<1> HIDE DEF one
<1>2. /\ u \in Seq(S) /\ Len(u) = 1 + Len(ts)
      /\ \A k \in 1 .. 1 + Len(ts) : u[k] = IF k <= 1 THEN one[k] ELSE ts[k - 1]
  <2>1. /\ u \in Seq(S) /\ Len(u) = Len(one) + Len(ts)
        /\ \A k \in 1 .. Len(one) + Len(ts) :
             u[k] = IF k <= Len(one) THEN one[k] ELSE ts[k - Len(one)]
    BY <1>1, ConcatProperties
  <2> QED BY <1>1, <2>1, Zenon
<1> HIDE DEF u
<1>3. Len(ts) \in Nat
  OBVIOUS
<1>4. u # <<>> /\ u[1] = x
  BY <1>1, <1>2, <1>3
<1>5. /\ Tail(u) \in Seq(S) /\ Len(Tail(u)) = Len(ts)
      /\ \A k \in 1 .. Len(ts) : Tail(u)[k] = u[k + 1]
  BY <1>2, <1>3, <1>4, HeadTailProperties
<1>6. \A k \in 1 .. Len(ts) : u[k + 1] = ts[k]
  BY <1>2, <1>3
<1>7. Tail(u) = ts
  BY <1>5, <1>6, SeqEqual
<1> QED BY <1>2, <1>4, <1>7 DEF u, one

\* The operands of a line that is printed with a mnemonic it can be made of.
LEMMA FieldsPrint ==
  ASSUME OperatorsGiveNumbers, NEW mn \in Fillers \cup {"RAW"}, NEW i, Fitted(mn, i),
         NEW k \in 1 .. Len(Form(mn))
  PROVE  IsOperand(Printed(Form(mn)[k], i.arg[FieldOf[Form(mn)[k]]]))
<1> DEFINE kind == Form(mn)[k]
           v == i.arg[FieldOf[kind]]
<1>1. kind \in AllKinds
  BY FormKinds
<1>2. Printable(kind, v)
  BY DEF Fitted
<1> HIDE DEF kind, v
<1>3. ReadsBack(kind, v)
  BY <1>1, <1>2, OperandBack
<1> QED BY <1>3 DEF ReadsBack, kind, v

\* The line of a mnemonic that is no CHO assembles to the instruction.
LEMMA PlainBack ==
  ASSUME OperatorsGiveNumbers, NEW i, NEW mn \in (Fillers \cup {"RAW"}) \ ChoOps,
         Shown(i) = mn, Fitted(mn, i), NEW index
  PROVE  LET line == Listed(i)
         IN  Parse(line[1].s, Tail(line), Predefined, {}, index) = Gives(i)
<1> DEFINE form == Form(mn)
           n == Len(form)
           fs == [k \in 1 .. n |-> Printed(form[k], i.arg[FieldOf[form[k]]])]
           head == Ident(mn)
           pieces == Spelled(i, form, head)
           flat == SE!FlattenSeq(pieces)
           line == Listed(i)
           groups == SplitCommas(flat)
<1>1. line = head \o flat
  <2>1. mn \notin {"CHO_RDA", "CHO_SOF", "CHO_RDAL"}
    BY DEF ChoOps
  <2> QED BY <2>1, ListedAs, Zenon
<1>2. n \in 0 .. 3
  BY FormShort
<1>3. \A k \in 1 .. n : IsOperand(fs[k])
  BY FieldsPrint
<1>4. /\ Len(head) = 1 /\ Len(pieces) = n
      /\ pieces = [k \in 1 .. n |-> (IF k = 1 /\ Len(head) = 1 THEN <<>> ELSE Comma) \o fs[k]]
  <2>1. Len(head) = 1
    BY DEF Ident
  <2>2. pieces = [k \in 1 .. n |-> (IF k = 1 /\ Len(head) = 1 THEN <<>> ELSE Comma) \o fs[k]]
    BY Zenon DEF Spelled
  <2> HIDE DEF pieces, fs, head
  <2>3. Len(pieces) = n
    BY <1>2, <2>2
  <2> QED BY <2>1, <2>2, <2>3
<1> HIDE DEF pieces, fs, line, flat, form
<1>5. flat \in Seq(Glyphs) /\ groups = Parts(fs, n)
  <2>1. CASE n = 0
    <3>1. pieces = <<>>
      BY <1>4, <2>1
    <3>2. flat = <<>>
      BY <3>1 DEF flat, SE!FlattenSeq
    <3>3. SplitCommas(<<>>) = <<>>
      BY DEF SplitCommas
    <3>4. Parts(fs, n) = <<>>
      BY <2>1 DEF Parts
    <3> QED BY <3>2, <3>3, <3>4
  <2>2. CASE n \in 1 .. 3
    <3>1. pieces[1] = fs[1]
      <4>1. 1 \in 1 .. n
        BY <2>2
      <4>2. fs[1] \in Seq(Glyphs)
        BY <1>3, <4>1 DEF IsOperand
      <4>3. <<>> \o fs[1] = fs[1]
        BY <4>2, ConcatEmptySeq
      <4>4. pieces[1] = (IF 1 = 1 /\ Len(head) = 1 THEN <<>> ELSE Comma) \o fs[1]
        BY <1>4, <4>1, Zenon
      <4>5. (IF 1 = 1 /\ Len(head) = 1 THEN <<>> ELSE Comma) = <<>>
        BY <1>4
      <4> QED BY <4>3, <4>4, <4>5, Zenon
    <3>2. \A k \in 2 .. n : pieces[k] = Comma \o fs[k]
      <4> TAKE k \in 2 .. n
      <4>1. k \in 1 .. n /\ k # 1
        BY <2>2
      <4>2. pieces[k] = (IF k = 1 /\ Len(head) = 1 THEN <<>> ELSE Comma) \o fs[k]
        BY <1>4, <4>1, Zenon
      <4>3. (IF k = 1 /\ Len(head) = 1 THEN <<>> ELSE Comma) = Comma
        BY <4>1
      <4> QED BY <4>2, <4>3, Zenon
    <3> DEFINE parts == Parts(fs, n)
    <3>3. SplitsTo(flat, parts)
      <4> HIDE DEF n
      <4> QED BY <1>3, <1>4, <2>2, <3>1, <3>2, SplitListed DEF flat
    <3> HIDE DEF parts
    <3>4. flat \in Seq(Glyphs) /\ SplitCommas(flat) = parts
      BY <3>3, SplitsAre DEF SplitsTo
    <3> QED BY <3>4 DEF parts
  <2> QED BY <1>2, <2>1, <2>2
<1>6. line[1] = Id(<<mn>>) /\ Tail(line) = flat
  <2>1. mn \in Stems
    BY DEF Stems, Mnemonics, Fillers
  <2>2. Id(<<mn>>) \in Glyphs
    BY <2>1 DEF Glyphs
  <2>3. line = <<Id(<<mn>>)>> \o flat
    BY <1>1, Zenon DEF Ident, line
  <2> QED BY <1>5, <2>2, <2>3, HeadOff
<1>7. Len(groups) = n /\ \A k \in 1 .. n : groups[k] = Printed(form[k], i.arg[FieldOf[form[k]]])
  <2> HIDE DEF groups, n
  <2>1. Len(groups) = n
    BY <1>2, <1>5 DEF Parts
  <2>2. \A k \in 1 .. n : groups[k] = fs[k]
    BY <1>5 DEF Parts
  <2> QED BY <2>1, <2>2 DEF fs
<1>8. Filled(mn, groups, Predefined, {}, index) = Gives(i)
  <2> HIDE DEF groups
  <2> QED BY <1>7, FilledBack DEF form
<1>9. Parse(<<mn>>, flat, Predefined, {}, index) = Filled(mn, groups, Predefined, {}, index)
  <2>1. mn \in Mnemonics /\ mn # "CHO" /\ mn # "CHO_RDAL"
    BY DEF Mnemonics, Fillers, Pseudo, Ops, DelayOps, RegOps, MathOps, MaskOps, ChoOps
  <2>2. <<mn>> # <<"CHO">> /\ Len(<<mn>>) = 1 /\ <<mn>>[1] = mn
    BY <2>1
  <2> QED BY <2>1, <2>2, Zenon DEF Parse
<1>10. Id(<<mn>>).s = <<mn>>
  BY DEF Id
<1> QED BY <1>6, <1>8, <1>9, <1>10 DEF line

\* The operands of CHO RDAL, after the access.
LEMMA SplitRdalListed ==
  ASSUME NEW x, IsOperand(x), NEW fs, \A k \in 1 .. 2 : IsOperand(fs[k]),
         NEW pieces, Len(pieces) = 2, \A k \in 1 .. 2 : pieces[k] = Comma \o fs[k]
  PROVE  SplitsTo(x \o SE!FlattenSeq(pieces), <<x>> \o Parts(fs, 2))
<1>1. /\ IsOperand(fs[1]) /\ fs[1] \in Seq(Glyphs) /\ pieces[1] = Comma \o fs[1]
      /\ IsOperand(fs[2]) /\ fs[2] \in Seq(Glyphs) /\ pieces[2] = Comma \o fs[2]
  BY DEF IsOperand
<1>2. SE!FlattenSeq(pieces) = pieces[1] \o pieces[2]
  <2>1. 2 \in 1 .. 3 /\ Len(pieces) = 2
    OBVIOUS
  <2> QED BY <2>1, FlattenUpto
<1>3. SE!FlattenSeq(pieces) = (Comma \o fs[1]) \o (Comma \o fs[2])
  BY <1>1, <1>2, Zenon
<1>4. (Comma \o fs[1]) \o (Comma \o fs[2]) = Comma \o Pair(fs[1], fs[2])
  BY <1>1, Regrouped
<1>5. SplitsTo(Pair(fs[1], fs[2]), <<fs[1]>> \o <<fs[2]>>)
  BY <1>1, SplitsTwo
<1>6. SplitsTo(Pair(fs[1], fs[2]), Parts(fs, 2))
  BY <1>5, PartsAre, Zenon
<1>7. SplitsTo(x \o (Comma \o Pair(fs[1], fs[2])), <<x>> \o Parts(fs, 2))
  BY <1>6, SplitsMore
<1> QED BY <1>3, <1>4, <1>7, Zenon

\* A CHO line is parsed as the access it names.
LEMMA ChoReads ==
  ASSUME NEW stem \in DOMAIN ChoKind, NEW flat \in Seq(Glyphs), NEW parts \in Seq(Seq(Glyphs)),
         SplitsTo(Ident(stem) \o flat, <<Ident(stem)>> \o parts), NEW index
  PROVE  LET line == (Ident("CHO") \o Ident(stem)) \o flat
         IN  Parse(line[1].s, Tail(line), Predefined, {}, index)
               = IF ChoKind[stem] = "CHO_RDAL" THEN Rdal(parts, Predefined)
                 ELSE Filled(ChoKind[stem], parts, Predefined, {}, index)
<1> DEFINE line == (Ident("CHO") \o Ident(stem)) \o flat
           access == Ident(stem)
           rest == access \o flat
           groups == <<access>> \o parts
<1>1. Id(<<"CHO">>) \in Glyphs /\ Id(<<stem>>) \in Glyphs
  <2>1. "CHO" \in Stems /\ stem \in Stems
    BY DEF Stems, Mnemonics
  <2> QED BY <2>1 DEF Glyphs
<1>2. /\ Ident("CHO") = <<Id(<<"CHO">>)>> /\ Ident("CHO") \in Seq(Glyphs)
      /\ access \in Seq(Glyphs) /\ Len(access) = 1 /\ access[1] = Id(<<stem>>)
  BY <1>1 DEF Ident
<1> HIDE DEF access
<1>3. rest \in Seq(Glyphs)
  BY <1>2, ConcatProperties
<1>4. line = <<Id(<<"CHO">>)>> \o rest
  <2>1. line = Ident("CHO") \o rest
    BY <1>2, ConcatAssociative DEF access
  <2> QED BY <1>2, <2>1, Zenon
<1> HIDE DEF rest, line
<1>5. line[1] = Id(<<"CHO">>) /\ Tail(line) = rest
  BY <1>1, <1>3, <1>4, HeadOff
<1>6. SplitCommas(rest) = groups
  BY SplitsAre DEF rest, access
<1>7. groups # <<>> /\ groups[1] = access /\ Tail(groups) = parts
  <2>1. access \in Seq(Glyphs)
    BY <1>2
  <2>2. groups \in Seq(Seq(Glyphs)) /\ groups[1] = access /\ Tail(groups) = parts
    BY <2>1, HeadOff
  <2>3. groups # <<>>
    <3>1. SplitsTo(rest, groups)
      BY DEF rest, access
    <3> QED BY <3>1 DEF SplitsTo
  <2> QED BY <2>2, <2>3
<1> HIDE DEF groups
<1>8. /\ Id(<<"CHO">>).s = <<"CHO">> /\ Id(<<stem>>).s = <<stem>> /\ Id(<<stem>>).t = "id"
      /\ Len(<<stem>>) = 1 /\ <<stem>>[1] = stem
      /\ Len(<<"CHO">>) = 1 /\ <<"CHO">>[1] = "CHO" /\ "CHO" \in Mnemonics
  BY DEF Id, Mnemonics
<1>9. IsCho(groups) /\ groups[1][1].s[1] = stem
  BY <1>2, <1>7, <1>8, Zenon DEF IsCho, IsId
<1>10. Parse(<<"CHO">>, rest, Predefined, {}, index)
         = IF ChoKind[stem] = "CHO_RDAL" THEN Rdal(parts, Predefined)
           ELSE Filled(ChoKind[stem], parts, Predefined, {}, index)
  BY <1>6, <1>7, <1>8, <1>9, Zenon DEF Parse
<1>11. Parse(line[1].s, Tail(line), Predefined, {}, index)
         = IF ChoKind[stem] = "CHO_RDAL" THEN Rdal(parts, Predefined)
           ELSE Filled(ChoKind[stem], parts, Predefined, {}, index)
  BY <1>5, <1>8, <1>10, Zenon
<1> QED BY <1>11 DEF line, access

\* The operands of a CHO line, each after a comma.
LEMMA ChoSpelled ==
  ASSUME NEW i, NEW form, NEW n \in 2 .. 3, Len(form) = n, NEW stem \in DOMAIN ChoKind,
         \A k \in 1 .. n : IsOperand(Printed(form[k], i.arg[FieldOf[form[k]]])),
         NEW fs, fs = [k \in 1 .. n |-> Printed(form[k], i.arg[FieldOf[form[k]]])]
  PROVE  LET flat == SE!FlattenSeq(Spelled(i, form, Ident("CHO") \o Ident(stem)))
         IN  /\ flat \in Seq(Glyphs) /\ Parts(fs, n) \in Seq(Seq(Glyphs)) /\ Len(Parts(fs, n)) = n
             /\ \A k \in 1 .. n : Parts(fs, n)[k] = fs[k]
             /\ SplitsTo(Ident(stem) \o flat, <<Ident(stem)>> \o Parts(fs, n))
<1> DEFINE head == Ident("CHO") \o Ident(stem)
           pieces == Spelled(i, form, head)
           flat == SE!FlattenSeq(pieces)
           x == Ident(stem)
<1>1. Id(<<"CHO">>) \in Glyphs /\ Id(<<stem>>) \in Glyphs
  <2>1. "CHO" \in Stems /\ stem \in Stems
    BY DEF Stems, Mnemonics
  <2> QED BY <2>1 DEF Glyphs
<1>2. IsOperand(x)
  BY <1>1, NotCommas, OneToken DEF Ident
<1>3. Len(head) = 2
  <2>1. /\ Ident("CHO") \in Seq(Glyphs) /\ Len(Ident("CHO")) = 1
        /\ Ident(stem) \in Seq(Glyphs) /\ Len(Ident(stem)) = 1
    BY <1>1 DEF Ident
  <2> QED BY <2>1, ConcatProperties
<1>4. pieces = [k \in 1 .. n |-> (IF k = 1 /\ Len(head) = 1 THEN <<>> ELSE Comma) \o fs[k]]
  BY Zenon DEF Spelled
<1>5. Len(pieces) = n /\ \A k \in 1 .. n : pieces[k] = Comma \o fs[k]
  <2> HIDE DEF pieces, head
  <2>1. Len(pieces) = n
    BY <1>4
  <2>2. \A k \in 1 .. n : (IF k = 1 /\ Len(head) = 1 THEN <<>> ELSE Comma) = Comma
    BY <1>3
  <2>3. \A k \in 1 .. n : pieces[k] = (IF k = 1 /\ Len(head) = 1 THEN <<>> ELSE Comma) \o fs[k]
    BY <1>4, Zenon
  <2> QED BY <2>1, <2>2, <2>3, Zenon
<1>6. \A k \in 1 .. n : IsOperand(fs[k])
  OBVIOUS
<1> HIDE DEF pieces, x
<1>7. SplitsTo(x \o flat, <<x>> \o Parts(fs, n))
  <2>1. CASE n = 2
    BY <1>2, <1>5, <1>6, <2>1, SplitRdalListed
  <2>2. CASE n = 3
    BY <1>2, <1>5, <1>6, <2>2, SplitChoListed
  <2> QED BY <2>1, <2>2
<1>8. \A k \in 1 .. n : fs[k] \in Seq(Glyphs)
  BY <1>6 DEF IsOperand
<1>9. Parts(fs, n) \in Seq(Seq(Glyphs)) /\ Len(Parts(fs, n)) = n
      /\ \A k \in 1 .. n : Parts(fs, n)[k] = fs[k]
  <2> DEFINE parts == Parts(fs, n)
  <2>1. parts = [k \in 1 .. n |-> fs[k]]
    BY DEF Parts
  <2> HIDE DEF parts
  <2>2. parts \in Seq(Seq(Glyphs)) /\ Len(parts) = n /\ \A k \in 1 .. n : parts[k] = fs[k]
    BY <1>8, <2>1
  <2> QED BY <2>2 DEF parts
<1>10. flat \in Seq(Glyphs)
  <2>1. \A k \in 1 .. n : pieces[k] \in Seq(Glyphs)
    <3> TAKE k \in 1 .. n
    <3>1. pieces[k] = Comma \o fs[k] /\ fs[k] \in Seq(Glyphs) /\ Comma \in Seq(Glyphs)
      BY <1>5, <1>8, CommaIs
    <3>2. Comma \o fs[k] \in Seq(Glyphs)
      BY <3>1, ConcatProperties
    <3> QED BY <3>1, <3>2, Zenon
  <2>2. CASE n = 2
    <3>1. flat = pieces[1] \o pieces[2]
      <4>1. 2 \in 1 .. 3 /\ Len(pieces) = 2
        BY <1>5, <2>2
      <4> QED BY <4>1, FlattenUpto
    <3>2. pieces[1] \in Seq(Glyphs) /\ pieces[2] \in Seq(Glyphs)
      BY <2>1, <2>2
    <3> QED BY <3>1, <3>2, ConcatProperties
  <2>3. CASE n = 3
    <3>1. flat = (pieces[1] \o pieces[2]) \o pieces[3]
      <4>1. 3 \in 1 .. 3 /\ Len(pieces) = 3
        BY <1>5, <2>3
      <4> QED BY <4>1, FlattenUpto
    <3>2. pieces[1] \in Seq(Glyphs) /\ pieces[2] \in Seq(Glyphs) /\ pieces[3] \in Seq(Glyphs)
      BY <2>1, <2>3
    <3>3. pieces[1] \o pieces[2] \in Seq(Glyphs)
      BY <3>2, ConcatProperties
    <3> QED BY <3>1, <3>2, <3>3, ConcatProperties
  <2> QED BY <2>2, <2>3
<1> QED BY <1>7, <1>9, <1>10 DEF pieces, x

\* A CHO RDA or CHO SOF line assembles to the instruction.
LEMMA ChoBack ==
  ASSUME OperatorsGiveNumbers, NEW i, NEW stem \in {"RDA", "SOF"},
         NEW mn, mn = ChoKind[stem], Shown(i) = mn, Fitted(mn, i), NEW index
  PROVE  LET line == Listed(i)
         IN  Parse(line[1].s, Tail(line), Predefined, {}, index) = Gives(i)
<1>1. /\ stem \in DOMAIN ChoKind /\ mn # "CHO_RDAL" /\ mn \in Fillers \cup {"RAW"}
      /\ mn \in {"CHO_RDA", "CHO_SOF"}
  <2>1. ChoKind["RDA"] = "CHO_RDA" /\ ChoKind["SOF"] = "CHO_SOF" /\ stem \in DOMAIN ChoKind
    BY DEF ChoKind
  <2>2. mn \in {"CHO_RDA", "CHO_SOF"}
    BY <2>1
  <2> QED BY <2>1, <2>2 DEF Fillers, Ops, ChoOps
<1> DEFINE form == Form(mn)
           fs == [k \in 1 .. 3 |-> Printed(form[k], i.arg[FieldOf[form[k]]])]
           flat == SE!FlattenSeq(Spelled(i, form, Ident("CHO") \o Ident(stem)))
           parts == Parts(fs, 3)
           line == Listed(i)
<1>2. line = (Ident("CHO") \o Ident(stem)) \o flat
  <2>1. ChoKind["RDA"] = "CHO_RDA" /\ ChoKind["SOF"] = "CHO_SOF"
    BY DEF ChoKind
  <2>2. CASE stem = "RDA"
    BY <2>1, <2>2, ListedAs, Zenon
  <2>3. CASE stem = "SOF"
    BY <2>1, <2>3, ListedAs, Zenon
  <2> QED BY <2>2, <2>3
<1>3. Len(form) = 3
  BY <1>1, FormShort
<1>4. \A k \in 1 .. 3 : IsOperand(Printed(form[k], i.arg[FieldOf[form[k]]]))
  BY <1>1, <1>3, FieldsPrint
<1>5. /\ flat \in Seq(Glyphs) /\ parts \in Seq(Seq(Glyphs)) /\ Len(parts) = 3
      /\ \A k \in 1 .. 3 : parts[k] = fs[k]
      /\ SplitsTo(Ident(stem) \o flat, <<Ident(stem)>> \o parts)
  <2>1. 3 \in 2 .. 3
    OBVIOUS
  <2> HIDE DEF form
  <2> QED BY <1>1, <1>3, <1>4, <2>1, ChoSpelled
<1>6. \A k \in 1 .. 3 : parts[k] = Printed(form[k], i.arg[FieldOf[form[k]]])
  BY <1>5, Zenon
<1> HIDE DEF form, fs, flat, parts, line
<1>7. Filled(mn, parts, Predefined, {}, index) = Gives(i)
  <2>1. Len(parts) = Len(Form(mn))
    BY <1>3, <1>5 DEF form
  <2>2. \A k \in 1 .. Len(Form(mn)) : parts[k] = Printed(Form(mn)[k], i.arg[FieldOf[Form(mn)[k]]])
    BY <1>3, <1>6 DEF form
  <2> QED BY <1>1, <2>1, <2>2, FilledBack
<1> DEFINE whole == (Ident("CHO") \o Ident(stem)) \o flat
<1>8. Parse(whole[1].s, Tail(whole), Predefined, {}, index)
        = IF ChoKind[stem] = "CHO_RDAL" THEN Rdal(parts, Predefined)
          ELSE Filled(ChoKind[stem], parts, Predefined, {}, index)
  BY <1>1, <1>5, ChoReads
<1>9. line = whole
  BY <1>2
<1> HIDE DEF whole
<1> QED BY <1>1, <1>7, <1>8, <1>9, Zenon DEF line

\* A CHO RDAL line assembles to the instruction.
LEMMA RdalBack ==
  ASSUME OperatorsGiveNumbers, NEW i, RdalOne(i), NEW index
  PROVE  LET line == Listed(i)
         IN  Parse(line[1].s, Tail(line), Predefined, {}, index) = Gives(i)
<1>1. PICK lfo \in 0 .. 3, flags \in 0 .. 63 :
        i = [op |-> "CHO_RDAL", arg |-> [lfo |-> lfo, flags |-> flags]]
  BY DEF RdalOne
<1> DEFINE arg == i.arg
<1>2. i.op = "CHO_RDAL" /\ arg["lfo"] = lfo /\ arg["flags"] = flags
  BY <1>1
<1>3. Shown(i) = "CHO_RDAL"
  BY <1>2 DEF Shown
<1> HIDE DEF arg
<1> DEFINE form == <<"lfo", "flags">>
           stem == "RDAL"
           fs == [k \in 1 .. 2 |-> Printed(form[k], arg[FieldOf[form[k]]])]
           flat == SE!FlattenSeq(Spelled(i, form, Ident("CHO") \o Ident(stem)))
           parts == Parts(fs, 2)
           line == Listed(i)
           whole == (Ident("CHO") \o Ident(stem)) \o flat
<1>4. line = whole
  BY <1>3, ListedAs, Zenon
<1>5. stem \in DOMAIN ChoKind /\ ChoKind[stem] = "CHO_RDAL"
  BY DEF ChoKind
<1>6. Len(form) = 2 /\ form[1] = "lfo" /\ form[2] = "flags"
      /\ FieldOf["lfo"] = "lfo" /\ FieldOf["flags"] = "flags"
  BY DEF FieldOf
<1>7. ReadsBack("lfo", lfo) /\ ReadsBack("flags", flags)
  <2>1. "lfo" \in AllKinds /\ "flags" \in AllKinds
    BY Kinds DEF AllKinds, FieldKinds
  <2>2. Printable("lfo", lfo) /\ Printable("flags", flags)
    <3>1. lfo \in UnsignedOf(2) /\ flags \in UnsignedOf(6) /\ lfo \in Int /\ flags \in Int
      BY Spans
    <3> QED BY <3>1 DEF Printable, InSpan
  <2> QED BY <2>1, <2>2, OperandBack
<1> HIDE DEF form
<1>8. fs[1] = Printed("lfo", lfo) /\ fs[2] = Printed("flags", flags)
  BY <1>2, <1>6
<1>9. \A k \in 1 .. 2 : IsOperand(Printed(form[k], arg[FieldOf[form[k]]]))
  <2>1. \A k \in 1 .. 2 : k = 1 \/ k = 2
    OBVIOUS
  <2>2. IsOperand(Printed("lfo", lfo)) /\ IsOperand(Printed("flags", flags))
    BY <1>7 DEF ReadsBack
  <2> QED BY <1>2, <1>6, <2>1, <2>2
<1>10. /\ flat \in Seq(Glyphs) /\ parts \in Seq(Seq(Glyphs)) /\ Len(parts) = 2
       /\ \A k \in 1 .. 2 : parts[k] = fs[k]
       /\ SplitsTo(Ident(stem) \o flat, <<Ident(stem)>> \o parts)
  <2>1. 2 \in 2 .. 3
    OBVIOUS
  <2> QED BY <1>5, <1>6, <1>9, <2>1, ChoSpelled DEF arg
<1>11. parts[1] = Printed("lfo", lfo) /\ parts[2] = Printed("flags", flags)
  BY <1>8, <1>10
<1> HIDE DEF fs, flat, parts, line
<1>12. Parse(whole[1].s, Tail(whole), Predefined, {}, index) = Rdal(parts, Predefined)
  <2>1. Parse(whole[1].s, Tail(whole), Predefined, {}, index)
          = IF ChoKind[stem] = "CHO_RDAL" THEN Rdal(parts, Predefined)
            ELSE Filled(ChoKind[stem], parts, Predefined, {}, index)
    BY <1>5, <1>10, ChoReads
  <2> QED BY <1>5, <2>1, Zenon
<1> DEFINE e == Eval(parts[1], Predefined)
           held == IntIn(e, 0 .. 3 \cup {8, 9})
<1>13. held = Gives(lfo)
  <2>1. Operand("lfo", parts[1], e, Predefined, {}, index) = Gives(lfo)
    BY <1>7, <1>11, Zenon DEF ReadsBack
  <2>2. Operand("lfo", parts[1], e, Predefined, {}, index) = Choice(e, ChoLfo)
    <3>1. ChoiceOf["lfo"] = ChoLfo
      BY DEF ChoiceOf
    <3> QED BY <3>1, Kinds DEF Operand
  <2> HIDE DEF e
  <2>3. DOMAIN ChoLfo = 0 .. 3 /\ \A k \in 0 .. 3 : ChoLfo[k] = k
    BY DEF ChoLfo
  <2>4. e.ok /\ ~e.v.real /\ e.v.n = lfo
    BY <2>1, <2>2, <2>3 DEF Choice, Gives, Fails
  <2> QED BY <2>4 DEF IntIn
<1>14. Flags(parts[2], Eval(parts[2], Predefined)) = Gives(flags)
  <2>1. Operand("flags", parts[2], Eval(parts[2], Predefined), Predefined, {}, index)
          = Gives(flags)
    BY <1>7, <1>11, Zenon DEF ReadsBack
  <2> QED BY <2>1, Kinds DEF Operand
<1>15. Rdal(parts, Predefined) = RdalOf(e, Gives(flags))
  BY <1>10, <1>14 DEF Rdal
<1> HIDE DEF e
<1>16. RdalOf(e, Gives(flags)) = Gives(i)
  <2>1. held.ok = TRUE /\ held.v = lfo /\ Gives(flags).ok = TRUE /\ Gives(flags).v = flags
    BY <1>13 DEF Gives
  <2>2. lfo % 8 = lfo /\ ~(lfo >= 8) /\ BitOr(flags, 0) = flags
    BY OperandAssumption DEF OperandAssumption
  <2>3. RdalOf(e, Gives(flags))
          = IF held.ok /\ Gives(flags).ok
            THEN Gives([op |-> "CHO_RDAL",
                        arg |-> [lfo |-> held.v % 8,
                                 flags |-> BitOr(Gives(flags).v,
                                                 IF held.v >= 8 THEN ChoFlags.COS ELSE 0)]])
            ELSE Fails
    BY DEF RdalOf
  <2> HIDE DEF held
  <2>4. RdalOf(e, Gives(flags))
          = Gives([op |-> "CHO_RDAL", arg |-> [lfo |-> lfo, flags |-> flags]])
    BY <2>1, <2>2, <2>3
  <2> QED BY <1>1, <2>4
<1> HIDE DEF whole
<1> QED BY <1>4, <1>12, <1>15, <1>16, Zenon DEF line

\* Every line parsed is an instruction of a mnemonic it can be made of, or a CHO RDAL.
LEMMA ParseFits ==
  ASSUME NEW name \in Seq(STRING), NEW operands, NEW symtab0, NEW labels0,
         NEW index \in Int, \A x \in labels0 : symtab0[x].n \in Int,
         Parse(name, operands, symtab0, labels0, index).ok
  PROVE  LET i == Parse(name, operands, symtab0, labels0, index).v
         IN  RdalOne(i) \/ \E mn \in Fillers \cup {"RAW"} : Fitted(mn, i)
<1> DEFINE r == Parse(name, operands, symtab0, labels0, index)
<1>1. r.ok /\ ParsesAs(r, symtab0, labels0, index)
  BY ParseShape
<1> HIDE DEF r
<1>2. ASSUME NEW groups, r = Rdal(groups, symtab0)
      PROVE  RdalOne(r.v)
  BY <1>1, <1>2, RdalFits
<1>3. ASSUME NEW mn \in Fillers \cup {"RAW"}, NEW groups,
             r = Filled(mn, groups, symtab0, labels0, index)
      PROVE  Fitted(mn, r.v)
  BY <1>1, <1>3, FilledFits
<1>4. RdalOne(r.v) \/ \E mn \in Fillers \cup {"RAW"} : Fitted(mn, r.v)
  BY <1>1, <1>2, <1>3 DEF ParsesAs
<1> QED BY <1>4 DEF r

\* The line of such an instruction assembles to it.
LEMMA LineBack ==
  ASSUME OperatorsGiveNumbers, NEW i, NEW index,
         RdalOne(i) \/ \E mn \in Fillers \cup {"RAW"} : Fitted(mn, i)
  PROVE  LET line == Listed(i)
         IN  Parse(line[1].s, Tail(line), Predefined, {}, index) = Gives(i)
<1>1. CASE RdalOne(i)
  BY <1>1, RdalBack
<1>2. ASSUME NEW mn \in Fillers \cup {"RAW"}, Fitted(mn, i)
      PROVE  LET line == Listed(i)
             IN  Parse(line[1].s, Tail(line), Predefined, {}, index) = Gives(i)
  <2> DEFINE shown == Shown(i)
  <2>1. shown \in Fillers \cup {"RAW"} /\ Fitted(shown, i)
    BY <1>2, ShownFits
  <2>2. CASE shown \in ChoOps
    <3>1. shown = "CHO_RDA" \/ shown = "CHO_SOF"
      BY <2>1, <2>2 DEF Fillers, Pseudo, ChoOps
    <3>2. ChoKind["RDA"] = "CHO_RDA" /\ ChoKind["SOF"] = "CHO_SOF"
      BY DEF ChoKind
    <3> QED BY <2>1, <3>1, <3>2, ChoBack
  <2>3. CASE shown \notin ChoOps
    BY <2>1, <2>3, PlainBack
  <2> QED BY <2>2, <2>3
<1> QED BY <1>1, <1>2

\* What the second pass has parsed reads back from what it prints as.
LEMMA PrintingFollows ==
  ASSUME OperatorsGiveNumbers, SkipInv, NamedInv PROVE PrintedReadsBack
<1> SUFFICES ASSUME NEW p \in 1 .. Len(code)
             PROVE  LET line == Listed(code[p])
                    IN  Parse(line[1].s, Tail(line), Predefined, {}, p - 1) = Gives(code[p])
  BY Zenon DEF PrintedReadsBack
<1> DEFINE body == BodyOf(pending[p])
           name == body[1].s
           i    == Parsed(p - 1)
<1>1. /\ Len(code) \in Nat /\ Len(pending) \in Nat /\ p \in 1 .. Len(pending)
      /\ pending[p] \in 1 .. Len(source) /\ p - 1 + 1 = p /\ p - 1 \in Int
      /\ \A x \in labels : symtab[x].n \in Int
  <2>1. /\ Len(code) \in Nat /\ Len(pending) \in Nat /\ p \in 1 .. Len(pending)
        /\ pending[p] \in 1 .. Len(source) /\ p - 1 + 1 = p /\ p - 1 \in Int
    BY DEF NamedInv, TypeInv, TypeOK
  <2>2. \A x \in labels : symtab[x] \in IntNum
    BY DEF NamedInv, TypeInv, TypeOK
  <2>3. \A x \in labels : symtab[x].n \in Int
    BY <2>2 DEF IntNum
  <2> QED BY <2>1, <2>3
<1>2. i.ok /\ code[p] = i.v
  BY DEF SkipInv
<1>3. i = Parse(name, Operands1(body), symtab, labels, p - 1)
  BY <1>1 DEF Parsed, BodyOf
<1>4. name \in Seq(STRING)
  <2>1. source \in Seq(Seq(Tokens))
    BY SourceType DEF NamedInv, TypeInv
  <2>2. body \in Seq(Tokens)
    BY <1>1, <2>1, BodyType DEF BodyOf
  <2>3. body # <<>> /\ IsId(body[1])
    BY <1>1 DEF NamedInv
  <2> HIDE DEF body
  <2>4. body[1] \in Tokens
    BY <2>2, <2>3
  <2> QED BY <2>3, <2>4, AsmAssumption DEF AsmAssumption
<1> HIDE DEF body, name
<1>5. RdalOne(i.v) \/ \E mn \in Fillers \cup {"RAW"} : Fitted(mn, i.v)
  BY <1>1, <1>2, <1>3, <1>4, ParseFits
<1> HIDE DEF i
<1>6. RdalOne(code[p]) \/ \E mn \in Fillers \cup {"RAW"} : Fitted(mn, code[p])
  BY <1>2, <1>5
<1> DEFINE instruction == code[p]
           index == p - 1
<1> HIDE DEF instruction, index
<1>7. RdalOne(instruction) \/ \E mn \in Fillers \cup {"RAW"} : Fitted(mn, instruction)
  BY <1>6 DEF instruction
<1>8. LET line == Listed(instruction)
      IN  Parse(line[1].s, Tail(line), Predefined, {}, index) = Gives(instruction)
  BY <1>7, LineBack
<1> QED BY <1>8 DEF instruction, index

\* Printing an assembled instruction and assembling the line it is printed as,
\* at the same place, gives the instruction again, as long as the operators
\* taken from outside give numbers.
THEOREM PrintingReadsBack ==
  ASSUME OperatorsGiveNumbers PROVE Spec => []PrintedReadsBack
<1> DEFINE I == SkipInv /\ NamedInv
<1>1. Init => I
  BY WordsInit
<1>2. I /\ [Next]_vars => I'
  BY SkipStep, NamedStep
<1>3. I => PrintedReadsBack
  BY PrintingFollows
<1> QED BY <1>1, <1>2, <1>3, PTL DEF Spec
=============================================================================
