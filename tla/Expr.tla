-------------------------------- MODULE Expr --------------------------------
(***************************************************************************)
(* Constant expressions of the assembler (src/src/asm.rs): numbers, tokens *)
(* and the precedence levels of eval.                                      *)
(*                                                                         *)
(* A line is the sequence of its tokens; how characters become tokens is   *)
(* left out.  A name is the sequence of its upper-cased stem and, if it    *)
(* has one, the suffix # or ^.  A finite real is the fraction it stands    *)
(* for, so an instance keeps to fractions an f64 holds exactly; past the   *)
(* largest f64 it is an infinity.                                          *)
(***************************************************************************)
EXTENDS Integers, Sequences

CONSTANTS
  IntMax,         \* i64::MAX                                       2^63 - 1
  RealMax,        \* the largest f64, a whole number                f64::MAX
  BitAnd(_, _),   \* & of two integers, in two's complement
  BitOr(_, _),    \* |
  BitXor(_, _),   \* ^
  PowF(_, _)      \* math::powf where it takes a logarithm, and of a zero,
                  \* whose sign is not kept, to a negative power

ASSUME ExprAssumption == IntMax \in Nat \ {0} /\ RealMax \in Nat /\ IntMax <= RealMax

-----------------------------------------------------------------------------
(* Numbers.                                                                *)

IntNum    == [real : {FALSE}, n : Int, d : {1}]
Finite    == [real : {TRUE}, n : Int, d : Nat \ {0}]
Nonfinite == [real : {TRUE}, n : {-1, 0, 1}, d : {0}]     \* -inf, NaN and inf
Num       == IntNum \cup Finite \cup Nonfinite

\* i64 arithmetic as a release build does it.
Wrap(v) == ((v + IntMax + 1) % (2 * (IntMax + 1))) - IntMax - 1

Size(v) == IF v < 0 THEN -v ELSE v
Sign(v) == IF v < 0 THEN -1 ELSE 1

IntOf(v) == [real |-> FALSE, n |-> Wrap(v), d |-> 1]

\* n / d: too large to be finite, or over 0, it is an infinity, and 0 / 0 is
\* NaN.
RealOf(n, d) ==
  IF d # 0 /\ Size(n) \div d <= RealMax THEN [real |-> TRUE, n |-> n, d |-> d]
  ELSE [real |-> TRUE, n |-> IF n = 0 THEN 0 ELSE Sign(n), d |-> 0]

NaN == RealOf(0, 0)

IsZero(a) == a.n = 0 /\ a.d # 0

Fails    == [ok |-> FALSE]
Gives(v) == [ok |-> TRUE, v |-> v]

AnyReal(a, b) == a.real \/ b.real

Negate(a) == IF a.real THEN RealOf(-a.n, a.d) ELSE IntOf(-a.n)
Add(a, b) == IF ~AnyReal(a, b) THEN IntOf(a.n + b.n)
             ELSE IF a.d = 0 /\ b.d = 0 THEN IF a = b THEN a ELSE NaN
             ELSE RealOf(a.n * b.d + b.n * a.d, a.d * b.d)
Minus(a, b) == Add(a, Negate(b))
Times(a, b) == IF AnyReal(a, b) THEN RealOf(a.n * b.n, a.d * b.d) ELSE IntOf(a.n * b.n)

\* A quotient that does not fit, which only that of i64::MIN and -1 is, is a
\* panic in every build: it gives no program either.
Div(a, b) ==
  LET q == Sign(b.n) * (a.n \div Size(b.n))
  IN  IF IsZero(b) THEN Fails
      ELSE IF AnyReal(a, b) \/ a.n % Size(b.n) # 0
           THEN Gives(RealOf(Sign(b.n) * a.n * b.d, a.d * Size(b.n)))
      ELSE IF q = Wrap(q) THEN Gives(IntOf(q)) ELSE Fails

PowerOf(x, e) == LET p[k \in 0 .. e] == IF k = 0 THEN 1 ELSE x * p[k - 1] IN p[e]

\* math::powf: repeated multiplication when the exponent is an integer, and
\* of other exponents of no positive base.
RealPower(a, b) ==
  LET e == Size(b.n) \div b.d
  IN  IF IsZero(b) \/ (a.n = a.d /\ a.d # 0) THEN RealOf(1, 1)
      ELSE IF b.d # 0 /\ b.n % b.d = 0 /\ e <= 1024
      THEN IF b.n > 0 THEN RealOf(PowerOf(a.n, e), PowerOf(a.d, e))
           ELSE IF IsZero(a) THEN PowF(a, b)
           ELSE RealOf(PowerOf(Sign(a.n), e) * PowerOf(a.d, e), PowerOf(Size(a.n), e))
      ELSE IF IsZero(a) /\ b.n > 0 THEN RealOf(0, 1)
      ELSE IF IsZero(a) \/ a.n < 0 THEN NaN ELSE PowF(a, b)

Pow(a, b) ==
  IF ~AnyReal(a, b) /\ b.n \in 0 .. 63
  THEN LET p == PowerOf(a.n, b.n)
       IN  IF p = Wrap(p) THEN Gives(IntOf(p)) ELSE Fails
  ELSE Gives(RealPower(a, b))

\* Shifts of 0 to 63 places, to the right with copies of the sign.
Shift(a, b, left) ==
  IF AnyReal(a, b) \/ b.n \notin 0 .. 63 THEN Fails
  ELSE Gives(IntOf(IF left THEN a.n * PowerOf(2, b.n) ELSE a.n \div PowerOf(2, b.n)))

Bitwise(a, b, r) == IF AnyReal(a, b) THEN Fails ELSE Gives(IntOf(r))

\* ~ inverts the 24 bits of a mask.
Complement(a) == IF a.real THEN Fails ELSE Gives(IntOf((-a.n - 1) % 16777216))

Apply(op, a, b) ==
  CASE op = "+" -> Gives(Add(a, b))       [] op = "-"  -> Gives(Minus(a, b))
    [] op = "*" -> Gives(Times(a, b))     [] op = "/"  -> Div(a, b)
    [] op = "<" -> Shift(a, b, TRUE)      [] op = ">"  -> Shift(a, b, FALSE)
    [] op = "**" -> Pow(a, b)
    [] op = "&" -> Bitwise(a, b, BitAnd(a.n, b.n))
    [] op = "|" -> Bitwise(a, b, BitOr(a.n, b.n))
    [] op = "^" -> Bitwise(a, b, BitXor(a.n, b.n))

Negated(op, a) == IF op = "~" THEN Complement(a) ELSE Gives(Negate(a))

-----------------------------------------------------------------------------
(* Tokens: an operator or a mark stands for itself.                        *)

Mark(t)  == [t |-> t]
Id(name) == [t |-> "id", s |-> name]
Lit(v)   == [t |-> "num", v |-> v]
Raw(n)   == [t |-> "raw", v |-> IntOf(n)]

IsId(token) == token.t = "id"

\* A slip for the mutation runs: the levels of | and & change places.
LevelsSwapped == << {"&"}, {"^"}, {"|"}, {"<", ">"}, {"+", "-"}, {"*", "/"} >>

\* Operators that group to the left, loosest level first.
Levels == << {"|"}, {"^"}, {"&"}, {"<", ">"}, {"+", "-"}, {"*", "/"} >>
PowerLevel == 7
UnaryLevel == 8

Read(v, p) == [ok |-> TRUE, v |-> v, p |-> p]
Then(r, p) == IF r.ok THEN Read(r.v, p) ELSE Fails

\* An operand that has not been read yet.
Start == [real |-> FALSE, n |-> 0, d |-> 0]

TokenAt(ts, p) == IF p <= Len(ts) THEN ts[p].t ELSE "end"

\* A level that groups to the left: acc is what it has gathered so far.
Gather(ts, Level, l, p, acc) ==
  IF acc = Start
  THEN LET first == Level[<<l + 1, p, Start>>]
       IN  IF first.ok THEN Level[<<l, first.p, first.v>>] ELSE Fails
  ELSE IF TokenAt(ts, p) \notin Levels[l] THEN Read(acc, p)
  ELSE LET rhs == Level[<<l + 1, p + 1, Start>>]
           out == Apply(TokenAt(ts, p), acc, rhs.v)
       IN  IF rhs.ok /\ out.ok THEN Level[<<l, rhs.p, out.v>>] ELSE Fails

\* ** groups to the right.
Power(ts, Level, p) ==
  LET base == Level[<<UnaryLevel, p, Start>>]
      exp  == Level[<<PowerLevel, base.p + 1, Start>>]
  IN  IF ~base.ok \/ TokenAt(ts, base.p) # "**" THEN base
      ELSE IF exp.ok THEN Then(Apply("**", base.v, exp.v), exp.p) ELSE Fails

Unary(ts, symtab, Level, p) ==
  LET t     == TokenAt(ts, p)
      arg   == Level[<<UnaryLevel, p + 1, Start>>]
      inner == Level[<<1, p + 1, Start>>]
  IN  CASE t \in {"-", "~"} -> IF arg.ok THEN Then(Negated(t, arg.v), arg.p) ELSE Fails
        [] t = "(" -> IF inner.ok /\ TokenAt(ts, inner.p) = ")"
                      THEN Read(inner.v, inner.p + 1) ELSE Fails
        [] t \in {"num", "raw"} -> Read(ts[p].v, p + 1)
        [] t = "id" /\ ts[p].s \in DOMAIN symtab -> Read(symtab[ts[p].s], p + 1)
        [] OTHER -> Fails

\* What is read at a level, a position and a value gathered, and how far.
Places(ts) == (1 .. UnaryLevel) \X (1 .. Len(ts) + 1) \X (Num \cup {Start})

Reading(ts, symtab, Level, l, p, acc) ==
  CASE l < PowerLevel -> Gather(ts, Level, l, p, acc)
    [] l = PowerLevel -> Power(ts, Level, p)
    [] l = UnaryLevel -> Unary(ts, symtab, Level, p)

\* The value of all tokens ts.
Eval(ts, symtab) ==
  LET Level[at \in Places(ts)] == Reading(ts, symtab, Level, at[1], at[2], at[3])
      whole == Level[<<1, 1, Start>>]
  IN  IF whole.ok /\ whole.p = Len(ts) + 1 THEN Gives(whole.v) ELSE Fails
=============================================================================
