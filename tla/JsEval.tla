------------------------------- MODULE JsEval -------------------------------
(***************************************************************************)
(* libs/js/internal.c and conversion.c: the evaluation of a tree.          *)
(*                                                                         *)
(* A node is <<"lit", value>>, <<"this">>, <<op, e>>, <<op, e, f>> or      *)
(* <<"?:", e, f, g>>; "." and "[]" are both MEMBER_NODE.  A number is an   *)
(* integer, NaN or an infinity: fractions and the sign of zero are left    *)
(* out, so that a quotient here is exact.                                  *)
(***************************************************************************)
EXTENDS JsCompare, Bitwise

CONSTANTS
  W,             \* bits of an int32_t
  Numeral        \* what js_toString makes of a number other than 0: it scales by
                 \* pow, which leaves the range of f2xm1, and the processor
                 \* leaves the result undefined

-----------------------------------------------------------------------------
(* Numbers *)

Sign(a) == IF a = Inf THEN 1 ELSE IF a = NegInf THEN -1
           ELSE IF a > 0 THEN 1 ELSE IF a < 0 THEN -1 ELSE 0
OfSign(s) == IF s = 0 THEN NaN ELSE IF s > 0 THEN Inf ELSE NegInf
Abs(a) == IF a < 0 THEN -a ELSE a

Minus(a) == IF a = NaN THEN NaN ELSE IF a \in Infinite THEN OfSign(-Sign(a)) ELSE -a

Plus(a, b) ==
  IF NaN \in {a, b} \/ {a, b} = Infinite THEN NaN
  ELSE IF a \in Infinite THEN a ELSE IF b \in Infinite THEN b ELSE a + b

Times(a, b) ==
  IF NaN \in {a, b} THEN NaN
  ELSE IF {a, b} \cap Infinite # {} THEN OfSign(Sign(a) * Sign(b)) ELSE a * b

Quotient(a, b) ==
  IF NaN \in {a, b} \/ {a, b} \subseteq Infinite THEN NaN
  ELSE IF b \in Infinite THEN 0
  ELSE IF b = 0 THEN OfSign(Sign(a))
  ELSE IF a \in Infinite THEN OfSign(Sign(a) * Sign(b))
  ELSE Sign(a) * Sign(b) * (Abs(a) \div Abs(b))

Remainder(a, b) ==
  IF NaN \in {a, b} \/ a \in Infinite \/ b = 0 THEN NaN
  ELSE IF b \in Infinite THEN a ELSE Sign(a) * (Abs(a) % Abs(b))

Unsigned(i) == i % (2 ^ W)
Wrapped(n) ==
  LET u == n % (2 ^ W) IN IF u >= 2 ^ (W - 1) THEN u - 2 ^ W ELSE u

\* js_toInt32: the sign is lost, for it is the pointer that is compared with 0,
\* and what does not fit is converted to the least number.
Int32(a) ==
  IF a = NaN \/ a \in Infinite THEN 0
  ELSE IF Abs(a) < 2 ^ (W - 1) THEN Abs(a) ELSE -(2 ^ (W - 1))

-----------------------------------------------------------------------------
(* Conversions; None where the code asserts *)

ToPrimitive(x) == IF x.type = "object" THEN None ELSE x

Truthy(x) ==
  CASE x.type \in {"undefined", "null"} -> FALSE
    [] x.type = "boolean" -> x.bool
    [] x.type = "number" -> x.num # 0 /\ x.num # NaN
    [] x.type = "string" -> x.str # <<>>
    [] x.type = "object" -> TRUE

ToBoolean(x) == Boolean(Truthy(x))

StringOf(x) ==
  CASE x.type = "undefined" -> Word.undefined
    [] x.type = "null" -> Word.null
    [] x.type = "boolean" -> IF x.bool THEN Word.true ELSE Word.false
    [] x.type = "string" -> x.str
    [] x.type = "object" -> None
    [] x.type = "number" ->
         IF x.num = NaN THEN Word.nan
         ELSE IF x.num = Inf THEN Word.inf
         ELSE IF x.num = NegInf THEN <<45>> \o Word.inf
         ELSE IF x.num = 0 THEN <<48>> ELSE Numeral[x.num]

\* An assertion in a conversion, or the value it makes
Given(h, c, v) == IF c = None THEN Stop(h) ELSE Done(h, v)

-----------------------------------------------------------------------------
(* Operators on two values *)

Arithmetic == {"*", "/", "%", "+", "-", "<<", ">>", ">>>", "&", "^", "|"}

Numeric(op, a, b) ==
  LET i == Int32(a) j == Int32(b) count == Unsigned(j) % W
  IN  CASE op = "*" -> Times(a, b)
        [] op = "/" -> Quotient(a, b)
        [] op = "%" -> Remainder(a, b)
        [] op = "+" -> Plus(a, b)
        [] op = "-" -> Plus(a, Minus(b))
        [] op = "<<" -> Wrapped(i * 2 ^ count)
        [] op = ">>" -> i \div 2 ^ count
        [] op = ">>>" -> Unsigned(i) \div 2 ^ count
        [] op = "&" -> Wrapped(Unsigned(i) & Unsigned(j))
        [] op = "^" -> Wrapped(Unsigned(i) ^^ Unsigned(j))
        [] op = "|" -> Wrapped(Unsigned(i) | Unsigned(j))

\* doBinaryOp: None where it asserts
BinaryOp(op, x, y) ==
  IF op = "+" /\ "string" \in {x.type, y.type}
    THEN IF "object" \in {x.type, y.type} THEN None ELSE String(StringOf(x) \o StringOf(y))
    ELSE IF None \in {ToNumber(x), ToNumber(y)} THEN None
    ELSE Number(Numeric(op, ToNumber(x), ToNumber(y)))

-----------------------------------------------------------------------------
(* js_evalNode *)

Compound == [op \in {"*=", "/=", "%=", "+=", "-=", "<<=", ">>=", ">>>=", "&=", "^=", "|="} |->
               CASE op = "*=" -> "*" [] op = "/=" -> "/" [] op = "%=" -> "%" [] op = "+=" -> "+"
                 [] op = "-=" -> "-" [] op = "<<=" -> "<<" [] op = ">>=" -> ">>"
                 [] op = ">>>=" -> ">>>" [] op = "&=" -> "&" [] op = "^=" -> "^" [] op = "|=" -> "|"]

Steps == [op \in {"++", "--", "post++", "post--"} |-> IF op \in {"++", "post++"} THEN 1 ELSE -1]

RECURSIVE Eval(_, _, _)

\* js_getValue(js_evalNode(...)), once and for two operands
Value(e, h, this) == Then(Eval(e, h, this), GetValue)
Values(e, f, h, this, Op(_, _, _)) ==
  Then(Value(e, h, this), LAMBDA h1, x : Then(Value(f, h1, this), LAMBDA h2, y : Op(h2, x, y)))

\* The reference lref gets v, and the node's value is r.
Stored(h, lref, v, r) == Then(PutValue(h, lref, v), LAMBDA h1, x : Done(h1, r))

\* Mutant: the right side is evaluated before the left one is read.
CompoundLate(e, h, this) ==
  Then(Eval(e[2], h, this), LAMBDA h1, lref :
    Then(Value(e[3], h1, this), LAMBDA h2, y :
      Then(GetValue(h2, lref), LAMBDA h3, x :
        LET r == BinaryOp(Compound[e[1]], x, y)
        IN  Then(Given(h3, r, r), LAMBDA h4, z : Stored(h4, lref, z, z)))))

CompoundAssign(e, h, this) ==
  Then(Eval(e[2], h, this), LAMBDA h1, lref :
    Then(GetValue(h1, lref), LAMBDA h2, x :
      Then(Value(e[3], h2, this), LAMBDA h3, y :
        LET r == BinaryOp(Compound[e[1]], x, y)
        IN  Then(Given(h3, r, r), LAMBDA h4, z : Stored(h4, lref, z, z)))))

\* POST_INC_NODE and its three like
IncDec(e, h, this) ==
  Then(Eval(e[2], h, this), LAMBDA h1, ref :
    Then(GetValue(h1, ref), LAMBDA h2, x :
      LET old == ToNumber(x) new == Number(Plus(old, Steps[e[1]]))
      IN  IF old = None THEN Stop(h2)
          ELSE Stored(h2, ref, new, IF e[1] \in {"++", "--"} THEN new ELSE Number(old))))

Unary(op, h, x) ==
  LET n == ToNumber(x)
  IN  CASE op = "VOID" -> Done(h, Undefined)
        [] op = "+" -> Given(h, n, Number(n))
        [] op = "-" -> IF n = None THEN Stop(h) ELSE Done(h, Number(Minus(n)))
        [] op = "~" -> IF n = None THEN Stop(h) ELSE Done(h, Number(-Int32(n) - 1))
        [] op = "!" -> Done(h, Boolean(~Truthy(x)))

\* MEMBER_NODE
MemberNode(e, h, this) ==
  Values(e[2], e[3], h, this, LAMBDA h1, base, p :
    IF base.type \in {"undefined", "null"} \/ StringOf(p) = None THEN Stop(h1)
    ELSE Done(h1, Reference(base, StringOf(p))))

Eval(e, h, this) ==
  CASE e[1] = "lit" -> Done(h, e[2])
    [] e[1] = "this" -> Done(h, Object(this))
    [] e[1] \in {"DELETE", "TYPEOF", "INSTANCEOF"} -> Stop(h)
    [] e[1] \in DOMAIN Steps -> IncDec(e, h, this)
    [] Len(e) = 2 /\ e[1] \in {"VOID", "+", "-", "~", "!"} ->
         Then(Value(e[2], h, this), LAMBDA h1, x : Unary(e[1], h1, x))
    [] e[1] \in {".", "[]"} -> MemberNode(e, h, this)
    [] Len(e) = 3 /\ e[1] \in Arithmetic ->
         Values(e[2], e[3], h, this, LAMBDA h1, x, y :
           Given(h1, BinaryOp(e[1], x, y), BinaryOp(e[1], x, y)))
    [] e[1] \in Comparison ->
         Values(e[2], e[3], h, this, LAMBDA h1, x, y :
           Given(h1, Compared(e[1], x, y), Compared(e[1], x, y)))
    [] e[1] \in {"&&", "||"} ->
         Then(Value(e[2], h, this), LAMBDA h1, x :
           IF Truthy(x) = (e[1] = "||") THEN Done(h1, x) ELSE Value(e[3], h1, this))
    [] e[1] = "=" ->
         Then(Eval(e[2], h, this), LAMBDA h1, lref :
           Then(Value(e[3], h1, this), LAMBDA h2, y : Stored(h2, lref, y, y)))
    [] e[1] \in DOMAIN Compound -> CompoundAssign(e, h, this)
    [] e[1] = "," -> Values(e[2], e[3], h, this, LAMBDA h1, x, y : Done(h1, y))
    [] e[1] = "?:" ->
         Then(Value(e[2], h, this), LAMBDA h1, x : Value(IF Truthy(x) THEN e[3] ELSE e[4], h1, this))

\* EXPR_STMT
Statement(e, h, this) == Value(e, h, this)
=============================================================================
