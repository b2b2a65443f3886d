----------------------------- MODULE JsCompare -----------------------------
(***************************************************************************)
(* The comparisons of libs/js/internal.c and what they convert by.  A      *)
(* number is an integer, NaN or an infinity.                               *)
(***************************************************************************)
EXTENDS JsObject

CONSTANT NegInf

Infinite == {Inf, NegInf}

ASSUME NumberAssumption ==
  /\ {NaN, Inf, NegInf, None} \cap Int = {}
  /\ NaN \notin Infinite /\ Inf # NegInf /\ None \notin Infinite \cup {NaN}

Less(a, b) ==
  a # b /\ (a = NegInf \/ b = Inf \/ (a # Inf /\ b # NegInf /\ a < b))

\* None where the code asserts
ToNumber(x) ==
  CASE x.type = "undefined" -> NaN
    [] x.type = "null" -> 0
    [] x.type = "boolean" -> IF x.bool THEN 1 ELSE 0
    [] x.type = "number" -> x.num
    [] x.type \in {"string", "object"} -> None

-----------------------------------------------------------------------------
(* Two values *)

\* unicode_utf16Cmp is negative: the first difference, or the end of s in t
Before(s, t) ==
  \E k \in 1..Len(t) :
    /\ Len(s) >= k - 1 /\ \A i \in 1..(k - 1) : s[i] = t[i]
    /\ Len(s) = k - 1 \/ s[k] < t[k]

\* Mutant: what cannot be compared is not less, and so is greater or equal.
AbsRelCompNaN(x, y) ==
  LET a == ToNumber(x) b == ToNumber(y)
  IN  IF x.type = "string" /\ y.type = "string" THEN Boolean(Before(x.str, y.str))
      ELSE IF None \in {a, b} THEN None
      ELSE Boolean(NaN \notin {a, b} /\ Less(a, b))

\* absRelComp: None where it asserts
AbsRelComp(x, y) ==
  LET a == ToNumber(x) b == ToNumber(y)
  IN  IF x.type = "string" /\ y.type = "string" THEN Boolean(Before(x.str, y.str))
      ELSE IF None \in {a, b} THEN None
      ELSE IF NaN \in {a, b} THEN Undefined
      ELSE Boolean(Less(a, b))

\* strictEqComp: None where it asserts, for two objects
StrictEqComp(x, y) ==
  IF x.type # y.type THEN False
  ELSE IF x.type = "object" THEN None
  ELSE Boolean(x = y /\ x # Number(NaN))

\* absEqComp
AbsEqComp(x, y) ==
  LET types == {x.type, y.type}
      number(a) == IF a.type = "boolean" THEN Number(ToNumber(a)) ELSE a
      nx == number(x) ny == number(y)
  IN  IF x.type = y.type THEN StrictEqComp(x, y)
      ELSE IF types = {"null", "undefined"} THEN True
      ELSE IF nx.type = ny.type THEN StrictEqComp(nx, ny)
      ELSE IF {nx.type, ny.type} \subseteq {"number", "string", "object"} THEN None
      ELSE False

Not1(b) == IF b = None THEN None ELSE Boolean(b # True)

Compared(op, x, y) ==
  CASE op = "<" -> LET r == AbsRelComp(x, y) IN IF r = Undefined THEN False ELSE r
    [] op = ">" -> LET r == AbsRelComp(y, x) IN IF r = Undefined THEN False ELSE r
    [] op = "<=" -> LET r == AbsRelComp(y, x) IN IF r = None THEN None ELSE Boolean(r = False)
    [] op = ">=" -> LET r == AbsRelComp(x, y) IN IF r = None THEN None ELSE Boolean(r = False)
    [] op = "==" -> AbsEqComp(y, x)
    [] op = "!=" -> Not1(AbsEqComp(y, x))
    [] op = "===" -> StrictEqComp(y, x)
    [] op = "!==" -> Not1(StrictEqComp(y, x))

Comparison == {"<", ">", "<=", ">=", "==", "!=", "===", "!=="}

-----------------------------------------------------------------------------
(* Properties *)

Holds(op, x, y) == Compared(op, x, y) = True

\* The comparisons of two values agree with each other: where they can be
\* compared exactly one is less or they are the same to "<=" and ">=", and NaN is
\* neither; "!=" is the negation of an "==" that is symmetric and that "==="
\* implies.
Consistent(x, y) ==
  /\ Compared("<", x, y) # None =>
       LET number == {x.type, y.type} # {"string"}
           less == Holds("<", x, y)
           more == Holds(">", x, y)
       IN  IF number /\ NaN \in {ToNumber(x), ToNumber(y)}
             THEN \A op \in {"<", ">", "<=", ">="} : ~Holds(op, x, y)
             ELSE /\ ~(less /\ more) /\ (more <=> Holds("<", y, x))
                  /\ (Holds("<=", x, y) <=> ~more) /\ (Holds(">=", x, y) <=> ~less)
                  /\ x.type = y.type => (Holds("===", x, y) <=> ~less /\ ~more)
  /\ Compared("==", x, y) # None =>
       /\ Holds("==", x, y) <=> Holds("==", y, x)
       /\ Holds("!=", x, y) <=> ~Holds("==", x, y)
       /\ Holds("!==", x, y) <=> ~Holds("===", x, y)
       /\ Holds("===", x, y) => Holds("==", x, y)
=============================================================================
