------------------------------- MODULE JsHost -------------------------------
(***************************************************************************)
(* The objects of a JavaScript host under all that works on them: C code   *)
(* that defines properties, as js_createGlobal does, and statements, each  *)
(* evaluated in a context whose "this" is one of the objects.              *)
(***************************************************************************)
EXTENDS JsEval, JsHeap

CONSTANTS
  Programs,     \* the trees of statements
  MaxNumber,    \* bound: the numbers that properties come to hold
  MaxLength     \* bound: the length of the strings they come to hold

ASSUME BoundAssumption == W \in Nat \ {0} /\ MaxNumber \in Nat /\ MaxLength \in Nat

\* The values that properties hold
HeldBy(h) == (UNION {{h[o][p].value : p \in DOMAIN h[o]} : o \in Objects}) \ {None}

InReach(v) ==
  /\ v.type = "number" /\ v.num \notin Infinite \cup {NaN} => Abs(v.num) <= MaxNumber
  /\ v.type = "string" => Len(v.str) <= MaxLength

InBounds == \A v \in HeldBy(heap) : InReach(v)

Run(e, this) == Apply(Statement(e, heap, this))

HostNext ==
  /\ \/ HeapNext
     \/ \E e \in Programs, this \in Objects : Run(e, this)
  /\ InBounds'

HostSpec == HostInit /\ [][HostNext]_heapVars

-----------------------------------------------------------------------------
(* Properties *)

\* The heaps that one put leaves
PutsFrom(h, values) == {Put(h, o, p, v, FALSE).heap : o \in Objects, p \in Names, v \in values}

\* A statement changes the objects as a put would, or one after another (two at
\* most, here), and in no other way: no assignment, increment or compound
\* assignment passes canPut by (js_evalNode, js_putValue).
OnlyPuts ==
  \A e \in Programs, this \in Objects :
    LET g == Statement(e, heap, this).heap
        once == PutsFrom(heap, Literals \cup HeldBy(heap) \cup HeldBy(g))
    IN  \/ g \in {heap} \cup once
        \/ \E h \in once : g \in PutsFrom(h, HeldBy(g))

\* The values in the hands of programs
Held == Literals \cup HeldBy(heap)

\* The comparisons of two values agree with each other, for all the values that
\* properties have come to hold, the Booleans that comparisons come to among
\* them (absRelComp with its three results and two orders of evaluation,
\* absEqComp, strictEqComp).
ByTheBook == \A x, y \in Held : Consistent(x, y)

\* A compound assignment does what the plain one with the operator does, even
\* when its right side writes what its left side reads, and an increment does
\* what adding one does to all but strings (doOp, POST_INC_NODE and the three
\* like it).
CompoundAsPlain ==
  \A o \in Objects, p \in Names, v \in Literals :
    LET place == <<"[]", <<"this">>, <<"lit", String(p)>> >>
        result(e) == LET r == Statement(e, heap, o)
                     IN  IF r.halted THEN None ELSE <<r.heap, r.val>>
        old == result(place)
    IN  /\ \A op \in DOMAIN Compound :
             \A right \in {<<"lit", v>>, <<"=", place, <<"lit", v>> >>} :
               result(<<op, place, right>>) = result(<<"=", place, <<Compound[op], place, right>> >>)
        /\ old # None /\ old[2].type # "string" =>
             \A op \in {"+", "-"} :
               LET plain == result(<<IF op = "+" THEN "+=" ELSE "-=", place, <<"lit", Number(1)>> >>)
                   post == result(<<IF op = "+" THEN "post++" ELSE "post--", place>>)
               IN  /\ result(<<IF op = "+" THEN "++" ELSE "--", place>>) = plain
                   /\ (plain = None) = (post = None)
                   /\ plain # None => post = <<plain[1], Number(ToNumber(old[2]))>>

\* What a statement writes is what plain puts write, and a compound assignment or
\* an increment writes and returns what the plain one does.
AsPlain == ~stopped => OnlyPuts /\ CompoundAsPlain
=============================================================================
