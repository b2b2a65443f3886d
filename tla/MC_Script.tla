----------------------------- MODULE MC_Script -----------------------------
(***************************************************************************)
(* All texts of at most three of a set of pieces, pairs of operators of    *)
(* all levels between operands, and a few longer statements.               *)
(***************************************************************************)
EXTENDS Derivation, FiniteSets, TLC

Words == (<<"t">> :> "THIS") @@ (<<"i">> :> "IN") @@ (<<"a", "i">> :> "VOID")
Strict == {<<"a", "x">>}

RECURSIVE Flat(_)
Flat(s) == IF s = <<>> THEN <<>> ELSE s[1] \o Flat(Tail(s))

Pieces ==
  {<<"t">>, <<"0", "x", "8">>, <<".", "t">>, <<"/">>, <<"+", "+">>, <<"-">>,
   <<"(">>, <<")">>, <<"[">>, <<"]">>, <<";">>, <<"}">>, <<"SP">>, <<"CR", "LF">>, <<"LS">>, <<"?">>, <<":">>,
   <<"/", "*", "LF", "*", "/">>, <<"/", "*", "*", "/">>, <<"/", "/", "SP">>, <<"=">>}

Short == UNION {[1..n -> Pieces] : n \in 1..3}

Op == {<<"*">>, <<"-">>, <<">", ">", ">">>, <<"<">>, <<"=", "=", "=">>, <<"!", "=">>, <<"&">>,
       <<"^">>, <<"|">>, <<"&", "&">>, <<"|", "|">>, <<"=">>, <<",">>, <<"<", "<", "=">>,
       <<"SP", "i", "SP">>}

Pairs == {<<<<"t">>, p, <<"0", "x", "a">>, q, <<"t", ";">>>> : p, q \in Op}

X == <<"t", ".", "i">>

Long ==
  {X \o o \o X \o p \o X \o e : o, p \in {<<"?">>, <<":">>, <<"=">>, <<",">>, <<"+", "+", "LF">>},
                          e \in {<<"LF", "+", "+">>, <<"+", "+", ";">>, <<":", "t", "=", "t", ";">>}}
  \cup
  {<<"-", "(">> \o X \o o \o X \o <<")">> \o q \o <<"t", "]">> \o r : 
     o \in {<<"-">>, <<"/">>, <<"+", "+", "/">>}, q \in {<<"[">>, <<"/", "t", "[">>},
     r \in {<<"/", "t">>, <<"}">>, <<"+", "+", "/", "t", "SP">>}}
  \cup
  {<<"a", "i", "SP", "SQ", "t", "DQ", "BS", "CR", "LF", "SQ", ";">>,
   <<"SQ", "BS", "LF", "SQ", "LF", "+", "+", "t">>,
   <<"DQ", "t", "BS", "CR", "DQ", "=", "=", "0", "x", "}">>,
   <<"DQ", "LF">>, <<"SQ", "BS", "t", "SQ">>, <<"0", "x", "1", "t">>, <<"0", "1">>, <<"8">>,
   <<"t", ".", "a", "x">>, <<"a", "x">>, <<"a", "M", "8">>, <<"t", "BS">>, <<"t", "/", "t", "/", "*">>,
   <<"t", "/", "/", "t", "LF", "+", "+">>, <<"t", "LF", ".", "t", "}">>,
   <<"t", "/", "/", "BS", "LF", "+", "+", "t">>, <<"t", "/", "*", "BS", "CR", "LF", "*", "/", "-", "t", ";">>,
   <<"SQ", "BS", "LF", "SQ", "/", "*", "SQ", "LF", "SQ", "*", "/", "/", "t", "}">>}

MCTexts == {Flat(s) : s \in Short \cup Pairs} \cup Long
=============================================================================
