------------------------------ MODULE MC_Host ------------------------------
(***************************************************************************)
(* A small host: the global object, an object whose prototype it is, and   *)
(* one behind that which cannot be extended; one name.                     *)
(***************************************************************************)
EXTENDS JsHost, TLC

CONSTANTS global, object, sealed

MCPrototype == (global :> None) @@ (object :> global) @@ (sealed :> object)

A == <<97>>
MCNames == {A}

\* The numerals of numbers need not differ.
MCNumeral == [n \in -20..20 |-> IF n < 0 THEN <<45, 49>> ELSE <<49>>]

MCLiterals == {Number(2), Undefined, String(A)}

MCDescs ==
  {ReadonlyDesc(Number(2)), [FullDesc(Number(2)) EXCEPT !.configurable = False],
   [NoDesc EXCEPT !.set = Undefined], [NoDesc EXCEPT !.get = Undefined],
   [NoDesc EXCEPT !.writable = False]}

Lit(x) == <<"lit", x>>
This(p) == <<".", <<"this">>, Lit(String(p))>>

MCPrograms ==
  {<<"=", This(A), Lit(Null)>>, <<"--", This(A)>>,
   <<"+=", This(A), <<"=", This(A), This(Word.nan)>> >>,
   <<"=", This(A), <<"<", This(A), Lit(Number(2))>> >>}
=============================================================================
