------------------------------ MODULE JsObject ------------------------------
(***************************************************************************)
(* libs/js/object.c, desc.c and ref.c: the internal methods of an object,  *)
(* as functions of the heap.  A heap maps every object to its properties,  *)
(* by name; a name is a string, a tuple of code units.                     *)
(*                                                                         *)
(* What a function does is its outcome: whether an assertion stopped the   *)
(* machine, the heap it leaves and the value it returns.                   *)
(***************************************************************************)
EXTENDS Integers, Sequences, Functions

CONSTANTS
  Objects,
  Prototype,    \* the prototype of an object, or None
  Extensible,   \* the objects that are extensible
  None,         \* NULL where a value or a field of a descriptor could be
  NaN, Inf      \* numbers that are no integers

Undefined == [type |-> "undefined"]
Null == [type |-> "null"]
Boolean(b) == [type |-> "boolean", bool |-> b]
Number(n) == [type |-> "number", num |-> n]
String(s) == [type |-> "string", str |-> s]
Object(o) == [type |-> "object", obj |-> o]
Reference(base, name) == [type |-> "ref", base |-> base, name |-> name]

True == Boolean(TRUE)
False == Boolean(FALSE)

Word == [undefined |-> <<117, 110, 100, 101, 102, 105, 110, 101, 100>>,
         null |-> <<110, 117, 108, 108>>, true |-> <<116, 114, 117, 101>>,
         false |-> <<102, 97, 108, 115, 101>>, nan |-> <<78, 97, 78>>,
         inf |-> <<73, 110, 102, 105, 110, 105, 116, 121>>]

Done(h, v) == [halted |-> FALSE, heap |-> h, val |-> v]
Stop(h) == [halted |-> TRUE, heap |-> h, val |-> None]

\* Op goes on where the outcome r ends.
Then(r, Op(_, _)) == IF r.halted THEN r ELSE Op(r.heap, r.val)

-----------------------------------------------------------------------------
(* Property descriptors *)

NoDesc == [value |-> None, get |-> None, set |-> None,
           writable |-> None, enumerable |-> None, configurable |-> None]

ValueDesc(v) == [NoDesc EXCEPT !.value = v]
FullDesc(v) == [NoDesc EXCEPT !.value = v, !.writable = True, !.enumerable = True, !.configurable = True]
ReadonlyDesc(v) ==
  [NoDesc EXCEPT !.value = v, !.writable = False, !.enumerable = False, !.configurable = False]

\* NULL where a descriptor could be: there is no such property
Absent == <<>>

\* js_isAccessorDescriptor asks for get twice, and never for set.
IsAccessor(d) == d # Absent /\ d.get # None
IsData(d) == d # Absent /\ (d.value # None \/ d.writable # None)
IsGeneric(d) == d # Absent /\ ~IsAccessor(d) /\ ~IsData(d)

\* A new property: what is not given is absent or false.
Filled(d) ==
  LET default(f) == CASE f \in {"writable", "enumerable", "configurable"} -> False
                      [] f \in {"value", "get", "set"} -> Undefined
      fields == {"enumerable", "configurable"} \cup
                (IF IsGeneric(d) \/ IsData(d) THEN {"value", "writable"} ELSE {"get", "set"})
  IN  [f \in DOMAIN d |-> IF d[f] = None /\ f \in fields THEN default(f) ELSE d[f]]

Updated(cur, d) == [f \in DOMAIN cur |-> IF d[f] # None THEN d[f] ELSE cur[f]]

-----------------------------------------------------------------------------
(* The internal methods *)

GetOwn(h, o, p) == IF p \in DOMAIN h[o] THEN h[o][p] ELSE Absent

\* The prototype's own properties are looked at, and no farther.
GetProperty(h, o, p) ==
  IF GetOwn(h, o, p) # Absent \/ Prototype[o] = None THEN GetOwn(h, o, p)
  ELSE GetOwn(h, Prototype[o], p)

\* A getter is not supported.
Get(h, o, p) ==
  LET d == GetProperty(h, o, p)
  IN  IF d = Absent THEN Done(h, Undefined) ELSE IF IsData(d) THEN Done(h, d.value) ELSE Stop(h)

\* The test of an own accessor is the wrong way round.
CanPut(h, o, p) ==
  LET own == GetOwn(h, o, p)
      inherited == IF Prototype[o] = None THEN Absent ELSE GetProperty(h, Prototype[o], p)
  IN  IF own # Absent THEN IF IsAccessor(own) THEN own.set = None ELSE own.writable = True
      ELSE IF IsAccessor(inherited) THEN inherited.set # None
      ELSE /\ o \in Extensible
           /\ inherited # Absent => inherited.writable = True

\* Mutant: a property that is not there is made on any object.
RejectsOwn(o, cur, d) ==
  /\ cur # Absent /\ cur.configurable # True /\ d # NoDesc
  /\ d.configurable = True \/ d.enumerable # cur.enumerable

\* defineOwnProperty refuses: false, or an assertion if the caller throws.
Rejects(o, cur, d) ==
  \/ cur = Absent /\ o \notin Extensible
  \/ /\ cur # Absent /\ cur.configurable # True /\ d # NoDesc
     /\ \/ d.configurable = True
        \/ d.enumerable # cur.enumerable
        \/ ~IsGeneric(d) /\ IsData(cur) # IsData(d)
        \/ IsData(cur) /\ IsData(d) /\ cur.writable # True /\ d.writable = True

\* Mutant: what is read-only is not looked at.
AssertsNot(cur, d) == cur # Absent /\ ~IsGeneric(d) /\ d # NoDesc /\ IsData(cur) # IsData(d)

\* It asserts where SameValue, or a change of the property's kind, is missing.
Asserts(cur, d) ==
  /\ cur # Absent /\ ~IsGeneric(d) /\ d # NoDesc
  /\ \/ IsData(cur) # IsData(d)
     \/ cur.configurable # True /\ ~(IsData(cur) /\ cur.writable = True)

\* The properties ps with one of them given, or given anew
WithProperty(ps, p, d) == [q \in DOMAIN ps \cup {p} |-> IF q = p THEN d ELSE ps[q]]

DefineOwn(h, o, p, d, throw) ==
  LET cur == GetOwn(h, o, p)
      new == IF cur = Absent THEN Filled(d) ELSE Updated(cur, d)
  IN  IF Rejects(o, cur, d) THEN IF throw THEN Stop(h) ELSE Done(h, False)
      ELSE IF Asserts(cur, d) THEN Stop(h)
      ELSE Done([h EXCEPT ![o] = WithProperty(@, p, new)], True)

\* Mutant: an inherited property is written where it was found.
PutWhereFound(h, o, p, v, throw) ==
  LET owner == IF GetOwn(h, o, p) = Absent /\ GetProperty(h, o, p) # Absent THEN Prototype[o] ELSE o
  IN  IF ~CanPut(h, o, p) THEN IF throw THEN Stop(h) ELSE Done(h, None)
      ELSE IF IsData(GetOwn(h, owner, p)) THEN DefineOwn(h, owner, p, ValueDesc(v), throw)
      ELSE IF IsAccessor(GetProperty(h, o, p)) THEN Stop(h)
      ELSE DefineOwn(h, o, p, FullDesc(v), throw)

\* A setter is not supported.
Put(h, o, p, v, throw) ==
  IF ~CanPut(h, o, p) THEN IF throw THEN Stop(h) ELSE Done(h, None)
  ELSE IF IsData(GetOwn(h, o, p)) THEN DefineOwn(h, o, p, ValueDesc(v), throw)
  ELSE IF IsAccessor(GetProperty(h, o, p)) THEN Stop(h)
  ELSE DefineOwn(h, o, p, FullDesc(v), throw)

Delete(h, o, p, throw) ==
  LET own == GetOwn(h, o, p)
  IN  IF own = Absent THEN Done(h, True)
      ELSE IF own.configurable = True THEN Done([h EXCEPT ![o] = Restrict(@, DOMAIN @ \ {p})], True)
      ELSE IF throw THEN Stop(h) ELSE Done(h, False)

-----------------------------------------------------------------------------
(* References *)

\* js_getValue
GetValue(h, x) ==
  IF x.type # "ref" THEN Done(h, x)
  ELSE IF x.base.type = "object" THEN Get(h, x.base.obj, x.name)
  ELSE Stop(h)

\* Mutant: the property is defined, and whether it can be put is not asked.
PutValueDefines(h, x, v) ==
  IF x.type = "ref" /\ x.base.type = "object"
    THEN DefineOwn(h, x.base.obj, x.name, FullDesc(v), FALSE)
    ELSE Stop(h)

\* js_putValue; js_evalNode makes no strict references.
PutValue(h, x, v) ==
  IF x.type = "ref" /\ x.base.type = "object"
    THEN Put(h, x.base.obj, x.name, v, FALSE)
    ELSE Stop(h)
=============================================================================
