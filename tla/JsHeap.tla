------------------------------- MODULE JsHeap -------------------------------
(***************************************************************************)
(* The objects of a JavaScript host under all that C code does with them:  *)
(* it defines properties, as js_createGlobal does, puts and deletes them.  *)
(***************************************************************************)
EXTENDS JsObject

CONSTANTS
  Names,        \* the names of properties
  Descs,        \* the descriptors that C code passes
  Literals      \* the values that C code and programs write

VARIABLES
  heap,
  stopped       \* an assertion has failed

heapVars == <<heap, stopped>>

\* js_init makes the two Booleans, so an attribute is one of them or NULL, and
\* NULL is no value.  No caller gives a getter with a value.
ASSUME HostAssumption ==
  /\ Prototype \in [Objects -> Objects \cup {None}] /\ Extensible \subseteq Objects
  /\ None \notin {True, False, Undefined} \cup Literals \cup Objects
  /\ \A d \in Descs :
       /\ DOMAIN d = DOMAIN NoDesc
       /\ {d.writable, d.enumerable, d.configurable} \subseteq {None, True, False}
       /\ ~(IsAccessor(d) /\ IsData(d))

\* js_createGlobal
Global ==
  [p \in {Word.nan, Word.inf, Word.undefined} |->
     ReadonlyDesc(CASE p = Word.nan -> Number(NaN) [] p = Word.inf -> Number(Inf)
                    [] p = Word.undefined -> Undefined)]

\* An object that has no prototype is a global one; the others are new.
HostInit ==
  /\ heap = [o \in Objects |-> IF Prototype[o] = None THEN Global ELSE <<>>]
  /\ stopped = FALSE

\* The program goes on with an outcome.
Apply(r) ==
  /\ ~stopped
  /\ heap' = r.heap
  /\ stopped' = r.halted

Define(o, p, d, throw) == Apply(DefineOwn(heap, o, p, d, throw))
PutCall(o, p, v, throw) == Apply(Put(heap, o, p, v, throw))
DeleteCall(o, p, throw) == Apply(Delete(heap, o, p, throw))

HeapNext ==
  \/ \E o \in Objects, p \in Names, throw \in BOOLEAN, d \in Descs : Define(o, p, d, throw)
  \/ \E o \in Objects, p \in Names, throw \in BOOLEAN, v \in Literals : PutCall(o, p, v, throw)
  \/ \E o \in Objects, p \in Names, throw \in BOOLEAN : DeleteCall(o, p, throw)

HeapSpec == HostInit /\ [][HeapNext]_heapVars

-----------------------------------------------------------------------------
(* Properties *)

Flags(d) == <<d.value, d.writable, d.enumerable, d.configurable>>

\* A step leaves a property that can be neither written nor configured, and the
\* names of an object that cannot be extended.
FixedStay ==
  \A o \in Objects :
    /\ \A p \in DOMAIN heap[o] :
         heap[o][p].writable = False /\ heap[o][p].configurable = False =>
           p \in DOMAIN heap'[o] /\ Flags(heap'[o][p]) = Flags(heap[o][p])
    /\ o \notin Extensible => DOMAIN heap'[o] \subseteq DOMAIN heap[o]

\* Whatever is defined, put, deleted or evaluated, a property that can be
\* neither written nor configured keeps its value and its attributes, and an
\* object that cannot be extended gets no property (defineOwnProperty, whose
\* tests are spread over six places; canPut and delete).
Kept == [][FixedStay]_heapVars

\* The reasons there are against a put: of an own property its own attributes
\* (the definition that put makes of a value passes no property that cannot be
\* configured, written or not); of another one the object, or what it inherits.
Refusable(o, p) ==
  LET own == GetOwn(heap, o, p)
      inherited == IF Prototype[o] = None THEN Absent ELSE GetProperty(heap, Prototype[o], p)
  IN  IF own # Absent THEN own.writable # True \/ own.configurable # True
      ELSE o \notin Extensible \/ (inherited # Absent /\ inherited.writable # True)

\* What a put has done if the step is one
PutsTake ==
  \A o \in Objects, p \in Names, v \in Literals, throw \in BOOLEAN :
    PutCall(o, p, v, throw) /\ ~stopped' =>
      \/ heap' = heap /\ Refusable(o, p)
      \/ /\ p \in DOMAIN heap'[o] /\ heap'[o][p].value = v
         /\ \A x \in Objects :
              \A q \in (DOMAIN heap[x] \cup DOMAIN heap'[x]) \ (IF x = o THEN {p} ELSE {}) :
                GetOwn(heap', x, q) = GetOwn(heap, x, q)

\* A put that returns has either written its value into the object itself, and
\* nothing else, or nothing at all, and then for a reason that is the object's own
\* where it has the property (put, canPut and the definition that put makes of its
\* value).
PutTakes == [][PutsTake]_heapVars
=============================================================================
