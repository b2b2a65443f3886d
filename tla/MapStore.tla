------------------------------ MODULE MapStore ------------------------------
(***************************************************************************)
(* What libs/data-struct/hashmap.c promises its callers: a finite map that *)
(* put extends or overwrites, get reads and remove shrinks, with the       *)
(* answers the C functions return.                                         *)
(***************************************************************************)
CONSTANTS Key, Data, None

VARIABLES
  map,          \* the keys that are in, each with its data
  req,          \* the call being served, or None
  ret           \* the answer of the last call

vars == <<map, req, ret>>

Request ==
  [op : {"put"}, key : Key, data : Data] \cup [op : {"get", "remove"}, key : Key]

Maps == UNION {[S -> Data] : S \in SUBSET Key}

TypeOK ==
  /\ map \in Maps
  /\ req \in Request \cup {None}
  /\ ret \in Data \cup {TRUE, FALSE, None}

Init == map = [k \in {} |-> None] /\ req = None /\ ret = None

Call(r) ==
  /\ req = None
  /\ req' = r /\ ret' = None
  /\ UNCHANGED map

\* TRUE for a key that is new
Put ==
  /\ req # None /\ req.op = "put"
  /\ map' = [k \in DOMAIN map \cup {req.key} |->
               IF k = req.key THEN req.data ELSE map[k]]
  /\ ret' = (req.key \notin DOMAIN map)
  /\ req' = None

Lookup(k) == IF k \in DOMAIN map THEN map[k] ELSE None

Get ==
  /\ req # None /\ req.op = "get"
  /\ ret' = Lookup(req.key)
  /\ req' = None
  /\ UNCHANGED map

Remove ==
  /\ req # None /\ req.op = "remove"
  /\ ret' = Lookup(req.key)
  /\ map' = [k \in DOMAIN map \ {req.key} |-> map[k]]
  /\ req' = None

Next == (\E r \in Request : Call(r)) \/ Put \/ Get \/ Remove

Spec == Init /\ [][Next]_vars

=============================================================================
