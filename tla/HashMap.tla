------------------------------ MODULE HashMap ------------------------------
(***************************************************************************)
(* libs/data-struct/hashmap.c: chained buckets, one step per iteration of  *)
(* a loop over a chain, and iterators that keep a pointer into a chain     *)
(* while the map is changed under them.                                    *)
(*                                                                         *)
(* A node is named by the order of its allocation.  Memory that was freed  *)
(* has no name any more: whoever reads through a pointer to it, reads what *)
(* malloc may have put there since, and nothing is known after ("wild").   *)
(***************************************************************************)
EXTENDS FiniteSetsExt, Integers

CONSTANTS
  Key,          \* keys that compare different
  Data,         \* the data pointers, NULL among them
  Hash,         \* hm->hash: what it returns for a key, as an unsigned int
  Size,         \* hm->size
  MaxNodes,     \* bound: nodes ever allocated; malloc stops the machine then
  Iter,         \* the iterators a caller may have open
  None          \* NULL

VARIABLES
  slot,         \* hm->node
  node,         \* the allocated nodes: name -> [hash, key, data, next]
  fresh,        \* the name of the next node
  req, ret,     \* the call being served, and the last answer
  pc,
  at,           \* the pointer n of the walk: None for &hm->node[bucket], a
                \* node for the address of its next; the node mn of dispose
  row,          \* the loop variable i of dispose
  it,           \* the iterators
  due, seen     \* history: for each iterator, the keys that have been in the
                \* map since it was made, and those it has delivered, except
                \* where they were removed after that

table == <<slot, node, fresh>>
walk == <<pc, at, row>>
history == <<due, seen>>
vars == <<table, req, ret, walk, it, history>>

Bucket == 0..(Size - 1)
Node == 1..MaxNodes

ASSUME TableAssumption ==
  /\ Size \in Nat \ {0} /\ MaxNodes \in Nat
  /\ Hash \in [Key -> Nat]
  /\ None \in Data /\ None \notin Nat /\ None \notin Key

BucketOf(k) == Hash[k] % Size

Closed == [on |-> FALSE, index |-> -1, next |-> None, first |-> None, second |-> None]

Map == INSTANCE MapStore WITH
  map <- [k \in {node[n].key : n \in DOMAIN node} |->
            node[CHOOSE n \in DOMAIN node : node[n].key = k].data]

\* NULL, where req has none
ASSUME RequestAssumption == None \notin Map!Request

-----------------------------------------------------------------------------
\* hashmap_new
Init ==
  /\ slot = [b \in Bucket |-> None]
  /\ node = [n \in {} |-> None] /\ fresh = 1
  /\ req = None /\ ret = None
  /\ pc = "idle" /\ at = None /\ row = 0
  /\ it = [i \in Iter |-> Closed]
  /\ due = [i \in Iter |-> {}] /\ seen = [i \in Iter |-> {}]

Call(r) ==
  /\ pc = "idle"
  /\ req' = r /\ ret' = None
  /\ pc' = "walk" /\ at' = None
  /\ UNCHANGED <<table, row, it, history>>

(* The walk that put, get and remove share *)

cur == IF at = None THEN slot[BucketOf(req.key)] ELSE node[at].next

\* *n = x, in the nodes f
PointTo(f, x) ==
  IF at = None
    THEN slot' = [slot EXCEPT ![BucketOf(req.key)] = x] /\ node' = f
    ELSE node' = [f EXCEPT ![at].next = x] /\ UNCHANGED slot

\* Mutant: keys are not compared where the hashes are equal.
MatchesHash == cur # None /\ node[cur].hash = Hash[req.key]

Matches == cur # None /\ node[cur].hash = Hash[req.key] /\ node[cur].key = req.key

Walking(op) == pc = "walk" /\ req.op = op

Return(x) ==
  /\ ret' = x
  /\ req' = None
  /\ pc' = "idle" /\ at' = None
  /\ UNCHANGED row

Advance ==
  /\ pc = "walk" /\ cur # None /\ ~Matches
  /\ at' = cur
  /\ UNCHANGED <<table, req, ret, pc, row, it, history>>

PutFound ==
  /\ Walking("put") /\ Matches
  /\ node' = [node EXCEPT ![cur].data = req.data]
  /\ Return(FALSE)
  /\ UNCHANGED <<slot, fresh, it, history>>

WithNode(next) ==
  [n \in DOMAIN node \cup {fresh} |->
     IF n = fresh
       THEN [hash |-> Hash[req.key], key |-> req.key, data |-> req.data, next |-> next]
       ELSE node[n]]

PutNew ==
  /\ Walking("put") /\ cur = None /\ fresh \in Node
  /\ PointTo(WithNode(None), fresh)
  /\ fresh' = fresh + 1
  /\ Return(TRUE)
  /\ UNCHANGED <<it, history>>

\* malloc does not return.
PutHalts ==
  /\ Walking("put") /\ cur = None /\ fresh \notin Node
  /\ pc' = "halted"
  /\ UNCHANGED <<table, req, ret, at, row, it, history>>

Get ==
  /\ Walking("get") /\ (Matches \/ cur = None)
  /\ Return(IF Matches THEN node[cur].data ELSE None)
  /\ UNCHANGED <<table, it, history>>

Without(n) == [m \in DOMAIN node \ {n} |-> node[m]]

\* Mutant: the walk's pointer is cleared, and with it the rest of the chain.
RemoveFoundCuts ==
  /\ Walking("remove") /\ Matches
  /\ PointTo(Without(cur), None)
  /\ due' = [i \in Iter |-> due[i] \ {req.key}]
  /\ seen' = [i \in Iter |-> seen[i] \ {req.key}]
  /\ Return(node[cur].data)
  /\ UNCHANGED <<fresh, it>>

\* Mutant: the node is freed where it stands.
RemoveFoundLinked ==
  /\ Walking("remove") /\ Matches
  /\ PointTo(Without(cur), cur)
  /\ due' = [i \in Iter |-> due[i] \ {req.key}]
  /\ seen' = [i \in Iter |-> seen[i] \ {req.key}]
  /\ Return(node[cur].data)
  /\ UNCHANGED <<fresh, it>>

RemoveFound ==
  /\ Walking("remove") /\ Matches
  /\ PointTo(Without(cur), node[cur].next)
  /\ due' = [i \in Iter |-> due[i] \ {req.key}]
  /\ seen' = [i \in Iter |-> seen[i] \ {req.key}]
  /\ Return(node[cur].data)
  /\ UNCHANGED <<fresh, it>>

RemoveNone ==
  /\ Walking("remove") /\ cur = None
  /\ Return(None)
  /\ UNCHANGED <<table, it, history>>

(* hashmap_iterator, hashmap_next *)

Iterator(i) ==
  /\ pc = "idle" /\ ~it[i].on
  /\ it' = [it EXCEPT ![i] = [Closed EXCEPT !.on = TRUE]]
  /\ due' = [due EXCEPT ![i] = {node[n].key : n \in DOMAIN node}]
  /\ seen' = [seen EXCEPT ![i] = {}]
  /\ UNCHANGED <<table, req, ret, walk>>

\* Mutant: the iterator keeps the node it delivers.
DeliverCurrent(i, n, b) ==
  /\ it' = [it EXCEPT ![i] = [on |-> TRUE, index |-> b, next |-> n,
                              first |-> node[n].key, second |-> node[n].data]]
  /\ seen' = [seen EXCEPT ![i] = @ \cup {node[n].key}]

\* The iterator delivers the node n, found in the bucket b.
Deliver(i, n, b) ==
  /\ it' = [it EXCEPT ![i] = [on |-> TRUE, index |-> b, next |-> node[n].next,
                              first |-> node[n].key, second |-> node[n].data]]
  /\ seen' = [seen EXCEPT ![i] = @ \cup {node[n].key}]

NextInChain(i) ==
  /\ pc = "idle" /\ it[i].on /\ it[i].next \in DOMAIN node
  /\ Deliver(i, it[i].next, it[i].index)
  /\ UNCHANGED <<table, req, ret, walk, due>>

\* Mutant: the search starts one bucket too late.
BucketsAheadShort(i) == {b \in Bucket : b > it[i].index + 1 /\ slot[b] # None}

BucketsAhead(i) == {b \in Bucket : b > it[i].index /\ slot[b] # None}

NextBucket(i) ==
  /\ pc = "idle" /\ it[i].on /\ it[i].next = None /\ BucketsAhead(i) # {}
  /\ LET b == Min(BucketsAhead(i)) IN Deliver(i, slot[b], b)
  /\ UNCHANGED <<table, req, ret, walk, due>>

\* The iterator is freed.
NextEnd(i) ==
  /\ pc = "idle" /\ it[i].on /\ it[i].next = None /\ BucketsAhead(i) = {}
  /\ it' = [it EXCEPT ![i] = Closed]
  /\ due' = [due EXCEPT ![i] = {}] /\ seen' = [seen EXCEPT ![i] = {}]
  /\ UNCHANGED <<table, req, ret, walk>>

\* The node the iterator kept was removed.
NextWild(i) ==
  /\ pc = "idle" /\ it[i].on /\ it[i].next # None /\ it[i].next \notin DOMAIN node
  /\ pc' = "wild"
  /\ UNCHANGED <<table, req, ret, at, row, it, history>>

(* hashmap_dispose *)

DisposeCall ==
  /\ pc = "idle"
  /\ pc' = "dispose" /\ row' = 0 /\ at' = slot[0]
  /\ ret' = None
  /\ UNCHANGED <<table, req, it, history>>

\* Mutant: the node is freed and the walk ends with it.
DisposeNodeOnce ==
  /\ pc = "dispose" /\ at # None
  /\ at' = None
  /\ node' = Without(at)
  /\ UNCHANGED <<slot, fresh, req, ret, pc, row, it, history>>

\* mn moves on before m is freed.
DisposeNode ==
  /\ pc = "dispose" /\ at # None
  /\ at' = node[at].next
  /\ node' = Without(at)
  /\ UNCHANGED <<slot, fresh, req, ret, pc, row, it, history>>

DisposeRow ==
  /\ pc = "dispose" /\ at = None /\ row < Size - 1
  /\ row' = row + 1 /\ at' = slot[row + 1]
  /\ UNCHANGED <<table, req, ret, pc, it, history>>

DisposeEnd ==
  /\ pc = "dispose" /\ at = None /\ row = Size - 1
  /\ pc' = "gone"
  /\ UNCHANGED <<table, req, ret, at, row, it, history>>

-----------------------------------------------------------------------------
WalkStep ==
  \/ Advance \/ PutFound \/ PutNew \/ PutHalts \/ Get \/ RemoveFound \/ RemoveNone
IterStep(i) ==
  Iterator(i) \/ NextInChain(i) \/ NextBucket(i) \/ NextEnd(i) \/ NextWild(i)
DisposeStep == DisposeNode \/ DisposeRow \/ DisposeEnd

Next ==
  \/ \E r \in Map!Request : Call(r)
  \/ WalkStep
  \/ \E i \in Iter : IterStep(i)
  \/ DisposeCall \/ DisposeStep

Spec == Init /\ [][Next]_vars

-----------------------------------------------------------------------------
(* Properties *)

InUse == pc \notin {"dispose", "gone"}

\* Every variable keeps its range, and in use every bucket points to a node.
TypeOK ==
  /\ slot \in [Bucket -> Node \cup {None}]
  /\ InUse => \A b \in Bucket : slot[b] \in DOMAIN node \cup {None}
  /\ DOMAIN node \subseteq Node
  /\ node \in [DOMAIN node -> [hash : Nat, key : Key, data : Data, next : Node \cup {None}]]
  /\ fresh \in 1..(MaxNodes + 1)
  /\ req \in Map!Request \cup {None}
  /\ ret \in Data \cup {TRUE, FALSE, None}
  /\ pc \in {"idle", "walk", "dispose", "gone", "halted", "wild"}
  /\ at \in Node \cup {None} /\ row \in Bucket
  /\ it \in [Iter -> [on : BOOLEAN, index : -1..(Size - 1), next : Node \cup {None},
                      first : Key \cup {None}, second : Data]]
  /\ due \in [Iter -> SUBSET Key] /\ seen \in [Iter -> SUBSET Key]

Members(b) == {n \in DOMAIN node : BucketOf(node[n].key) = b}

\* n is the first node of its bucket after the node m; None, when there is none
IsFirstAfter(n, b, m) ==
  IF n = None
    THEN \A x \in Members(b) : x <= m
    ELSE n \in Members(b) /\ n > m /\ \A x \in Members(b) : x <= m \/ n <= x

\* Outside of dispose, the nodes of a bucket are one chain, in the order of
\* their allocation: no node is lost, shared by two chains or on a cycle, and
\* no two have one key.
Chained ==
  InUse =>
    /\ \A b \in Bucket : IsFirstAfter(slot[b], b, 0)
    /\ \A n \in DOMAIN node : IsFirstAfter(node[n].next, BucketOf(node[n].key), n)
    /\ \A m, n \in DOMAIN node : node[m].key = node[n].key => m = n

\* hashmap_next delivers a key that is in the map, with its data, and none
\* that it delivered before and that was not removed since, whatever was put
\* and removed between two calls; and when it ends, it has delivered every key
\* that was in the map from hashmap_iterator on.
Iteration ==
  [][\A i \in Iter : it[i].on /\ it'[i] # it[i] =>
       IF it'[i].on
         THEN /\ it'[i].first \notin seen[i]
              /\ \E n \in DOMAIN node : node[n].key = it'[i].first /\ node[n].data = it'[i].second
         ELSE due[i] \subseteq seen[i]]_vars

\* Whatever is put and removed, an iterator loses the node it keeps only to
\* the removal of a key that it has not delivered: to remove the key that
\* hashmap_next just returned is safe.
LosesOnlyUndelivered ==
  [][\A i \in Iter : InUse' /\ it[i].next \in DOMAIN node \ DOMAIN node' =>
       node[it[i].next].key \notin seen[i]]_vars

\* hashmap_dispose frees every node, and each of them once.
NoneLeft ==
  /\ pc = "gone" => DOMAIN node = {}
  /\ pc = "dispose" => at = None \/ at \in DOMAIN node

\* The table is well formed at every step of every call.
Intact == TypeOK /\ Chained /\ NoneLeft

\* Refinement: until it is disposed of, the table is the map that MapStore
\* describes.
Implements ==
  Map!Init /\ [][InUse' => Map!Next]_(Map!vars)

=============================================================================
