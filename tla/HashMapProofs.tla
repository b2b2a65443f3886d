--------------------------- MODULE HashMapProofs ---------------------------
(***************************************************************************)
(* Theorems about HashMap: its chains, what it implements and what its     *)
(* iterators deliver, for every set of keys, every hash and any number of  *)
(* buckets, nodes and iterators.                                           *)
(***************************************************************************)
EXTENDS HashMap, Arithmetic, TLAPS

\* Where the walk stands in its chain
Mark == IF at = None THEN 0 ELSE at

\* The chains, from the buckets of the row r on
Ordered(r) ==
  /\ \A b \in Bucket : b >= r => IsFirstAfter(slot[b], b, 0)
  /\ \A n \in DOMAIN node : IsFirstAfter(node[n].next, BucketOf(node[n].key), n)

\* n is the first after m of the nodes M, or None.
FirstOf(n, M, m) ==
  IF n = None THEN \A x \in M : x <= m ELSE n \in M /\ n > m /\ \A x \in M : x <= m \/ n <= x

Distinct == \A m, n \in DOMAIN node : node[m].key = node[n].key => m = n

\* A walk has passed the nodes up to at, and none of them had its key.
Control ==
  /\ pc = "idle" => req = None
  /\ pc = "walk" =>
       /\ req \in Map!Request
       /\ at # None => at \in Members(BucketOf(req.key))
       /\ \A n \in Members(BucketOf(req.key)) : n <= Mark => node[n].key # req.key

\* What a node keeps
Filled == \A n \in DOMAIN node : n < fresh /\ node[n].hash = Hash[node[n].key]

\* Of dispose, the rows before row are freed, and in the row at hand the nodes
\* up to at.
Disposing ==
  /\ pc = "gone" => DOMAIN node = {}
  /\ pc = "dispose" =>
       /\ IsFirstAfter(at, row, 0)
       /\ \A n \in DOMAIN node : BucketOf(node[n].key) >= row
       /\ Ordered(row + 1)

Keys == {node[n].key : n \in DOMAIN node}

\* The nodes that an iterator has before it
Ahead(i) ==
  {n \in DOMAIN node :
     \/ BucketOf(node[n].key) > it[i].index
     \/ BucketOf(node[n].key) = it[i].index /\ it[i].next # None /\ n >= it[i].next}

\* An iterator has delivered nothing of what is before it, and of what is
\* behind it all that was there from its beginning on; unless the node it
\* keeps was removed.
Delivering(i) ==
  /\ it[i].next # None => it[i].next < fresh
  /\ it[i].next \in DOMAIN node => BucketOf(node[it[i].next].key) = it[i].index
  /\ due[i] \subseteq Keys
  /\ it[i].next \in DOMAIN node \cup {None} =>
       \A n \in DOMAIN node :
         /\ n \in Ahead(i) => node[n].key \notin seen[i]
         /\ n \notin Ahead(i) /\ node[n].key \in due[i] => node[n].key \in seen[i]

Iterators ==
  InUse => \A i \in Iter :
    /\ seen[i] \subseteq Keys
    /\ IF it[i].on THEN Delivering(i) ELSE it[i] = Closed

HInv == TypeOK /\ Chained /\ Control /\ Filled /\ Disposing /\ Iterators

-----------------------------------------------------------------------------
(* What the invariant says of a node, and of the walk                      *)

LEMMA Buckets == Size \in Nat /\ \A k \in Key : Hash[k] \in Nat /\ BucketOf(k) \in Bucket
<1> SUFFICES ASSUME NEW k \in Key PROVE Size \in Nat /\ Hash[k] \in Nat /\ BucketOf(k) \in Bucket
  BY TableAssumption
<1>1. Hash[k] \in Nat /\ Size \in Nat \ {0}
  BY TableAssumption
<1> QED
  BY <1>1, DivMod DEF BucketOf, Bucket

LEMMA Requests ==
  ASSUME NEW r \in Map!Request
  PROVE  /\ r.key \in Key /\ r.op \in {"put", "get", "remove"} /\ (r.op = "put" => r.data \in Data)
BY DEF Map!Request

LEMMA NodeFields ==
  ASSUME TypeOK, NEW n \in DOMAIN node
  PROVE  /\ n \in Nat /\ n > 0 /\ n # None
         /\ node[n].key \in Key /\ node[n].hash \in Nat /\ node[n].data \in Data
         /\ node[n].next \in Node \cup {None}
         /\ BucketOf(node[n].key) \in Bucket
<1>1. n \in Node /\ node[n] \in [hash : Nat, key : Key, data : Data, next : Node \cup {None}]
  BY DEF TypeOK
<1> QED
  BY <1>1, Buckets, TableAssumption DEF Node

LEMMA ChainedIs == Chained <=> (InUse => Ordered(0) /\ Distinct)
BY DEF Chained, Ordered, Distinct, Bucket

LEMMA Walk ==
  ASSUME HInv, pc = "walk"
  PROVE  /\ req \in Map!Request /\ req.key \in Key /\ BucketOf(req.key) \in Bucket
         /\ Ordered(0) /\ Distinct
         /\ Mark \in Nat /\ (at # None => at \in Members(BucketOf(req.key)) /\ at > 0)
         /\ IsFirstAfter(cur, BucketOf(req.key), Mark)
         /\ cur # None => cur \in DOMAIN node /\ cur \in Nat /\ cur > Mark
                          /\ cur \in Members(BucketOf(req.key))
<1> DEFINE b == BucketOf(req.key)
<1>1. req \in Map!Request /\ req.key \in Key /\ b \in Bucket
  BY Requests, Buckets DEF HInv, Control
<1>2. Ordered(0) /\ Distinct
  BY ChainedIs DEF HInv, InUse
<1>3. at # None => at \in Members(b) /\ at \in DOMAIN node /\ at \in Nat /\ at > 0
  BY NodeFields DEF HInv, Control, Members
<1>4. Mark \in Nat
  BY <1>3 DEF Mark
<1>5. IsFirstAfter(cur, b, Mark)
  BY <1>1, <1>2, <1>3 DEF Ordered, cur, Mark, Members, Bucket
<1>6. cur # None => cur \in Members(b) /\ cur > Mark
  BY <1>5 DEF IsFirstAfter
<1>7. cur # None => cur \in DOMAIN node /\ cur \in Nat
  BY <1>6, NodeFields DEF HInv, Members
<1> QED
  BY <1>1, <1>2, <1>3, <1>4, <1>5, <1>6, <1>7

\* The walk comes to the end of its chain only for a key that is not there.
LEMMA Absent ==
  ASSUME HInv, pc = "walk", cur = None
  PROVE  /\ req.key \notin Keys
         /\ \A n \in Members(BucketOf(req.key)) : n <= Mark
<1>1. \A n \in Members(BucketOf(req.key)) : n <= Mark
  BY Walk DEF IsFirstAfter
<1>2. \A n \in DOMAIN node : node[n].key = req.key => n \in Members(BucketOf(req.key))
  BY DEF Members
<1> QED
  BY <1>1, <1>2 DEF HInv, Control, Keys

-----------------------------------------------------------------------------
(* Chains under a change                                                   *)

\* Chains that nothing touches
LEMMA SameChains ==
  ASSUME DOMAIN node' = DOMAIN node, slot' = slot,
         \A n \in DOMAIN node : node'[n].key = node[n].key /\ node'[n].next = node[n].next
  PROVE  /\ \A b : Members(b)' = Members(b)
         /\ \A n, b, m : IsFirstAfter(n, b, m)' <=> IsFirstAfter(n, b, m)
         /\ Keys' = Keys /\ (Distinct' <=> Distinct) /\ (Ordered(0)' <=> Ordered(0))
<1>1. \A b : Members(b)' = Members(b)
  BY DEF Members, BucketOf
<1>2. \A n, b, m : IsFirstAfter(n, b, m)' <=> IsFirstAfter(n, b, m)
  BY <1>1 DEF IsFirstAfter
<1>3. Keys' = Keys /\ (Distinct' <=> Distinct)
  BY DEF Keys, Distinct
<1>4. Ordered(0)' <=> Ordered(0)
  BY <1>2 DEF Ordered, BucketOf
<1> QED
  BY <1>1, <1>2, <1>3, <1>4

\* What the next states say of chains, with their parts named
LEMMA OrderedNext ==
  ASSUME NEW r, \A c \in Bucket : c >= r => FirstOf(slot'[c], Members(c)', 0),
         \A n \in DOMAIN node' : \A c :
           c = BucketOf(node'[n].key) => FirstOf(node'[n].next, Members(c)', n)
  PROVE  Ordered(r)'
<1>1. \A n, b, m : IsFirstAfter(n, b, m)' <=> FirstOf(n, Members(b)', m)
  BY DEF IsFirstAfter, FirstOf
<1>2. Ordered(r)' <=> /\ \A b \in Bucket : b >= r => IsFirstAfter(slot[b], b, 0)'
                      /\ \A n \in DOMAIN node' : IsFirstAfter(node[n].next, BucketOf(node[n].key), n)'
  BY DEF Ordered
<1>3. \A b \in Bucket : IsFirstAfter(slot[b], b, 0)' <=> FirstOf(slot'[b], Members(b)', 0)
  BY DEF IsFirstAfter, FirstOf
<1>4. \A n \in DOMAIN node' : IsFirstAfter(node[n].next, BucketOf(node[n].key), n)'
  <2> SUFFICES ASSUME NEW n \in DOMAIN node'
               PROVE  IsFirstAfter(node[n].next, BucketOf(node[n].key), n)'
    OBVIOUS
  <2>1. PICK c : c = BucketOf(node'[n].key)
    OBVIOUS
  <2>2. Members(c)' = {x \in DOMAIN node' : BucketOf(node'[x].key) = c}
    BY DEF Members
  <2>3. FirstOf(node'[n].next, Members(c)', n)
    BY <2>1
  <2> QED
    BY <2>1, <2>2, <2>3 DEF IsFirstAfter, FirstOf, Members, BucketOf
<1> QED
  BY <1>2, <1>3, <1>4

LEMMA OrderedIs ==
  ASSUME NEW r, Ordered(r)
  PROVE  /\ \A c \in Bucket : c >= r => FirstOf(slot[c], Members(c), 0)
         /\ r = 0 => \A c \in Bucket : FirstOf(slot[c], Members(c), 0)
         /\ \A n \in DOMAIN node : FirstOf(node[n].next, Members(BucketOf(node[n].key)), n)
BY DEF Ordered, IsFirstAfter, FirstOf, Bucket

\* *n = x
LEMMA Pointed ==
  ASSUME HInv, NEW f, NEW x, PointTo(f, x),
         at # None => at \in DOMAIN node /\ at \in DOMAIN f /\ f[at] = node[at]
  PROVE  /\ DOMAIN node' = DOMAIN f
         /\ \A n \in DOMAIN f : /\ node'[n].key = f[n].key /\ node'[n].hash = f[n].hash
                                /\ node'[n].data = f[n].data
                                /\ n # at => node'[n] = f[n] /\ node'[n].next = f[n].next
         /\ at # None => node'[at] = [node[at] EXCEPT !.next = x] /\ node'[at].next = x /\ slot' = slot
         /\ at = None => node' = f /\ slot' = [slot EXCEPT ![BucketOf(req.key)] = x]
<1>1. CASE at = None
  BY <1>1 DEF PointTo
<1>2. CASE at # None
  <2>1. node' = [f EXCEPT ![at].next = x] /\ slot' = slot
    BY <1>2 DEF PointTo
  <2>2. node[at] \in [hash : Nat, key : Key, data : Data, next : Node \cup {None}]
    BY <1>2 DEF HInv, TypeOK
  <2> QED
    BY <1>2, <2>1, <2>2
<1> QED
  BY <1>1, <1>2

\* A new node at the end of the chain that was walked
LEMMA ChainsWithNew ==
  ASSUME HInv, PutNew
  PROVE  Ordered(0)' /\ Distinct' /\ Keys' = Keys \cup {req.key}
<1>0. PICK b : b = BucketOf(req.key)
  OBVIOUS
<1>1. pc = "walk" /\ cur = None /\ fresh \in Nat /\ req.key \in Key
  BY Walk DEF PutNew, Walking, Node
<1>2. /\ DOMAIN node' = DOMAIN node \cup {fresh}
      /\ \A n \in DOMAIN node : /\ node'[n].key = node[n].key
                                /\ n # at => node'[n].next = node[n].next
      /\ node'[fresh].key = req.key /\ node'[fresh].next = None
      /\ at # None => at \in DOMAIN node /\ node'[at].next = fresh /\ slot' = slot
      /\ at = None => slot' = [slot EXCEPT ![b] = fresh]
  <2>1. \A n \in DOMAIN node : n < fresh /\ n \in Nat
    BY NodeFields DEF HInv, Filled
  <2>2. at # None => at \in DOMAIN node
    BY Walk, <1>1 DEF Members
  <2> DEFINE f == WithNode(None)
  <2>3. /\ DOMAIN f = DOMAIN node \cup {fresh} /\ \A n \in DOMAIN node : f[n] = node[n]
        /\ f[fresh].key = req.key /\ f[fresh].next = None
    BY <1>1, <2>1 DEF WithNode
  <2>4. PointTo(f, fresh)
    BY DEF PutNew
  <2>5. at # None => at \in DOMAIN node /\ at # fresh
    BY <1>1, <2>1, <2>2
  <2> HIDE DEF f
  <2>6. /\ DOMAIN node' = DOMAIN f
        /\ \A n \in DOMAIN f : node'[n].key = f[n].key /\ (n # at => node'[n].next = f[n].next)
        /\ at # None => node'[at].next = fresh /\ slot' = slot
        /\ at = None => node' = f /\ slot' = [slot EXCEPT ![b] = fresh]
    BY <1>0, <2>3, <2>4, <2>5, Pointed
  <2> QED
    BY <2>3, <2>5, <2>6
<1>7. Ordered(0) /\ Distinct /\ b \in Bucket /\ slot \in [Bucket -> Node \cup {None}]
  BY <1>0, <1>1, Walk DEF HInv, TypeOK
<1>3. \A n \in DOMAIN node : n < fresh /\ n \in Nat /\ n > 0 /\ n # None
  BY NodeFields DEF HInv, Filled
<1>4. fresh # None /\ fresh > 0 /\ fresh \notin DOMAIN node
  BY <1>1, <1>3, TableAssumption DEF PutNew, Node
<1>5. Members(b)' = Members(b) \cup {fresh} /\ \A c : c # b => Members(c)' = Members(c)
  <2>1. \A c : Members(c)' = {n \in DOMAIN node' : BucketOf(node'[n].key) = c}
    BY DEF Members
  <2> QED
    BY <1>0, <1>2, <1>4, <2>1 DEF Members
<1>6. \A n \in Members(b) : n <= Mark
  BY <1>0, <1>1, Absent
<1>61. at # None => at \in Members(b) /\ at > 0 /\ at \in DOMAIN node /\ at \in Nat /\ Mark = at
  BY <1>0, <1>1, <1>3, Walk DEF Members, Mark
<1>62. \A c : \A n \in Members(c) : n \in DOMAIN node /\ n \in Nat /\ n > 0
  BY <1>3 DEF Members
<1>8. ASSUME NEW c \in Bucket PROVE FirstOf(slot'[c], Members(c)', 0)
  <2>1. FirstOf(slot[c], Members(c), 0)
    BY <1>7, OrderedIs
  <2>2. CASE c # b
    BY <1>2, <1>5, <1>7, <2>1, <2>2
  <2>3. CASE c = b /\ at = None
    <3>1. Members(b) = {}
      BY <1>62, <1>6, <2>3 DEF Mark
    <3> QED
      BY <1>1, <1>2, <1>4, <1>5, <1>7, <2>3, <3>1 DEF FirstOf
  <2>4. CASE c = b /\ at # None
    <3>2. slot[b] # None
      BY <1>61, <2>1, <2>4 DEF FirstOf
    <3>3. slot[b] \in Members(b) /\ slot[b] <= fresh
      BY <1>1, <1>3, <1>62, <2>1, <2>4, <3>2 DEF FirstOf
    <3> QED
      BY <1>2, <1>5, <2>1, <2>4, <3>2, <3>3 DEF FirstOf
  <2> QED
    BY <2>2, <2>3, <2>4
<1>9. ASSUME NEW n \in DOMAIN node', NEW c, c = BucketOf(node'[n].key)
      PROVE  FirstOf(node'[n].next, Members(c)', n)
  <2>1. CASE n = fresh
    <3>1. \A x \in Members(b)' : x <= fresh
      BY <1>1, <1>3, <1>5, <1>62
    <3> QED
      BY <1>0, <1>2, <1>9, <2>1, <3>1 DEF FirstOf
  <2>2. CASE n # fresh /\ n = at
    <3>0. at # None
      BY <1>2, <1>3, <2>2
    <3>1. BucketOf(node'[at].key) = b
      BY <1>2, <1>61, <3>0 DEF Members
    <3>2. \A x \in Members(b)' : x <= at \/ fresh <= x
      BY <1>1, <1>5, <1>6, <1>61, <3>0
    <3>4. fresh > at /\ fresh \in Members(b)'
      BY <1>3, <1>5, <1>61, <3>0
    <3> QED
      BY <1>2, <1>4, <1>9, <2>2, <3>0, <3>1, <3>2, <3>4 DEF FirstOf
  <2>3. CASE n # fresh /\ n # at
    <3>1. n \in DOMAIN node /\ node'[n].key = node[n].key /\ node'[n].next = node[n].next
      BY <1>2, <2>3
    <3>0. c = BucketOf(node[n].key)
      BY <1>9, <3>1
    <3>2. FirstOf(node[n].next, Members(c), n)
      BY <1>7, <3>0, <3>1, OrderedIs
    <3>3. CASE c # b
      BY <1>5, <3>0, <3>1, <3>2, <3>3
    <3>4. CASE c = b
      <4>1. n \in Members(b) /\ n <= Mark /\ n \in Nat /\ n > 0
        BY <1>6, <1>62, <3>0, <3>1, <3>4 DEF Members
      <4>2. at # None /\ at \in Members(b) /\ n <= at /\ at \in Nat
        BY <1>61, <4>1 DEF Mark
      <4>3. node[n].next # None
        <5>1. node[n].next = None => at <= n
          BY <3>2, <3>4, <4>2 DEF FirstOf
        <5> QED
          BY <2>3, <4>1, <4>2, <5>1
      <4>4. node[n].next \in Members(b) /\ node[n].next > n /\ node[n].next <= fresh
            /\ \A x \in Members(b) : x <= n \/ node[n].next <= x
        BY <1>1, <1>3, <1>62, <3>2, <3>4, <4>3 DEF FirstOf
      <4> QED
        BY <1>5, <3>0, <3>1, <3>4, <4>3, <4>4 DEF FirstOf
    <3> QED
      BY <3>3, <3>4
  <2> QED
    BY <2>1, <2>2, <2>3
<1>10. Ordered(0)'
  BY <1>8, <1>9, OrderedNext
<1>11. Keys' = Keys \cup {req.key}
  BY <1>2, <1>4 DEF Keys
<1>12. Distinct'
  BY <1>1, <1>2, <1>7, Absent DEF Distinct, Keys
<1> QED
  BY <1>10, <1>11, <1>12

\* A node cut out of the chain that was walked
LEMMA ChainsWithout ==
  ASSUME HInv, RemoveFound
  PROVE  /\ Ordered(0)' /\ Distinct' /\ Keys' = Keys \ {req.key}
         /\ DOMAIN node' = DOMAIN node \ {cur}
         /\ \A n \in DOMAIN node' : /\ node'[n].key = node[n].key /\ node'[n].hash = node[n].hash
                                    /\ node'[n].data = node[n].data
<1>0. PICK b : b = BucketOf(req.key)
  OBVIOUS
<1>1. pc = "walk" /\ cur # None /\ cur \in DOMAIN node /\ node[cur].key = req.key
  BY Walk DEF RemoveFound, Walking, Matches
<1>2. PICK d : d = node[cur].next
  OBVIOUS
<1>3. \A n \in DOMAIN node : n \in Nat /\ n > 0 /\ n # None
  BY NodeFields DEF HInv
<1>4. /\ Ordered(0) /\ Distinct /\ b \in Bucket /\ slot \in [Bucket -> Node \cup {None}]
      /\ FirstOf(cur, Members(b), Mark) /\ Mark \in Nat
      /\ cur \in Members(b) /\ cur \in Nat /\ cur > Mark
  BY <1>0, <1>1, Walk DEF HInv, TypeOK, IsFirstAfter, FirstOf
<1>5. at # None => at \in Members(b) /\ at > 0 /\ at \in DOMAIN node /\ at \in Nat /\ Mark = at /\ at # cur
  BY <1>0, <1>1, <1>3, <1>4, Walk DEF Members, Mark
<1>6. /\ DOMAIN node' = DOMAIN node \ {cur}
      /\ \A n \in DOMAIN node' : /\ node'[n].key = node[n].key /\ node'[n].hash = node[n].hash
                                 /\ node'[n].data = node[n].data
                                 /\ n # at => node'[n].next = node[n].next
      /\ at # None => node'[at].next = d /\ slot' = slot
      /\ at = None => slot' = [slot EXCEPT ![b] = d]
  <2> DEFINE f == Without(cur)
  <2>1. DOMAIN f = DOMAIN node \ {cur} /\ \A n \in DOMAIN f : f[n] = node[n]
    BY DEF Without
  <2>2. PointTo(f, d)
    BY <1>2 DEF RemoveFound
  <2> HIDE DEF f
  <2>3. /\ DOMAIN node' = DOMAIN f
        /\ \A n \in DOMAIN f : /\ node'[n].key = f[n].key /\ node'[n].hash = f[n].hash
                               /\ node'[n].data = f[n].data /\ (n # at => node'[n].next = f[n].next)
        /\ at # None => node'[at].next = d /\ slot' = slot
        /\ at = None => slot' = [slot EXCEPT ![b] = d]
    <3>1. at # None => at \in DOMAIN node /\ at \in DOMAIN f /\ f[at] = node[at]
      BY <1>5, <2>1
    <3> QED
      BY <1>0, <2>2, <3>1, Pointed
  <2> QED
    BY <2>1, <2>3
<1>7. Members(b)' = Members(b) \ {cur} /\ \A c : c # b => Members(c)' = Members(c)
  <2>1. \A c : Members(c)' = {n \in DOMAIN node' : BucketOf(node'[n].key) = c}
    BY DEF Members
  <2>2. \A c : Members(c)' = Members(c) \ {cur}
    BY <1>6, <2>1 DEF Members
  <2>3. \A c : c # b => cur \notin Members(c)
    BY <1>4 DEF Members
  <2> QED
    BY <2>2, <2>3
<1>8. \A c : \A n \in Members(c) : n \in DOMAIN node /\ n \in Nat /\ n > 0 /\ BucketOf(node[n].key) = c
  BY <1>3 DEF Members
<1>9. \A x \in Members(b) : x <= Mark \/ cur <= x
  BY <1>1, <1>4 DEF FirstOf
<1>10. FirstOf(d, Members(b), cur)
  BY <1>0, <1>1, <1>2, <1>4, OrderedIs DEF Members
<1>11. FirstOf(d, Members(b)', Mark)
  <2>0. \A x \in Members(b)' : x \in Members(b) /\ x # cur /\ x \in Nat
    BY <1>7, <1>8
  <2>1. CASE d = None
    <3>1. \A x \in Members(b) : x <= cur
      BY <1>10, <2>1 DEF FirstOf
    <3>2. \A x \in Members(b)' : x <= Mark
      BY <1>4, <1>9, <2>0, <3>1
    <3> QED
      BY <2>1, <3>2 DEF FirstOf
  <2>2. CASE d # None
    <3>1. d \in Members(b) /\ d > cur /\ \A x \in Members(b) : x <= cur \/ d <= x
      BY <1>10, <2>2 DEF FirstOf
    <3>2. \A x \in Members(b)' : x <= Mark \/ d <= x
      BY <1>4, <1>9, <2>0, <3>1
    <3>3. d \in Members(b)' /\ d > Mark
      BY <1>4, <1>7, <1>8, <3>1
    <3> QED
      BY <2>2, <3>2, <3>3 DEF FirstOf
  <2> QED
    BY <2>1, <2>2
\* cur follows the place of the walk, and no other.
<1>12. ASSUME NEW n \in Nat, NEW c, FirstOf(cur, Members(c), n), n # 0 => n \in Members(c)
       PROVE  c = b /\ n = Mark
  <2>1. c = b
    BY <1>1, <1>4, <1>8, <1>12 DEF FirstOf
  <2>2. n < cur /\ \A x \in Members(b) : x <= n \/ cur <= x
    BY <1>1, <1>12, <2>1 DEF FirstOf
  <2>3. n <= Mark
    BY <1>4, <1>9, <1>12, <2>1, <2>2
  <2>4. Mark <= n
    BY <1>4, <1>5, <1>12, <2>2 DEF Mark
  <2> QED
    BY <1>4, <1>12, <2>1, <2>3, <2>4
<1>13. ASSUME NEW s, NEW c, NEW n \in Nat, FirstOf(s, Members(c), n), s # cur
       PROVE  FirstOf(s, Members(c)', n)
  BY <1>7, <1>13 DEF FirstOf
<1>14. ASSUME NEW c \in Bucket PROVE FirstOf(slot'[c], Members(c)', 0)
  <2>1. FirstOf(slot[c], Members(c), 0)
    BY <1>4, OrderedIs
  <2>2. CASE slot[c] = cur
    <3>1. c = b /\ Mark = 0
      BY <1>12, <2>1, <2>2
    <3>2. at = None
      BY <1>5, <3>1
    <3> QED
      BY <1>4, <1>6, <1>11, <3>1, <3>2
  <2>3. CASE slot[c] # cur
    <3>1. CASE at = None /\ c = b
      BY <1>4, <1>6, <1>11, <3>1 DEF Mark
    <3>2. CASE at # None \/ c # b
      BY <1>4, <1>6, <1>13, <2>1, <2>3, <3>2
    <3> QED
      BY <3>1, <3>2
  <2> QED
    BY <2>2, <2>3
<1>15. ASSUME NEW n \in DOMAIN node', NEW c, c = BucketOf(node'[n].key)
       PROVE  FirstOf(node'[n].next, Members(c)', n)
  <2>1. n \in DOMAIN node /\ n # cur /\ n \in Nat /\ n > 0 /\ c = BucketOf(node[n].key)
    BY <1>3, <1>6, <1>15
  <2>2. FirstOf(node[n].next, Members(c), n) /\ n \in Members(c)
    BY <1>4, <2>1, OrderedIs DEF Members
  <2>3. CASE n = at
    <3>1. at # None /\ c = b
      BY <1>3, <1>5, <2>1, <2>3 DEF Members
    <3> QED
      BY <1>5, <1>6, <1>11, <2>3, <3>1
  <2>4. CASE n # at
    <3>1. node[n].next # cur
      <4>1. ASSUME node[n].next = cur PROVE FALSE
        <5>1. n = Mark
          BY <1>12, <2>1, <2>2, <4>1
        <5> QED
          BY <1>5, <2>1, <2>4, <5>1 DEF Mark
      <4> QED
        BY <4>1
    <3> QED
      BY <1>6, <1>13, <2>1, <2>2, <2>4, <3>1
  <2> QED
    BY <2>3, <2>4
<1>16. Ordered(0)'
  BY <1>14, <1>15, OrderedNext
<1>17. Keys' = Keys \ {req.key}
  BY <1>1, <1>4, <1>6 DEF Keys, Distinct
<1>18. Distinct'
  BY <1>4, <1>6 DEF Distinct
<1> QED
  BY <1>6, <1>16, <1>17, <1>18

-----------------------------------------------------------------------------
(* The invariant, conjunct by conjunct                                     *)

\* Steps that leave the nodes alone
Looks ==
  \/ \E r \in Map!Request : Call(r)
  \/ Advance \/ PutHalts \/ Get \/ RemoveNone
  \/ \E i \in Iter : IterStep(i)
  \/ DisposeCall \/ DisposeRow \/ DisposeEnd

LEMMA NextIs == Next <=> Looks \/ PutFound \/ PutNew \/ RemoveFound \/ DisposeNode
BY DEF Next, Looks, WalkStep, DisposeStep

LEMMA LooksKeeps == Looks \/ UNCHANGED vars => UNCHANGED table /\ (InUse' => InUse)
<1>1. ASSUME NEW r \in Map!Request, Call(r) PROVE UNCHANGED table /\ (InUse' => InUse)
  BY <1>1 DEF Call, InUse
<1>2. Advance \/ PutHalts \/ Get \/ RemoveNone => UNCHANGED table /\ (InUse' => InUse)
  BY DEF Advance, PutHalts, Get, RemoveNone, Walking, InUse
<1>3. ASSUME NEW i \in Iter, IterStep(i) PROVE UNCHANGED table /\ (InUse' => InUse)
  BY <1>3 DEF IterStep, Iterator, NextInChain, NextBucket, NextEnd, NextWild, InUse
<1>4. DisposeCall \/ DisposeRow \/ DisposeEnd => UNCHANGED table /\ (InUse' => InUse)
  BY DEF DisposeCall, DisposeRow, DisposeEnd, InUse
<1>5. UNCHANGED vars => UNCHANGED table /\ (InUse' => InUse)
  BY DEF vars, walk, InUse
<1> QED
  BY <1>1, <1>2, <1>3, <1>4, <1>5 DEF Looks

LEMMA PutFoundKeeps ==
  ASSUME HInv, PutFound
  PROVE  /\ cur \in DOMAIN node /\ node[cur].key = req.key /\ pc = "walk"
         /\ req.key \in Key /\ req.data \in Data
         /\ DOMAIN node' = DOMAIN node /\ slot' = slot /\ fresh' = fresh
         /\ \A n \in DOMAIN node : /\ node'[n].key = node[n].key /\ node'[n].next = node[n].next
                                   /\ node'[n].hash = node[n].hash
                                   /\ n # cur => node'[n] = node[n]
         /\ node'[cur].data = req.data
<1>1. pc = "walk" /\ cur \in DOMAIN node /\ node[cur].key = req.key
  BY Walk DEF PutFound, Walking, Matches
<1>2. req \in Map!Request /\ req.op = "put"
  BY <1>1, Walk DEF PutFound, Walking
<1>3. node[cur] \in [hash : Nat, key : Key, data : Data, next : Node \cup {None}]
  BY <1>1 DEF HInv, TypeOK
<1>4. node' = [node EXCEPT ![cur].data = req.data] /\ slot' = slot /\ fresh' = fresh
  BY DEF PutFound
<1> QED
  BY <1>1, <1>2, <1>3, <1>4, Requests

LEMMA ChainedStep == HInv /\ [Next]_vars => Chained'
<1> SUFFICES ASSUME HInv, [Next]_vars PROVE Chained'
  OBVIOUS
<1>1. Chained' <=> (InUse' => Ordered(0)' /\ Distinct')
  BY DEF Chained, Ordered, Distinct, Bucket
<1>2. CASE Looks \/ UNCHANGED vars
  BY <1>1, <1>2, LooksKeeps, SameChains, ChainedIs DEF table, HInv
<1>3. CASE PutFound
  BY <1>1, <1>3, PutFoundKeeps, SameChains, ChainedIs DEF HInv, InUse
<1>4. CASE PutNew
  BY <1>1, <1>4, ChainsWithNew
<1>5. CASE RemoveFound
  BY <1>1, <1>5, ChainsWithout
<1>6. CASE DisposeNode
  BY <1>1, <1>6 DEF DisposeNode, InUse
<1> QED
  BY <1>2, <1>3, <1>4, <1>5, <1>6, NextIs

LEMMA FilledStep == HInv /\ [Next]_vars => Filled'
<1> SUFFICES ASSUME HInv, [Next]_vars PROVE Filled'
  OBVIOUS
<1>1. Filled
  BY DEF HInv
<1>2. CASE Looks \/ UNCHANGED vars
  BY <1>1, <1>2, LooksKeeps DEF table, Filled
<1>3. CASE PutFound
  BY <1>1, <1>3, PutFoundKeeps DEF Filled
<1>4. CASE PutNew
  <2>1. fresh' = fresh + 1 /\ fresh \in Nat /\ \A n \in DOMAIN node : n \in Nat
    BY <1>4, NodeFields DEF PutNew, Node, HInv
  <2> DEFINE f == WithNode(None)
  <2>2. /\ DOMAIN f = DOMAIN node \cup {fresh} /\ f[fresh].hash = Hash[f[fresh].key]
        /\ \A n \in DOMAIN node : f[n] = node[n]
    BY <1>1, <2>1 DEF WithNode, Filled
  <2>3. PointTo(f, fresh)
    BY <1>4 DEF PutNew
  <2> HIDE DEF f
  <2>4. at # None => at \in DOMAIN node
    BY <1>4, Walk DEF PutNew, Walking, Members
  <2>5. DOMAIN node' = DOMAIN f /\ \A n \in DOMAIN f : node'[n].key = f[n].key /\ node'[n].hash = f[n].hash
    BY <2>2, <2>3, <2>4, Pointed
  <2> QED
    BY <1>1, <2>1, <2>2, <2>5 DEF Filled
<1>5. CASE RemoveFound
  BY <1>1, <1>5, ChainsWithout DEF Filled, RemoveFound
<1>6. CASE DisposeNode
  BY <1>1, <1>6 DEF Filled, DisposeNode, Without
<1> QED
  BY <1>2, <1>3, <1>4, <1>5, <1>6, NextIs

\* The types of the table
LEMMA TableType ==
  ASSUME HInv, [Next]_vars
  PROVE  /\ slot' \in [Bucket -> Node \cup {None}] /\ DOMAIN node' \subseteq Node
         /\ node' \in [DOMAIN node' -> [hash : Nat, key : Key, data : Data, next : Node \cup {None}]]
         /\ fresh' \in 1..(MaxNodes + 1)
<1> DEFINE R == [hash : Nat, key : Key, data : Data, next : Node \cup {None}]
<1>1. /\ slot \in [Bucket -> Node \cup {None}] /\ DOMAIN node \subseteq Node
      /\ node \in [DOMAIN node -> R] /\ fresh \in 1..(MaxNodes + 1)
  BY DEF HInv, TypeOK
<1>2. CASE Looks \/ UNCHANGED vars
  BY <1>1, <1>2, LooksKeeps DEF table
<1>3. CASE PutFound
  <2>1. node' = [node EXCEPT ![cur].data = req.data] /\ UNCHANGED <<slot, fresh>>
    BY <1>3 DEF PutFound
  <2>2. cur \in DOMAIN node /\ req.data \in Data
    BY <1>3, PutFoundKeeps
  <2> QED
    BY <1>1, <2>1, <2>2
<1>4. CASE PutNew
  <2> DEFINE f == WithNode(None)
  <2>1. req.key \in Key /\ req.data \in Data /\ Hash[req.key] \in Nat /\ fresh \in Node
        /\ BucketOf(req.key) \in Bucket /\ fresh' = fresh + 1 /\ fresh \in Nat
    BY <1>4, Walk, Requests, Buckets DEF PutNew, Walking, Node
  <2>2. DOMAIN f = DOMAIN node \cup {fresh} /\ f \in [DOMAIN f -> R]
    BY <1>1, <2>1 DEF WithNode
  <2>3. PointTo(f, fresh)
    BY <1>4 DEF PutNew
  <2> HIDE DEF f
  <2>4. slot' \in [Bucket -> Node \cup {None}] /\ node' \in [DOMAIN node' -> R] /\ DOMAIN node' = DOMAIN f
    BY <1>1, <2>1, <2>2, <2>3 DEF PointTo
  <2>5. fresh + 1 \in 1..(MaxNodes + 1)
    BY <2>1, TableAssumption DEF Node
  <2> QED
    BY <1>1, <2>1, <2>2, <2>4, <2>5
<1>5. CASE RemoveFound
  <2> DEFINE f == Without(cur)
  <2>1. cur \in DOMAIN node /\ node[cur].next \in Node \cup {None} /\ BucketOf(req.key) \in Bucket
    BY <1>5, Walk, NodeFields DEF RemoveFound, Walking, Matches, HInv
  <2>2. DOMAIN f = DOMAIN node \ {cur} /\ f \in [DOMAIN f -> R]
    BY <1>1 DEF Without
  <2>3. PointTo(f, node[cur].next) /\ fresh' = fresh
    BY <1>5 DEF RemoveFound
  <2> HIDE DEF f
  <2>4. slot' \in [Bucket -> Node \cup {None}] /\ node' \in [DOMAIN node' -> R] /\ DOMAIN node' = DOMAIN f
    BY <1>1, <2>1, <2>2, <2>3 DEF PointTo
  <2> QED
    BY <1>1, <2>2, <2>3, <2>4
<1>6. CASE DisposeNode
  BY <1>1, <1>6 DEF DisposeNode, Without
<1> QED
  BY <1>2, <1>3, <1>4, <1>5, <1>6, NextIs

\* The types of the call and of the walk
WalkTyped ==
  /\ req \in Map!Request \cup {None} /\ ret \in Data \cup {TRUE, FALSE, None}
  /\ pc \in {"idle", "walk", "dispose", "gone", "halted", "wild"}
  /\ at \in Node \cup {None} /\ row \in Bucket

LEMMA WalkType == HInv /\ [Next]_vars => WalkTyped'
<1> SUFFICES ASSUME HInv, [Next]_vars PROVE WalkTyped'
  OBVIOUS
<1>1. /\ WalkTyped /\ slot \in [Bucket -> Node \cup {None}] /\ DOMAIN node \subseteq Node
      /\ 0 \in Bucket /\ None \in Data
  <2>1. WalkTyped /\ slot \in [Bucket -> Node \cup {None}] /\ DOMAIN node \subseteq Node
    BY DEF HInv, TypeOK, WalkTyped
  <2> QED
    BY <2>1, TableAssumption DEF Bucket
<1>2. ASSUME NEW r \in Map!Request, Call(r) PROVE WalkTyped'
  BY <1>1, <1>2 DEF Call, WalkTyped
<1>3. ASSUME NEW x \in Data \cup {TRUE, FALSE, None}, Return(x) PROVE WalkTyped'
  BY <1>1, <1>3 DEF Return, WalkTyped
<1>4. CASE Advance
  <2>1. cur \in Node
    BY <1>1, <1>4, Walk DEF Advance
  <2>2. at' = cur /\ UNCHANGED <<req, ret, pc, row>>
    BY <1>4 DEF Advance
  <2> QED
    BY <1>1, <2>1, <2>2 DEF WalkTyped
<1>5. CASE PutFound \/ PutNew
  BY <1>3, <1>5 DEF PutFound, PutNew
<1>6. CASE PutHalts
  BY <1>1, <1>6 DEF PutHalts, WalkTyped
<1>7. CASE Get
  <2>1. Matches => node[cur].data \in Data
    BY <1>7, Walk, NodeFields DEF Get, Walking, Matches, HInv
  <2> QED
    BY <1>1, <1>3, <1>7, <2>1 DEF Get
<1>8. CASE RemoveFound
  <2>1. node[cur].data \in Data
    BY <1>8, Walk, NodeFields DEF RemoveFound, Walking, Matches, HInv
  <2> QED
    BY <1>3, <1>8, <2>1 DEF RemoveFound
<1>9. CASE RemoveNone
  BY <1>1, <1>3, <1>9 DEF RemoveNone
<1>10. ASSUME NEW i \in Iter, IterStep(i) PROVE WalkTyped'
  <2>1. CASE NextWild(i)
    BY <1>1, <2>1 DEF NextWild, WalkTyped
  <2>2. CASE Iterator(i) \/ NextInChain(i) \/ NextBucket(i) \/ NextEnd(i)
    BY <1>1, <2>2 DEF Iterator, NextInChain, NextBucket, NextEnd, WalkTyped, walk
  <2> QED
    BY <1>10, <2>1, <2>2 DEF IterStep
<1>11. CASE DisposeCall
  BY <1>1, <1>11 DEF DisposeCall, WalkTyped
<1>12. CASE DisposeNode
  <2>1. node[at].next \in Node \cup {None}
    BY <1>12, NodeFields DEF DisposeNode, HInv, Disposing, IsFirstAfter, Members
  <2> QED
    BY <1>1, <1>12, <2>1 DEF DisposeNode, WalkTyped
<1>13. CASE DisposeRow
  <2>1. row + 1 \in Bucket
    BY <1>1, <1>13, TableAssumption DEF DisposeRow, WalkTyped, Bucket
  <2>2. row' = row + 1 /\ at' = slot[row + 1] /\ UNCHANGED <<req, ret, pc>>
    BY <1>13 DEF DisposeRow
  <2> QED
    BY <1>1, <2>1, <2>2 DEF WalkTyped
<1>14. CASE DisposeEnd
  BY <1>1, <1>14 DEF DisposeEnd, WalkTyped
<1>15. CASE UNCHANGED vars
  BY <1>1, <1>15 DEF vars, walk, WalkTyped
<1> QED
  BY <1>2, <1>4, <1>5, <1>6, <1>7, <1>8, <1>9, <1>10, <1>11, <1>12, <1>13, <1>14, <1>15
  DEF Next, WalkStep, DisposeStep

\* The types of the iterators
IterTyped ==
  /\ it \in [Iter -> [on : BOOLEAN, index : -1..(Size - 1), next : Node \cup {None},
                      first : Key \cup {None}, second : Data]]
  /\ due \in [Iter -> SUBSET Key] /\ seen \in [Iter -> SUBSET Key]

\* The bucket that hashmap_next comes to
LEMMA NextBucketIs ==
  ASSUME NEW i, BucketsAhead(i) # {}
  PROVE  /\ Min(BucketsAhead(i)) \in BucketsAhead(i)
         /\ \A b \in BucketsAhead(i) : Min(BucketsAhead(i)) <= b
<1> DEFINE S == BucketsAhead(i)
           T == {n \in Nat : \A x \in S : n <= x}
<1>1. S \subseteq Nat
  BY TableAssumption DEF BucketsAhead, Bucket
<1>2. \E m \in S : \A x \in S : m <= x
  <2>1. SUFFICES ASSUME \A m \in S : \E x \in S : ~(m <= x) PROVE FALSE
    OBVIOUS
  <2> HIDE DEF S
  <2>2. T \in SUBSET Nat /\ 0 \in T
    BY <1>1
  <2>3. \A n \in T : n + 1 \in T
    <3> SUFFICES ASSUME NEW n \in T, NEW x \in S PROVE n + 1 <= x
      BY <1>1
    <3>1. n <= x /\ n # x /\ n \in Nat /\ x \in Nat
      BY <1>1, <2>1
    <3> QED
      BY <3>1
  <2>4. T = Nat
    <3> HIDE DEF T
    <3> QED
      BY <2>2, <2>3, SetInduction
  <2>5. PICK m \in S : TRUE
    BY DEF S
  <2>6. m + 1 \in T
    BY <1>1, <2>4
  <2> QED
    BY <1>1, <2>5, <2>6
<1> HIDE DEF S
<1> QED
  BY <1>2 DEF Min, S

\* What a delivery does to the iterator i
LEMMA DeliverType ==
  ASSUME HInv, NEW i \in Iter, NEW n \in DOMAIN node, NEW b \in Bucket \cup {-1}, Deliver(i, n, b), due' = due
  PROVE  IterTyped'
<1>1. IterTyped /\ Size \in Nat \ {0}
  BY TableAssumption DEF HInv, TypeOK, IterTyped
<1>2. node[n].key \in Key /\ node[n].data \in Data /\ node[n].next \in Node \cup {None} /\ b \in -1..(Size - 1)
  BY <1>1, NodeFields DEF HInv, Bucket
<1>3. it' = [it EXCEPT ![i] = [on |-> TRUE, index |-> b, next |-> node[n].next,
                                first |-> node[n].key, second |-> node[n].data]]
      /\ seen' = [seen EXCEPT ![i] = @ \cup {node[n].key}]
  BY DEF Deliver
<1> QED
  BY <1>1, <1>2, <1>3 DEF IterTyped

LEMMA IterType == HInv /\ [Next]_vars => IterTyped'
<1> SUFFICES ASSUME HInv, [Next]_vars PROVE IterTyped'
  OBVIOUS
<1>1. IterTyped /\ Size \in Nat \ {0} /\ None \in Data
  BY TableAssumption DEF HInv, TypeOK, IterTyped
<1>2. Closed \in [on : BOOLEAN, index : -1..(Size - 1), next : Node \cup {None},
                  first : Key \cup {None}, second : Data]
      /\ [Closed EXCEPT !.on = TRUE] \in
                 [on : BOOLEAN, index : -1..(Size - 1), next : Node \cup {None},
                  first : Key \cup {None}, second : Data]
  <2>1. -1 \in -1..(Size - 1)
    BY <1>1
  <2> QED
    BY <1>1, <2>1 DEF Closed
<1>3. ASSUME UNCHANGED <<it, due, seen>> PROVE IterTyped'
  BY <1>1, <1>3 DEF IterTyped
<1>4. CASE RemoveFound
  <2>1. /\ it' = it
        /\ due' = [i \in Iter |-> due[i] \ {req.key}] /\ seen' = [i \in Iter |-> seen[i] \ {req.key}]
    BY <1>4 DEF RemoveFound
  <2> QED
    BY <1>1, <2>1 DEF IterTyped
<1>5. ASSUME NEW i \in Iter, Iterator(i) PROVE IterTyped'
  <2>1. Keys \in SUBSET Key
    BY NodeFields DEF Keys, HInv
  <2>2. /\ it' = [it EXCEPT ![i] = [Closed EXCEPT !.on = TRUE]]
        /\ due' = [due EXCEPT ![i] = Keys] /\ seen' = [seen EXCEPT ![i] = {}]
    BY <1>5 DEF Iterator, Keys
  <2> QED
    BY <1>1, <1>2, <2>1, <2>2 DEF IterTyped
<1>6. ASSUME NEW i \in Iter, NextInChain(i) PROVE IterTyped'
  <2>1. it[i].index \in Bucket \cup {-1}
    BY <1>1 DEF IterTyped, Bucket
  <2>2. it[i].next \in DOMAIN node /\ Deliver(i, it[i].next, it[i].index) /\ due' = due
    BY <1>6 DEF NextInChain
  <2> QED
    BY <2>1, <2>2, DeliverType
<1>7. ASSUME NEW i \in Iter, NextBucket(i) PROVE IterTyped'
  <2>1. PICK b : b = Min(BucketsAhead(i))
    OBVIOUS
  <2>2. b \in Bucket /\ slot[b] # None /\ pc = "idle" /\ Deliver(i, slot[b], b) /\ due' = due
    BY <1>7, <2>1, NextBucketIs DEF NextBucket, BucketsAhead
  <2>3. slot[b] \in DOMAIN node
    BY <2>2 DEF HInv, TypeOK, InUse
  <2> QED
    BY <2>2, <2>3, DeliverType
<1>8. ASSUME NEW i \in Iter, NextEnd(i) PROVE IterTyped'
  BY <1>1, <1>2, <1>8 DEF NextEnd, IterTyped
<1>9. ASSUME NEW r \in Map!Request, Call(r) PROVE UNCHANGED <<it, due, seen>>
  BY <1>9 DEF Call, history
<1>10. Advance \/ PutFound \/ PutNew \/ PutHalts \/ Get \/ RemoveNone \/ DisposeCall \/ DisposeStep
         \/ UNCHANGED vars => UNCHANGED <<it, due, seen>>
  BY DEF Advance, PutFound, PutNew, PutHalts, Get, RemoveNone, DisposeCall, DisposeStep, DisposeNode,
         DisposeRow, DisposeEnd, vars, history
<1>11. ASSUME NEW i \in Iter, NextWild(i) PROVE UNCHANGED <<it, due, seen>>
  BY <1>11 DEF NextWild, history
<1> QED
  BY <1>3, <1>4, <1>5, <1>6, <1>7, <1>8, <1>9, <1>10, <1>11 DEF Next, WalkStep, IterStep

LEMMA TypeStep == HInv /\ [Next]_vars => TypeOK'
<1> SUFFICES ASSUME HInv, [Next]_vars PROVE TypeOK'
  OBVIOUS
<1>1. InUse' => \A b \in Bucket : slot'[b] \in DOMAIN node' \cup {None}
  <2>1. Chained'
    BY ChainedStep
  <2> QED
    BY <2>1 DEF Chained, IsFirstAfter, Members
<1> QED
  BY <1>1, TableType, WalkType, IterType DEF TypeOK, WalkTyped, IterTyped

LEMMA ControlStep == HInv /\ [Next]_vars => Control'
<1> SUFFICES ASSUME HInv, [Next]_vars PROVE Control'
  OBVIOUS
<1>1. Control /\ TypeOK
  BY DEF HInv
<1>2. ASSUME NEW r \in Map!Request, Call(r) PROVE Control'
  <2>1. pc' = "walk" /\ req' = r /\ at' = None /\ node' = node
    BY <1>2 DEF Call, table
  <2>2. \A n \in DOMAIN node : ~(n <= 0)
    BY <1>1, NodeFields
  <2> QED
    BY <2>1, <2>2 DEF Control, Mark, Members
<1>3. CASE Advance
  <2>1. PICK b : b = BucketOf(req.key)
    OBVIOUS
  <2>2. pc = "walk" /\ cur # None /\ ~Matches /\ at' = cur /\ UNCHANGED <<node, req, pc>>
    BY <1>3 DEF Advance, table
  <2>3. /\ cur \in Members(b) /\ cur \in Nat /\ FirstOf(cur, Members(b), Mark) /\ Mark \in Nat
        /\ cur \in DOMAIN node
    BY <2>1, <2>2, Walk DEF FirstOf, IsFirstAfter
  <2>4. node[cur].key # req.key
    BY <2>2, <2>3 DEF Matches, HInv, Filled
  <2>5. \A n \in Members(b) : n <= cur => node[n].key # req.key
    <3> SUFFICES ASSUME NEW n \in Members(b), n <= cur PROVE node[n].key # req.key
      OBVIOUS
    <3>1. n \in Nat
      BY <1>1, NodeFields DEF Members
    <3>2. n <= Mark \/ n = cur
      BY <2>2, <2>3, <3>1 DEF FirstOf
    <3> QED
      BY <1>1, <2>1, <2>2, <2>4, <3>2 DEF Control
  <2>6. Mark' = cur /\ Members(b)' = Members(b) /\ BucketOf(req'.key) = b
    BY <2>1, <2>2 DEF Mark, Members
  <2> QED
    BY <1>1, <2>1, <2>2, <2>3, <2>5, <2>6 DEF Control
<1>4. ASSUME NEW x, Return(x) PROVE Control'
  BY <1>4 DEF Return, Control
<1>5. ASSUME pc' \notin {"idle", "walk"} PROVE Control'
  BY <1>5 DEF Control
<1>6. ASSUME pc = "idle", UNCHANGED <<pc, req>> PROVE Control'
  BY <1>1, <1>6 DEF Control
<1>7. ASSUME NEW i \in Iter, IterStep(i) PROVE Control'
  BY <1>5, <1>6, <1>7 DEF IterStep, Iterator, NextInChain, NextBucket, NextEnd, NextWild, walk
<1>8. PutFound \/ PutNew \/ Get \/ RemoveFound \/ RemoveNone => \E x : Return(x)
  BY DEF PutFound, PutNew, Get, RemoveFound, RemoveNone
<1>9. PutHalts \/ DisposeCall \/ DisposeStep => pc' \notin {"idle", "walk"}
  BY DEF PutHalts, DisposeCall, DisposeStep, DisposeNode, DisposeRow, DisposeEnd
<1>10. CASE UNCHANGED vars
  BY <1>1, <1>10 DEF vars, walk, table, Control, Mark, Members
<1> QED
  BY <1>2, <1>3, <1>4, <1>5, <1>7, <1>8, <1>9, <1>10 DEF Next, WalkStep

LEMMA DisposingStep == HInv /\ [Next]_vars => Disposing'
<1> SUFFICES ASSUME HInv, [Next]_vars PROVE Disposing'
  OBVIOUS
<1>1. Disposing /\ TypeOK /\ Size \in Nat \ {0} /\ row \in Bucket /\ row \in Nat
  <2>1. Disposing /\ TypeOK /\ row \in Bucket
    BY DEF HInv, TypeOK
  <2> QED
    BY <2>1, TableAssumption DEF Bucket
<1>2. \A n, b, m : IsFirstAfter(n, b, m)' <=> FirstOf(n, Members(b)', m)
  BY DEF IsFirstAfter, FirstOf
<1>3. \A n, b, m : IsFirstAfter(n, b, m) <=> FirstOf(n, Members(b), m)
  BY DEF IsFirstAfter, FirstOf
<1>31. ASSUME NEW r, Ordered(r), UNCHANGED table PROVE Ordered(r)'
  <2>1. /\ \A c \in Bucket : c >= r => FirstOf(slot[c], Members(c), 0)
        /\ \A n \in DOMAIN node : FirstOf(node[n].next, Members(BucketOf(node[n].key)), n)
    BY <1>31, OrderedIs
  <2>2. slot' = slot /\ node' = node /\ \A b : Members(b)' = Members(b)
    BY <1>31 DEF table, Members
  <2> QED
    BY <2>1, <2>2, OrderedNext
<1>4. ASSUME UNCHANGED table, UNCHANGED <<pc, at, row>> PROVE Disposing'
  <2>1. node' = node /\ \A b : Members(b)' = Members(b)
    BY <1>4 DEF table, Members
  <2>2. IsFirstAfter(at, row, 0)' <=> IsFirstAfter(at, row, 0)
    BY <1>4, <2>1 DEF IsFirstAfter, Members
  <2>3. PICK r : r = row + 1
    OBVIOUS
  <2>4. pc = "dispose" => Ordered(r)'
    BY <1>1, <1>4, <1>31, <2>3 DEF Disposing
  <2>5. pc' = "dispose" => Ordered(row + 1)'
    BY <1>4, <2>3, <2>4 DEF Ordered
  <2> QED
    BY <1>1, <1>4, <2>1, <2>2, <2>5 DEF Disposing
<1>5. ASSUME pc' \notin {"dispose", "gone"} PROVE Disposing'
  BY <1>5 DEF Disposing
<1>6. CASE DisposeCall
  <2>1. pc = "idle" /\ pc' = "dispose" /\ row' = 0 /\ at' = slot[0] /\ slot' = slot /\ node' = node
    BY <1>6 DEF DisposeCall, table
  <2>2. Ordered(0)
    BY <2>1, ChainedIs DEF HInv, InUse
  <2>3. FirstOf(slot[0], Members(0), 0) /\ Members(0)' = Members(0)
    <3>1. 0 \in Bucket
      BY <1>1 DEF Bucket
    <3> QED
      BY <2>1, <2>2, <3>1, OrderedIs DEF Members
  <2>4. \A n \in DOMAIN node : BucketOf(node[n].key) >= 0
    BY <1>1, NodeFields DEF Bucket
  <2>5. Ordered(1)'
    <3>1. Ordered(1)
      BY <1>1, <2>2 DEF Ordered, Bucket
    <3> QED
      BY <1>6, <1>31, <3>1 DEF DisposeCall
  <2>6. IsFirstAfter(at, row, 0)'
    BY <2>1, <2>3 DEF IsFirstAfter, FirstOf, Members
  <2>7. Ordered(row + 1)'
    BY <2>1, <2>5 DEF Ordered
  <2> QED
    BY <2>1, <2>4, <2>6, <2>7 DEF Disposing
<1>7. CASE DisposeNode
  <2>1. /\ pc = "dispose" /\ pc' = pc /\ at # None /\ at' = node[at].next /\ slot' = slot /\ row' = row
        /\ DOMAIN node' = DOMAIN node \ {at} /\ \A n \in DOMAIN node' : node'[n] = node[n]
    BY <1>7 DEF DisposeNode, Without
  <2>2. /\ FirstOf(at, Members(row), 0) /\ at \in Members(row)
        /\ \A n \in DOMAIN node : BucketOf(node[n].key) >= row /\ n \in Nat /\ n > 0
    BY <1>1, <1>3, <2>1, NodeFields DEF Disposing, FirstOf
  <2>3. /\ \A b \in Bucket : b >= row + 1 => FirstOf(slot[b], Members(b), 0)
        /\ \A n \in DOMAIN node : FirstOf(node[n].next, Members(BucketOf(node[n].key)), n)
    BY <1>1, <1>3, <2>1 DEF Disposing, Ordered
  <2>4. Members(row)' = Members(row) \ {at} /\ \A b : b # row => Members(b)' = Members(b)
    BY <2>1, <2>2 DEF Members
  <2>5. \A b : \A n \in Members(b) : n \in DOMAIN node /\ n \in Nat /\ n > 0 /\ BucketOf(node[n].key) = b
    BY <2>2 DEF Members
  <2>6. \A x \in Members(row) : at <= x
    BY <2>1, <2>2, <2>5 DEF FirstOf
  <2>7. PICK d : d = node[at].next
    OBVIOUS
  <2>8. FirstOf(d, Members(row), at)
    BY <2>2, <2>3, <2>5, <2>7
  <2>9. FirstOf(d, Members(row)', 0)
    <3>1. CASE d = None
      <4>1. \A x \in Members(row) : x <= at
        BY <2>8, <3>1 DEF FirstOf
      <4>2. Members(row)' = {}
        BY <2>2, <2>4, <2>5, <2>6, <4>1
      <4> QED
        BY <3>1, <4>2 DEF FirstOf
    <3>2. CASE d # None
      <4>1. d \in Members(row) /\ d > at /\ \A x \in Members(row) : x <= at \/ d <= x
        BY <2>8, <3>2 DEF FirstOf
      <4>2. \A x \in Members(row)' : d <= x
        BY <2>2, <2>4, <2>5, <2>6, <4>1
      <4> QED
        BY <2>2, <2>4, <2>5, <3>2, <4>1, <4>2 DEF FirstOf
    <3> QED
      BY <3>1, <3>2
  <2>10. \A b \in Bucket : b >= row + 1 => FirstOf(slot[b], Members(b)', 0)
    <3> SUFFICES ASSUME NEW b \in Bucket, b >= row + 1 PROVE FirstOf(slot[b], Members(b)', 0)
      OBVIOUS
    <3>1. b # row
      BY <1>1 DEF Bucket
    <3> QED
      BY <2>3, <2>4, <3>1
  <2>11. ASSUME NEW n \in DOMAIN node', NEW c, c = BucketOf(node'[n].key)
         PROVE  FirstOf(node'[n].next, Members(c)', n)
    <3>1. n \in DOMAIN node /\ n # at /\ node'[n] = node[n] /\ n \in Members(c) /\ FirstOf(node[n].next, Members(c), n)
      BY <2>1, <2>3, <2>11 DEF Members
    <3>2. node[n].next # at
      <4>1. ASSUME node[n].next = at PROVE FALSE
        <5>1. at \in Members(c) /\ at > n
          BY <2>1, <3>1, <4>1 DEF FirstOf
        <5>2. c = row
          BY <2>2, <2>5, <5>1
        <5> QED
          BY <2>2, <2>5, <2>6, <3>1, <5>1, <5>2
      <4> QED
        BY <4>1
    <3> QED
      BY <2>1, <2>4, <3>1, <3>2 DEF FirstOf
  <2>12. Ordered(row + 1)'
    <3>1. PICK r : r = row + 1
      OBVIOUS
    <3>2. Ordered(r)'
      BY <2>1, <2>10, <2>11, <3>1, OrderedNext
    <3> QED
      BY <2>1, <3>1, <3>2 DEF Ordered
  <2>13. IsFirstAfter(at, row, 0)'
    BY <2>1, <2>7, <2>9 DEF IsFirstAfter, FirstOf, Members
  <2> QED
    BY <2>1, <2>2, <2>12, <2>13 DEF Disposing
<1>8. CASE DisposeRow
  <2>1. /\ pc = "dispose" /\ pc' = pc /\ at = None /\ row < Size - 1 /\ row' = row + 1
        /\ at' = slot[row + 1] /\ slot' = slot /\ node' = node
    BY <1>8 DEF DisposeRow, table
  <2>2. /\ \A x \in Members(row) : x <= 0
        /\ Ordered(row + 1) /\ \A n \in DOMAIN node : BucketOf(node[n].key) >= row
    BY <1>1, <2>1 DEF Disposing, IsFirstAfter
  <2>3. \A n \in DOMAIN node : n \in Nat /\ n > 0 /\ BucketOf(node[n].key) \in Nat
    BY <1>1, NodeFields DEF Bucket
  <2>4. \A n \in DOMAIN node : BucketOf(node[n].key) >= row + 1
    BY <1>1, <2>2, <2>3 DEF Members
  <2>5. row + 1 \in Bucket
    BY <1>1, <2>1 DEF Bucket
  <2>6. IsFirstAfter(slot[row + 1], row + 1, 0)
    BY <1>1, <2>2, <2>5 DEF Ordered
  <2>7. Ordered(row + 2)
    BY <1>1, <2>2 DEF Ordered, Bucket
  <2>8. IsFirstAfter(at, row, 0)'
    BY <2>1, <2>6 DEF IsFirstAfter, Members
  <2>9. Ordered(row + 1)'
    <3>1. PICK r : r = row + 2
      OBVIOUS
    <3>2. Ordered(r)' /\ row' + 1 = r
      BY <1>1, <1>8, <1>31, <2>1, <2>7, <3>1 DEF DisposeRow
    <3> QED
      BY <3>2 DEF Ordered
  <2> QED
    BY <2>1, <2>4, <2>8, <2>9 DEF Disposing
<1>9. CASE DisposeEnd
  <2>1. pc = "dispose" /\ pc' = "gone" /\ at = None /\ row = Size - 1 /\ node' = node
    BY <1>9 DEF DisposeEnd, table
  <2>2. /\ \A x \in Members(row) : x <= 0
        /\ \A n \in DOMAIN node : BucketOf(node[n].key) >= row
    BY <1>1, <2>1 DEF Disposing, IsFirstAfter
  <2>3. \A n \in DOMAIN node : n \in Nat /\ n > 0 /\ BucketOf(node[n].key) \in 0..(Size - 1)
    BY <1>1, NodeFields DEF Bucket
  <2>4. \A n \in DOMAIN node : n \in Members(row)
    BY <1>1, <2>1, <2>2, <2>3 DEF Members
  <2>5. DOMAIN node = {}
    BY <2>2, <2>3, <2>4
  <2> QED
    BY <2>1, <2>5 DEF Disposing
<1>10. ASSUME NEW i \in Iter, IterStep(i) PROVE Disposing'
  <2>1. CASE NextWild(i)
    BY <1>5, <2>1 DEF NextWild
  <2>2. CASE Iterator(i) \/ NextInChain(i) \/ NextBucket(i) \/ NextEnd(i)
    BY <1>4, <2>2 DEF Iterator, NextInChain, NextBucket, NextEnd, walk
  <2> QED
    BY <1>10, <2>1, <2>2 DEF IterStep
<1>11. (\E r \in Map!Request : Call(r)) \/ WalkStep => pc' \notin {"dispose", "gone"}
  BY DEF Call, WalkStep, Advance, PutFound, PutNew, PutHalts, Get, RemoveFound, RemoveNone, Return, Walking
<1>12. CASE UNCHANGED vars
  BY <1>4, <1>12 DEF vars, walk
<1> QED
  BY <1>5, <1>6, <1>7, <1>8, <1>9, <1>10, <1>11, <1>12 DEF Next, DisposeStep

-----------------------------------------------------------------------------
(* The iterators                                                           *)

\* What Iterators says of one iterator
Itered(i) ==
  /\ seen[i] \subseteq Keys
  /\ IF it[i].on THEN Delivering(i) ELSE it[i] = Closed

LEMMA IteredSame ==
  ASSUME NEW i \in Iter, Itered(i), DOMAIN node' = DOMAIN node, fresh' = fresh,
         \A n \in DOMAIN node : node'[n].key = node[n].key,
         it'[i] = it[i], due'[i] = due[i], seen'[i] = seen[i]
  PROVE  Itered(i)'
<1>1. Keys' = Keys
  BY DEF Keys
<1>2. Ahead(i)' = Ahead(i)
  BY DEF Ahead, BucketOf
<1>3. Delivering(i) => Delivering(i)'
  BY <1>1, <1>2 DEF Delivering, BucketOf
<1> QED
  BY <1>1, <1>3 DEF Itered, Closed

\* The iterator i delivers the first of the nodes before it.
LEMMA IteredDeliver ==
  ASSUME HInv, InUse, NEW i \in Iter, NEW n \in DOMAIN node, NEW b \in Bucket, Deliver(i, n, b),
         UNCHANGED <<table, due>>, it[i].on, it[i].next \in DOMAIN node \cup {None},
         BucketOf(node[n].key) = b,
         Ahead(i) = {m \in DOMAIN node : BucketOf(node[m].key) > b \/ (BucketOf(node[m].key) = b /\ m >= n)}
  PROVE  Itered(i)'
<1>1. /\ it'[i].on /\ it'[i].index = b /\ it'[i].next = node[n].next
      /\ seen'[i] = seen[i] \cup {node[n].key} /\ due' = due /\ node' = node /\ fresh' = fresh
  BY DEF Deliver, table, HInv, TypeOK
<1>2. /\ seen[i] \subseteq Keys /\ due[i] \subseteq Keys /\ Keys' = Keys
      /\ \A m \in DOMAIN node :
           /\ m \in Ahead(i) => node[m].key \notin seen[i]
           /\ m \notin Ahead(i) /\ node[m].key \in due[i] => node[m].key \in seen[i]
  BY <1>1 DEF HInv, Iterators, Delivering, Keys
<1>3. PICK d : d = node[n].next
  OBVIOUS
<1>4. \A m \in DOMAIN node : m \in Nat /\ BucketOf(node[m].key) \in Nat
  BY NodeFields DEF HInv, Bucket
<1>5. FirstOf(d, Members(b), n) /\ Distinct
  BY <1>3, ChainedIs, OrderedIs DEF HInv
<1>6. d # None => d \in DOMAIN node /\ BucketOf(node[d].key) = b /\ d < fresh
  BY <1>5 DEF FirstOf, Members, HInv, Filled
<1>7. Ahead(i)' = {m \in DOMAIN node : BucketOf(node[m].key) > b
                                       \/ (BucketOf(node[m].key) = b /\ d # None /\ m >= d)}
  BY <1>1, <1>3 DEF Ahead, BucketOf
<1>8. Ahead(i)' = Ahead(i) \ {n}
  <2>1. ASSUME NEW m \in DOMAIN node, BucketOf(node[m].key) = b
        PROVE  (m >= n /\ m # n) <=> (d # None /\ m >= d)
    <3>1. m \in Members(b) /\ m \in Nat /\ n \in Nat /\ (d # None => d \in Nat)
      BY <1>4, <1>6, <2>1 DEF Members
    <3> QED
      BY <1>5, <3>1 DEF FirstOf
  <2>2. \A m \in DOMAIN node : BucketOf(node[m].key) > b => m # n /\ BucketOf(node[m].key) # b
    BY <1>4
  <2> QED
    BY <1>7, <2>1, <2>2
<1>9. Delivering(i)'
  <2>1. it'[i].next # None => it'[i].next < fresh'
    BY <1>1, <1>3, <1>6
  <2>2. it'[i].next \in DOMAIN node' => BucketOf(node'[it'[i].next].key) = it'[i].index
    <3>1. d \in DOMAIN node => BucketOf(node[d].key) = b
      BY <1>4, <1>6, TableAssumption
    <3> QED
      BY <1>1, <1>3, <3>1
  <2>3. ASSUME NEW m \in DOMAIN node
        PROVE  /\ m \in Ahead(i)' => node[m].key \notin seen'[i]
               /\ m \notin Ahead(i)' /\ node[m].key \in due[i] => node[m].key \in seen'[i]
    BY <1>1, <1>2, <1>5, <1>8, <2>3 DEF Distinct
  <2> QED
    BY <1>1, <1>2, <2>1, <2>2, <2>3 DEF Delivering, BucketOf
<1>10. seen'[i] \subseteq Keys'
  BY <1>1, <1>2 DEF Keys
<1> QED
  BY <1>1, <1>9, <1>10 DEF Itered

LEMMA Occupied ==
  ASSUME HInv, InUse, NEW m \in DOMAIN node
  PROVE  BucketOf(node[m].key) \in Bucket /\ slot[BucketOf(node[m].key)] # None
<1>1. PICK c \in Bucket : c = BucketOf(node[m].key)
  BY NodeFields DEF HInv
<1>2. m \in Members(c) /\ ~(m <= 0)
  BY <1>1, NodeFields DEF Members, HInv
<1>3. FirstOf(slot[c], Members(c), 0)
  BY ChainedIs, OrderedIs DEF HInv
<1> QED
  BY <1>1, <1>2, <1>3 DEF FirstOf

LEMMA IterStepItered ==
  ASSUME HInv, InUse, NEW i \in Iter, IterStep(i)
  PROVE  Itered(i)'
<1>1. /\ it \in [Iter -> [on : BOOLEAN, index : -1..(Size - 1), next : Node \cup {None},
                          first : Key \cup {None}, second : Data]]
      /\ due \in [Iter -> SUBSET Key] /\ seen \in [Iter -> SUBSET Key] /\ Itered(i)
  BY DEF HInv, TypeOK, Iterators, Itered
<1>2. \A m \in DOMAIN node : m \in Nat /\ m # None /\ BucketOf(node[m].key) \in Bucket /\ BucketOf(node[m].key) \in Nat
  BY NodeFields DEF HInv, Bucket
<1>3. CASE Iterator(i)
  <2>1. /\ it'[i].on /\ it'[i].index = -1 /\ it'[i].next = None
        /\ due'[i] = Keys /\ seen'[i] = {} /\ node' = node /\ fresh' = fresh
    BY <1>1, <1>3 DEF Iterator, Closed, Keys, table
  <2>2. Ahead(i)' = DOMAIN node
    <3>1. \A m \in DOMAIN node : BucketOf(node[m].key) > -1
      BY <1>2
    <3>2. Ahead(i)' = {m \in DOMAIN node :
                         \/ BucketOf(node[m].key) > -1
                         \/ BucketOf(node[m].key) = -1 /\ it'[i].next # None /\ m >= it'[i].next}
      BY <2>1 DEF Ahead, BucketOf
    <3> QED
      BY <3>1, <3>2
  <2>3. Delivering(i)'
    BY <1>2, <2>1, <2>2, TableAssumption DEF Delivering, Keys
  <2> QED
    BY <2>1, <2>3 DEF Itered
<1>4. CASE NextInChain(i)
  <2>1. PICK n : n = it[i].next
    OBVIOUS
  <2>2. /\ it[i].on /\ n \in DOMAIN node /\ Deliver(i, n, it[i].index) /\ UNCHANGED <<table, due>>
    BY <1>4, <2>1 DEF NextInChain
  <2>3. BucketOf(node[n].key) = it[i].index
    BY <1>1, <2>1, <2>2 DEF Itered, Delivering
  <2>4. PICK b \in Bucket : b = it[i].index
    BY <1>2, <2>2, <2>3
  <2>5. Ahead(i) = {m \in DOMAIN node : BucketOf(node[m].key) > b \/ (BucketOf(node[m].key) = b /\ m >= n)}
    BY <1>2, <2>1, <2>2, <2>4 DEF Ahead
  <2> QED
    BY <2>1, <2>2, <2>3, <2>4, <2>5, IteredDeliver
<1>5. CASE NextBucket(i)
  <2>1. PICK b : b = Min(BucketsAhead(i))
    OBVIOUS
  <2>2. PICK n : n = slot[b]
    OBVIOUS
  <2>3. /\ it[i].on /\ it[i].next = None /\ b \in Bucket /\ b > it[i].index /\ n # None
        /\ Deliver(i, n, b) /\ UNCHANGED <<table, due>>
        /\ \A c \in Bucket : c > it[i].index /\ slot[c] # None => b <= c
    BY <1>5, <2>1, <2>2, NextBucketIs DEF NextBucket, BucketsAhead
  <2>4. \A c \in Bucket : FirstOf(slot[c], Members(c), 0)
    BY ChainedIs, OrderedIs DEF HInv
  <2>5. n \in DOMAIN node /\ BucketOf(node[n].key) = b /\ \A m \in Members(b) : n <= m
    <3>1. n \in Members(b) /\ \A m \in Members(b) : m <= 0 \/ n <= m
      BY <2>2, <2>3, <2>4 DEF FirstOf
    <3>2. \A m \in Members(b) : m \in Nat /\ m > 0
      BY NodeFields DEF Members, HInv
    <3> QED
      BY <3>1, <3>2 DEF Members
  <2>6. \A m \in DOMAIN node : slot[BucketOf(node[m].key)] # None
    BY Occupied
  <2>7. Ahead(i) = {m \in DOMAIN node : BucketOf(node[m].key) > b \/ (BucketOf(node[m].key) = b /\ m >= n)}
    <3>1. it[i].index \in Int /\ b \in Int
      BY <1>1, <2>3 DEF Bucket
    <3>2. Ahead(i) = {m \in DOMAIN node : BucketOf(node[m].key) > it[i].index}
      BY <2>3 DEF Ahead
    <3>3. ASSUME NEW m \in DOMAIN node
          PROVE  BucketOf(node[m].key) > it[i].index
                   <=> BucketOf(node[m].key) > b \/ (BucketOf(node[m].key) = b /\ m >= n)
      <4>1. PICK c \in Bucket : c = BucketOf(node[m].key) /\ c \in Nat /\ slot[c] # None
        BY <1>2, <2>6
      <4>2. c = b => m >= n
        BY <1>2, <2>5, <4>1 DEF Members
      <4>3. c > it[i].index => b <= c
        BY <2>3, <4>1
      <4> QED
        BY <2>3, <3>1, <4>1, <4>2, <4>3
    <3> QED
      BY <3>2, <3>3
  <2> QED
    BY <2>3, <2>5, <2>7, IteredDeliver
<1>6. CASE NextEnd(i)
  <2>1. it'[i] = Closed /\ seen'[i] = {}
    BY <1>1, <1>6 DEF NextEnd
  <2> QED
    BY <2>1 DEF Itered, Closed
<1>7. CASE NextWild(i)
  BY <1>1, <1>7, IteredSame DEF NextWild, table, history
<1> QED
  BY <1>3, <1>4, <1>5, <1>6, <1>7 DEF IterStep

LEMMA IteratorsStep == HInv /\ [Next]_vars => Iterators'
<1> SUFFICES ASSUME HInv, [Next]_vars, InUse', NEW i \in Iter PROVE Itered(i)'
  BY DEF Iterators, Itered
<1>1. InUse
  <2>1. PutFound \/ PutNew \/ RemoveFound => InUse
    BY DEF PutFound, PutNew, RemoveFound, Walking, InUse
  <2>2. DisposeNode => InUse
    BY DEF DisposeNode, InUse
  <2> QED
    BY <2>1, <2>2, NextIs, LooksKeeps
<1>2. /\ it \in [Iter -> [on : BOOLEAN, index : -1..(Size - 1), next : Node \cup {None},
                          first : Key \cup {None}, second : Data]]
      /\ due \in [Iter -> SUBSET Key] /\ seen \in [Iter -> SUBSET Key] /\ Itered(i)
  BY <1>1 DEF HInv, TypeOK, Iterators, Itered
<1>3. ASSUME UNCHANGED <<table, history, it>> PROVE Itered(i)'
  BY <1>2, <1>3, IteredSame DEF table, history
<1>4. CASE UNCHANGED vars
  BY <1>3, <1>4 DEF vars
<1>5. ASSUME NEW r \in Map!Request, Call(r) PROVE Itered(i)'
  BY <1>3, <1>5 DEF Call
<1>6. CASE Advance \/ PutHalts \/ Get \/ RemoveNone \/ DisposeCall \/ DisposeRow \/ DisposeEnd
  BY <1>3, <1>6 DEF Advance, PutHalts, Get, RemoveNone, DisposeCall, DisposeRow, DisposeEnd
<1>7. ASSUME NEW j \in Iter, IterStep(j) PROVE Itered(i)'
  <2>1. CASE j = i
    BY <1>1, <1>7, <2>1, IterStepItered
  <2>2. CASE j # i
    <3>1. it'[i] = it[i] /\ due'[i] = due[i] /\ seen'[i] = seen[i] /\ node' = node /\ fresh' = fresh
      BY <1>2, <1>7, <2>2 DEF IterStep, Iterator, NextInChain, NextBucket, NextEnd, NextWild, Deliver,
                              table, history
    <3> QED
      BY <1>2, <3>1, IteredSame
  <2> QED
    BY <2>1, <2>2
<1>8. CASE PutFound
  BY <1>2, <1>8, PutFoundKeeps, IteredSame DEF PutFound, history
<1>9. CASE PutNew
  <2>1. /\ Keys' = Keys \cup {req.key} /\ req.key \notin Keys
        /\ it' = it /\ due' = due /\ seen' = seen /\ fresh' = fresh + 1 /\ fresh \in Nat
    BY <1>9, ChainsWithNew, Absent DEF PutNew, Walking, history, Node
  <2>2. /\ DOMAIN node' = DOMAIN node \cup {fresh} /\ node'[fresh].key = req.key
        /\ \A n \in DOMAIN node : node'[n].key = node[n].key
    <3> DEFINE f == WithNode(None)
    <3>1. /\ DOMAIN f = DOMAIN node \cup {fresh} /\ f[fresh].key = req.key
          /\ \A n \in DOMAIN node : f[n] = node[n]
      <4>1. \A n \in DOMAIN node : n # fresh
        BY <2>1, NodeFields DEF HInv, Filled
      <4> QED
        BY <4>1 DEF WithNode
    <3>2. PointTo(f, fresh) /\ (at # None => at \in DOMAIN node)
      BY <1>9, Walk DEF PutNew, Walking, Members
    <3>3. at # None => at \in DOMAIN f /\ f[at] = node[at]
      BY <3>1, <3>2
    <3> HIDE DEF f
    <3>4. DOMAIN node' = DOMAIN f /\ \A n \in DOMAIN f : node'[n].key = f[n].key
      BY <3>2, <3>3, Pointed
    <3> QED
      BY <3>1, <3>4
  <2>3. CASE ~it[i].on
    BY <1>2, <2>1, <2>3 DEF Itered, Closed
  <2>4. CASE it[i].on
    <3>1. PICK x : x = it[i].next
      OBVIOUS
    <3>2. /\ seen[i] \subseteq Keys /\ due[i] \subseteq Keys
          /\ x # None => x < fresh /\ x \in Nat
          /\ x \in DOMAIN node => BucketOf(node[x].key) = it[i].index
          /\ x \in DOMAIN node \cup {None} =>
               \A n \in DOMAIN node :
                 /\ n \in Ahead(i) => node[n].key \notin seen[i]
                 /\ n \notin Ahead(i) /\ node[n].key \in due[i] => node[n].key \in seen[i]
      BY <1>2, <2>4, <3>1, TableAssumption DEF Itered, Delivering, Node
    <3>3. x # fresh /\ fresh # None
      BY <2>1, <3>2, TableAssumption
    <3>4. \A n \in DOMAIN node : n \in Ahead(i)' <=> n \in Ahead(i)
      BY <2>1, <2>2 DEF Ahead, BucketOf
    <3>5. x # None => x < fresh'
      BY <2>1, <3>2
    <3>6. x \in DOMAIN node' => BucketOf(node'[x].key) = it[i].index
      BY <2>2, <3>2, <3>3
    <3>7. x \in DOMAIN node' \cup {None} =>
               \A n \in DOMAIN node' :
                 /\ n \in Ahead(i)' => node'[n].key \notin seen[i]
                 /\ n \notin Ahead(i)' /\ node'[n].key \in due[i] => node'[n].key \in seen[i]
      BY <2>1, <2>2, <3>2, <3>3, <3>4
    <3>8. Delivering(i)'
      BY <2>1, <3>1, <3>2, <3>5, <3>6, <3>7 DEF Delivering, BucketOf
    <3> QED
      BY <2>1, <2>4, <3>2, <3>8 DEF Itered
  <2> QED
    BY <2>3, <2>4
<1>10. CASE RemoveFound
  <2>1. /\ Keys' = Keys \ {req.key} /\ DOMAIN node' = DOMAIN node \ {cur}
        /\ \A n \in DOMAIN node' : node'[n].key = node[n].key
        /\ it' = it /\ fresh' = fresh
        /\ due'[i] = due[i] \ {req.key} /\ seen'[i] = seen[i] \ {req.key}
    BY <1>10, ChainsWithout DEF RemoveFound
  <2>2. \A n \in DOMAIN node' : n \in DOMAIN node /\ node[n].key # req.key
    BY <2>1 DEF Keys
  <2>3. CASE ~it[i].on
    BY <1>2, <2>1, <2>3 DEF Itered, Closed
  <2>4. CASE it[i].on
    <3>1. \A n \in DOMAIN node' : n \in Ahead(i)' <=> n \in Ahead(i)
      BY <2>1, <2>2 DEF Ahead, BucketOf
    <3>2. Delivering(i)
      BY <1>2, <2>4 DEF Itered
    <3>3. Delivering(i)'
      BY <2>1, <2>2, <3>1, <3>2 DEF Delivering, BucketOf
    <3> QED
      BY <1>2, <2>1, <2>4, <3>3 DEF Itered
  <2> QED
    BY <2>3, <2>4
<1>11. ~DisposeNode
  BY DEF DisposeNode, InUse
<1> QED
  BY <1>4, <1>5, <1>6, <1>7, <1>8, <1>9, <1>10, <1>11, NextIs DEF Looks

-----------------------------------------------------------------------------
(* The theorems                                                            *)

LEMMA InitHInv == Init => HInv
<1> SUFFICES ASSUME Init PROVE HInv
  OBVIOUS
<1>1. /\ slot = [b \in Bucket |-> None] /\ DOMAIN node = {} /\ fresh = 1 /\ req = None /\ ret = None
      /\ pc = "idle" /\ at = None /\ row = 0 /\ it = [i \in Iter |-> Closed]
      /\ due = [i \in Iter |-> {}] /\ seen = [i \in Iter |-> {}]
  BY DEF Init
<1>2. node \in [DOMAIN node -> [hash : Nat, key : Key, data : Data, next : Node \cup {None}]]
  BY DEF Init
<1>3. Size \in Nat \ {0} /\ MaxNodes \in Nat /\ None \in Data /\ 0 \in Bucket /\ 1 \in 1..(MaxNodes + 1)
  BY TableAssumption DEF Bucket
<1>4. Closed \in [on : BOOLEAN, index : -1..(Size - 1), next : Node \cup {None},
                  first : Key \cup {None}, second : Data]
  <2>1. -1 \in -1..(Size - 1)
    BY <1>3
  <2> QED
    BY <1>3, <2>1 DEF Closed
<1>5. TypeOK
  BY <1>1, <1>2, <1>3, <1>4 DEF TypeOK
<1>6. Chained
  BY <1>1 DEF Chained, IsFirstAfter, Members
<1>7. Control /\ Filled /\ Disposing
  BY <1>1 DEF Control, Filled, Disposing
<1>8. Iterators
  BY <1>1 DEF Iterators, Keys, Closed
<1> QED
  BY <1>5, <1>6, <1>7, <1>8 DEF HInv

LEMMA NextHInv == HInv /\ [Next]_vars => HInv'
BY TypeStep, ChainedStep, ControlStep, FilledStep, DisposingStep, IteratorsStep DEF HInv

LEMMA HInvAlways == Spec => []HInv
<1> QED
  BY InitHInv, NextHInv, PTL DEF Spec

\* At every step of every call, whatever the hash and the keys, the types hold,
\* outside of hashmap_dispose the nodes of a bucket are one chain without
\* duplicate keys, and a dispose frees every node, each of them once.
THEOREM IntactCorrect == Spec => []Intact
<1>1. HInv => Intact
  <2> SUFFICES ASSUME HInv PROVE Intact
    OBVIOUS
  <2>1. NoneLeft
    BY DEF HInv, Disposing, NoneLeft, IsFirstAfter, Members
  <2> QED
    BY <2>1 DEF HInv, Intact
<1> QED
  BY <1>1, HInvAlways, PTL

\* hashmap_next delivers what is in the map, no key twice, and ends only when
\* it has delivered every key that was there from hashmap_iterator on, whatever
\* hashmap_put and hashmap_remove did in between.
THEOREM IterationCorrect == Spec => Iteration
<1> DEFINE Delivered(i) ==
      it[i].on /\ it'[i] # it[i] =>
       IF it'[i].on
         THEN /\ it'[i].first \notin seen[i]
              /\ \E n \in DOMAIN node : node[n].key = it'[i].first /\ node[n].data = it'[i].second
         ELSE due[i] \subseteq seen[i]
<1>1. ASSUME HInv, [Next]_vars, NEW i \in Iter, it[i].on, it'[i] # it[i]
      PROVE  IF it'[i].on
               THEN /\ it'[i].first \notin seen[i]
                    /\ \E n \in DOMAIN node : node[n].key = it'[i].first /\ node[n].data = it'[i].second
               ELSE due[i] \subseteq seen[i]
  <2>1. it \in [Iter -> [on : BOOLEAN, index : -1..(Size - 1), next : Node \cup {None},
                          first : Key \cup {None}, second : Data]]
    BY <1>1 DEF HInv, TypeOK
  <2>2. IterStep(i) /\ InUse
    <3>1. Looks \/ PutFound \/ PutNew \/ RemoveFound \/ DisposeNode
      BY <1>1, NextIs DEF vars
    <3>2. PutFound \/ PutNew \/ RemoveFound \/ DisposeNode => it' = it
      BY DEF PutFound, PutNew, RemoveFound, DisposeNode
    <3>3. (\E r \in Map!Request : Call(r)) \/ Advance \/ PutHalts \/ Get \/ RemoveNone
             \/ DisposeCall \/ DisposeRow \/ DisposeEnd => it' = it
      BY DEF Call, Advance, PutHalts, Get, RemoveNone, DisposeCall, DisposeRow, DisposeEnd
    <3>4. PICK j \in Iter : IterStep(j)
      BY <1>1, <3>1, <3>2, <3>3 DEF Looks
    <3>5. j = i
      BY <1>1, <2>1, <3>4 DEF IterStep, Iterator, NextInChain, NextBucket, NextEnd, NextWild, Deliver
    <3>6. IterStep(i) => InUse
      BY DEF IterStep, Iterator, NextInChain, NextBucket, NextEnd, NextWild, InUse
    <3> QED
      BY <3>4, <3>5, <3>6
  <2>3. Delivering(i)
    BY <1>1, <2>2 DEF HInv, Iterators
  <2>4. ASSUME NEW n \in DOMAIN node, NEW b, n \in Ahead(i), Deliver(i, n, b),
               it[i].next \in DOMAIN node \cup {None}
        PROVE  /\ it'[i].on /\ it'[i].first \notin seen[i]
               /\ node[n].key = it'[i].first /\ node[n].data = it'[i].second
    <3>1. it'[i].on /\ it'[i].first = node[n].key /\ it'[i].second = node[n].data
      BY <2>1, <2>4 DEF Deliver
    <3> QED
      BY <2>3, <2>4, <3>1 DEF Delivering
  <2>5. CASE NextInChain(i)
    <3>1. PICK n \in DOMAIN node : n = it[i].next /\ Deliver(i, n, it[i].index)
      BY <2>5 DEF NextInChain
    <3>2. n \in Ahead(i)
      <4>1. n \in Nat /\ n # None /\ BucketOf(node[n].key) = it[i].index
        BY <1>1, <2>3, <3>1, NodeFields DEF HInv, Delivering
      <4> QED
        BY <3>1, <4>1 DEF Ahead
    <3> QED
      BY <2>4, <3>1, <3>2
  <2>6. CASE NextBucket(i)
    <3>1. PICK b : b = Min(BucketsAhead(i))
      OBVIOUS
    <3>2. PICK n : n = slot[b]
      OBVIOUS
    <3>3. b \in Bucket /\ b > it[i].index /\ n # None /\ it[i].next = None /\ Deliver(i, n, b)
      BY <2>6, <3>1, <3>2, NextBucketIs DEF NextBucket, BucketsAhead
    <3>4. n \in Members(b)
      BY <1>1, <2>2, <3>2, <3>3, ChainedIs, OrderedIs DEF HInv, FirstOf
    <3>5. n \in Ahead(i) /\ n \in DOMAIN node
      BY <3>3, <3>4 DEF Members, Ahead
    <3> QED
      BY <2>4, <3>3, <3>5
  <2>7. CASE NextEnd(i)
    <3>1. ~it'[i].on /\ it[i].next = None /\ BucketsAhead(i) = {}
      BY <2>1, <2>7 DEF NextEnd, Closed
    <3>2. Ahead(i) = {}
      BY <1>1, <2>2, <3>1, Occupied DEF Ahead, BucketsAhead
    <3>3. due[i] \subseteq seen[i]
      BY <2>3, <3>1, <3>2 DEF Delivering, Keys
    <3> QED
      BY <3>1, <3>3
  <2>8. ~Iterator(i) /\ ~NextWild(i)
    BY <1>1 DEF Iterator, NextWild
  <2> QED
    BY <2>2, <2>5, <2>6, <2>7, <2>8 DEF IterStep
<1>2. HInv /\ [Next]_vars => [\A i \in Iter : Delivered(i)]_vars
  BY <1>1
<1> QED
  BY <1>2, HInvAlways, PTL DEF Spec, Iteration

\* A step of a table in use takes from an iterator the node it keeps only when
\* it removes a key that hashmap_next has not delivered yet.
THEOREM LosesCorrect == Spec => LosesOnlyUndelivered
<1>1. ASSUME HInv, [Next]_vars, NEW i \in Iter, InUse', it[i].next \in DOMAIN node \ DOMAIN node'
      PROVE  node[it[i].next].key \notin seen[i]
  <2>1. InUse
    <3>1. PutFound \/ PutNew \/ RemoveFound => InUse
      BY DEF PutFound, PutNew, RemoveFound, Walking, InUse
    <3>2. DisposeNode => InUse
      BY <1>1 DEF DisposeNode, InUse
    <3> QED
      BY <1>1, <3>1, <3>2, NextIs, LooksKeeps
  <2>2. PICK n \in DOMAIN node : n = it[i].next /\ n # None /\ n \in Nat
    BY <1>1, NodeFields DEF HInv
  <2>3. Delivering(i)
    BY <1>1, <2>1, <2>2 DEF HInv, Iterators, Closed
  <2>4. n \in Ahead(i)
    BY <2>2, <2>3 DEF Delivering, Ahead
  <2> QED
    BY <2>2, <2>3, <2>4 DEF Delivering
<1>2. HInv /\ [Next]_vars =>
        [\A i \in Iter : InUse' /\ it[i].next \in DOMAIN node \ DOMAIN node' =>
           node[it[i].next].key \notin seen[i]]_vars
  BY <1>1
<1> QED
  BY <1>2, HInvAlways, PTL DEF Spec, LosesOnlyUndelivered

-----------------------------------------------------------------------------
(* The table is a map                                                      *)

\* The map that the nodes f stand for
MapOf(f) ==
  [k \in {f[n].key : n \in DOMAIN f} |-> f[CHOOSE n \in DOMAIN f : f[n].key = k].data]

LEMMA MapOfIs ==
  ASSUME NEW f, \A m, n \in DOMAIN f : f[m].key = f[n].key => m = n
  PROVE  /\ DOMAIN MapOf(f) = {f[n].key : n \in DOMAIN f}
         /\ \A n \in DOMAIN f : MapOf(f)[f[n].key] = f[n].data
<1> SUFFICES ASSUME NEW n \in DOMAIN f PROVE MapOf(f)[f[n].key] = f[n].data
  BY DEF MapOf
<1>1. (CHOOSE m \in DOMAIN f : f[m].key = f[n].key) = n
  OBVIOUS
<1> QED
  BY <1>1 DEF MapOf

\* Two maps with the same keys and data
LEMMA MapOfSame ==
  ASSUME NEW g, \A m, n \in DOMAIN g : g[m].key = g[n].key => m = n,
         NEW M, M = [k \in DOMAIN M |-> M[k]], DOMAIN M = {g[n].key : n \in DOMAIN g},
         \A n \in DOMAIN g : M[g[n].key] = g[n].data
  PROVE  MapOf(g) = M
<1>1. DOMAIN MapOf(g) = DOMAIN M /\ \A n \in DOMAIN g : MapOf(g)[g[n].key] = M[g[n].key]
  BY MapOfIs
<1>2. MapOf(g) = [k \in DOMAIN MapOf(g) |-> MapOf(g)[k]]
  BY DEF MapOf
<1>3. \A k \in DOMAIN M : MapOf(g)[k] = M[k]
  BY <1>1
<1> QED
  BY <1>1, <1>2, <1>3

\* The answer of a walk that ends at cur
LEMMA LookupIs ==
  ASSUME HInv, pc = "walk", Matches \/ cur = None
  PROVE  /\ DOMAIN MapOf(node) = Keys
         /\ Matches => req.key \in Keys /\ MapOf(node)[req.key] = node[cur].data
         /\ cur = None => req.key \notin Keys
<1>1. \A m, n \in DOMAIN node : node[m].key = node[n].key => m = n
  BY Walk DEF Distinct
<1>2. DOMAIN MapOf(node) = Keys /\ \A n \in DOMAIN node : MapOf(node)[node[n].key] = node[n].data
  BY <1>1, MapOfIs DEF Keys
<1>3. Matches => cur \in DOMAIN node /\ node[cur].key = req.key
  BY Walk DEF Matches
<1> QED
  BY <1>2, <1>3, Absent DEF Keys

LEMMA RefinesStep ==
  ASSUME HInv, HInv', [Next]_vars, InUse'
  PROVE  Map!Next \/ UNCHANGED Map!vars
<1> PICK M : M = MapOf(node)
  OBVIOUS
<1>0. /\ Map!Put <=> /\ req # None /\ req.op = "put"
                     /\ MapOf(node') = [k \in DOMAIN M \cup {req.key} |->
                                           IF k = req.key THEN req.data ELSE M[k]]
                     /\ ret' = (req.key \notin DOMAIN M) /\ req' = None
      /\ Map!Get <=> /\ req # None /\ req.op = "get"
                     /\ ret' = IF req.key \in DOMAIN M THEN M[req.key] ELSE None
                     /\ req' = None /\ MapOf(node') = M
      /\ Map!Remove <=> /\ req # None /\ req.op = "remove"
                        /\ ret' = IF req.key \in DOMAIN M THEN M[req.key] ELSE None
                        /\ MapOf(node') = [k \in DOMAIN M \ {req.key} |-> M[k]] /\ req' = None
  BY DEF Map!Put, Map!Get, Map!Remove, Map!Lookup, MapOf
<1>1. ASSUME UNCHANGED <<node, req, ret>> PROVE UNCHANGED Map!vars
  BY <1>1 DEF Map!vars
<1>2. ASSUME NEW r \in Map!Request, Call(r) PROVE Map!Next
  <2>1. req = None /\ req' = r /\ ret' = None /\ node' = node
    BY <1>2 DEF Call, table, HInv, Control
  <2> QED
    BY <2>1 DEF Map!Next, Map!Call
<1>3. \A m, n \in DOMAIN node' : node'[m].key = node'[n].key => m = n
  BY ChainedIs DEF HInv, Chained
<1>4. ASSUME PutFound \/ PutNew \/ Get \/ RemoveFound \/ RemoveNone
      PROVE  /\ pc = "walk" /\ req # None /\ req' = None
             /\ \A m, n \in DOMAIN node : node[m].key = node[n].key => m = n
  <2>1. pc = "walk" /\ req' = None
    BY <1>4 DEF PutFound, PutNew, Get, RemoveFound, RemoveNone, Walking, Return
  <2>2. req # None
    BY <2>1, Walk, RequestAssumption
  <2> QED
    BY <2>1, <2>2, Walk DEF Distinct
<1>5. CASE PutFound
  <2>1. /\ req.op = "put" /\ ret' = FALSE /\ Matches /\ req.key \in Keys /\ DOMAIN M = Keys
        /\ cur \in DOMAIN node /\ node[cur].key = req.key
        /\ DOMAIN node' = DOMAIN node /\ node'[cur].data = req.data
        /\ \A n \in DOMAIN node : node'[n].key = node[n].key /\ (n # cur => node'[n] = node[n])
    BY <1>4, <1>5, PutFoundKeeps, LookupIs DEF PutFound, Walking, Return
  <2>2. \A n \in DOMAIN node : M[node[n].key] = node[n].data
    BY <1>4, <1>5, MapOfIs
  <2>3. PICK N : N = [k \in DOMAIN M \cup {req.key} |-> IF k = req.key THEN req.data ELSE M[k]]
    OBVIOUS
  <2>4. DOMAIN N = {node'[n].key : n \in DOMAIN node'} /\ N = [k \in DOMAIN N |-> N[k]]
    BY <2>1, <2>3 DEF Keys
  <2>5. ASSUME NEW n \in DOMAIN node' PROVE N[node'[n].key] = node'[n].data
    <3>1. n \in DOMAIN node /\ node'[n].key = node[n].key /\ node[n].key \in DOMAIN M
      BY <2>1 DEF Keys
    <3>2. CASE n = cur
      BY <2>1, <2>3, <3>1, <3>2
    <3>3. CASE n # cur
      <4>1. node[n].key # req.key /\ node'[n] = node[n]
        BY <1>4, <1>5, <2>1, <3>1, <3>3
      <4> QED
        BY <2>2, <2>3, <3>1, <4>1
    <3> QED
      BY <3>2, <3>3
  <2>6. MapOf(node') = N
    BY <1>3, <2>4, <2>5, MapOfSame
  <2> QED
    BY <1>0, <1>4, <1>5, <2>1, <2>3, <2>6 DEF Map!Next
<1>6. CASE PutNew
  <2>1. /\ req.op = "put" /\ ret' = TRUE /\ cur = None /\ req.key \notin Keys /\ DOMAIN M = Keys
        /\ fresh \in Nat
    BY <1>4, <1>6, LookupIs DEF PutNew, Walking, Return, Node
  <2>2. /\ DOMAIN node' = DOMAIN node \cup {fresh} /\ fresh \notin DOMAIN node
        /\ node'[fresh].key = req.key /\ node'[fresh].data = req.data
        /\ \A n \in DOMAIN node : node'[n].key = node[n].key /\ node'[n].data = node[n].data
    <3> DEFINE f == WithNode(None)
    <3>1. fresh \notin DOMAIN node
      BY <2>1, NodeFields DEF HInv, Filled
    <3>2. /\ DOMAIN f = DOMAIN node \cup {fresh} /\ f[fresh].key = req.key /\ f[fresh].data = req.data
          /\ \A n \in DOMAIN node : f[n] = node[n]
      BY <3>1 DEF WithNode
    <3>3. PointTo(f, fresh) /\ (at # None => at \in DOMAIN node)
      BY <1>4, <1>6, Walk DEF PutNew, Members
    <3>4. at # None => at \in DOMAIN f /\ f[at] = node[at]
      BY <3>2, <3>3
    <3> HIDE DEF f
    <3>5. DOMAIN node' = DOMAIN f /\ \A n \in DOMAIN f : node'[n].key = f[n].key /\ node'[n].data = f[n].data
      BY <3>3, <3>4, Pointed
    <3> QED
      BY <3>1, <3>2, <3>5
  <2>3. \A n \in DOMAIN node : M[node[n].key] = node[n].data
    BY <1>4, <1>6, MapOfIs
  <2>4. PICK N : N = [k \in DOMAIN M \cup {req.key} |-> IF k = req.key THEN req.data ELSE M[k]]
    OBVIOUS
  <2>5. DOMAIN N = {node'[n].key : n \in DOMAIN node'} /\ N = [k \in DOMAIN N |-> N[k]]
    BY <2>1, <2>2, <2>4 DEF Keys
  <2>6. ASSUME NEW n \in DOMAIN node' PROVE N[node'[n].key] = node'[n].data
    BY <2>1, <2>2, <2>3, <2>4, <2>6 DEF Keys
  <2>7. MapOf(node') = N
    BY <1>3, <2>5, <2>6, MapOfSame
  <2> QED
    BY <1>0, <1>4, <1>6, <2>1, <2>4, <2>7 DEF Map!Next
<1>7. CASE RemoveFound
  <2>1. /\ req.op = "remove" /\ Matches /\ ret' = node[cur].data /\ DOMAIN M = Keys
        /\ req.key \in Keys /\ M[req.key] = node[cur].data
    BY <1>4, <1>7, LookupIs DEF RemoveFound, Walking, Return
  <2>2. /\ DOMAIN node' = DOMAIN node \ {cur} /\ Keys' = Keys \ {req.key}
        /\ \A n \in DOMAIN node' : node'[n].key = node[n].key /\ node'[n].data = node[n].data
    BY <1>7, ChainsWithout
  <2>3. \A n \in DOMAIN node : M[node[n].key] = node[n].data
    BY <1>4, <1>7, MapOfIs
  <2>4. PICK N : N = [k \in DOMAIN M \ {req.key} |-> M[k]]
    OBVIOUS
  <2>5. DOMAIN N = {node'[n].key : n \in DOMAIN node'} /\ N = [k \in DOMAIN N |-> N[k]]
    BY <2>1, <2>2, <2>4 DEF Keys
  <2>6. ASSUME NEW n \in DOMAIN node' PROVE N[node'[n].key] = node'[n].data
    <3>1. n \in DOMAIN node /\ node'[n].key \in DOMAIN N
      BY <2>2, <2>5
    <3> QED
      BY <2>2, <2>3, <2>4, <3>1
  <2>7. MapOf(node') = N
    BY <1>3, <2>5, <2>6, MapOfSame
  <2> QED
    BY <1>0, <1>4, <1>7, <2>1, <2>4, <2>7 DEF Map!Next
<1>8. CASE Get
  <2>1. /\ req.op = "get" /\ (Matches \/ cur = None) /\ node' = node
        /\ ret' = IF Matches THEN node[cur].data ELSE None
    BY <1>8 DEF Get, Walking, Return, table
  <2>2. /\ DOMAIN M = Keys /\ (Matches => req.key \in Keys /\ M[req.key] = node[cur].data)
        /\ cur = None => req.key \notin Keys
    BY <1>4, <1>8, <2>1, LookupIs
  <2>3. MapOf(node') = M
    BY <2>1
  <2>4. ret' = IF req.key \in DOMAIN M THEN M[req.key] ELSE None
    BY <2>1, <2>2
  <2> QED
    BY <1>0, <1>4, <1>8, <2>1, <2>3, <2>4 DEF Map!Next
<1>9. CASE RemoveNone
  <2>1. req.op = "remove" /\ cur = None /\ node' = node /\ ret' = None
    BY <1>9 DEF RemoveNone, Walking, Return, table
  <2>2. DOMAIN M = Keys /\ req.key \notin Keys
    BY <1>4, <1>9, <2>1, LookupIs
  <2>3. PICK N : N = [k \in DOMAIN M \ {req.key} |-> M[k]]
    OBVIOUS
  <2>4. MapOf(node') = N
    <3>1. M = [k \in DOMAIN M |-> M[k]]
      BY DEF MapOf
    <3>2. DOMAIN M \ {req.key} = DOMAIN M
      BY <2>2
    <3> QED
      BY <2>1, <2>3, <3>1, <3>2
  <2> QED
    BY <1>0, <1>4, <1>9, <2>1, <2>2, <2>3, <2>4 DEF Map!Next
<1>10. CASE Advance \/ PutHalts \/ UNCHANGED vars
  BY <1>1, <1>10 DEF Advance, PutHalts, table, vars
<1>11. ASSUME NEW i \in Iter, IterStep(i) PROVE UNCHANGED <<node, req, ret>>
  BY <1>11 DEF IterStep, Iterator, NextInChain, NextBucket, NextEnd, NextWild, table
<1>12. ~(DisposeCall \/ DisposeStep)
  BY DEF DisposeCall, DisposeStep, DisposeNode, DisposeRow, DisposeEnd, InUse
<1> QED
  BY <1>1, <1>2, <1>5, <1>6, <1>7, <1>8, <1>9, <1>10, <1>11, <1>12 DEF Next, WalkStep

\* Until hashmap_dispose, hashmap_put, hashmap_get and hashmap_remove are the
\* operations of the map of MapStore: the step that ends a walk is the one in
\* which the call happens, and every other step changes nothing of the map.
THEOREM Implementation == Spec => Implements
<1>1. Init => Map!Init
  <2> SUFFICES ASSUME Init PROVE Map!Init
    OBVIOUS
  <2>1. DOMAIN node = {} /\ req = None /\ ret = None
    BY DEF Init
  <2>2. MapOf(node) = [k \in {} |-> None]
    BY <2>1 DEF MapOf
  <2> QED
    BY <2>1, <2>2 DEF Map!Init, MapOf
<1>2. HInv /\ HInv' /\ [Next]_vars => [InUse' => Map!Next]_(Map!vars)
  BY RefinesStep
<1> QED
  BY <1>1, <1>2, HInvAlways, PTL DEF Spec, Implements

=============================================================================
