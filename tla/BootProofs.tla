----------------------------- MODULE BootProofs -----------------------------
(***************************************************************************)
(* Theorems about Vfs and Boot.  The tree of nodes stays well formed, and a *)
(* path keeps its node, for every disc, every set of paths, and any number *)
(* of nodes and mounts.  The manager of pages is built on memory, the image *)
(* that was read is linked and entered right, and paths stay where main's  *)
(* mounts put them, for every memory map, image and table of exports.      *)
(***************************************************************************)
EXTENDS Boot, Arithmetic, SequenceTheorems, TLAPS

(* Pointers                                                                *)

\* What the following of pointers and names takes for granted of the nodes.
Shape(ns) ==
  /\ Len(ns) \in Nat \ {0} /\ DOMAIN ns = 1..Len(ns)
  /\ \A n \in DOMAIN ns : ns[n].pointer \in DOMAIN ns \cup {None}
  /\ \A n \in DOMAIN ns : ns[n].kids # None =>
       /\ DOMAIN ns[n].kids \subseteq Nat
       /\ \A u \in DOMAIN ns[n].kids : ns[n].kids[u] \in DOMAIN ns

\* f[k][n] is the end of the pointers from n if it is at most k away.
Ends(ns, f) ==
  /\ f \in [0..Len(ns) -> [DOMAIN ns -> DOMAIN ns \cup {None}]]
  /\ \A m \in DOMAIN ns : f[0][m] = IF ns[m].pointer = None THEN m ELSE None
  /\ \A k \in 1..Len(ns) : \A m \in DOMAIN ns :
       f[k][m] = IF ns[m].pointer = None THEN m ELSE f[k - 1][ns[m].pointer]

\* The function that End is the last value of
EndsBy(ns, f) ==
  f = [left \in 0..Len(ns) |->
        [m \in DOMAIN ns |->
           IF ns[m].pointer = None THEN m
           ELSE IF left = 0 THEN None ELSE f[left - 1][ns[m].pointer]]]

LEMMA NoneOutside == ASSUME NEW ns, Shape(ns) PROVE None \notin DOMAIN ns
  BY PathAssumption DEF Shape

LEMMA EndsSolved ==
  ASSUME NEW ns, Shape(ns)
  PROVE  \E f : EndsBy(ns, f)
<1> DEFINE D == DOMAIN ns
           R == [D -> D \cup {None}]
           b == [m \in D |-> IF ns[m].pointer = None THEN m ELSE None]
           g == [k \in 1..Len(ns) |->
                  [h \in R |-> [m \in D |-> IF ns[m].pointer = None THEN m ELSE h[ns[m].pointer]]]]
<1>1. b \in R
  OBVIOUS
<1>2. \A h \in R : [m \in D |-> IF ns[m].pointer = None THEN m ELSE h[ns[m].pointer]] \in R
  BY DEF Shape
<1>3. g \in [1..Len(ns) -> [R -> R]]
  <2> HIDE DEF R
  <2> QED BY <1>2
<1>4. PICK f \in [0..Len(ns) -> R] : f[0] = b /\ \A k \in 1..Len(ns) : f[k] = g[k][f[k - 1]]
  <2>1. Len(ns) \in Nat
    BY DEF Shape
  <2> HIDE DEF R, b, g
  <2>2. \E f \in [0..Len(ns) -> R] : Recurs(f, Len(ns), b, g)
    BY <1>1, <1>3, <2>1, Recursion
  <2> QED BY <2>2 DEF Recurs
<1>5. \A k \in 0..Len(ns) : f[k] =
        [m \in D |-> IF ns[m].pointer = None THEN m
                     ELSE IF k = 0 THEN None ELSE f[k - 1][ns[m].pointer]]
  <2> SUFFICES ASSUME NEW k \in 0..Len(ns)
               PROVE  f[k] = [m \in D |-> IF ns[m].pointer = None THEN m
                                ELSE IF k = 0 THEN None ELSE f[k - 1][ns[m].pointer]]
    OBVIOUS
  <2>1. CASE k = 0
    BY <1>4, <2>1
  <2>2. CASE k # 0
    <3>1. k \in 1..Len(ns) /\ k - 1 \in 0..Len(ns)
      BY <2>2 DEF Shape
    <3>2. f[k - 1] \in R
      BY <1>4, <3>1
    <3>3. g[k][f[k - 1]] = [m \in D |-> IF ns[m].pointer = None THEN m ELSE f[k - 1][ns[m].pointer]]
      <4> HIDE DEF R
      <4> QED BY <3>1, <3>2
    <3> QED BY <1>4, <2>2, <3>1, <3>3
  <2> QED BY <2>1, <2>2
<1>6. EndsBy(ns, f)
  <2> HIDE DEF R
  <2>1. f = [k \in 0..Len(ns) |-> f[k]]
    BY <1>4
  <2> QED BY <1>5, <2>1 DEF EndsBy
<1> QED BY <1>6

LEMMA EndChain ==
  ASSUME NEW ns, Shape(ns)
  PROVE  \E f : Ends(ns, f) /\ \A n \in DOMAIN ns : End(ns, n) = f[Len(ns)][n]
<1> DEFINE e == CHOOSE f : EndsBy(ns, f)
<1>1. EndsBy(ns, e)
  BY EndsSolved
<1>2. \A n \in DOMAIN ns : End(ns, n) = e[Len(ns)][n]
  BY DEF End, EndsBy
<1> HIDE DEF e
<1>3. \A k \in 0..Len(ns) : e[k] =
        [m \in DOMAIN ns |-> IF ns[m].pointer = None THEN m
                             ELSE IF k = 0 THEN None ELSE e[k - 1][ns[m].pointer]]
  BY <1>1 DEF EndsBy
<1>9. \A k \in 0..Len(ns) : \A m \in DOMAIN ns :
        e[k][m] = IF ns[m].pointer = None THEN m ELSE IF k = 0 THEN None ELSE e[k - 1][ns[m].pointer]
  <2> SUFFICES ASSUME NEW k \in 0..Len(ns), NEW m \in DOMAIN ns
               PROVE  e[k][m] = IF ns[m].pointer = None THEN m
                                ELSE IF k = 0 THEN None ELSE e[k - 1][ns[m].pointer]
    OBVIOUS
  <2>1. e[k] = [x \in DOMAIN ns |-> IF ns[x].pointer = None THEN x
                                    ELSE IF k = 0 THEN None ELSE e[k - 1][ns[x].pointer]]
    BY <1>3
  <2> QED BY <2>1
<1> DEFINE R == [DOMAIN ns -> DOMAIN ns \cup {None}]
<1> DEFINE S == {k \in Nat : k <= Len(ns) => e[k] \in R}
<1>4. S = Nat
  <2>1. 0 \in S
    <3>1. 0 \in 0..Len(ns)
      BY DEF Shape
    <3>2. e[0] = [m \in DOMAIN ns |-> IF ns[m].pointer = None THEN m ELSE None]
      BY <1>3, <3>1
    <3> QED BY <3>2
  <2>2. ASSUME NEW k \in S PROVE k + 1 \in S
    <3> SUFFICES ASSUME k + 1 <= Len(ns) PROVE e[k + 1] \in R
      OBVIOUS
    <3>1. k + 1 \in 0..Len(ns) /\ k + 1 # 0 /\ e[k] \in R /\ (k + 1) - 1 = k
      BY DEF Shape
    <3>2. e[k + 1] = [m \in DOMAIN ns |-> IF ns[m].pointer = None THEN m ELSE e[k][ns[m].pointer]]
      BY <1>3, <3>1
    <3> QED BY <3>1, <3>2 DEF Shape
  <2> QED
    <3> HIDE DEF S
    <3>1. S \in SUBSET Nat
      BY DEF S
    <3> QED BY <2>1, <2>2, <3>1, SetInduction
<1>5. e \in [0..Len(ns) -> R]
  <2>1. e = [k \in 0..Len(ns) |-> e[k]]
    BY <1>1 DEF EndsBy
  <2>2. \A k \in 0..Len(ns) : e[k] \in R
    BY <1>4
  <2> QED
    <3> HIDE DEF R
    <3> QED BY <2>1, <2>2
<1>6. \A m \in DOMAIN ns : e[0][m] = IF ns[m].pointer = None THEN m ELSE None
  <2>1. 0 \in 0..Len(ns)
    BY DEF Shape
  <2> QED BY <1>9, <2>1
<1>7. \A k \in 1..Len(ns) : \A m \in DOMAIN ns :
        e[k][m] = IF ns[m].pointer = None THEN m ELSE e[k - 1][ns[m].pointer]
  <2>1. \A k \in 1..Len(ns) : k \in 0..Len(ns) /\ k # 0
    BY DEF Shape
  <2> QED BY <1>9, <2>1
<1>8. Ends(ns, e)
  BY <1>5, <1>6, <1>7 DEF Ends
<1> QED BY <1>2, <1>8

\* What was an end is one however far one may look.
LEMMA EndsStay ==
  ASSUME NEW ns, Shape(ns), NEW f, Ends(ns, f)
  PROVE  \A k \in 1..Len(ns) : \A m \in DOMAIN ns : f[k - 1][m] # None => f[k][m] = f[k - 1][m]
<1> DEFINE S == {k \in Nat : k + 1 \in 1..Len(ns) =>
                   \A m \in DOMAIN ns : f[k][m] # None => f[k + 1][m] = f[k][m]}
<1>1. 0 \in S
  BY DEF Ends, Shape
<1>2. ASSUME NEW k \in S PROVE k + 1 \in S
  <2> SUFFICES ASSUME k + 2 \in 1..Len(ns), NEW m \in DOMAIN ns, f[k + 1][m] # None
               PROVE  f[k + 2][m] = f[k + 1][m]
    OBVIOUS
  <2>1. k + 1 \in 1..Len(ns) /\ k + 2 \in 1..Len(ns) /\ (k + 2) - 1 = k + 1 /\ (k + 1) - 1 = k
    BY DEF Shape
  <2>2. /\ f[k + 2][m] = IF ns[m].pointer = None THEN m ELSE f[k + 1][ns[m].pointer]
        /\ f[k + 1][m] = IF ns[m].pointer = None THEN m ELSE f[k][ns[m].pointer]
    BY <2>1 DEF Ends
  <2>3. ns[m].pointer # None => ns[m].pointer \in DOMAIN ns
    BY DEF Shape
  <2>4. \A x \in DOMAIN ns : f[k][x] # None => f[k + 1][x] = f[k][x]
    BY <2>1
  <2> QED BY <2>2, <2>3, <2>4
<1>3. S = Nat
  <2> HIDE DEF S
  <2>1. S \in SUBSET Nat
    BY DEF S
  <2> QED BY <1>1, <1>2, <2>1, SetInduction
<1> SUFFICES ASSUME NEW k \in 1..Len(ns), NEW m \in DOMAIN ns, f[k - 1][m] # None
             PROVE  f[k][m] = f[k - 1][m]
  OBVIOUS
<1>4. k - 1 \in Nat /\ (k - 1) + 1 = k
  BY DEF Shape
<1>5. k - 1 \in S
  <2> HIDE DEF S
  <2> QED BY <1>3, <1>4
<1> QED BY <1>4, <1>5

\* The calls on a node are answered by the node that answers those on its
\* pointer: no chain of pointers is longer than there are nodes.
LEMMA EndNext ==
  ASSUME NEW ns, Shape(ns), NEW n \in DOMAIN ns
  PROVE  End(ns, n) = IF ns[n].pointer = None THEN n ELSE End(ns, ns[n].pointer)
<1> DEFINE L == Len(ns)
<1>1. L \in Nat \ {0} /\ L \in 1..L /\ DOMAIN ns = 1..L
  BY DEF Shape
<1>2. PICK f : Ends(ns, f) /\ \A m \in DOMAIN ns : End(ns, m) = f[L][m]
  BY EndChain
<1>3. \A k \in 1..L : \A m \in DOMAIN ns :
        /\ f[k][m] = IF ns[m].pointer = None THEN m ELSE f[k - 1][ns[m].pointer]
        /\ f[k - 1][m] # None => f[k][m] = f[k - 1][m]
  <2>1. \A k \in 1..L : \A m \in DOMAIN ns : f[k - 1][m] # None => f[k][m] = f[k - 1][m]
    BY <1>2, EndsStay
  <2>2. \A k \in 1..L : \A m \in DOMAIN ns :
          f[k][m] = IF ns[m].pointer = None THEN m ELSE f[k - 1][ns[m].pointer]
    BY <1>2 DEF Ends
  <2> QED BY <2>1, <2>2
<1>4. \A m \in DOMAIN ns : f[0][m] = IF ns[m].pointer = None THEN m ELSE None
  BY <1>2 DEF Ends
<1>5. \A m \in DOMAIN ns : ns[m].pointer # None => ns[m].pointer \in DOMAIN ns
  BY DEF Shape
<1>6. \A k \in 0..L : \A m \in DOMAIN ns : f[k][m] \in DOMAIN ns \cup {None}
  BY <1>2 DEF Ends
<1> DEFINE D(k) == {m \in DOMAIN ns : f[k][m] # None}
<1>7. \A k \in 0..L : IsFiniteSet(D(k)) /\ Cardinality(D(k)) \in Nat /\ Cardinality(D(k)) <= L
  <2>1. IsFiniteSet(DOMAIN ns) /\ Cardinality(DOMAIN ns) = L
    BY <1>1, FS_Interval
  <2> SUFFICES ASSUME NEW k \in 0..L
               PROVE  IsFiniteSet(D(k)) /\ Cardinality(D(k)) \in Nat /\ Cardinality(D(k)) <= L
    OBVIOUS
  <2>2. D(k) \in SUBSET DOMAIN ns
    OBVIOUS
  <2> HIDE DEF D, L
  <2> QED BY <2>1, <2>2, FS_Subset, FS_CardinalityType
<1>8. \A k \in 1..L : D(k - 1) \subseteq D(k)
  BY <1>3
<1>9. \A k \in 1..L : D(k - 1) # D(k) => Cardinality(D(k - 1)) + 1 <= Cardinality(D(k))
  <2> SUFFICES ASSUME NEW k \in 1..L, D(k - 1) # D(k)
               PROVE  Cardinality(D(k - 1)) + 1 <= Cardinality(D(k))
    OBVIOUS
  <2>1. k \in 0..L /\ k - 1 \in 0..L
    BY <1>1
  <2>2. /\ IsFiniteSet(D(k)) /\ D(k - 1) \in SUBSET D(k)
        /\ Cardinality(D(k)) \in Nat /\ Cardinality(D(k - 1)) \in Nat
    BY <1>7, <1>8, <2>1
  <2> HIDE DEF D, L
  <2>3. Cardinality(D(k - 1)) <= Cardinality(D(k)) /\ Cardinality(D(k)) # Cardinality(D(k - 1))
    BY <2>2, FS_Subset
  <2> QED BY <2>2, <2>3
\* Each look further finds another end, or nothing more is found.
<1> DEFINE S == {k \in Nat : k \in 1..L => D(k - 1) = D(k) \/ Cardinality(D(k)) >= k + 1}
<1>10. 0 \in S
  OBVIOUS
<1>11. ASSUME NEW k \in S PROVE k + 1 \in S
  <2> SUFFICES ASSUME k + 1 \in 1..L, D(k) # D(k + 1) PROVE Cardinality(D(k + 1)) >= k + 2
    OBVIOUS
  <2>1. k \in 0..L /\ k + 1 \in 0..L /\ k \in Nat /\ (k + 1) - 1 = k
    BY <1>1
  <2>2. PICK m \in DOMAIN ns : f[k + 1][m] # None /\ f[k][m] = None
    BY <1>3, <2>1
  <2>3. ns[m].pointer \in DOMAIN ns /\ f[k + 1][m] = f[k][ns[m].pointer]
    <3>1. ns[m].pointer # None
      <4>1. k = 0 => f[k][m] = IF ns[m].pointer = None THEN m ELSE None
        BY <1>4
      <4>2. k # 0 => k \in 1..L /\ f[k][m] = IF ns[m].pointer = None THEN m ELSE f[k - 1][ns[m].pointer]
        BY <1>3, <2>1
      <4> QED BY <4>1, <4>2, <2>2, NoneOutside
    <3> QED BY <1>3, <1>5, <2>1, <3>1
  <2>4. ns[m].pointer \in D(k)
    BY <2>2, <2>3
  <2>5. Cardinality(D(k)) + 1 <= Cardinality(D(k + 1))
    <3> HIDE DEF D
    <3> QED BY <1>9, <2>1
  <2>6. CASE k = 0
    <3>1. Cardinality(D(k)) # 0 /\ Cardinality(D(k)) \in Nat /\ Cardinality(D(k + 1)) \in Nat
      <4> HIDE DEF D
      <4> QED BY <1>7, <2>1, <2>4, FS_EmptySet
    <3> HIDE DEF D
    <3> QED BY <2>5, <2>6, <3>1
  <2>7. CASE k # 0
    <3>1. k \in 1..L
      BY <2>1, <2>7
    <3>2. f[k][ns[m].pointer] # None /\ f[k - 1][ns[m].pointer] = None
      BY <1>3, <2>2, <2>3, <3>1, NoneOutside
    <3>3. D(k - 1) # D(k)
      BY <2>3, <3>2
    <3>4. Cardinality(D(k)) >= k + 1 /\ Cardinality(D(k)) \in Nat /\ Cardinality(D(k + 1)) \in Nat
      <4> HIDE DEF D
      <4> QED BY <1>7, <2>1, <3>1, <3>3
    <3> HIDE DEF D
    <3> QED BY <2>1, <2>5, <3>4
  <2> QED BY <2>6, <2>7
<1>12. D(L - 1) = D(L)
  <2>1. L \in S
    <3> HIDE DEF S
    <3>1. S \in SUBSET Nat
      BY DEF S
    <3> QED BY <1>1, <1>10, <1>11, <3>1, SetInduction
  <2>2. L \in 1..L /\ L \in 0..L
    BY <1>1
  <2>3. D(L - 1) = D(L) \/ Cardinality(D(L)) >= L + 1
    <3> HIDE DEF D, L
    <3> QED BY <2>1, <2>2
  <2>4. Cardinality(D(L)) \in Nat /\ Cardinality(D(L)) <= L
    <3> HIDE DEF D, L
    <3> QED BY <1>7, <2>2
  <2> HIDE DEF D, L
  <2> QED BY <1>1, <2>3, <2>4
<1>13. \A m \in DOMAIN ns : f[L - 1][m] = f[L][m]
  BY <1>1, <1>3, <1>12
<1>14. f[L][n] = IF ns[n].pointer = None THEN n ELSE f[L - 1][ns[n].pointer]
  <2> HIDE DEF L
  <2> QED BY <1>1, <1>3
<1>15. ns[n].pointer # None => f[L - 1][ns[n].pointer] = f[L][ns[n].pointer]
  BY <1>5, <1>13
<1>16. End(ns, n) = f[L][n] /\ (ns[n].pointer # None => End(ns, ns[n].pointer) = f[L][ns[n].pointer])
  BY <1>2, <1>5
<1> QED
  BY <1>14, <1>15, <1>16

\* The end has no pointer itself.
LEMMA EndIsEnd ==
  ASSUME NEW ns, Shape(ns), NEW n \in DOMAIN ns
  PROVE  /\ End(ns, n) \in DOMAIN ns \cup {None}
         /\ End(ns, n) # None => End(ns, n) \in DOMAIN ns /\ ns[End(ns, n)].pointer = None
<1>1. PICK f : Ends(ns, f) /\ \A m \in DOMAIN ns : End(ns, m) = f[Len(ns)][m]
  BY EndChain
<1> DEFINE S == {k \in Nat : k \in 0..Len(ns) =>
                   \A m \in DOMAIN ns : f[k][m] # None => f[k][m] \in DOMAIN ns /\ ns[f[k][m]].pointer = None}
<1>2. 0 \in S
  BY <1>1 DEF Ends
<1>3. ASSUME NEW k \in S PROVE k + 1 \in S
  <2> SUFFICES ASSUME k + 1 \in 0..Len(ns), NEW m \in DOMAIN ns, f[k + 1][m] # None
               PROVE  f[k + 1][m] \in DOMAIN ns /\ ns[f[k + 1][m]].pointer = None
    OBVIOUS
  <2>1. k + 1 \in 1..Len(ns) /\ k \in 0..Len(ns) /\ (k + 1) - 1 = k
    BY DEF Shape
  <2>2. f[k + 1][m] = IF ns[m].pointer = None THEN m ELSE f[k][ns[m].pointer]
    BY <1>1, <2>1 DEF Ends
  <2>3. ns[m].pointer # None => ns[m].pointer \in DOMAIN ns
    BY DEF Shape
  <2> QED BY <2>1, <2>2, <2>3
<1>4. S = Nat
  <2> HIDE DEF S
  <2>1. S \in SUBSET Nat
    BY DEF S
  <2> QED BY <1>2, <1>3, <2>1, SetInduction
<1>5. Len(ns) \in S /\ Len(ns) \in 0..Len(ns)
  BY <1>4 DEF Shape
<1>6. f[Len(ns)][n] \in DOMAIN ns \cup {None}
  BY <1>1, <1>5 DEF Ends
<1> QED BY <1>1, <1>5, <1>6

-----------------------------------------------------------------------------
(* Names                                                                   *)

NameSeq == Seq(Name \cup {Empty})

\* The child of a name is the first entry of that name.
LEMMA ChildFacts ==
  ASSUME NEW ns, Shape(ns), NEW n \in DOMAIN ns, NEW name
  PROVE  /\ Child(ns, n, name) # None =>
              /\ ns[n].kids # None /\ Child(ns, n, name) \in DOMAIN ns
              /\ ns[Child(ns, n, name)].name = name
              /\ \E u \in DOMAIN ns[n].kids :
                   /\ ns[n].kids[u] = Child(ns, n, name)
                   /\ \A j \in DOMAIN ns[n].kids : ns[ns[n].kids[j]].name = name => u <= j
         /\ \A u \in DOMAIN ns[n].kids :
              /\ ns[n].kids # None /\ ns[ns[n].kids[u]].name = name
              /\ \A j \in DOMAIN ns[n].kids : ns[ns[n].kids[j]].name = name => u <= j
              => Child(ns, n, name) = ns[n].kids[u] /\ Child(ns, n, name) # None
<1> DEFINE I == {u \in DOMAIN ns[n].kids : ns[ns[n].kids[u]].name = name}
           first == CHOOSE u \in I : \A j \in I : u <= j
<1>1. CASE ns[n].kids = None
  BY <1>1 DEF Child
<1>2. CASE ns[n].kids # None
  <2>1. Child(ns, n, name) = IF I = {} THEN None ELSE ns[n].kids[first]
    BY <1>2 DEF Child
  <2>2. I \in SUBSET Nat /\ \A u \in I : ns[n].kids[u] \in DOMAIN ns
    BY <1>2 DEF Shape
  <2>3. I # {} => first \in I /\ \A j \in I : first <= j
    <3> SUFFICES ASSUME I # {} PROVE first \in I /\ \A j \in I : first <= j
      OBVIOUS
    <3> HIDE DEF I
    <3>1. \E u \in I : \A j \in I : u <= j
      BY <2>2, LeastNat
    <3> QED BY <3>1
  <2>4. \A u \in I : (\A j \in I : u <= j) => first = u
    <3> HIDE DEF I, first
    <3> SUFFICES ASSUME NEW u \in I, \A j \in I : u <= j PROVE first = u
      OBVIOUS
    <3>1. first \in I /\ first <= u /\ u <= first /\ first \in Nat /\ u \in Nat
      BY <2>2, <2>3
    <3> QED BY <3>1
  <2>5. Child(ns, n, name) # None => I # {} /\ Child(ns, n, name) = ns[n].kids[first]
    BY <2>1
  <2>6. Child(ns, n, name) # None =>
          /\ ns[n].kids # None /\ Child(ns, n, name) \in DOMAIN ns
          /\ ns[Child(ns, n, name)].name = name
          /\ \E u \in DOMAIN ns[n].kids :
               /\ ns[n].kids[u] = Child(ns, n, name)
               /\ \A j \in DOMAIN ns[n].kids : ns[ns[n].kids[j]].name = name => u <= j
    <3> SUFFICES ASSUME Child(ns, n, name) # None
                 PROVE  /\ ns[n].kids # None /\ Child(ns, n, name) \in DOMAIN ns
                        /\ ns[Child(ns, n, name)].name = name
                        /\ \E u \in DOMAIN ns[n].kids :
                             /\ ns[n].kids[u] = Child(ns, n, name)
                             /\ \A j \in DOMAIN ns[n].kids : ns[ns[n].kids[j]].name = name => u <= j
      OBVIOUS
    <3>1. first \in I /\ (\A j \in I : first <= j) /\ Child(ns, n, name) = ns[n].kids[first]
      BY <2>3, <2>5
    <3> HIDE DEF first
    <3> QED BY <1>2, <2>2, <3>1
  <2>7. \A u \in I : (\A j \in I : u <= j) => Child(ns, n, name) = ns[n].kids[u] /\ Child(ns, n, name) # None
    <3> SUFFICES ASSUME NEW u \in I, \A j \in I : u <= j
                 PROVE  Child(ns, n, name) = ns[n].kids[u] /\ Child(ns, n, name) # None
      OBVIOUS
    <3>1. first = u /\ ns[n].kids[u] \in DOMAIN ns /\ I # {}
      <4> HIDE DEF first
      <4> QED BY <2>2, <2>4
    <3> HIDE DEF first, I
    <3> QED BY <2>1, <3>1, NoneOutside
  <2> QED BY <2>6, <2>7
<1> QED BY <1>1, <1>2

\* Resolve over any nodes
ResolveIn(ns, path) ==
  LET names == Plain(path)
      at[k \in 0..Len(names)] ==
        LET from == at[k - 1]
            child == IF from = None THEN None ELSE Child(ns, from, names[k])
        IN  IF k = 0 THEN End(ns, ROOT)
            ELSE IF child = None THEN None ELSE End(ns, child)
  IN  at[Len(names)]

LEMMA ResolveNow == \A path : Resolve(path) = ResolveIn(nodes, path)
  BY DEF Resolve, ResolveIn

LEMMA ResolveThen == \A path : Resolve(path)' = ResolveIn(nodes', path')
  BY DEF Resolve, ResolveIn

\* The node from which the name after the first k is looked for, None if there
\* is none: one step, and the whole way.
Beside(ns, child) == IF child = None THEN None ELSE End(ns, child)
NextNode(ns, from, name) == Beside(ns, IF from = None THEN None ELSE Child(ns, from, name))
Way(ns, names, f) ==
  /\ f \in [0..Len(names) -> DOMAIN ns \cup {None}]
  /\ f[0] = End(ns, ROOT)
  /\ \A k \in 1..Len(names) : f[k] = NextNode(ns, f[k - 1], names[k])

WayBy(ns, names, f) ==
  f = [k \in 0..Len(names) |->
        LET from == f[k - 1]
            child == IF from = None THEN None ELSE Child(ns, from, names[k])
        IN  IF k = 0 THEN End(ns, ROOT)
            ELSE IF child = None THEN None ELSE End(ns, child)]

LEMMA NextNodeType ==
  ASSUME NEW ns, Shape(ns), NEW from \in DOMAIN ns \cup {None}, NEW name
  PROVE  NextNode(ns, from, name) \in DOMAIN ns \cup {None}
<1>1. from # None /\ Child(ns, from, name) # None => Child(ns, from, name) \in DOMAIN ns
  BY ChildFacts
<1> QED BY <1>1, EndIsEnd DEF NextNode, Beside

LEMMA WaySolved ==
  ASSUME NEW ns, Shape(ns), NEW path, Plain(path) \in NameSeq
  PROVE  \E f : Way(ns, Plain(path), f) /\ ResolveIn(ns, path) = f[Len(Plain(path))]
<1> DEFINE names == Plain(path)
           L == Len(names)
           R == DOMAIN ns \cup {None}
           g == [k \in 1..L |-> [r \in R |-> NextNode(ns, r, names[k])]]
           e == CHOOSE f : WayBy(ns, names, f)
<1>1. L \in Nat
  BY DEF NameSeq
<1>2. ROOT \in DOMAIN ns /\ End(ns, ROOT) \in R
  BY EndIsEnd DEF ROOT, Shape
<1>3. g \in [1..L -> [R -> R]]
  <2>1. \A k \in 1..L : [r \in R |-> NextNode(ns, r, names[k])] \in [R -> R]
    BY NextNodeType
  <2> HIDE DEF R
  <2> QED BY <2>1
<1>4. PICK f \in [0..L -> R] : Recurs(f, L, End(ns, ROOT), g)
  <2> HIDE DEF L, R, g
  <2> QED BY <1>1, <1>2, <1>3, Recursion
<1>5. \A k \in 1..L : f[k] = NextNode(ns, f[k - 1], names[k])
  <2> SUFFICES ASSUME NEW k \in 1..L PROVE f[k] = NextNode(ns, f[k - 1], names[k])
    OBVIOUS
  <2>1. f[k] = g[k][f[k - 1]]
    <3> HIDE DEF L, g
    <3> QED BY <1>4 DEF Recurs
  <2>2. k - 1 \in 0..L
    <3> HIDE DEF L
    <3> QED BY <1>1
  <2>3. f[k - 1] \in R
    BY <1>4, <2>2
  <2>4. g[k][f[k - 1]] = NextNode(ns, f[k - 1], names[k])
    <3> HIDE DEF R, L
    <3> QED BY <2>3
  <2> QED BY <2>1, <2>4
<1>6. f[0] = End(ns, ROOT)
  BY <1>4 DEF Recurs
<1>7. WayBy(ns, names, f)
  <2>1. f = [k \in 0..L |-> f[k]]
    BY <1>4
  <2>2. \A k \in 0..L : k # 0 => k \in 1..L
    <3> HIDE DEF L
    <3> QED BY <1>1
  <2>3. \A k \in 0..L : f[k] =
          LET from == f[k - 1]
              child == IF from = None THEN None ELSE Child(ns, from, names[k])
          IN  IF k = 0 THEN End(ns, ROOT)
              ELSE IF child = None THEN None ELSE End(ns, child)
    BY <1>5, <1>6, <2>2 DEF NextNode, Beside
  <2> HIDE DEF names, L
  <2> QED BY <2>1, <2>3 DEF WayBy, L
<1>8. WayBy(ns, names, e)
  <2> HIDE DEF names
  <2> QED BY <1>7
<1>9. ResolveIn(ns, path) = e[L]
  BY DEF ResolveIn, WayBy
<1> HIDE DEF e
<1>10. \A k \in 0..L : e[k] =
          LET from == e[k - 1]
              child == IF from = None THEN None ELSE Child(ns, from, names[k])
          IN  IF k = 0 THEN End(ns, ROOT)
              ELSE IF child = None THEN None ELSE End(ns, child)
  <2> HIDE DEF names
  <2>1. e = [k \in 0..L |->
          LET from == e[k - 1]
              child == IF from = None THEN None ELSE Child(ns, from, names[k])
          IN  IF k = 0 THEN End(ns, ROOT)
              ELSE IF child = None THEN None ELSE End(ns, child)]
    BY <1>8 DEF WayBy
  <2> SUFFICES ASSUME NEW k \in 0..L
               PROVE  e[k] =
                        LET from == e[k - 1]
                            child == IF from = None THEN None ELSE Child(ns, from, names[k])
                        IN  IF k = 0 THEN End(ns, ROOT)
                            ELSE IF child = None THEN None ELSE End(ns, child)
    OBVIOUS
  <2> QED BY <2>1
<1>11. e[0] = End(ns, ROOT)
  <2>1. 0 \in 0..L
    <3> HIDE DEF L
    <3> QED BY <1>1
  <2> QED BY <1>10, <2>1
<1>12. \A k \in 1..L : e[k] = NextNode(ns, e[k - 1], names[k])
  <2>1. \A k \in 1..L : k \in 0..L /\ k # 0
    <3> HIDE DEF L
    <3> QED BY <1>1
  <2> QED BY <1>10, <2>1 DEF NextNode, Beside
<1> DEFINE S == {k \in Nat : k <= L => e[k] \in R}
<1>13. S = Nat
  <2> HIDE DEF L, R, names
  <2>1. 0 \in S
    BY <1>2, <1>11
  <2>2. ASSUME NEW k \in S PROVE k + 1 \in S
    <3> SUFFICES ASSUME k + 1 <= L PROVE e[k + 1] \in R
      OBVIOUS
    <3>1. k + 1 \in 1..L /\ e[k] \in R /\ (k + 1) - 1 = k
      BY <1>1
    <3>2. e[k + 1] = NextNode(ns, e[k], names[k + 1])
      BY <1>12, <3>1
    <3> QED BY <3>1, <3>2, NextNodeType DEF R
  <2> HIDE DEF S
  <2>3. S \in SUBSET Nat
    BY DEF S
  <2> QED BY <2>1, <2>2, <2>3, SetInduction
<1>14. e \in [0..L -> R]
  <2>1. e = [k \in 0..L |-> e[k]]
    <3> HIDE DEF names
    <3> QED BY <1>8 DEF WayBy
  <2>2. \A k \in 0..L : e[k] \in R
    <3> HIDE DEF L, R
    <3> QED BY <1>1, <1>13
  <2> HIDE DEF R, L
  <2> QED BY <2>1, <2>2
<1> QED
  <2> HIDE DEF e
  <2>1. Way(ns, names, e)
    BY <1>11, <1>12, <1>14 DEF Way
  <2> QED BY <1>9, <2>1

\* <<m, c>> is what is left when names were followed for a while: the call is
\* on node m, and c names are used up.
Places(ns, names) == (DOMAIN ns) \X (0..Len(names))

\* W holds where a walk starts, and where each of its steps leads.
Closed(ns, names, W) ==
  /\ <<ROOT, 0>> \in W
  /\ \A m \in DOMAIN ns, c \in 0..Len(names) : <<m, c>> \in W =>
       /\ ns[m].pointer # None => <<ns[m].pointer, c>> \in W
       /\ ns[m].pointer = None /\ c < Len(names) /\ Child(ns, m, names[c + 1]) # None =>
            <<Child(ns, m, names[c + 1]), c + 1>> \in W

Leads(ns, names, m, c) ==
  /\ m \in DOMAIN ns /\ c \in 0..Len(names)
  /\ \A W \in SUBSET Places(ns, names) : Closed(ns, names, W) => <<m, c>> \in W

LEMMA LeadsRoot ==
  ASSUME NEW ns, Shape(ns), NEW names \in NameSeq
  PROVE  Leads(ns, names, ROOT, 0)
<1>1. ROOT \in DOMAIN ns /\ 0 \in 0..Len(names)
  BY DEF Shape, ROOT, NameSeq
<1> QED BY <1>1 DEF Leads, Closed

LEMMA LeadsOn ==
  ASSUME NEW ns, Shape(ns), NEW names \in NameSeq, NEW m, NEW c, Leads(ns, names, m, c)
  PROVE  /\ m \in DOMAIN ns /\ c \in 0..Len(names)
         /\ ns[m].pointer # None => Leads(ns, names, ns[m].pointer, c)
         /\ ns[m].pointer = None /\ c < Len(names) /\ Child(ns, m, names[c + 1]) # None =>
              Leads(ns, names, Child(ns, m, names[c + 1]), c + 1)
<1>1. m \in DOMAIN ns /\ c \in 0..Len(names) /\ Len(names) \in Nat
  BY DEF Leads, NameSeq
<1>2. ns[m].pointer # None => Leads(ns, names, ns[m].pointer, c)
  <2>1. ns[m].pointer # None => ns[m].pointer \in DOMAIN ns
    BY <1>1 DEF Shape
  <2> QED BY <1>1, <2>1 DEF Leads, Closed
<1>3. ASSUME ns[m].pointer = None, c < Len(names), Child(ns, m, names[c + 1]) # None
      PROVE  Leads(ns, names, Child(ns, m, names[c + 1]), c + 1)
  <2>1. Child(ns, m, names[c + 1]) \in DOMAIN ns /\ c + 1 \in 0..Len(names)
    BY <1>1, <1>3, ChildFacts
  <2> QED BY <1>1, <1>3, <2>1 DEF Leads, Closed
<1> QED BY <1>1, <1>2, <1>3

\* What is closed holds all the places a walk leads to.
LEMMA LeadsWithin ==
  ASSUME NEW ns, NEW names, NEW m, NEW c, Leads(ns, names, m, c),
         NEW W \in SUBSET Places(ns, names), <<ROOT, 0>> \in W,
         \A x \in DOMAIN ns, d \in 0..Len(names) : <<x, d>> \in W /\ Leads(ns, names, x, d) =>
           /\ ns[x].pointer # None => <<ns[x].pointer, d>> \in W
           /\ ns[x].pointer = None /\ d < Len(names) /\ Child(ns, x, names[d + 1]) # None =>
                <<Child(ns, x, names[d + 1]), d + 1>> \in W,
         Shape(ns), names \in NameSeq
  PROVE  <<m, c>> \in W
<1> DEFINE V == {w \in W : Leads(ns, names, w[1], w[2])}
<1>1. V \in SUBSET Places(ns, names)
  OBVIOUS
<1>2. ASSUME NEW x \in DOMAIN ns, NEW d \in 0..Len(names)
      PROVE  <<x, d>> \in V <=> <<x, d>> \in W /\ Leads(ns, names, x, d)
  <2> DEFINE p == <<x, d>>
  <2>1. p[1] = x /\ p[2] = d
    OBVIOUS
  <2>2. p \in V <=> p \in W /\ Leads(ns, names, p[1], p[2])
    <3> HIDE DEF p
    <3> QED BY DEF V
  <2> QED BY <2>1, <2>2
<1>3. <<ROOT, 0>> \in V
  <2>1. ROOT \in DOMAIN ns /\ 0 \in 0..Len(names)
    BY DEF Shape, ROOT, NameSeq
  <2> QED BY <1>2, <2>1, LeadsRoot
<1>4. ASSUME NEW x \in DOMAIN ns, NEW d \in 0..Len(names), <<x, d>> \in V
      PROVE  /\ ns[x].pointer # None => <<ns[x].pointer, d>> \in V
             /\ ns[x].pointer = None /\ d < Len(names) /\ Child(ns, x, names[d + 1]) # None =>
                  <<Child(ns, x, names[d + 1]), d + 1>> \in V
  <2>1. <<x, d>> \in W /\ Leads(ns, names, x, d)
    BY <1>2, <1>4
  <2> HIDE DEF V
  <2>2. ns[x].pointer # None => <<ns[x].pointer, d>> \in V
    <3>1. ns[x].pointer # None => ns[x].pointer \in DOMAIN ns
      BY DEF Shape
    <3>2. ns[x].pointer # None => Leads(ns, names, ns[x].pointer, d)
      BY <2>1, LeadsOn
    <3> QED BY <1>2, <2>1, <3>1, <3>2
  <2>3. ASSUME ns[x].pointer = None, d < Len(names), Child(ns, x, names[d + 1]) # None
        PROVE  <<Child(ns, x, names[d + 1]), d + 1>> \in V
    <3>1. Leads(ns, names, Child(ns, x, names[d + 1]), d + 1)
      BY <2>1, <2>3, LeadsOn
    <3>2. <<Child(ns, x, names[d + 1]), d + 1>> \in W
      BY <2>1, <2>3
    <3>3. Child(ns, x, names[d + 1]) \in DOMAIN ns /\ d + 1 \in 0..Len(names)
      BY <3>1 DEF Leads
    <3> QED BY <1>2, <3>1, <3>2, <3>3
  <2> QED BY <2>2, <2>3
<1>5. Closed(ns, names, V)
  <2> HIDE DEF V
  <2> QED BY <1>3, <1>4 DEF Closed
<1>6. <<m, c>> \in V
  <2> HIDE DEF V
  <2> QED BY <1>1, <1>5 DEF Leads
<1> QED BY <1>6

\* A walk comes from somewhere.
LEMMA LeadsFrom ==
  ASSUME NEW ns, Shape(ns), NEW names \in NameSeq, NEW m, NEW c, Leads(ns, names, m, c)
  PROVE  \/ m = ROOT /\ c = 0
         \/ \E x \in DOMAIN ns : Leads(ns, names, x, c) /\ ns[x].pointer # None /\ ns[x].pointer = m
         \/ \E x \in DOMAIN ns, d \in 0..Len(names) :
              /\ Leads(ns, names, x, d) /\ ns[x].pointer = None
              /\ d < Len(names) /\ Child(ns, x, names[d + 1]) # None
              /\ m = Child(ns, x, names[d + 1]) /\ c = d + 1
<1> DEFINE From(y, e) ==
             \/ y = ROOT /\ e = 0
             \/ \E x \in DOMAIN ns : Leads(ns, names, x, e) /\ ns[x].pointer # None /\ ns[x].pointer = y
             \/ \E x \in DOMAIN ns, d \in 0..Len(names) :
                  /\ Leads(ns, names, x, d) /\ ns[x].pointer = None
                  /\ d < Len(names) /\ Child(ns, x, names[d + 1]) # None
                  /\ y = Child(ns, x, names[d + 1]) /\ e = d + 1
<1> DEFINE W == {w \in Places(ns, names) : From(w[1], w[2])}
<1>1. ASSUME NEW y \in DOMAIN ns, NEW e \in 0..Len(names)
      PROVE  <<y, e>> \in W <=> From(y, e)
  <2> DEFINE p == <<y, e>>
  <2>1. p[1] = y /\ p[2] = e /\ p \in Places(ns, names)
    BY DEF Places
  <2>2. p \in W <=> From(p[1], p[2])
    <3> HIDE DEF p, From
    <3> QED BY <2>1
  <2>3. From(p[1], p[2]) <=> From(y, e)
    BY <2>1
  <2> QED BY <2>2, <2>3
<1>2. m \in DOMAIN ns /\ c \in 0..Len(names)
  BY DEF Leads
<1>3. W \in SUBSET Places(ns, names)
  OBVIOUS
<1>4. ROOT \in DOMAIN ns /\ 0 \in 0..Len(names) /\ From(ROOT, 0)
  BY DEF Shape, ROOT, NameSeq
<1>5. <<ROOT, 0>> \in W
  <2> HIDE DEF W, From
  <2> QED BY <1>1, <1>4
<1>6. ASSUME NEW x \in DOMAIN ns, NEW d \in 0..Len(names), Leads(ns, names, x, d)
      PROVE  /\ ns[x].pointer # None => <<ns[x].pointer, d>> \in W
             /\ ns[x].pointer = None /\ d < Len(names) /\ Child(ns, x, names[d + 1]) # None =>
                  <<Child(ns, x, names[d + 1]), d + 1>> \in W
  <2>1. ns[x].pointer # None => ns[x].pointer \in DOMAIN ns /\ From(ns[x].pointer, d)
    BY <1>6 DEF Shape
  <2>2. ASSUME ns[x].pointer = None, d < Len(names), Child(ns, x, names[d + 1]) # None
        PROVE  <<Child(ns, x, names[d + 1]), d + 1>> \in W
    <3>1. From(Child(ns, x, names[d + 1]), d + 1)
      BY <1>6, <2>2
    <3>2. Child(ns, x, names[d + 1]) \in DOMAIN ns /\ d + 1 \in 0..Len(names)
      BY <1>6, <2>2, LeadsOn DEF Leads
    <3> HIDE DEF W, From
    <3> QED BY <1>1, <3>1, <3>2
  <2> HIDE DEF W, From
  <2> QED BY <1>1, <2>1, <2>2
<1>7. <<m, c>> \in W
  <2> HIDE DEF W, From
  <2> QED BY <1>3, <1>5, <1>6, LeadsWithin
<1>8. From(m, c)
  <2> HIDE DEF W, From
  <2> QED BY <1>1, <1>2, <1>7
<1> QED BY <1>8

\* Where a walk leads, the names that are left are looked for from one node.
LEMMA LeadsWay ==
  ASSUME NEW ns, Shape(ns), NEW names \in NameSeq, NEW f, Way(ns, names, f),
         NEW m, NEW c, Leads(ns, names, m, c)
  PROVE  f[c] = End(ns, m)
<1> DEFINE W == {w \in Places(ns, names) : f[w[2]] = End(ns, w[1])}
<1>1. ASSUME NEW y \in DOMAIN ns, NEW e \in 0..Len(names)
      PROVE  <<y, e>> \in W <=> f[e] = End(ns, y)
  <2> DEFINE p == <<y, e>>
  <2>1. p[1] = y /\ p[2] = e /\ p \in Places(ns, names)
    BY DEF Places
  <2>2. p \in W <=> f[p[2]] = End(ns, p[1])
    <3> HIDE DEF p
    <3> QED BY <2>1
  <2> QED BY <2>1, <2>2
<1>2. m \in DOMAIN ns /\ c \in 0..Len(names)
  BY DEF Leads
<1>3. W \in SUBSET Places(ns, names)
  OBVIOUS
<1>4. <<ROOT, 0>> \in W
  <2>1. ROOT \in DOMAIN ns /\ 0 \in 0..Len(names) /\ f[0] = End(ns, ROOT)
    BY DEF Shape, ROOT, NameSeq, Way
  <2> HIDE DEF W
  <2> QED BY <1>1, <2>1
<1>5. ASSUME NEW x \in DOMAIN ns, NEW d \in 0..Len(names), <<x, d>> \in W
      PROVE  /\ ns[x].pointer # None => <<ns[x].pointer, d>> \in W
             /\ ns[x].pointer = None /\ d < Len(names) /\ Child(ns, x, names[d + 1]) # None =>
                  <<Child(ns, x, names[d + 1]), d + 1>> \in W
  <2>1. f[d] = End(ns, x)
    <3> HIDE DEF W
    <3> QED BY <1>1, <1>5
  <2> HIDE DEF W
  <2>2. ns[x].pointer # None => <<ns[x].pointer, d>> \in W
    <3>1. ns[x].pointer # None => ns[x].pointer \in DOMAIN ns
      BY DEF Shape
    <3>2. ns[x].pointer # None => End(ns, x) = End(ns, ns[x].pointer)
      BY EndNext
    <3> QED BY <1>1, <2>1, <3>1, <3>2
  <2>3. ASSUME ns[x].pointer = None, d < Len(names), Child(ns, x, names[d + 1]) # None
        PROVE  <<Child(ns, x, names[d + 1]), d + 1>> \in W
    <3>1. Child(ns, x, names[d + 1]) \in DOMAIN ns /\ d + 1 \in 1..Len(names) /\ (d + 1) - 1 = d
      BY <2>3, ChildFacts DEF NameSeq
    <3>2. f[d] = x
      BY <2>1, <2>3, EndNext
    <3>3. f[d + 1] = NextNode(ns, x, names[d + 1])
      BY <3>1, <3>2 DEF Way
    <3>4. f[d + 1] = End(ns, Child(ns, x, names[d + 1]))
      BY <2>3, <3>3, NoneOutside DEF NextNode, Beside
    <3> QED BY <1>1, <3>1, <3>4
  <2> QED BY <2>2, <2>3
<1>6. <<m, c>> \in W
  <2> HIDE DEF W
  <2> QED BY <1>3, <1>4, <1>5, LeadsWithin
<1> QED
  <2> HIDE DEF W
  <2> QED BY <1>1, <1>2, <1>6

\* A walk to a node leads to the end of its pointers.
LEMMA LeadsEnd ==
  ASSUME NEW ns, Shape(ns), NEW names \in NameSeq, NEW m, NEW c,
         Leads(ns, names, m, c), End(ns, m) # None
  PROVE  Leads(ns, names, End(ns, m), c)
<1>1. PICK f : Ends(ns, f) /\ \A n \in DOMAIN ns : End(ns, n) = f[Len(ns)][n]
  BY EndChain
<1> DEFINE S == {k \in Nat : k \in 0..Len(ns) =>
                   \A n \in DOMAIN ns : f[k][n] # None /\ Leads(ns, names, n, c) => Leads(ns, names, f[k][n], c)}
<1>2. 0 \in S
  BY <1>1 DEF Ends
<1>3. ASSUME NEW k \in S PROVE k + 1 \in S
  <2> SUFFICES ASSUME k + 1 \in 0..Len(ns), NEW n \in DOMAIN ns, f[k + 1][n] # None, Leads(ns, names, n, c)
               PROVE  Leads(ns, names, f[k + 1][n], c)
    OBVIOUS
  <2>1. k + 1 \in 1..Len(ns) /\ k \in 0..Len(ns) /\ (k + 1) - 1 = k
    BY DEF Shape
  <2>2. f[k + 1][n] = IF ns[n].pointer = None THEN n ELSE f[k][ns[n].pointer]
    BY <1>1, <2>1 DEF Ends
  <2>3. ns[n].pointer # None => ns[n].pointer \in DOMAIN ns /\ Leads(ns, names, ns[n].pointer, c)
    BY LeadsOn DEF Shape
  <2> QED BY <2>1, <2>2, <2>3
<1>4. S = Nat
  <2> HIDE DEF S
  <2>1. S \in SUBSET Nat
    BY DEF S
  <2> QED BY <1>2, <1>3, <2>1, SetInduction
<1>5. Len(ns) \in S /\ Len(ns) \in 0..Len(ns)
  BY <1>4 DEF Shape
<1>6. m \in DOMAIN ns
  BY DEF Leads
<1> QED BY <1>1, <1>5, <1>6

LEMMA WayLeads ==
  ASSUME NEW ns, Shape(ns), NEW names \in NameSeq, NEW f, Way(ns, names, f)
  PROVE  \A c \in 0..Len(names) : f[c] # None => Leads(ns, names, f[c], c)
<1> DEFINE S == {c \in Nat : c \in 0..Len(names) /\ f[c] # None => Leads(ns, names, f[c], c)}
<1>1. 0 \in S
  <2>1. f[0] = End(ns, ROOT)
    BY DEF Way
  <2> QED BY <2>1, LeadsRoot, LeadsEnd
<1>2. ASSUME NEW c \in S PROVE c + 1 \in S
  <2> SUFFICES ASSUME c + 1 \in 0..Len(names), f[c + 1] # None
               PROVE  Leads(ns, names, f[c + 1], c + 1)
    OBVIOUS
  <2>1. c + 1 \in 1..Len(names) /\ c \in 0..Len(names) /\ (c + 1) - 1 = c /\ c < Len(names)
    BY DEF NameSeq
  <2>2. f[c + 1] = NextNode(ns, f[c], names[c + 1])
    BY <2>1 DEF Way
  <2>3. f[c] # None /\ Child(ns, f[c], names[c + 1]) # None /\ f[c + 1] = End(ns, Child(ns, f[c], names[c + 1]))
    BY <2>2 DEF NextNode, Beside
  <2>4. Leads(ns, names, f[c], c)
    BY <2>1, <2>3
  <2>5. ns[f[c]].pointer = None
    <3>1. f[c] \in DOMAIN ns
      BY <2>4 DEF Leads
    <3>2. f[c] = End(ns, f[c])
      BY <2>4, LeadsWay
    <3> QED BY <2>3, <3>1, <3>2, EndIsEnd
  <2>6. Leads(ns, names, Child(ns, f[c], names[c + 1]), c + 1)
    BY <2>1, <2>3, <2>4, <2>5, LeadsOn
  <2> QED BY <2>3, <2>6, LeadsEnd
<1>3. S = Nat
  <2> HIDE DEF S
  <2>1. S \in SUBSET Nat
    BY DEF S
  <2> QED BY <1>1, <1>2, <2>1, SetInduction
<1> QED BY <1>3 DEF NameSeq

\* What a path resolves to is the end of where any walk by its names leads.
LEMMA ResolveLeads ==
  ASSUME NEW ns, Shape(ns), NEW path, Plain(path) \in NameSeq
  PROVE  /\ \A m : Leads(ns, Plain(path), m, Len(Plain(path))) => ResolveIn(ns, path) = End(ns, m)
         /\ ResolveIn(ns, path) # None =>
              /\ Leads(ns, Plain(path), ResolveIn(ns, path), Len(Plain(path)))
              /\ ns[ResolveIn(ns, path)].pointer = None
<1> DEFINE names == Plain(path)
<1>1. PICK f : Way(ns, names, f) /\ ResolveIn(ns, path) = f[Len(names)]
  BY WaySolved
<1>2. Len(names) \in 0..Len(names)
  BY DEF NameSeq
<1> HIDE DEF names
<1>3. \A m : Leads(ns, names, m, Len(names)) => ResolveIn(ns, path) = End(ns, m)
  BY <1>1, LeadsWay DEF names
<1>4. ResolveIn(ns, path) # None => Leads(ns, names, ResolveIn(ns, path), Len(names))
  BY <1>1, <1>2, WayLeads DEF names
<1>5. ResolveIn(ns, path) # None => ns[ResolveIn(ns, path)].pointer = None
  <2> SUFFICES ASSUME ResolveIn(ns, path) # None PROVE ns[ResolveIn(ns, path)].pointer = None
    OBVIOUS
  <2>1. ResolveIn(ns, path) = End(ns, ResolveIn(ns, path)) /\ ResolveIn(ns, path) \in DOMAIN ns
    BY <1>3, <1>4 DEF Leads
  <2> QED BY <2>1, EndIsEnd
<1> QED BY <1>3, <1>4, <1>5 DEF names

-----------------------------------------------------------------------------
(* Nodes that change                                                       *)

\* Walks whose steps are still there lead where they led.
LEMMA LeadsKeep ==
  ASSUME NEW ns, NEW ms, Shape(ns), Shape(ms), DOMAIN ns \subseteq DOMAIN ms,
         NEW names \in NameSeq,
         \A x \in DOMAIN ns, d \in 0..Len(names) : Leads(ns, names, x, d) =>
           /\ ns[x].pointer # None => ms[x].pointer = ns[x].pointer
           /\ ns[x].pointer = None /\ d < Len(names) /\ Child(ns, x, names[d + 1]) # None =>
                ms[x].pointer = None /\ Child(ms, x, names[d + 1]) = Child(ns, x, names[d + 1]),
         NEW m, NEW c, Leads(ns, names, m, c)
  PROVE  Leads(ms, names, m, c)
<1> DEFINE W == {w \in Places(ns, names) : Leads(ms, names, w[1], w[2])}
<1>1. ASSUME NEW y \in DOMAIN ns, NEW e \in 0..Len(names)
      PROVE  <<y, e>> \in W <=> Leads(ms, names, y, e)
  <2> DEFINE p == <<y, e>>
  <2>1. p[1] = y /\ p[2] = e /\ p \in Places(ns, names)
    BY DEF Places
  <2>2. p \in W <=> Leads(ms, names, p[1], p[2])
    <3> HIDE DEF p
    <3> QED BY <2>1
  <2> QED BY <2>1, <2>2
<1>2. m \in DOMAIN ns /\ c \in 0..Len(names)
  BY DEF Leads
<1>3. W \in SUBSET Places(ns, names)
  OBVIOUS
<1>4. <<ROOT, 0>> \in W
  <2>1. ROOT \in DOMAIN ns /\ 0 \in 0..Len(names)
    BY DEF Shape, ROOT, NameSeq
  <2> HIDE DEF W
  <2> QED BY <1>1, <2>1, LeadsRoot
<1>5. ASSUME NEW x \in DOMAIN ns, NEW d \in 0..Len(names), <<x, d>> \in W, Leads(ns, names, x, d)
      PROVE  /\ ns[x].pointer # None => <<ns[x].pointer, d>> \in W
             /\ ns[x].pointer = None /\ d < Len(names) /\ Child(ns, x, names[d + 1]) # None =>
                  <<Child(ns, x, names[d + 1]), d + 1>> \in W
  <2> HIDE DEF W
  <2>1. Leads(ms, names, x, d)
    BY <1>1, <1>5
  <2>2. ns[x].pointer # None => <<ns[x].pointer, d>> \in W
    <3>1. ns[x].pointer # None => ns[x].pointer \in DOMAIN ns
      BY DEF Shape
    <3>2. ns[x].pointer # None => Leads(ms, names, ns[x].pointer, d)
      BY <1>5, <2>1, LeadsOn
    <3> QED BY <1>1, <3>1, <3>2
  <2>3. ASSUME ns[x].pointer = None, d < Len(names), Child(ns, x, names[d + 1]) # None
        PROVE  <<Child(ns, x, names[d + 1]), d + 1>> \in W
    <3>1. Child(ns, x, names[d + 1]) \in DOMAIN ns /\ d + 1 \in 0..Len(names)
      BY <2>3, ChildFacts DEF NameSeq
    <3>2. ms[x].pointer = None /\ Child(ms, x, names[d + 1]) = Child(ns, x, names[d + 1])
      BY <1>5, <2>3
    <3>3. Leads(ms, names, Child(ns, x, names[d + 1]), d + 1)
      BY <2>1, <2>3, <3>2, LeadsOn
    <3> QED BY <1>1, <3>1, <3>3
  <2> QED BY <2>2, <2>3
<1>6. <<m, c>> \in W
  <2> HIDE DEF W
  <2> QED BY <1>3, <1>4, <1>5, LeadsWithin
<1> QED
  <2> HIDE DEF W
  <2> QED BY <1>1, <1>2, <1>6

\* The nodes of ns are all in ms, with their pointers and their children.
Grown(ns, ms) ==
  /\ DOMAIN ns \subseteq DOMAIN ms
  /\ \A x \in DOMAIN ns : ms[x].pointer = ns[x].pointer
  /\ \A x \in DOMAIN ns : \A name : Child(ns, x, name) # None => Child(ms, x, name) = Child(ns, x, name)

LEMMA GrownKeeps ==
  ASSUME NEW ns, NEW ms, Shape(ns), Shape(ms), Grown(ns, ms)
  PROVE  /\ \A names \in NameSeq : \A m, c : Leads(ns, names, m, c) => Leads(ms, names, m, c)
         /\ \A path : Plain(path) \in NameSeq /\ ResolveIn(ns, path) # None =>
              ResolveIn(ms, path) = ResolveIn(ns, path)
<1>1. ASSUME NEW names \in NameSeq, NEW m, NEW c, Leads(ns, names, m, c)
      PROVE  Leads(ms, names, m, c)
  BY <1>1, LeadsKeep DEF Grown
<1>2. ASSUME NEW path, Plain(path) \in NameSeq, ResolveIn(ns, path) # None
      PROVE  ResolveIn(ms, path) = ResolveIn(ns, path)
  <2> DEFINE e == ResolveIn(ns, path)
  <2>1. Leads(ns, Plain(path), e, Len(Plain(path))) /\ ns[e].pointer = None
    BY <1>2, ResolveLeads
  <2>2. Leads(ms, Plain(path), e, Len(Plain(path))) /\ e \in DOMAIN ns
    BY <1>1, <1>2, <2>1 DEF Leads
  <2>3. ms[e].pointer = None /\ e \in DOMAIN ms
    BY <2>1, <2>2 DEF Grown
  <2>4. ResolveIn(ms, path) = End(ms, e)
    BY <1>2, <2>2, ResolveLeads
  <2> QED BY <2>3, <2>4, EndNext
<1> QED BY <1>1, <1>2

KidOf(ns, x, n) == ns[x].kids # None /\ \E u \in DOMAIN ns[x].kids : ns[x].kids[u] = n

\* In a tree there is one way to come to a node, and none to its root.
LEMMA TreeFacts ==
  ASSUME NEW ns, Shape(ns), IsTree(ns), NEW n \in DOMAIN ns,
         NEW x \in DOMAIN ns, NEW y \in DOMAIN ns
  PROVE  /\ ns[x].pointer = n /\ ns[y].pointer = n => x = y
         /\ KidOf(ns, x, n) /\ KidOf(ns, y, n) => x = y
         /\ ~(ns[x].pointer = n /\ KidOf(ns, y, n))
         /\ ns[x].pointer = n \/ KidOf(ns, x, n) => n # ROOT
<1> DEFINE A == {m \in DOMAIN ns : ns[m].pointer = n}
           B == {m \in DOMAIN ns : ns[m].kids # None /\ \E u \in DOMAIN ns[m].kids : ns[m].kids[u] = n}
<1>1. WaysIn(ns, n) = Cardinality(A) + Cardinality(B)
  BY DEF WaysIn
<1>2. WaysIn(ns, n) <= 1 /\ (n = ROOT => WaysIn(ns, n) = 0)
  BY DEF IsTree
<1>3. IsFiniteSet(DOMAIN ns)
  BY FS_Interval DEF Shape
<1>4. A \in SUBSET DOMAIN ns /\ B \in SUBSET DOMAIN ns
  OBVIOUS
<1>5. /\ ns[x].pointer = n <=> x \in A
      /\ ns[y].pointer = n <=> y \in A
      /\ KidOf(ns, x, n) <=> x \in B
      /\ KidOf(ns, y, n) <=> y \in B
  BY DEF KidOf
<1> HIDE DEF A, B
<1>6. /\ IsFiniteSet(A) /\ IsFiniteSet(B)
      /\ Cardinality(A) \in Nat /\ Cardinality(B) \in Nat
      /\ Cardinality(A) = 0 <=> A = {}
      /\ Cardinality(B) = 0 <=> B = {}
      /\ Cardinality(A) = 1 => \E z : A = {z}
      /\ Cardinality(B) = 1 => \E z : B = {z}
  <2>1. IsFiniteSet(A) /\ IsFiniteSet(B)
    BY <1>3, <1>4, FS_Subset
  <2> QED BY <2>1, FS_CardinalityType, FS_EmptySet, FS_Singleton
<1>7. \/ A = {} /\ B = {}
      \/ n # ROOT /\ A = {} /\ \E z : B = {z}
      \/ n # ROOT /\ B = {} /\ \E z : A = {z}
  <2>1. \/ Cardinality(A) = 0 /\ Cardinality(B) = 0
        \/ n # ROOT /\ Cardinality(A) = 0 /\ Cardinality(B) = 1
        \/ n # ROOT /\ Cardinality(B) = 0 /\ Cardinality(A) = 1
    BY <1>1, <1>2, <1>6
  <2> QED BY <1>6, <2>1
<1> QED BY <1>5, <1>7

\* There is one way to come to a node, and none to the root.
OneWay(ns) ==
  \A n \in DOMAIN ns, x \in DOMAIN ns, y \in DOMAIN ns :
    /\ ns[x].pointer = n /\ ns[y].pointer = n => x = y
    /\ KidOf(ns, x, n) /\ KidOf(ns, y, n) => x = y
    /\ ~(ns[x].pointer = n /\ KidOf(ns, y, n))
    /\ ns[x].pointer = n \/ KidOf(ns, x, n) => n # ROOT

LEMMA ChildKid ==
  ASSUME NEW ns, Shape(ns), NEW x \in DOMAIN ns, NEW name, Child(ns, x, name) # None
  PROVE  KidOf(ns, x, Child(ns, x, name))
  BY ChildFacts DEF KidOf

\* ms is ns with its node at mounted on, by n, and perhaps more nodes.
Mounted(ns, ms, at, n) ==
  /\ DOMAIN ns \subseteq DOMAIN ms /\ at \in DOMAIN ns /\ n \in DOMAIN ms
  /\ ns[at].pointer = None /\ ms[at].pointer = n
  /\ \A x \in DOMAIN ns : /\ x # at => ms[x].pointer = ns[x].pointer
                          /\ ms[x].kids = ns[x].kids /\ ms[x].name = ns[x].name

LEMMA MountedChild ==
  ASSUME NEW ns, NEW ms, Shape(ns), Shape(ms), NEW at, NEW n, Mounted(ns, ms, at, n),
         NEW x \in DOMAIN ns, NEW name, Child(ns, x, name) # None
  PROVE  /\ Child(ms, x, name) = Child(ns, x, name)
         /\ KidOf(ns, x, Child(ns, x, name)) /\ KidOf(ms, x, Child(ns, x, name))
<1>1. PICK u \in DOMAIN ns[x].kids :
        /\ ns[x].kids # None /\ ns[Child(ns, x, name)].name = name
        /\ ns[x].kids[u] = Child(ns, x, name)
        /\ \A j \in DOMAIN ns[x].kids : ns[ns[x].kids[j]].name = name => u <= j
  BY ChildFacts
<1>2. ms[x].kids = ns[x].kids /\ x \in DOMAIN ms
  BY DEF Mounted
<1>3. \A j \in DOMAIN ns[x].kids : ms[ms[x].kids[j]].name = ns[ns[x].kids[j]].name
  BY <1>1, <1>2 DEF Mounted, Shape
<1>4. \A j \in DOMAIN ms[x].kids : ms[ms[x].kids[j]].name = name => u <= j
  BY <1>1, <1>2, <1>3
<1>5. u \in DOMAIN ms[x].kids /\ ms[x].kids # None /\ ms[ms[x].kids[u]].name = name
  BY <1>1, <1>2, <1>3
<1>6. Child(ms, x, name) = ms[x].kids[u]
  BY <1>2, <1>4, <1>5, ChildFacts
<1> QED BY <1>1, <1>2, <1>6 DEF KidOf

\* Nodes that are a tree after a mount were one before it, but for circles.
LEMMA MountedOneWay ==
  ASSUME NEW ns, NEW ms, Shape(ns), Shape(ms), NEW at, NEW n, Mounted(ns, ms, at, n), IsTree(ms)
  PROVE  OneWay(ns)
<1> SUFFICES ASSUME NEW y \in DOMAIN ns, NEW x \in DOMAIN ns, NEW z \in DOMAIN ns
             PROVE  /\ ns[x].pointer = y /\ ns[z].pointer = y => x = z
                    /\ KidOf(ns, x, y) /\ KidOf(ns, z, y) => x = z
                    /\ ~(ns[x].pointer = y /\ KidOf(ns, z, y))
                    /\ ns[x].pointer = y \/ KidOf(ns, x, y) => y # ROOT
  BY DEF OneWay
<1>1. x \in DOMAIN ms /\ y \in DOMAIN ms /\ z \in DOMAIN ms
  BY DEF Mounted
<1>2. /\ ns[x].pointer = y => ms[x].pointer = y
      /\ ns[z].pointer = y => ms[z].pointer = y
  BY NoneOutside DEF Mounted
<1>3. /\ KidOf(ns, x, y) => KidOf(ms, x, y)
      /\ KidOf(ns, z, y) => KidOf(ms, z, y)
  BY DEF Mounted, KidOf
<1> QED BY <1>1, <1>2, <1>3, TreeFacts

\* Where there is one way to each node, two walks that come to one node have
\* followed the same names.
LEMMA SameWay ==
  ASSUME NEW ns, Shape(ns), OneWay(ns),
         NEW p \in NameSeq, NEW q \in NameSeq,
         NEW m, NEW c, NEW d, Leads(ns, p, m, c), Leads(ns, q, m, d)
  PROVE  c = d /\ \A j \in 1..c : p[j] = q[j]
<1> DEFINE Same(y, e) == \A k : Leads(ns, q, y, k) => e = k /\ \A j \in 1..e : p[j] = q[j]
<1> DEFINE W == {w \in Places(ns, p) : Same(w[1], w[2])}
<1>1. ASSUME NEW y \in DOMAIN ns, NEW e \in 0..Len(p)
      PROVE  <<y, e>> \in W <=> Same(y, e)
  <2> DEFINE pl == <<y, e>>
  <2>1. pl[1] = y /\ pl[2] = e /\ pl \in Places(ns, p)
    BY DEF Places
  <2>2. pl \in W <=> Same(pl[1], pl[2])
    <3> HIDE DEF pl, Same
    <3> QED BY <2>1
  <2> HIDE DEF Same, W
  <2> QED BY <2>1, <2>2
<1>2. m \in DOMAIN ns /\ c \in 0..Len(p)
  BY DEF Leads
<1>3. W \in SUBSET Places(ns, p)
  OBVIOUS
<1>4. ASSUME NEW y \in DOMAIN ns, NEW x \in DOMAIN ns, NEW z \in DOMAIN ns
      PROVE  /\ ns[x].pointer = y /\ ns[z].pointer = y => x = z
             /\ KidOf(ns, x, y) /\ KidOf(ns, z, y) => x = z
             /\ ~(ns[x].pointer = y /\ KidOf(ns, z, y))
             /\ ns[x].pointer = y \/ KidOf(ns, x, y) => y # ROOT
  BY DEF OneWay
<1>5. <<ROOT, 0>> \in W
  <2>1. ROOT \in DOMAIN ns /\ 0 \in 0..Len(p)
    BY DEF Shape, ROOT, NameSeq
  <2>2. ASSUME NEW k, Leads(ns, q, ROOT, k) PROVE k = 0
    <3>1. ASSUME NEW x \in DOMAIN ns, ns[x].pointer = ROOT PROVE FALSE
      BY <1>4, <2>1, <3>1
    <3>2. ASSUME NEW x \in DOMAIN ns, NEW e \in 0..Len(q),
                 Child(ns, x, q[e + 1]) # None, ROOT = Child(ns, x, q[e + 1])
          PROVE  FALSE
      <4>1. KidOf(ns, x, ROOT)
        BY <3>2, ChildKid
      <4> QED BY <1>4, <2>1, <4>1
    <3> QED BY <2>2, <3>1, <3>2, LeadsFrom
  <2>3. Same(ROOT, 0)
    BY <2>2
  <2> HIDE DEF W, Same
  <2> QED BY <1>1, <2>1, <2>3
<1>6. ASSUME NEW x \in DOMAIN ns, NEW e \in 0..Len(p), <<x, e>> \in W, Leads(ns, p, x, e)
      PROVE  /\ ns[x].pointer # None => <<ns[x].pointer, e>> \in W
             /\ ns[x].pointer = None /\ e < Len(p) /\ Child(ns, x, p[e + 1]) # None =>
                  <<Child(ns, x, p[e + 1]), e + 1>> \in W
  <2>1. Same(x, e)
    <3> HIDE DEF W, Same
    <3> QED BY <1>1, <1>6
  <2>2. ASSUME ns[x].pointer # None PROVE <<ns[x].pointer, e>> \in W
    <3> DEFINE y == ns[x].pointer
    <3>1. y \in DOMAIN ns
      BY <2>2 DEF Shape
    <3>2. y # ROOT
      BY <1>4, <3>1
    <3>3. ASSUME NEW k, Leads(ns, q, y, k) PROVE e = k /\ \A j \in 1..e : p[j] = q[j]
      <4>1. ASSUME NEW z \in DOMAIN ns, ns[z].pointer = None, NEW u, Child(ns, z, u) # None, y = Child(ns, z, u)
            PROVE  FALSE
        <5>1. KidOf(ns, z, y)
          BY <4>1, ChildKid
        <5> QED BY <1>4, <3>1, <5>1
      <4>2. PICK z \in DOMAIN ns : Leads(ns, q, z, k) /\ ns[z].pointer = y
        <5> HIDE DEF y
        <5> QED BY <3>2, <3>3, <4>1, LeadsFrom
      <4>3. z = x
        BY <1>4, <3>1, <4>2
      <4> QED BY <2>1, <4>2, <4>3
    <3>4. Same(y, e)
      <4> HIDE DEF y
      <4> QED BY <3>3
    <3> HIDE DEF W, Same, y
    <3>5. <<y, e>> \in W
      BY <1>1, <3>1, <3>4
    <3> QED BY <3>5 DEF y
  <2>3. ASSUME ns[x].pointer = None, e < Len(p), Child(ns, x, p[e + 1]) # None
        PROVE  <<Child(ns, x, p[e + 1]), e + 1>> \in W
    <3> DEFINE y == Child(ns, x, p[e + 1])
    <3>1. y \in DOMAIN ns /\ e + 1 \in 0..Len(p) /\ e \in Nat /\ ns[y].name = p[e + 1] /\ KidOf(ns, x, y)
      BY <2>3, ChildFacts, ChildKid DEF NameSeq
    <3>2. y # ROOT
      BY <1>4, <3>1
    <3>3. ASSUME NEW k, Leads(ns, q, y, k) PROVE e + 1 = k /\ \A j \in 1..(e + 1) : p[j] = q[j]
      <4>1. ASSUME NEW z \in DOMAIN ns, ns[z].pointer = y PROVE FALSE
        BY <1>4, <3>1, <4>1
      <4>2. PICK z \in DOMAIN ns, u \in 0..Len(q) :
              /\ Leads(ns, q, z, u) /\ Child(ns, z, q[u + 1]) # None
              /\ y = Child(ns, z, q[u + 1]) /\ k = u + 1
        <5> HIDE DEF y
        <5> QED BY <3>2, <3>3, <4>1, LeadsFrom
      <4>3. KidOf(ns, z, y) /\ ns[y].name = q[u + 1]
        BY <4>2, ChildKid, ChildFacts
      <4>4. z = x
        BY <1>4, <3>1, <4>3
      <4>5. u = e /\ \A j \in 1..e : p[j] = q[j]
        BY <2>1, <4>2, <4>4
      <4>6. p[e + 1] = q[e + 1]
        BY <3>1, <4>3, <4>5
      <4>7. \A j \in 1..(e + 1) : j \in 1..e \/ j = e + 1
        BY <3>1
      <4> HIDE DEF y
      <4> QED BY <4>2, <4>5, <4>6, <4>7
    <3>4. Same(y, e + 1)
      <4> HIDE DEF y
      <4> QED BY <3>3
    <3> HIDE DEF W, Same, y
    <3>5. <<y, e + 1>> \in W
      BY <1>1, <3>1, <3>4
    <3> QED BY <3>5 DEF y
  <2> QED BY <2>2, <2>3
<1>7. <<m, c>> \in W
  <2> HIDE DEF W, Same
  <2> QED BY <1>3, <1>5, <1>6, LeadsWithin
<1>8. Same(m, c)
  <2> HIDE DEF W, Same
  <2> QED BY <1>1, <1>2, <1>7
<1> QED BY <1>8

LEMMA PrefixOf ==
  ASSUME NEW p \in NameSeq, NEW q \in NameSeq, Len(p) <= Len(q),
         \A j \in 1..Len(p) : p[j] = q[j]
  PROVE  IsPrefix(p, q)
<1> DEFINE T == Name \cup {Empty}
           L == Len(p)
<1>1. /\ L \in Nat /\ Len(q) \in Nat /\ L <= Len(q)
      /\ \A j \in 1..L : p[j] \in T /\ q[j] \in T /\ p[j] = q[j]
  BY DEF NameSeq
<1>2. /\ SubSeq(p, 1, L) \in Seq(T)
      /\ Len(SubSeq(p, 1, L)) = L
      /\ \A j \in 1..L : SubSeq(p, 1, L)[j] = p[j]
  <2> HIDE DEF T, L
  <2>1. /\ SubSeq(p, 1, L) \in Seq(T)
        /\ Len(SubSeq(p, 1, L)) = IF 1 <= L THEN L - 1 + 1 ELSE 0
        /\ \A j \in 1..(L - 1 + 1) : SubSeq(p, 1, L)[j] = p[1 + j - 1]
    BY <1>1, SubSeqProperties
  <2>2. L - 1 + 1 = L /\ \A j \in 1..L : 1 + j - 1 = j
    BY <1>1
  <2> QED BY <1>1, <2>1, <2>2
<1>3. /\ SubSeq(q, 1, L) \in Seq(T)
      /\ Len(SubSeq(q, 1, L)) = L
      /\ \A j \in 1..L : SubSeq(q, 1, L)[j] = q[j]
  <2> HIDE DEF T, L
  <2>1. /\ SubSeq(q, 1, L) \in Seq(T)
        /\ Len(SubSeq(q, 1, L)) = IF 1 <= L THEN L - 1 + 1 ELSE 0
        /\ \A j \in 1..(L - 1 + 1) : SubSeq(q, 1, L)[j] = q[1 + j - 1]
    BY <1>1, SubSeqProperties
  <2>2. L - 1 + 1 = L /\ \A j \in 1..L : 1 + j - 1 = j
    BY <1>1
  <2> QED BY <1>1, <2>1, <2>2
<1>4. SubSeq(p, 1, L) = SubSeq(q, 1, L)
  <2> HIDE DEF T, L
  <2> QED BY <1>1, <1>2, <1>3, SeqEqual
<1> QED BY <1>1, <1>4 DEF IsPrefix

\* A mount that leaves a tree shows what was mounted at its path, and nothing
\* else to a path that does not lead through it.
LEMMA MountKeeps ==
  ASSUME NEW ns, NEW ms, Shape(ns), Shape(ms), NEW at, NEW n, Mounted(ns, ms, at, n), OneWay(ns),
         NEW p, Plain(p) \in NameSeq, Leads(ns, Plain(p), at, Len(Plain(p)))
  PROVE  /\ ResolveIn(ms, p) = End(ms, n)
         /\ \A q : Plain(q) \in NameSeq /\ ResolveIn(ns, q) # None /\ ~Under(q, p) =>
              ResolveIn(ms, q) = ResolveIn(ns, q)
<1> DEFINE names == Plain(p)
<1>1. names \in NameSeq /\ Len(names) \in Nat
  BY DEF NameSeq
<1>2. Leads(ms, names, at, Len(names))
  <2>1. ASSUME NEW x \in DOMAIN ns, NEW d \in 0..Len(names), Leads(ns, names, x, d)
        PROVE  /\ ns[x].pointer # None => ms[x].pointer = ns[x].pointer
               /\ ns[x].pointer = None /\ d < Len(names) /\ Child(ns, x, names[d + 1]) # None =>
                    ms[x].pointer = None /\ Child(ms, x, names[d + 1]) = Child(ns, x, names[d + 1])
    <3>1. x = at => d = Len(names)
      <4> SUFFICES ASSUME x = at PROVE d = Len(names)
        OBVIOUS
      <4> HIDE DEF names
      <4> QED BY <1>1, <2>1, SameWay DEF names
    <3>2. d < Len(names) => x # at
      BY <1>1, <3>1
    <3>3. ns[x].pointer # None => x # at
      BY DEF Mounted
    <3> QED BY <3>2, <3>3, MountedChild DEF Mounted
  <2> HIDE DEF names
  <2> QED BY <1>1, <2>1, LeadsKeep DEF names, Mounted
<1>3. ResolveIn(ms, p) = End(ms, n)
  <2>1. at \in DOMAIN ms /\ ms[at].pointer = n /\ n \in DOMAIN ms
    BY DEF Mounted
  <2>2. End(ms, at) = End(ms, n)
    BY <2>1, EndNext, NoneOutside
  <2> QED BY <1>2, <2>2, ResolveLeads
<1>4. ASSUME NEW q, Plain(q) \in NameSeq, ResolveIn(ns, q) # None, ~Under(q, p)
      PROVE  ResolveIn(ms, q) = ResolveIn(ns, q)
  <2> DEFINE e == ResolveIn(ns, q)
  <2>1. Leads(ns, Plain(q), e, Len(Plain(q))) /\ ns[e].pointer = None /\ e \in DOMAIN ns
    BY <1>4, ResolveLeads DEF Leads
  <2>2. ASSUME NEW d, Leads(ns, Plain(q), at, d) PROVE FALSE
    <3>1. d = Len(names) /\ \A j \in 1..Len(names) : names[j] = Plain(q)[j]
      BY <1>1, <1>4, <2>2, SameWay
    <3>2. Len(names) <= Len(Plain(q))
      BY <1>1, <1>4, <2>2, <3>1 DEF Leads, NameSeq
    <3>3. IsPrefix(names, Plain(q))
      BY <1>1, <1>4, <3>1, <3>2, PrefixOf
    <3> QED BY <1>4, <3>3 DEF Under
  <2>3. Leads(ms, Plain(q), e, Len(Plain(q)))
    <3>1. ASSUME NEW x \in DOMAIN ns, NEW d \in 0..Len(Plain(q)), Leads(ns, Plain(q), x, d)
          PROVE  /\ ns[x].pointer # None => ms[x].pointer = ns[x].pointer
                 /\ ns[x].pointer = None /\ d < Len(Plain(q)) /\ Child(ns, x, Plain(q)[d + 1]) # None =>
                      ms[x].pointer = None /\ Child(ms, x, Plain(q)[d + 1]) = Child(ns, x, Plain(q)[d + 1])
      <4>1. x # at
        BY <2>2, <3>1
      <4> QED BY <4>1, MountedChild DEF Mounted
    <3> HIDE DEF e
    <3> QED BY <1>4, <2>1, <3>1, LeadsKeep DEF Mounted
  <2>4. e # at
    BY <2>1, <2>2
  <2>5. ms[e].pointer = None /\ e \in DOMAIN ms
    BY <2>1, <2>4 DEF Mounted
  <2>6. ResolveIn(ms, q) = End(ms, e)
    BY <1>4, <2>3, ResolveLeads
  <2> QED BY <2>5, <2>6, EndNext
<1> QED BY <1>3, <1>4

-----------------------------------------------------------------------------
(* The records of a disc                                                   *)

RecordType == [dot : BOOLEAN, nm : Seq(Name), file : Name, dir : BOOLEAN, lba : Nat]

NormalBy(recs, f) ==
  f = [k \in 0..Len(recs) |->
        IF k = 0 THEN <<>>
        ELSE IF Normal(recs[k]) THEN Append(f[k - 1], recs[k]) ELSE f[k - 1]]

LEMMA NormalSolved ==
  ASSUME NEW recs \in Seq(RecordType)
  PROVE  \E f : NormalBy(recs, f)
<1> DEFINE R == Seq(RecordType)
           L == Len(recs)
           g == [k \in 1..L |-> [r \in R |-> IF Normal(recs[k]) THEN Append(r, recs[k]) ELSE r]]
<1>1. L \in Nat /\ \A k \in 1..L : recs[k] \in RecordType
  <2> HIDE DEF RecordType
  <2> QED OBVIOUS
<1>2. <<>> \in R
  OBVIOUS
<1>3. g \in [1..L -> [R -> R]]
  <2>1. \A k \in 1..L : \A r \in R : Append(r, recs[k]) \in R
    BY <1>1, AppendProperties
  <2>2. \A k \in 1..L : [r \in R |-> IF Normal(recs[k]) THEN Append(r, recs[k]) ELSE r] \in [R -> R]
    <3> HIDE DEF R
    <3> QED BY <2>1
  <2> HIDE DEF R, L
  <2> QED BY <2>2
<1>4. PICK f \in [0..L -> R] : Recurs(f, L, <<>>, g)
  <2> HIDE DEF L, R, g
  <2> QED BY <1>1, <1>2, <1>3, Recursion
<1>5. \A k \in 1..L : f[k] = IF Normal(recs[k]) THEN Append(f[k - 1], recs[k]) ELSE f[k - 1]
  <2> SUFFICES ASSUME NEW k \in 1..L
               PROVE  f[k] = IF Normal(recs[k]) THEN Append(f[k - 1], recs[k]) ELSE f[k - 1]
    OBVIOUS
  <2>1. f[k] = g[k][f[k - 1]]
    <3> HIDE DEF L, g
    <3> QED BY <1>4 DEF Recurs
  <2>2. k - 1 \in 0..L
    <3> HIDE DEF L
    <3> QED BY <1>1
  <2>3. f[k - 1] \in R
    BY <1>4, <2>2
  <2>4. g[k][f[k - 1]] = IF Normal(recs[k]) THEN Append(f[k - 1], recs[k]) ELSE f[k - 1]
    <3> HIDE DEF R, L
    <3> QED BY <2>3
  <2> QED BY <2>1, <2>4
<1>6. f[0] = <<>>
  BY <1>4 DEF Recurs
<1>7. NormalBy(recs, f)
  <2>1. f = [k \in 0..L |-> f[k]]
    BY <1>4
  <2>2. \A k \in 0..L : k # 0 => k \in 1..L
    <3> HIDE DEF L
    <3> QED BY <1>1
  <2>3. \A k \in 0..L : f[k] =
          IF k = 0 THEN <<>>
          ELSE IF Normal(recs[k]) THEN Append(f[k - 1], recs[k]) ELSE f[k - 1]
    BY <1>5, <1>6, <2>2
  <2> HIDE DEF L
  <2> QED BY <2>1, <2>3 DEF NormalBy, L
<1> QED BY <1>7

\* What is listed of a directory of the disc are records.
LEMMA NormalType ==
  ASSUME NEW recs \in Seq(RecordType)
  PROVE  NormalRecords(recs) \in Seq(RecordType)
<1> DEFINE L == Len(recs)
           e == CHOOSE f : NormalBy(recs, f)
<1>1. L \in Nat /\ \A k \in 1..L : recs[k] \in RecordType
  <2> HIDE DEF RecordType
  <2> QED OBVIOUS
<1>2. NormalBy(recs, e)
  BY NormalSolved
<1>3. NormalRecords(recs) = e[L]
  BY DEF NormalRecords, NormalBy
<1> HIDE DEF e
<1>4. ASSUME NEW k \in 0..L
      PROVE  e[k] = IF k = 0 THEN <<>>
                    ELSE IF Normal(recs[k]) THEN Append(e[k - 1], recs[k]) ELSE e[k - 1]
  BY <1>2 DEF NormalBy
<1> DEFINE S == {k \in Nat : k <= L => e[k] \in Seq(RecordType)}
<1>5. S = Nat
  <2> HIDE DEF L, RecordType
  <2>1. 0 \in S
    <3>1. 0 \in 0..L
      BY <1>1
    <3>2. e[0] = <<>> /\ <<>> \in Seq(RecordType)
      BY <1>4, <3>1
    <3>3. e[0] \in Seq(RecordType)
      BY <3>2
    <3> HIDE DEF RecordType
    <3> QED BY <3>3
  <2>2. ASSUME NEW k \in S PROVE k + 1 \in S
    <3> SUFFICES ASSUME k + 1 <= L PROVE e[k + 1] \in Seq(RecordType)
      OBVIOUS
    <3>1. k + 1 \in 0..L /\ k + 1 \in 1..L /\ k + 1 # 0 /\ e[k] \in Seq(RecordType) /\ (k + 1) - 1 = k
      BY <1>1
    <3>2. e[k + 1] = IF Normal(recs[k + 1]) THEN Append(e[k], recs[k + 1]) ELSE e[k]
      BY <1>4, <3>1
    <3>3. Append(e[k], recs[k + 1]) \in Seq(RecordType)
      BY <1>1, <3>1, AppendProperties
    <3> QED BY <3>1, <3>2, <3>3
  <2> HIDE DEF S
  <2>3. S \in SUBSET Nat
    BY DEF S
  <2> QED BY <2>1, <2>2, <2>3, SetInduction
<1> QED
  <2> HIDE DEF L, RecordType
  <2> QED BY <1>1, <1>3, <1>5

LEMMA RecordsType == \A n : Records(n) \in Seq(RecordType)
<1>1. \A x \in DOMAIN Disc : Disc[x] \in Seq(RecordType)
  BY DiscAssumption DEF RecordType
<1> HIDE DEF RecordType
<1>2. \A n : OnDisc(n) => Disc[nodes[n].lba] \in Seq(RecordType)
  BY <1>1 DEF OnDisc
<1>3. <<>> \in Seq(RecordType)
  OBVIOUS
<1> QED BY <1>2, <1>3, NormalType DEF Records

-----------------------------------------------------------------------------
(* The nodes                                                               *)

NodeIn(D) ==
  [name : Name \cup {Empty}, fs : {"none", "atapi", "ramfs", "cdfs"},
   type : {"DIR", "FILE", "BLOCK"}, pointer : D \cup {None},
   kids : Seq(D) \cup {None}, cap : Nat,
   cdrom : D \cup {None}, lba : Nat \cup {None}]

\* Nodes of the right types, and directories of a ramfs within their capacity.
Well(ns) ==
  /\ ns \in Seq(NodeIn(DOMAIN ns)) /\ Len(ns) \in 2..MaxNodes
  /\ \A n \in DOMAIN ns : ns[n].fs = "ramfs" => ns[n].kids # None /\ Len(ns[n].kids) <= ns[n].cap

LEMMA NodeInMono ==
  ASSUME NEW D, NEW E, D \subseteq E, NEW x \in NodeIn(D)
  PROVE  x \in NodeIn(E)
<1>1. Seq(D) \subseteq Seq(E)
  BY SeqMonotonic
<1> QED BY <1>1 DEF NodeIn

LEMMA NodeFields ==
  ASSUME NEW ns, Well(ns), NEW n \in DOMAIN ns
  PROVE  /\ ns[n] \in NodeIn(DOMAIN ns)
         /\ ns[n].name \in Name \cup {Empty} /\ ns[n].pointer \in DOMAIN ns \cup {None}
         /\ ns[n].kids \in Seq(DOMAIN ns) \cup {None} /\ ns[n].cap \in Nat
         /\ ns[n].cdrom \in DOMAIN ns \cup {None} /\ ns[n].lba \in Nat \cup {None}
<1>1. ns[n] \in NodeIn(DOMAIN ns)
  <2>1. ns \in Seq(NodeIn(DOMAIN ns)) /\ n \in 1..Len(ns)
    <3>1. ns \in Seq(NodeIn(DOMAIN ns))
      BY DEF Well
    <3> QED BY <3>1, LenProperties
  <2> QED BY <2>1, ElementOfSeq
<1> QED BY <1>1 DEF NodeIn

LEMMA WellShape ==
  ASSUME NEW ns, Well(ns)
  PROVE  /\ Shape(ns) /\ Len(ns) \in Nat /\ DOMAIN ns = 1..Len(ns)
         /\ ROOT \in DOMAIN ns /\ CDROM \in DOMAIN ns /\ None \notin DOMAIN ns
<1>1. Len(ns) \in Nat /\ DOMAIN ns = 1..Len(ns) /\ Len(ns) >= 2
  <2>1. ns \in Seq(NodeIn(DOMAIN ns)) /\ Len(ns) >= 2
    BY CapacityAssumption DEF Well
  <2> QED BY <2>1, LenProperties
<1>2. ASSUME NEW n \in DOMAIN ns, ns[n].kids # None
      PROVE  DOMAIN ns[n].kids \subseteq Nat /\ \A u \in DOMAIN ns[n].kids : ns[n].kids[u] \in DOMAIN ns
  <2>1. ns[n].kids \in Seq(DOMAIN ns)
    BY <1>2, NodeFields
  <2> QED BY <2>1, LenProperties, ElementOfSeq
<1>3. Shape(ns)
  BY <1>1, <1>2, NodeFields DEF Shape
<1> QED BY <1>1, <1>3, NoneOutside DEF ROOT, CDROM

LEMMA NodesTyped == Well(nodes) <=> nodes \in Seq(NodeType) /\ Len(nodes) \in 2..MaxNodes
                                    /\ \A n \in DOMAIN nodes : nodes[n].fs = "ramfs" =>
                                         nodes[n].kids # None /\ Len(nodes[n].kids) <= nodes[n].cap
  BY DEF Well, NodeType, NodeIn

\* Children that are added after those there are leave the first of each name.
LEMMA GrownBy ==
  ASSUME NEW ns, NEW ms, Shape(ns), Shape(ms), DOMAIN ns \subseteq DOMAIN ms,
         \A x \in DOMAIN ns :
           /\ ms[x].pointer = ns[x].pointer /\ ms[x].name = ns[x].name
           /\ ns[x].kids # None =>
                /\ ms[x].kids # None /\ DOMAIN ns[x].kids \subseteq DOMAIN ms[x].kids
                /\ \A u \in DOMAIN ns[x].kids : ms[x].kids[u] = ns[x].kids[u]
                /\ \A u \in DOMAIN ns[x].kids : \A j \in DOMAIN ms[x].kids :
                     j \notin DOMAIN ns[x].kids => u <= j
  PROVE  Grown(ns, ms)
<1> SUFFICES ASSUME NEW x \in DOMAIN ns, NEW name, Child(ns, x, name) # None
             PROVE  Child(ms, x, name) = Child(ns, x, name)
  BY DEF Grown
<1>1. PICK u \in DOMAIN ns[x].kids :
        /\ ns[x].kids # None /\ ns[Child(ns, x, name)].name = name
        /\ ns[x].kids[u] = Child(ns, x, name)
        /\ \A j \in DOMAIN ns[x].kids : ns[ns[x].kids[j]].name = name => u <= j
  BY ChildFacts
<1>2. /\ ms[x].kids # None /\ u \in DOMAIN ms[x].kids /\ x \in DOMAIN ms
      /\ ms[x].kids[u] = ns[x].kids[u]
  BY <1>1
<1>3. \A j \in DOMAIN ns[x].kids : ms[ms[x].kids[j]].name = ns[ns[x].kids[j]].name
  BY <1>1 DEF Shape
<1>4. \A j \in DOMAIN ms[x].kids : ms[ms[x].kids[j]].name = name => u <= j
  BY <1>1, <1>3
<1>5. ms[ms[x].kids[u]].name = name
  BY <1>1, <1>3
<1> QED BY <1>1, <1>2, <1>4, <1>5, ChildFacts

\* The nodes of ns keep their pointers and file systems, and the new ones, to
\* which nothing leads but one directory, lead nowhere.
Tidy(ns, ms) ==
  /\ DOMAIN ns \subseteq DOMAIN ms
  /\ \A x \in DOMAIN ns : ms[x].pointer = ns[x].pointer /\ ms[x].fs = ns[x].fs
  /\ \A x \in DOMAIN ms : x \notin DOMAIN ns => ms[x].pointer = None
  /\ \A x \in DOMAIN ms, n \in DOMAIN ns : KidOf(ms, x, n) => x \in DOMAIN ns /\ KidOf(ns, x, n)
  /\ \E z \in DOMAIN ns : \A x \in DOMAIN ms, n \in DOMAIN ms :
       n \notin DOMAIN ns /\ KidOf(ms, x, n) => x = z

LEMMA SeqOfMore ==
  ASSUME NEW ns, Well(ns), NEW E, DOMAIN ns \subseteq E
  PROVE  ns \in Seq(NodeIn(E))
<1>1. NodeIn(DOMAIN ns) \subseteq NodeIn(E)
  BY NodeInMono
<1> QED BY <1>1, SeqMonotonic DEF Well

\* A directory of a ramfs has room for one more entry.
LEMMA CapacityGrows ==
  ASSUME NEW n \in DOMAIN nodes, nodes[n].kids \in Seq(DOMAIN nodes), nodes[n].cap \in Nat
  PROVE  Capacity(n) \in Nat /\ Len(nodes[n].kids) + 1 <= Capacity(n)
<1> DEFINE size == Len(nodes[n].kids) + 1
           a == size + DIR_STEP - 1
<1>1. size \in Nat /\ DIR_STEP \in Nat \ {0} /\ a \in Nat
  BY CapacityAssumption
<1>2. /\ a \div DIR_STEP \in Nat /\ a % DIR_STEP \in 0..(DIR_STEP - 1)
      /\ a = (a \div DIR_STEP) * DIR_STEP + (a % DIR_STEP)
  <2> HIDE DEF a, size
  <2> QED BY <1>1, DivMod
<1>3. (a \div DIR_STEP) * DIR_STEP \in Nat /\ size <= (a \div DIR_STEP) * DIR_STEP
  <2> DEFINE x == (a \div DIR_STEP) * DIR_STEP
             r == a % DIR_STEP
  <2>1. x \in Nat /\ r \in Nat /\ r <= DIR_STEP - 1 /\ a = x + r
    <3>1. x \in Nat
      <4> HIDE DEF a, size
      <4> QED BY <1>1, <1>2
    <3> HIDE DEF a, size
    <3> QED BY <1>1, <1>2, <3>1
  <2>2. size <= x
    <3>1. a = size + DIR_STEP - 1
      OBVIOUS
    <3> HIDE DEF x, r, a, size
    <3> QED BY <1>1, <2>1, <3>1
  <2> QED BY <2>1, <2>2
<1>4. AlignTo(size, DIR_STEP) = (a \div DIR_STEP) * DIR_STEP
  BY DEF AlignTo
<1>5. Capacity(n) = IF size > nodes[n].cap THEN AlignTo(size, DIR_STEP) ELSE nodes[n].cap
  BY DEF Capacity
<1> HIDE DEF size, a
<1>6. Capacity(n) \in Nat /\ size <= Capacity(n)
  BY <1>1, <1>3, <1>4, <1>5
<1> QED BY <1>6 DEF size

\* One more node, to which nothing leads.
LEMMA AppendedNode ==
  ASSUME NEW ns, Well(ns), NEW x \in NodeIn(1..(Len(ns) + 1)), Len(ns) < MaxNodes,
         x.fs = "ramfs" => x.kids # None /\ Len(x.kids) <= x.cap,
         x.pointer = None, x.kids # None => x.kids = <<>>
  PROVE  /\ Well(Append(ns, x)) /\ Grown(ns, Append(ns, x)) /\ Tidy(ns, Append(ns, x))
         /\ Len(Append(ns, x)) = Len(ns) + 1 /\ Append(ns, x)[Len(ns) + 1] = x
         /\ DOMAIN Append(ns, x) = 1..(Len(ns) + 1)
         /\ \A n \in DOMAIN ns : Append(ns, x)[n] = ns[n]
<1> DEFINE ms == Append(ns, x)
           E == 1..(Len(ns) + 1)
<1>1. Len(ns) \in Nat /\ DOMAIN ns = 1..Len(ns) /\ Len(ns) \in 2..MaxNodes /\ Shape(ns)
  BY WellShape DEF Well
<1>2. ns \in Seq(NodeIn(E))
  BY <1>1, SeqOfMore
<1>3. /\ ms \in Seq(NodeIn(E)) /\ Len(ms) = Len(ns) + 1
      /\ ms[Len(ns) + 1] = x /\ \A n \in 1..Len(ns) : ms[n] = ns[n]
  <2> HIDE DEF E
  <2> QED BY <1>2, AppendProperties DEF E
<1>4. DOMAIN ms = E
  <2> HIDE DEF ms
  <2> QED BY <1>3, LenProperties
<1> HIDE DEF ms
<1>5. Well(ms)
  <2>1. Len(ms) \in 2..MaxNodes
    BY <1>1, <1>3, CapacityAssumption
  <2>2. \A n \in E : n \in 1..Len(ns) \/ n = Len(ns) + 1
    BY <1>1
  <2>3. ASSUME NEW n \in E, ms[n].fs = "ramfs" PROVE ms[n].kids # None /\ Len(ms[n].kids) <= ms[n].cap
    <3>1. CASE n \in 1..Len(ns)
      BY <1>1, <1>3, <2>3, <3>1 DEF Well
    <3>2. CASE n = Len(ns) + 1
      BY <1>3, <2>3, <3>2
    <3> QED BY <2>2, <3>1, <3>2
  <2> QED BY <1>3, <1>4, <2>1, <2>3 DEF Well
<1>6. Grown(ns, ms)
  <2>1. Shape(ms) /\ DOMAIN ns \subseteq DOMAIN ms
    BY <1>1, <1>4, <1>5, WellShape
  <2>2. \A n \in DOMAIN ns : ms[n] = ns[n]
    BY <1>1, <1>3
  <2> QED BY <1>1, <2>1, <2>2, GrownBy
<1>7. Tidy(ns, ms)
  <2>1. \A m \in DOMAIN ms : m \in DOMAIN ns \/ m = Len(ns) + 1
    BY <1>1, <1>4
  <2>2. \A m \in DOMAIN ns : ms[m] = ns[m]
    BY <1>1, <1>3
  <2>3. ASSUME NEW m, KidOf(ms, Len(ns) + 1, m) PROVE FALSE
    BY <1>3, <2>3 DEF KidOf
  <2>4. ASSUME NEW y \in DOMAIN ms, NEW m \in DOMAIN ms, KidOf(ms, y, m)
        PROVE  y \in DOMAIN ns /\ KidOf(ns, y, m) /\ m \in DOMAIN ns
    <3>1. y \in DOMAIN ns /\ KidOf(ns, y, m)
      BY <2>1, <2>2, <2>3, <2>4 DEF KidOf
    <3> QED BY <1>1, <3>1 DEF KidOf, Shape
  <2>5. DOMAIN ns \subseteq DOMAIN ms /\ 1 \in DOMAIN ns
    BY <1>1, <1>4
  <2>6. \A m \in DOMAIN ms : m \notin DOMAIN ns => ms[m].pointer = None
    BY <1>3, <2>1
  <2> QED BY <2>2, <2>4, <2>5, <2>6 DEF Tidy
<1> QED BY <1>1, <1>3, <1>4, <1>5, <1>6, <1>7 DEF ms

LEMMA NodeTyped ==
  ASSUME NEW name \in Name \cup {Empty}, NEW fs \in {"none", "atapi", "ramfs", "cdfs"},
         NEW type \in {"DIR", "FILE", "BLOCK"}, NEW D
  PROVE  /\ Node(name, fs, type) \in NodeIn(D)
         /\ Node(name, fs, type).kids = IF fs = "cdfs" THEN None ELSE <<>>
         /\ Node(name, fs, type).pointer = None /\ Node(name, fs, type).name = name
         /\ Node(name, fs, type).cap = DIR_ALLOC /\ Node(name, fs, type).fs = fs
         /\ Len(<<>>) <= DIR_ALLOC /\ <<>> # None
<1>1. <<>> \in Seq(D) /\ Len(<<>>) = 0 /\ DIR_ALLOC \in Nat
  BY CapacityAssumption
<1>2. <<>> # None
  <2>1. <<>> \in Seq(Nat)
    OBVIOUS
  <2> QED BY <2>1, PathAssumption
<1>3. (IF fs = "cdfs" THEN None ELSE <<>>) \in Seq(D) \cup {None}
  BY <1>1
<1> QED BY <1>1, <1>2, <1>3 DEF Node, NodeIn

\* ramfs_createNode adds a node to a directory: its other children stay, and
\* a name that was not there leads to the new one.
LEMMA CreatedNodes ==
  ASSUME Well(nodes), NEW n \in DOMAIN nodes, Creatable(n),
         NEW name \in Name \cup {Empty}, NEW type \in {"DIR", "FILE"}
  PROVE  /\ Well(Created(n, name, type)) /\ Grown(nodes, Created(n, name, type))
         /\ Tidy(nodes, Created(n, name, type))
         /\ Len(Created(n, name, type)) = Len(nodes) + 1
         /\ Len(nodes) + 1 \in DOMAIN Created(n, name, type)
         /\ Child(nodes, n, name) = None => Child(Created(n, name, type), n, name) = Len(nodes) + 1
<1> DEFINE ns == nodes
           N == Len(nodes)
           E == 1..(N + 1)
           K == Len(nodes[n].kids)
           y == [nodes[n] EXCEPT !.cap = Capacity(n), !.kids = Append(@, N + 1)]
           mid == [nodes EXCEPT ![n] = y]
           x == Node(name, "ramfs", type)
           ms == Created(n, name, type)
<1>1. N \in Nat /\ DOMAIN nodes = 1..N /\ N \in 2..MaxNodes /\ Shape(nodes) /\ N + 1 \in E /\ None \notin E
  BY WellShape, PathAssumption DEF Well
<1>2. /\ nodes[n].fs = "ramfs" /\ N < MaxNodes /\ nodes[n].kids \in Seq(DOMAIN nodes)
      /\ nodes[n].cap \in Nat /\ nodes[n] \in NodeIn(DOMAIN nodes) /\ nodes[n].kids # None
  BY NodeFields DEF Well, Creatable
<1>3. Capacity(n) \in Nat /\ K + 1 <= Capacity(n) /\ K \in Nat /\ DOMAIN nodes[n].kids = 1..K
  BY <1>2, CapacityGrows, LenProperties
<1>4. nodes[n].kids \in Seq(E) /\ nodes \in Seq(NodeIn(E)) /\ nodes[n] \in NodeIn(E)
  BY <1>1, <1>2, SeqMonotonic, SeqOfMore, NodeInMono
<1>5. /\ Append(nodes[n].kids, N + 1) \in Seq(E)
      /\ Len(Append(nodes[n].kids, N + 1)) = K + 1
      /\ \A u \in 1..K : Append(nodes[n].kids, N + 1)[u] = nodes[n].kids[u]
      /\ Append(nodes[n].kids, N + 1)[K + 1] = N + 1
  <2> HIDE DEF E, N
  <2> QED BY <1>1, <1>4, AppendProperties
<1>6. /\ y \in NodeIn(E) /\ y.kids = Append(nodes[n].kids, N + 1) /\ y.cap = Capacity(n)
      /\ y.pointer = nodes[n].pointer /\ y.name = nodes[n].name /\ y.fs = nodes[n].fs
  <2> HIDE DEF E, N
  <2> QED BY <1>3, <1>4, <1>5 DEF NodeIn
<1>7. x \in NodeIn(E) /\ x.pointer = None /\ x.kids = <<>> /\ x.cap = DIR_ALLOC /\ x.name = name /\ x.fs = "ramfs"
      /\ Len(<<>>) <= DIR_ALLOC /\ <<>> # None
  <2> HIDE DEF E
  <2> QED BY NodeTyped
<1>8. ms = Append(mid, x)
  <2>1. mid = [nodes EXCEPT ![n].cap = Capacity(n), ![n].kids = Append(@, N + 1)]
    BY <1>1, <1>2 DEF NodeIn
  <2> QED BY <2>1 DEF Created
<1>9. /\ mid \in Seq(NodeIn(E)) /\ Len(mid) = N
      /\ \A m \in 1..N : mid[m] = IF m = n THEN y ELSE nodes[m]
  <2> HIDE DEF E, y
  <2> QED BY <1>1, <1>4, <1>6, ExceptSeq
<1>10. /\ ms \in Seq(NodeIn(E)) /\ Len(ms) = N + 1 /\ ms[N + 1] = x
       /\ \A m \in 1..N : ms[m] = IF m = n THEN y ELSE nodes[m]
  <2> HIDE DEF E, y, mid, x, ms
  <2> QED BY <1>7, <1>8, <1>9, AppendProperties
<1>11. DOMAIN ms = E
  <2> HIDE DEF ms
  <2> QED BY <1>10, LenProperties
<1> HIDE DEF ms, x, y, mid
<1>12. \A m \in E : m \in 1..N \/ m = N + 1
  BY <1>1
<1>13. Well(ms)
  <2>1. Len(ms) \in 2..MaxNodes
    BY <1>1, <1>2, <1>10, CapacityAssumption
  <2>2. ASSUME NEW m \in E, ms[m].fs = "ramfs" PROVE ms[m].kids # None /\ Len(ms[m].kids) <= ms[m].cap
    <3>1. CASE m = n /\ m \in 1..N
      <4>1. ms[m] = y
        BY <1>10, <3>1
      <4>2. y.kids # None
        <5>1. Append(nodes[n].kids, N + 1) \in Seq(Nat)
          BY <1>1, <1>5, SeqMonotonic
        <5> QED BY <1>6, <5>1, PathAssumption
      <4> QED BY <1>3, <1>5, <1>6, <4>1, <4>2
    <3>2. CASE m # n /\ m \in 1..N
      BY <1>1, <1>10, <2>2, <3>2 DEF Well
    <3>3. CASE m = N + 1
      BY <1>7, <1>10, <3>3
    <3> QED BY <1>12, <3>1, <3>2, <3>3
  <2> QED BY <1>10, <1>11, <2>1, <2>2 DEF Well
<1>14. Shape(ms)
  BY <1>13, WellShape
<1>15. Grown(nodes, ms)
  <2>1. DOMAIN nodes \subseteq DOMAIN ms
    BY <1>1, <1>11
  <2>2. ASSUME NEW m \in DOMAIN nodes
        PROVE  /\ ms[m].pointer = nodes[m].pointer /\ ms[m].name = nodes[m].name
               /\ nodes[m].kids # None =>
                    /\ ms[m].kids # None /\ DOMAIN nodes[m].kids \subseteq DOMAIN ms[m].kids
                    /\ \A u \in DOMAIN nodes[m].kids : ms[m].kids[u] = nodes[m].kids[u]
                    /\ \A u \in DOMAIN nodes[m].kids : \A j \in DOMAIN ms[m].kids :
                         j \notin DOMAIN nodes[m].kids => u <= j
    <3>1. CASE m # n
      <4>1. ms[m] = nodes[m]
        BY <1>1, <1>10, <3>1
      <4> QED BY <4>1
    <3>2. CASE m = n
      <4>1. ms[m] = y
        BY <1>1, <1>10, <3>2
      <4>2. DOMAIN y.kids = 1..(K + 1)
        BY <1>5, <1>6, LenProperties
      <4>3. y.kids # None
        <5>1. Append(nodes[n].kids, N + 1) \in Seq(Nat)
          BY <1>1, <1>5, SeqMonotonic
        <5> QED BY <1>6, <5>1, PathAssumption
      <4>4. DOMAIN nodes[n].kids = 1..K /\ y.kids = Append(nodes[n].kids, N + 1)
        BY <1>3, <1>6
      <4>5. \A u \in 1..K : y.kids[u] = nodes[n].kids[u]
        BY <1>5, <4>4
      <4>6. 1..K \subseteq 1..(K + 1) /\ \A u \in 1..K : \A j \in 1..(K + 1) : j \notin 1..K => u <= j
        <5> HIDE DEF K
        <5> QED BY <1>3
      <4>7. /\ DOMAIN nodes[n].kids \subseteq DOMAIN y.kids
            /\ \A u \in DOMAIN nodes[n].kids : y.kids[u] = nodes[n].kids[u]
            /\ \A u \in DOMAIN nodes[n].kids : \A j \in DOMAIN y.kids : j \notin DOMAIN nodes[n].kids => u <= j
        <5> HIDE DEF K
        <5> QED BY <4>2, <4>4, <4>5, <4>6
      <4> HIDE DEF K
      <4> QED BY <1>6, <3>2, <4>1, <4>3, <4>7
    <3> QED BY <3>1, <3>2
  <2> QED BY <1>1, <1>14, <2>1, <2>2, GrownBy
<1>16. ASSUME Child(nodes, n, name) = None PROVE Child(ms, n, name) = N + 1
  <2>1. n \in DOMAIN ms /\ ms[n] = y /\ ms[n].kids # None /\ DOMAIN y.kids = 1..(K + 1)
    <3>1. n \in 1..N /\ n \in E
      BY <1>1
    <3>2. Append(nodes[n].kids, N + 1) \in Seq(Nat)
      BY <1>1, <1>5, SeqMonotonic
    <3>3. DOMAIN y.kids = 1..(K + 1)
      BY <1>5, <1>6, LenProperties
    <3> QED BY <1>6, <1>10, <1>11, <3>1, <3>2, <3>3, PathAssumption
  <2>2. ASSUME NEW u \in 1..K PROVE ms[ms[n].kids[u]].name # name
    <3>1. ms[n].kids[u] = nodes[n].kids[u]
      BY <1>5, <1>6, <2>1
    <3>2. nodes[n].kids[u] \in DOMAIN nodes
      BY <1>1, <1>2, <1>3 DEF Shape
    <3>3. ms[nodes[n].kids[u]].name = nodes[nodes[n].kids[u]].name
      BY <1>15, <3>2, <1>1, <1>10, <1>6
    <3>4. nodes[nodes[n].kids[u]].name # name
      <4> SUFFICES ASSUME nodes[nodes[n].kids[u]].name = name PROVE FALSE
        OBVIOUS
      <4> DEFINE I == {j \in Nat : j \in DOMAIN nodes[n].kids /\ nodes[nodes[n].kids[j]].name = name}
      <4>1. I # {} /\ I \in SUBSET Nat
        BY <1>3
      <4>2. PICK j \in I : \A l \in I : j <= l
        <5> HIDE DEF I
        <5> QED BY <4>1, LeastNat
      <4>3. j \in DOMAIN nodes[n].kids /\ nodes[nodes[n].kids[j]].name = name
            /\ \A l \in DOMAIN nodes[n].kids : nodes[nodes[n].kids[l]].name = name => j <= l
        BY <1>3, <4>2
      <4> QED BY <1>1, <1>2, <1>16, <4>3, ChildFacts
    <3> QED BY <3>1, <3>3, <3>4
  <2>3. K + 1 \in DOMAIN ms[n].kids /\ ms[n].kids[K + 1] = N + 1 /\ ms[ms[n].kids[K + 1]].name = name
    BY <1>3, <1>5, <1>6, <1>7, <1>10, <2>1
  <2>4. \A j \in DOMAIN ms[n].kids : ms[ms[n].kids[j]].name = name => K + 1 <= j
    BY <1>3, <2>1, <2>2
  <2> QED BY <1>14, <2>1, <2>3, <2>4, ChildFacts
<1>17. N + 1 \in DOMAIN ms
  BY <1>1, <1>11
<1>18. Tidy(nodes, ms)
  <2>1. \A m \in 1..N : m # n => ms[m] = nodes[m]
    BY <1>10
  <2>2. ms[n] = y /\ n \in 1..N
    BY <1>1, <1>10
  <2>3. ms[N + 1] = x
    BY <1>10
  <2>4. ASSUME NEW m, KidOf(ms, N + 1, m) PROVE FALSE
    BY <1>7, <2>3, <2>4 DEF KidOf
  <2>5. ASSUME NEW m, NEW z \in 1..N, KidOf(ms, z, m), m # N + 1 \/ z # n
        PROVE  KidOf(nodes, z, m) /\ m # N + 1
    <3>1. CASE z # n
      <4>1. KidOf(nodes, z, m)
        BY <2>1, <2>5, <3>1 DEF KidOf
      <4>2. m \in 1..N
        BY <1>1, <4>1 DEF KidOf, Shape
      <4>3. m # N + 1
        <5> HIDE DEF N
        <5> QED BY <1>1, <4>2
      <4> QED BY <4>1, <4>3
    <3>2. CASE z = n
      <4>1. PICK u \in DOMAIN y.kids : y.kids[u] = m
        BY <2>2, <2>5, <3>2 DEF KidOf
      <4>2. DOMAIN y.kids = 1..(K + 1)
        BY <1>5, <1>6, LenProperties
      <4>3. u \in 1..K
        <5>1. u # K + 1
          BY <1>5, <1>6, <2>5, <3>2, <4>1
        <5> HIDE DEF K
        <5> QED BY <1>3, <4>1, <4>2, <5>1
      <4>4. nodes[n].kids[u] = m
        BY <1>5, <1>6, <4>1, <4>3
      <4> QED BY <1>2, <1>3, <2>5, <3>2, <4>3, <4>4 DEF KidOf
    <3> QED BY <3>1, <3>2
  <2>6. ASSUME NEW m \in 1..N PROVE ms[m].pointer = nodes[m].pointer /\ ms[m].fs = nodes[m].fs
    BY <1>6, <2>1, <2>2
  <2>7. ASSUME NEW z \in E, NEW m \in 1..N, KidOf(ms, z, m) PROVE z \in 1..N /\ KidOf(nodes, z, m)
    <3>1. m # N + 1
      <4> HIDE DEF N
      <4> QED BY <1>1
    <3> QED BY <1>12, <2>4, <2>5, <2>7, <3>1
  <2>8. ASSUME NEW z \in E, NEW m \in E, m \notin 1..N, KidOf(ms, z, m) PROVE z = n
    BY <1>12, <2>4, <2>5, <2>8
  <2>9. DOMAIN nodes = 1..N /\ 1..N \subseteq E
    BY <1>1
  <2>10. \A m \in E : m \notin 1..N => ms[m].pointer = None
    BY <1>7, <1>12, <2>3
  <2> HIDE DEF N, E
  <2> QED BY <1>11, <2>2, <2>6, <2>7, <2>8, <2>9, <2>10 DEF Tidy
<1> QED BY <1>10, <1>13, <1>15, <1>16, <1>17, <1>18 DEF ms

LEMMA FunctionSeq ==
  ASSUME NEW S, NEW k \in Nat, NEW f \in [1..k -> S]
  PROVE  f \in Seq(S) /\ Len(f) = k
<1>1. f \in Seq(S)
  BY SeqDef
<1>2. DOMAIN f = 1..Len(f) /\ Len(f) \in Nat /\ DOMAIN f = 1..k
  BY <1>1, LenProperties
<1> QED BY <1>1, <1>2

\* The node of a record is a file or a directory of the disc it was read from.
LEMMA FromRecordTyped ==
  ASSUME Well(nodes), NEW n \in DOMAIN nodes, NEW rec \in RecordType,
         NEW E, DOMAIN nodes \subseteq E
  PROVE  /\ FromRecord(n, rec) \in NodeIn(E)
         /\ FromRecord(n, rec).fs = "cdfs"
         /\ FromRecord(n, rec).pointer = None /\ FromRecord(n, rec).kids = None
<1> DEFINE name == IF rec.nm = <<>> THEN rec.file ELSE Last(rec.nm)
           type == IF rec.dir THEN "DIR" ELSE "FILE"
           x == Node(name, "cdfs", type)
<1>1. name \in Name \cup {Empty}
  <2>1. rec.nm \in Seq(Name) /\ rec.file \in Name
    BY DEF RecordType
  <2>2. CASE rec.nm = <<>>
    BY <2>1, <2>2
  <2>3. CASE rec.nm # <<>>
    <3>1. Len(rec.nm) \in 1..Len(rec.nm)
      BY <2>1, <2>3, EmptySeq
    <3>2. Last(rec.nm) \in Name
      BY <2>1, <3>1, ElementOfSeq DEF Last
    <3> QED BY <2>3, <3>2
  <2> QED BY <2>2, <2>3
<1>2. x \in NodeIn(E) /\ x.fs = "cdfs" /\ x.pointer = None /\ x.kids = None
  <2>1. type \in {"DIR", "FILE", "BLOCK"}
    OBVIOUS
  <2> HIDE DEF name, type
  <2> QED BY <1>1, <2>1, NodeTyped
<1>3. FromRecord(n, rec) = [x EXCEPT !.cdrom = nodes[n].cdrom, !.lba = rec.lba]
  BY DEF FromRecord
<1>4. nodes[n].cdrom \in E \cup {None} /\ rec.lba \in Nat
  BY NodeFields DEF RecordType
<1> HIDE DEF x
<1> QED BY <1>2, <1>3, <1>4 DEF NodeIn

\* readdir of a directory that is not in memory yet adds its nodes: all that
\* was there before stays.
LEMMA LoadedNodes ==
  ASSUME Well(nodes), NEW n \in DOMAIN nodes, Listable(n)
  PROVE  Well(Loaded(n)) /\ Grown(nodes, Loaded(n)) /\ Tidy(nodes, Loaded(n))
<1>1. CASE ~Uncached(n)
  <2>1. Loaded(n) = nodes
    BY <1>1 DEF Loaded
  <2> QED BY <2>1 DEF Grown, Tidy
<1>2. CASE Uncached(n)
  <2> DEFINE recs == Records(n)
             N == Len(nodes)
             K == Len(recs)
             E == 1..(N + K)
             cache == [u \in DOMAIN recs |-> N + u]
             y == [nodes[n] EXCEPT !.kids = cache]
             mid == [nodes EXCEPT ![n] = y]
             more == [u \in DOMAIN recs |-> FromRecord(n, recs[u])]
             ms == Loaded(n)
  <2>1. /\ N \in Nat /\ DOMAIN nodes = 1..N /\ N >= 2 /\ Shape(nodes) /\ None \notin E
        /\ nodes[n].kids = None /\ nodes[n].fs = "cdfs" /\ nodes[n] \in NodeIn(DOMAIN nodes)
    BY <1>2, WellShape, NodeFields, PathAssumption, CapacityAssumption DEF Well, Uncached
  <2>2. K \in Nat /\ DOMAIN recs = 1..K /\ \A u \in 1..K : recs[u] \in RecordType
    <3>1. recs \in Seq(RecordType)
      BY RecordsType
    <3> HIDE DEF recs
    <3> QED BY <3>1, LenProperties, ElementOfSeq
  <2>3. ms = mid \o more
    BY <1>2 DEF Loaded
  <2>4. Len(ms) <= MaxNodes
    BY DEF Listable
  <2> HIDE DEF recs, ms
  <2>5. cache \in Seq(E)
    <3>1. cache \in [1..K -> E]
      BY <2>1, <2>2
    <3> HIDE DEF cache, E, K
    <3> QED BY <2>2, <3>1, FunctionSeq
  <2>6. DOMAIN nodes \subseteq E
    BY <2>1, <2>2
  <2>7. /\ y \in NodeIn(E) /\ y.pointer = nodes[n].pointer /\ y.name = nodes[n].name
        /\ y.fs = "cdfs"
    <3>1. nodes[n] \in NodeIn(E)
      <4> HIDE DEF E
      <4> QED BY <2>1, <2>6, NodeInMono
    <3> HIDE DEF E, cache
    <3> QED BY <2>1, <2>5, <3>1 DEF NodeIn
  <2>8. /\ mid \in Seq(NodeIn(E)) /\ Len(mid) = N
        /\ \A m \in 1..N : mid[m] = IF m = n THEN y ELSE nodes[m]
    <3>1. nodes \in Seq(NodeIn(E)) /\ n \in 1..Len(nodes)
      <4> HIDE DEF E
      <4> QED BY <2>1, <2>6, SeqOfMore
    <3> HIDE DEF E, y
    <3> QED BY <2>7, <3>1, ExceptSeq
  <2>9. /\ more \in Seq(NodeIn(E)) /\ Len(more) = K
        /\ \A u \in 1..K : more[u].fs = "cdfs" /\ more[u].pointer = None /\ more[u].kids = None
    <3>1. \A u \in 1..K : /\ FromRecord(n, recs[u]) \in NodeIn(E) /\ FromRecord(n, recs[u]).fs = "cdfs"
                        /\ FromRecord(n, recs[u]).pointer = None /\ FromRecord(n, recs[u]).kids = None
      <4> HIDE DEF E
      <4> QED BY <2>2, <2>6, FromRecordTyped
    <3>2. /\ more \in [1..K -> NodeIn(E)]
          /\ \A u \in 1..K : more[u].fs = "cdfs" /\ more[u].pointer = None /\ more[u].kids = None
      <4> HIDE DEF E, K
      <4> QED BY <2>2, <3>1
    <3> HIDE DEF E, K, more
    <3> QED BY <2>2, <3>2, FunctionSeq
  <2>10. /\ ms \in Seq(NodeIn(E)) /\ Len(ms) = N + K
         /\ \A m \in 1..(N + K) : ms[m] = IF m <= N THEN mid[m] ELSE more[m - N]
    <3> HIDE DEF E, y, mid, more, K, N
    <3> QED BY <2>3, <2>8, <2>9, ConcatProperties
  <2>11. DOMAIN ms = E
    <3> HIDE DEF K, N
    <3> QED BY <2>10, LenProperties
  <2>16. y.kids = cache
    BY <2>1 DEF NodeIn
  <2> HIDE DEF y, mid, more
  <2>12. ms[n] = y /\ \A m \in 1..N : m # n => ms[m] = nodes[m]
    <3>1. \A m \in 1..N : m \in 1..(N + K) /\ m <= N
      BY <2>1, <2>2
    <3> QED BY <2>1, <2>8, <2>10, <3>1
  <2>13. Well(ms)
    <3>1. Len(ms) \in 2..MaxNodes
      BY <2>1, <2>2, <2>4, <2>10, CapacityAssumption
    <3>2. ASSUME NEW m \in E, ms[m].fs = "ramfs" PROVE ms[m].kids # None /\ Len(ms[m].kids) <= ms[m].cap
      <4>1. CASE m \in 1..N
        <5>1. m # n
          BY <2>7, <2>12, <3>2
        <5> QED BY <2>1, <2>12, <3>2, <4>1, <5>1 DEF Well
      <4>2. CASE m \notin 1..N
        <5>1. m - N \in 1..K /\ ~(m <= N)
          BY <2>1, <2>2, <4>2
        <5>2. ms[m] = more[m - N]
          BY <2>10, <5>1
        <5> QED BY <2>9, <3>2, <5>1, <5>2
      <4> QED BY <4>1, <4>2
    <3> HIDE DEF E
    <3> QED BY <2>10, <2>11, <3>1, <3>2 DEF Well
  <2>14. Grown(nodes, ms)
    <3>1. Shape(ms)
      BY <2>13, WellShape
    <3>2. ASSUME NEW m \in DOMAIN nodes
          PROVE  /\ ms[m].pointer = nodes[m].pointer /\ ms[m].name = nodes[m].name
                 /\ nodes[m].kids # None => ms[m] = nodes[m]
      BY <2>1, <2>7, <2>12
    <3>3. ASSUME NEW m \in DOMAIN nodes, nodes[m].kids # None
          PROVE  \A u \in DOMAIN nodes[m].kids : nodes[m].kids[u] \in DOMAIN nodes
      BY <2>1, <3>3 DEF Shape
    <3> HIDE DEF E
    <3> QED BY <2>1, <2>6, <2>11, <3>1, <3>2, <3>3, GrownBy
  <2>15. Tidy(nodes, ms)
    <3>1. ASSUME NEW m \in E, m \notin 1..N PROVE ms[m].pointer = None /\ ms[m].kids = None
      <4>1. m - N \in 1..K /\ ~(m <= N)
        BY <2>1, <2>2, <3>1
      <4>2. ms[m] = more[m - N]
        BY <2>10, <4>1
      <4> QED BY <2>9, <4>1, <4>2
    <3>2. ASSUME NEW z \in E, NEW m, KidOf(ms, z, m) PROVE z = n \/ (z \in 1..N /\ KidOf(nodes, z, m) /\ m \in 1..N)
      <4> SUFFICES ASSUME z # n PROVE z \in 1..N /\ KidOf(nodes, z, m) /\ m \in 1..N
        OBVIOUS
      <4>1. z \in 1..N
        BY <3>1, <3>2 DEF KidOf
      <4>2. ms[z] = nodes[z]
        BY <2>12, <4>1
      <4>3. KidOf(nodes, z, m)
        BY <3>2, <4>2 DEF KidOf
      <4> QED BY <2>1, <4>1, <4>3 DEF KidOf, Shape
    <3>3. ASSUME NEW m \in 1..N PROVE ~KidOf(ms, n, m)
      <4> SUFFICES ASSUME NEW u \in DOMAIN cache, cache[u] = m PROVE FALSE
        BY <2>12, <2>16 DEF KidOf
      <4> QED BY <2>1, <2>2
    <3> HIDE DEF E, N
    <3> QED BY <2>1, <2>6, <2>7, <2>11, <2>12, <3>1, <3>2, <3>3 DEF Tidy
  <2> QED BY <2>13, <2>14, <2>15 DEF ms
<1> QED BY <1>1, <1>2

\* A node that is mounted on, and perhaps one more node.
LEMMA MountNodes ==
  ASSUME Well(nodes), NEW at \in DOMAIN nodes, nodes[at].pointer = None, NEW n \in DOMAIN nodes
  PROVE  Well([nodes EXCEPT ![at].pointer = n]) /\ Mounted(nodes, [nodes EXCEPT ![at].pointer = n], at, n)
         /\ DOMAIN [nodes EXCEPT ![at].pointer = n] = DOMAIN nodes
         /\ \A x \in DOMAIN nodes : [nodes EXCEPT ![at].pointer = n][x].fs = nodes[x].fs
<1> DEFINE ms == [nodes EXCEPT ![at].pointer = n]
           y == [nodes[at] EXCEPT !.pointer = n]
           D == DOMAIN nodes
<1>1. Len(nodes) \in Nat /\ D = 1..Len(nodes) /\ nodes \in Seq(NodeIn(D)) /\ nodes[at] \in NodeIn(D)
  BY WellShape, NodeFields DEF Well
<1>2. /\ y \in NodeIn(D) /\ y.pointer = n /\ y.kids = nodes[at].kids /\ y.name = nodes[at].name
      /\ y.fs = nodes[at].fs /\ y.cap = nodes[at].cap
  <2> HIDE DEF D
  <2> QED BY <1>1 DEF NodeIn, D
<1>3. ms = [nodes EXCEPT ![at] = y]
  BY <1>1
<1>4. ms \in Seq(NodeIn(D)) /\ Len(ms) = Len(nodes) /\ \A m \in D : ms[m] = IF m = at THEN y ELSE nodes[m]
  <2> HIDE DEF D, y
  <2>1. at \in D
    BY DEF D
  <2> QED BY <1>1, <1>2, <1>3, <2>1, ExceptSeq
<1>5. DOMAIN ms = D
  OBVIOUS
<1> HIDE DEF ms, y
<1>6. Well(ms)
  BY <1>1, <1>2, <1>4, <1>5 DEF Well
<1>7. Mounted(nodes, ms, at, n)
  BY <1>2, <1>4, <1>5 DEF Mounted
<1>8. \A x \in DOMAIN nodes : ms[x].fs = nodes[x].fs
  BY <1>2, <1>4
<1> QED BY <1>5, <1>6, <1>7, <1>8 DEF ms

LEMMA MountFsNodes ==
  ASSUME Well(nodes), NEW at \in DOMAIN nodes, nodes[at].pointer = None,
         NEW x \in NodeIn(1..(Len(nodes) + 1)), Len(nodes) < MaxNodes, x.fs = "cdfs"
  PROVE  LET ms == Append([nodes EXCEPT ![at].pointer = Len(nodes) + 1], x)
         IN  /\ Well(ms) /\ Mounted(nodes, ms, at, Len(ms)) /\ DOMAIN nodes \subseteq DOMAIN ms
             /\ Len(ms) \in DOMAIN ms /\ Len(ms) = Len(nodes) + 1 /\ ms[Len(ms)] = x
             /\ \A m \in DOMAIN ms : m \in DOMAIN nodes \/ m = Len(ms)
<1> DEFINE N == Len(nodes)
           E == 1..(N + 1)
           y == [nodes[at] EXCEPT !.pointer = N + 1]
           mid == [nodes EXCEPT ![at] = y]
           ms == Append([nodes EXCEPT ![at].pointer = N + 1], x)
<1>1. N \in Nat /\ DOMAIN nodes = 1..N /\ N \in 2..MaxNodes /\ N + 1 \in E /\ DOMAIN nodes \subseteq E
      /\ nodes[at] \in NodeIn(DOMAIN nodes)
  BY WellShape, NodeFields DEF Well
<1>2. nodes \in Seq(NodeIn(E)) /\ nodes[at] \in NodeIn(E)
  <2> HIDE DEF E
  <2> QED BY <1>1, SeqOfMore, NodeInMono
<1>3. /\ y \in NodeIn(E) /\ y.pointer = N + 1 /\ y.kids = nodes[at].kids /\ y.name = nodes[at].name
      /\ y.fs = nodes[at].fs /\ y.cap = nodes[at].cap
  <2> HIDE DEF E, N
  <2> QED BY <1>1, <1>2 DEF NodeIn
<1>4. mid \in Seq(NodeIn(E)) /\ Len(mid) = N /\ \A m \in 1..N : mid[m] = IF m = at THEN y ELSE nodes[m]
  <2> HIDE DEF E, y
  <2>1. at \in 1..N
    BY <1>1
  <2> QED BY <1>2, <1>3, <2>1, ExceptSeq
<1>5. ms = Append(mid, x)
  <2>1. mid = [nodes EXCEPT ![at].pointer = N + 1]
    BY <1>1
  <2> QED BY <2>1
<1>6. /\ ms \in Seq(NodeIn(E)) /\ Len(ms) = N + 1 /\ ms[N + 1] = x
      /\ \A m \in 1..N : ms[m] = IF m = at THEN y ELSE nodes[m]
  <2>1. x \in NodeIn(E)
    OBVIOUS
  <2> HIDE DEF E, y, mid, ms
  <2> QED BY <1>4, <1>5, <2>1, AppendProperties
<1>7. DOMAIN ms = E
  <2> HIDE DEF ms
  <2> QED BY <1>6, LenProperties
<1> HIDE DEF ms, y, mid
<1>8. Well(ms)
  <2>1. Len(ms) \in 2..MaxNodes
    BY <1>1, <1>6, CapacityAssumption
  <2>2. \A m \in E : m \in 1..N \/ m = N + 1
    BY <1>1
  <2>3. ASSUME NEW m \in E, ms[m].fs = "ramfs" PROVE ms[m].kids # None /\ Len(ms[m].kids) <= ms[m].cap
    <3>1. CASE m \in 1..N
      <4>1. nodes[m].fs = "ramfs" => nodes[m].kids # None /\ Len(nodes[m].kids) <= nodes[m].cap
        BY <1>1, <3>1 DEF Well
      <4>2. ms[m].fs = nodes[m].fs /\ ms[m].kids = nodes[m].kids /\ ms[m].cap = nodes[m].cap
        BY <1>3, <1>6, <3>1
      <4> QED BY <2>3, <4>1, <4>2
    <3>2. CASE m = N + 1
      BY <1>6, <2>3, <3>2
    <3> QED BY <2>2, <3>1, <3>2
  <2> QED BY <1>6, <1>7, <2>1, <2>3 DEF Well
<1>9. Mounted(nodes, ms, at, Len(ms))
  BY <1>1, <1>3, <1>6, <1>7 DEF Mounted
<1>10. \A m \in E : m \in 1..N \/ m = N + 1
  BY <1>1
<1> QED BY <1>1, <1>6, <1>7, <1>8, <1>9, <1>10 DEF ms

\* A node to which nothing leads
Free(ns, n) == \A x \in DOMAIN ns : ns[x].pointer # n /\ ~KidOf(ns, x, n)

LEMMA TidyKeeps ==
  ASSUME NEW ns, NEW ms, Shape(ns), Shape(ms), Tidy(ns, ms)
  PROVE  /\ OneWay(ns) => OneWay(ms)
         /\ \A n \in DOMAIN ns : Free(ns, n) => Free(ms, n)
<1>1. ASSUME NEW n \in DOMAIN ms, NEW x \in DOMAIN ms, ms[x].pointer = n
      PROVE  x \in DOMAIN ns /\ n \in DOMAIN ns /\ ns[x].pointer = n
  <2>1. x \in DOMAIN ns /\ ns[x].pointer = n
    BY <1>1, NoneOutside DEF Tidy
  <2> QED BY <1>1, <2>1, NoneOutside DEF Shape
<1>2. ASSUME OneWay(ns) PROVE OneWay(ms)
  <2> SUFFICES ASSUME NEW n \in DOMAIN ms, NEW x \in DOMAIN ms, NEW y \in DOMAIN ms
               PROVE  /\ ms[x].pointer = n /\ ms[y].pointer = n => x = y
                      /\ KidOf(ms, x, n) /\ KidOf(ms, y, n) => x = y
                      /\ ~(ms[x].pointer = n /\ KidOf(ms, y, n))
                      /\ ms[x].pointer = n \/ KidOf(ms, x, n) => n # ROOT
    BY DEF OneWay
  <2>1. CASE n \in DOMAIN ns
    <3>1. /\ KidOf(ms, x, n) => x \in DOMAIN ns /\ KidOf(ns, x, n)
          /\ KidOf(ms, y, n) => y \in DOMAIN ns /\ KidOf(ns, y, n)
      BY <2>1 DEF Tidy
    <3>2. /\ ms[x].pointer = n => x \in DOMAIN ns /\ ns[x].pointer = n
          /\ ms[y].pointer = n => y \in DOMAIN ns /\ ns[y].pointer = n
      BY <1>1
    <3> QED BY <1>2, <2>1, <3>1, <3>2 DEF OneWay
  <2>2. CASE n \notin DOMAIN ns
    <3>1. ms[x].pointer # n /\ ms[y].pointer # n
      BY <1>1, <2>2
    <3>2. KidOf(ms, x, n) /\ KidOf(ms, y, n) => x = y
      BY <2>2 DEF Tidy
    <3>3. n # ROOT
      BY <2>2 DEF Shape, ROOT
    <3> QED BY <3>1, <3>2, <3>3
  <2> QED BY <2>1, <2>2
<1>3. ASSUME NEW n \in DOMAIN ns, Free(ns, n) PROVE Free(ms, n)
  <2>1. n \in DOMAIN ms
    BY DEF Tidy
  <2> QED BY <1>1, <1>3, <2>1 DEF Free, Tidy
<1> QED BY <1>2, <1>3

\* A node to which nothing led, nor leads to another, may be mounted.
LEMMA MountedTidy ==
  ASSUME NEW ns, NEW ms, Shape(ns), Shape(ms), NEW at, NEW n, Mounted(ns, ms, at, n),
         OneWay(ns), Free(ns, n), n # ROOT,
         \A x \in DOMAIN ms : x \notin DOMAIN ns => ms[x].pointer = None /\ ms[x].kids = None
  PROVE  /\ OneWay(ms)
         /\ \A m \in DOMAIN ns : m # n /\ Free(ns, m) => Free(ms, m)
<1>1. ASSUME NEW x \in DOMAIN ms, NEW y, KidOf(ms, x, y)
      PROVE  x \in DOMAIN ns /\ KidOf(ns, x, y) /\ y \in DOMAIN ns
  <2>1. x \in DOMAIN ns /\ ns[x].kids = ms[x].kids
    BY <1>1 DEF KidOf, Mounted
  <2>2. KidOf(ns, x, y)
    BY <1>1, <2>1 DEF KidOf
  <2> QED BY <2>1, <2>2 DEF KidOf, Shape
<1>2. ASSUME NEW x \in DOMAIN ms, NEW y \in DOMAIN ms, ms[x].pointer = y
      PROVE  (x = at /\ y = n) \/ (x \in DOMAIN ns /\ ns[x].pointer = y /\ y \in DOMAIN ns)
  <2>1. x \in DOMAIN ns
    BY <1>2, NoneOutside
  <2>2. x # at => ns[x].pointer = y
    BY <1>2, <2>1 DEF Mounted
  <2>3. x = at => y = n
    BY <1>2 DEF Mounted
  <2> QED BY <1>2, <2>1, <2>2, <2>3, NoneOutside DEF Shape
<1>3. OneWay(ms)
  <2> SUFFICES ASSUME NEW m \in DOMAIN ms, NEW x \in DOMAIN ms, NEW y \in DOMAIN ms
               PROVE  /\ ms[x].pointer = m /\ ms[y].pointer = m => x = y
                      /\ KidOf(ms, x, m) /\ KidOf(ms, y, m) => x = y
                      /\ ~(ms[x].pointer = m /\ KidOf(ms, y, m))
                      /\ ms[x].pointer = m \/ KidOf(ms, x, m) => m # ROOT
    BY DEF OneWay
  <2>1. /\ KidOf(ms, x, m) => x \in DOMAIN ns /\ m \in DOMAIN ns /\ KidOf(ns, x, m)
        /\ KidOf(ms, y, m) => y \in DOMAIN ns /\ m \in DOMAIN ns /\ KidOf(ns, y, m)
    BY <1>1
  <2>2. CASE m = n
    <3>1. ~KidOf(ms, x, m) /\ ~KidOf(ms, y, m)
      BY <2>1, <2>2 DEF Free
    <3>2. /\ ms[x].pointer = m => x = at
          /\ ms[y].pointer = m => y = at
      BY <1>2, <2>2 DEF Free
    <3> QED BY <2>2, <3>1, <3>2
  <2>3. CASE m # n
    <3>1. /\ ms[x].pointer = m => x \in DOMAIN ns /\ m \in DOMAIN ns /\ ns[x].pointer = m
          /\ ms[y].pointer = m => y \in DOMAIN ns /\ m \in DOMAIN ns /\ ns[y].pointer = m
      BY <1>2, <2>3
    <3> QED BY <2>1, <3>1 DEF OneWay
  <2> QED BY <2>2, <2>3
<1>4. ASSUME NEW m \in DOMAIN ns, m # n, Free(ns, m) PROVE Free(ms, m)
  <2>1. m \in DOMAIN ms
    BY DEF Mounted
  <2> QED BY <1>1, <1>2, <1>4, <2>1 DEF Free
<1> QED BY <1>3, <1>4

\* A lookup does not come to a node to which nothing leads.
LEMMA FreeNotReached ==
  ASSUME NEW ns, Shape(ns), NEW names \in NameSeq, NEW m, NEW c, Leads(ns, names, m, c),
         NEW n, Free(ns, n), n # ROOT
  PROVE  m # n
<1> SUFFICES ASSUME m = n PROVE FALSE
  OBVIOUS
<1>1. ASSUME NEW x \in DOMAIN ns, NEW name, Child(ns, x, name) # None PROVE Child(ns, x, name) # n
  BY <1>1, ChildKid DEF Free
<1>2. \A x \in DOMAIN ns : ns[x].pointer # n
  BY DEF Free
<1> QED BY <1>1, <1>2, LeadsFrom

(* The mounts                                                              *)

LEMMA MountsCounted ==
  ASSUME NEW ns, Shape(ns)
  PROVE  LET M == {n \in DOMAIN ns : ns[n].pointer # None}
         IN  IsFiniteSet(M) /\ Cardinality(M) \in Nat
<1> DEFINE M == {n \in DOMAIN ns : ns[n].pointer # None}
<1>1. IsFiniteSet(DOMAIN ns) /\ M \subseteq DOMAIN ns
  BY FS_Interval DEF Shape
<1> HIDE DEF M
<1>2. IsFiniteSet(M) /\ Cardinality(M) \in Nat
  BY <1>1, FS_Subset, FS_CardinalityType
<1> QED BY <1>2 DEF M

LEMMA MountsSame ==
  ASSUME Well(nodes), Well(nodes'), Tidy(nodes, nodes')
  PROVE  Mounts' = Mounts /\ Mounts \in Nat
<1>1. {n \in DOMAIN nodes' : nodes'[n].pointer # None} = {n \in DOMAIN nodes : nodes[n].pointer # None}
  BY DEF Tidy
<1> QED BY <1>1, MountsCounted, WellShape DEF Mounts

LEMMA MountsMore ==
  ASSUME Well(nodes), Well(nodes'), NEW at, NEW n, Mounted(nodes, nodes', at, n),
         \A x \in DOMAIN nodes' : x \notin DOMAIN nodes => nodes'[x].pointer = None
  PROVE  Mounts' = Mounts + 1 /\ Mounts \in Nat
<1> DEFINE M == {m \in DOMAIN nodes : nodes[m].pointer # None}
           N == {m \in DOMAIN nodes' : nodes'[m].pointer # None}
<1>1. N = M \cup {at} /\ at \notin M
  <2>1. n # None /\ at \in DOMAIN nodes' /\ DOMAIN nodes \subseteq DOMAIN nodes'
    BY WellShape DEF Mounted
  <2>2. at \notin M /\ at \in N
    BY <2>1 DEF Mounted
  <2>3. ASSUME NEW m, m # at PROVE m \in N <=> m \in M
    BY <2>1, <2>3 DEF Mounted
  <2> HIDE DEF M, N
  <2> QED BY <2>2, <2>3
<1>2. IsFiniteSet(M) /\ Cardinality(M) \in Nat
  BY MountsCounted, WellShape
<1>3. Mounts = Cardinality(M) /\ Mounts' = Cardinality(N)
  BY DEF Mounts
<1> HIDE DEF M, N
<1> QED BY <1>1, <1>2, <1>3, FS_AddElement

-----------------------------------------------------------------------------
(* A lookup's way                                                          *)

\* What is left of the path p when c of its names are used up.
Rest(p, c) == IF c = Len(p) THEN <<Empty>> ELSE SubSeq(p, c + 1, Len(p))

LEMMA PlainFacts ==
  ASSUME NEW p \in NameSeq, p # <<>>
  PROVE  /\ Plain(p) \in NameSeq
         /\ Last(p) = Empty => Len(Plain(p)) = Len(p) - 1
         /\ Last(p) # Empty => Len(Plain(p)) = Len(p)
         /\ \A j \in 1..Len(Plain(p)) : Plain(p)[j] = p[j]
<1>1. Len(p) \in Nat \ {0} /\ \A j \in 1..Len(p) : p[j] \in Name \cup {Empty}
  BY EmptySeq, ElementOfSeq DEF NameSeq
<1>2. CASE Last(p) = Empty
  <2>1. \A j \in 1..(Len(p) - 1) : p[j] \in Name \cup {Empty}
    BY <1>1
  <2>2. /\ SubSeq(p, 1, Len(p) - 1) \in NameSeq
        /\ Len(SubSeq(p, 1, Len(p) - 1)) = IF 1 <= Len(p) - 1 THEN Len(p) - 1 - 1 + 1 ELSE 0
        /\ \A j \in 1..(Len(p) - 1 - 1 + 1) : SubSeq(p, 1, Len(p) - 1)[j] = p[1 + j - 1]
    BY <1>1, <2>1, SubSeqProperties DEF NameSeq
  <2>3. Plain(p) = SubSeq(p, 1, Len(p) - 1)
    BY <1>2 DEF Plain, Front
  <2>4. Len(Plain(p)) = Len(p) - 1
    <3>1. (IF 1 <= Len(p) - 1 THEN Len(p) - 1 - 1 + 1 ELSE 0) = Len(p) - 1
      BY <1>1
    <3> QED BY <2>2, <2>3, <3>1
  <2>5. \A j \in 1..(Len(p) - 1) : j \in 1..(Len(p) - 1 - 1 + 1) /\ 1 + j - 1 = j
    BY <1>1
  <2>6. \A j \in 1..Len(Plain(p)) : Plain(p)[j] = p[j]
    BY <2>2, <2>3, <2>4, <2>5
  <2> QED BY <1>2, <2>2, <2>3, <2>4, <2>6
<1>3. CASE Last(p) # Empty
  BY <1>1, <1>3 DEF Plain
<1> QED BY <1>2, <1>3

LEMMA RestFacts ==
  ASSUME NEW p \in NameSeq, p # <<>>, NEW c \in 0..Len(Plain(p))
  PROVE  /\ Rest(p, c) \in NameSeq /\ Rest(p, c) # <<>>
         /\ Rest(p, c) = <<Empty>> <=> c = Len(Plain(p))
         /\ c < Len(Plain(p)) =>
              /\ Head(Rest(p, c)) = Plain(p)[c + 1]
              /\ (IF Len(Rest(p, c)) = 1 THEN <<Empty>> ELSE Tail(Rest(p, c))) = Rest(p, c + 1)
<1> DEFINE L == Len(p)
           r == Rest(p, c)
<1>1. L \in Nat \ {0} /\ \A j \in 1..L : p[j] \in Name \cup {Empty}
  BY EmptySeq, ElementOfSeq DEF NameSeq
<1>2. c \in Nat /\ c <= L /\ (Last(p) = Empty => c < L) /\ Len(Plain(p)) \in Nat
  BY <1>1, PlainFacts
<1>3. CASE c = L
  <2>1. r = <<Empty>>
    BY <1>3 DEF Rest
  <2>2. c = Len(Plain(p))
    BY <1>2, <1>3, PlainFacts
  <2> QED BY <2>1, <2>2 DEF NameSeq
<1>4. CASE c < L
  <2>1. /\ r \in NameSeq /\ Len(r) = L - c /\ r = SubSeq(p, c + 1, L)
        /\ \A j \in 1..(L - c) : r[j] = p[c + j]
    <3>1. c # L /\ c + 1 \in Int /\ L \in Int /\ \A j \in (c + 1)..L : p[j] \in Name \cup {Empty}
      BY <1>1, <1>2, <1>4
    <3>2. r = SubSeq(p, c + 1, L)
      BY <3>1 DEF Rest
    <3>3. /\ SubSeq(p, c + 1, L) \in NameSeq
          /\ Len(SubSeq(p, c + 1, L)) = IF c + 1 <= L THEN L - (c + 1) + 1 ELSE 0
          /\ \A j \in 1..(L - (c + 1) + 1) : SubSeq(p, c + 1, L)[j] = p[c + 1 + j - 1]
      <4> HIDE DEF L
      <4> QED BY <3>1, SubSeqProperties DEF NameSeq
    <3>4. L - (c + 1) + 1 = L - c /\ c + 1 <= L /\ \A j \in 1..(L - c) : c + 1 + j - 1 = c + j
      BY <1>1, <1>2, <1>4
    <3> HIDE DEF L, r
    <3> QED BY <3>2, <3>3, <3>4
  <2>2. L - c \in Nat \ {0} /\ c + (L - c) = L
    BY <1>1, <1>2, <1>4
  <2> HIDE DEF r
  <2>3. r # <<>>
    <3>1. Len(<<>>) = 0 /\ Len(r) # 0
      <4> HIDE DEF L
      <4> QED BY <2>1, <2>2
    <3> QED BY <3>1
  <2>4. r = <<Empty>> <=> c = Len(Plain(p))
    <3>1. ASSUME r = <<Empty>> PROVE c = Len(Plain(p))
      <4>1. Len(r) = 1 /\ r[1] = Empty
        BY <3>1
      <4>2. L - c = 1 /\ 1 \in 1..(L - c) /\ c + 1 = L
        BY <1>1, <1>2, <2>1, <4>1
      <4>3. p[L] = Empty
        BY <2>1, <4>1, <4>2
      <4> QED BY <1>2, <4>2, <4>3, PlainFacts DEF Last
    <3>2. ASSUME c = Len(Plain(p)) PROVE r = <<Empty>>
      <4>1. Last(p) = Empty /\ c = L - 1
        BY <1>4, <3>2, PlainFacts
      <4>2. Len(r) = 1 /\ r[1] = Empty
        <5>1. L - c = 1 /\ c + 1 = L /\ 1 \in 1..(L - c)
          BY <1>1, <4>1
        <5> QED BY <2>1, <4>1, <5>1 DEF Last
      <4>3. r \in Seq(Name \cup {Empty}) /\ <<Empty>> \in Seq(Name \cup {Empty})
        BY <2>1 DEF NameSeq
      <4>4. Len(r) = Len(<<Empty>>) /\ \A j \in 1..Len(r) : r[j] = <<Empty>>[j]
        BY <4>2
      <4> QED BY <4>3, <4>4, SeqEqual
    <3> QED BY <3>1, <3>2
  <2>5. ASSUME c < Len(Plain(p))
        PROVE  /\ Head(r) = Plain(p)[c + 1]
               /\ (IF Len(r) = 1 THEN <<Empty>> ELSE Tail(r)) = Rest(p, c + 1)
    <3>1. Head(r) = Plain(p)[c + 1]
      <4>1. Head(r) = r[1] /\ 1 \in 1..(L - c) /\ c + 1 \in 1..Len(Plain(p))
        <5>1. Head(r) = r[1]
          BY <2>1, <2>3 DEF NameSeq
        <5>2. 1 \in 1..(L - c)
          <6> HIDE DEF L
          <6> QED BY <2>2
        <5>3. c + 1 \in 1..Len(Plain(p))
          BY <1>2, <2>5
        <5> QED BY <5>1, <5>2, <5>3
      <4> HIDE DEF L
      <4> QED BY <2>1, <4>1, PlainFacts
    <3>2. CASE Len(r) = 1
      <4>1. c + 1 = L
        BY <1>1, <1>2, <2>1, <3>2
      <4> QED BY <3>1, <3>2, <4>1 DEF Rest
    <3>3. CASE Len(r) # 1
      <4>1. c + 1 # L /\ c + 1 < L /\ (c + 1) + 1 \in Int
        BY <1>1, <1>2, <1>4, <2>1, <3>3
      <4>2. Rest(p, c + 1) = SubSeq(p, (c + 1) + 1, L)
        BY <4>1 DEF Rest
      <4>3. /\ Rest(p, c + 1) \in NameSeq /\ Len(Rest(p, c + 1)) = L - c - 1
            /\ \A j \in 1..(L - c - 1) : Rest(p, c + 1)[j] = p[c + 1 + j]
        <5>1. \A j \in ((c + 1) + 1)..L : p[j] \in Name \cup {Empty}
          BY <1>1, <1>2
        <5>2. /\ SubSeq(p, (c + 1) + 1, L) \in NameSeq
              /\ Len(SubSeq(p, (c + 1) + 1, L)) = IF (c + 1) + 1 <= L THEN L - ((c + 1) + 1) + 1 ELSE 0
              /\ \A j \in 1..(L - ((c + 1) + 1) + 1) : SubSeq(p, (c + 1) + 1, L)[j] = p[(c + 1) + 1 + j - 1]
          <6>1. L \in Int
            BY <1>1
          <6> HIDE DEF L
          <6> QED BY <4>1, <5>1, <6>1, SubSeqProperties DEF NameSeq
        <5>3. L - ((c + 1) + 1) + 1 = L - c - 1 /\ (c + 1) + 1 <= L
              /\ \A j \in 1..(L - c - 1) : (c + 1) + 1 + j - 1 = c + 1 + j
          BY <1>1, <1>2, <4>1
        <5> HIDE DEF L
        <5> QED BY <4>2, <5>2, <5>3
      <4>4. /\ Tail(r) \in NameSeq /\ Len(Tail(r)) = L - c - 1
            /\ \A j \in 1..(L - c - 1) : Tail(r)[j] = r[j + 1]
        <5>1. Len(r) - 1 = L - c - 1
          BY <2>1
        <5> QED BY <2>1, <2>3, <5>1, HeadTailProperties DEF NameSeq
      <4>5. \A j \in 1..(L - c - 1) : Tail(r)[j] = Rest(p, c + 1)[j]
        <5>1. \A j \in 1..(L - c - 1) : j + 1 \in 1..(L - c) /\ c + (j + 1) = c + 1 + j
          BY <1>1, <1>2
        <5> HIDE DEF L
        <5> QED BY <2>1, <4>3, <4>4, <5>1
      <4>6. Tail(r) = Rest(p, c + 1)
        <5> HIDE DEF L
        <5> QED BY <4>3, <4>4, <4>5, SeqEqual DEF NameSeq
      <4> QED BY <3>1, <3>3, <4>6
    <3> QED BY <3>2, <3>3
  <2> QED BY <2>1, <2>3, <2>4, <2>5 DEF r
<1> QED BY <1>2, <1>3, <1>4

LEMMA RestStart ==
  ASSUME NEW p \in NameSeq, p # <<>>
  PROVE  Rest(p, 0) = p
<1>1. Len(p) \in Nat \ {0} /\ \A j \in 1..Len(p) : p[j] \in Name \cup {Empty}
  BY EmptySeq, ElementOfSeq DEF NameSeq
<1>2. Rest(p, 0) = SubSeq(p, 1, Len(p))
  BY <1>1 DEF Rest
<1>3. /\ SubSeq(p, 1, Len(p)) \in NameSeq
      /\ Len(SubSeq(p, 1, Len(p))) = IF 1 <= Len(p) THEN Len(p) - 1 + 1 ELSE 0
      /\ \A j \in 1..(Len(p) - 1 + 1) : SubSeq(p, 1, Len(p))[j] = p[1 + j - 1]
  BY <1>1, SubSeqProperties DEF NameSeq
<1>4. Len(Rest(p, 0)) = Len(p) /\ \A j \in 1..Len(p) : Rest(p, 0)[j] = p[j]
  <2>1. \A j \in 1..Len(p) : j \in 1..(Len(p) - 1 + 1) /\ 1 + j - 1 = j
    BY <1>1
  <2>2. Len(p) - 1 + 1 = Len(p) /\ 1 <= Len(p)
    BY <1>1
  <2> QED BY <1>2, <1>3, <2>1, <2>2
<1> QED BY <1>2, <1>3, <1>4, SeqEqual DEF NameSeq

-----------------------------------------------------------------------------
(* The invariant, for a set P of the paths in use                          *)

CallType ==
  [op : Ops \cup {"none"}, path : NameSeq, target : NameSeq,
   node : DOMAIN nodes \cup {None}, index : Nat]

Typed ==
  /\ Well(nodes)
  /\ pc \in {"idle", "lookup", "node", "halted", "wild"}
  /\ call \in CallType
  /\ nd \in DOMAIN nodes /\ src \in DOMAIN nodes \cup {None}
  /\ rest \in NameSeq
  /\ pc = "node" => rest # <<>>
  /\ pc = "idle" => src = None

\* The path that is being looked up
Sought == IF call.op = "mount_fs" /\ src # None THEN call.target ELSE call.path

\* A lookup is where the names it has used up lead.
Looking(P) ==
  pc = "lookup" =>
    /\ call.op \in {"lookup", "mount", "mount_fs"}
    /\ call.path \in P /\ (call.op = "mount_fs" => call.target \in P)
    /\ call.op = "mount" => call.node \in DOMAIN nodes
    /\ \E c : Leads(nodes, Plain(Sought), nd, c) /\ rest = Rest(Sought, c)

Known(P) ==
  found # None => found \in P \X DOMAIN nodes /\ ResolveIn(nodes, found[1]) = found[2]

VInv(P) == Typed /\ Looking(P) /\ Known(P)

\* A path that is known keeps its node while nodes are added.
LEMMA KnownGrown ==
  ASSUME NEW P \in SUBSET (NameSeq \ {<<>>}), Known(P), found' = found,
         Well(nodes), Well(nodes'), Grown(nodes, nodes')
  PROVE  Known(P)'
<1> SUFFICES ASSUME found # None
             PROVE  found \in P \X DOMAIN nodes' /\ ResolveIn(nodes', found[1]) = found[2]
  BY DEF Known
<1>1. found \in P \X DOMAIN nodes /\ ResolveIn(nodes, found[1]) = found[2]
  BY DEF Known
<1>2. found[1] \in NameSeq /\ found[1] # <<>> /\ found[2] \in DOMAIN nodes
  BY <1>1
<1>3. Shape(nodes) /\ Shape(nodes') /\ DOMAIN nodes \subseteq DOMAIN nodes' /\ None \notin DOMAIN nodes
  BY WellShape DEF Grown
<1>4. ResolveIn(nodes', found[1]) = ResolveIn(nodes, found[1])
  <2>1. ResolveIn(nodes, found[1]) # None
    BY <1>1, <1>2, <1>3
  <2>2. Plain(found[1]) \in NameSeq
    BY <1>2, PlainFacts
  <2> QED BY <1>3, <2>1, <2>2, GrownKeeps
<1> QED BY <1>1, <1>3, <1>4

LEMMA KnownSame ==
  ASSUME NEW P, Known(P), found' = found, nodes' = nodes
  PROVE  Known(P)'
  BY DEF Known

LEMMA SoughtFacts ==
  ASSUME NEW P \in SUBSET (NameSeq \ {<<>>}), Typed, Looking(P), pc = "lookup"
  PROVE  /\ Sought \in P /\ Sought \in NameSeq /\ Sought # <<>> /\ Plain(Sought) \in NameSeq
         /\ Shape(nodes) /\ rest # <<>>
         /\ \E c : /\ Leads(nodes, Plain(Sought), nd, c) /\ rest = Rest(Sought, c)
                   /\ c \in 0..Len(Plain(Sought))
                   /\ rest = <<Empty>> <=> c = Len(Plain(Sought))
                   /\ c < Len(Plain(Sought)) =>
                        Head(rest) = Plain(Sought)[c + 1] /\ Beyond = Rest(Sought, c + 1)
<1>1. Sought \in P /\ Sought \in NameSeq /\ Sought # <<>>
  BY DEF Sought, Looking
<1>2. Plain(Sought) \in NameSeq /\ Shape(nodes)
  BY <1>1, PlainFacts, WellShape DEF Typed
<1>3. PICK c : Leads(nodes, Plain(Sought), nd, c) /\ rest = Rest(Sought, c)
  BY DEF Looking
<1>4. c \in 0..Len(Plain(Sought))
  BY <1>3 DEF Leads
<1>5. /\ Rest(Sought, c) # <<>>
      /\ Rest(Sought, c) = <<Empty>> <=> c = Len(Plain(Sought))
      /\ c < Len(Plain(Sought)) =>
           /\ Head(Rest(Sought, c)) = Plain(Sought)[c + 1]
           /\ (IF Len(Rest(Sought, c)) = 1 THEN <<Empty>> ELSE Tail(Rest(Sought, c))) = Rest(Sought, c + 1)
  BY <1>1, <1>4, RestFacts
<1>6. c < Len(Plain(Sought)) => Head(rest) = Plain(Sought)[c + 1] /\ Beyond = Rest(Sought, c + 1)
  BY <1>3, <1>5 DEF Beyond
<1> QED BY <1>1, <1>2, <1>3, <1>4, <1>5, <1>6

\* What the names of a path are
LEMMA NamesIn ==
  ASSUME NEW names \in NameSeq, NEW c \in 0..Len(names), c < Len(names)
  PROVE  names[c + 1] \in Name \cup {Empty} /\ c + 1 \in 0..Len(names)
<1>1. Len(names) \in Nat
  BY DEF NameSeq
<1>2. c + 1 \in 1..Len(names)
  BY <1>1
<1> QED BY <1>1, <1>2, ElementOfSeq DEF NameSeq

-----------------------------------------------------------------------------
(* Steps                                                                   *)

LEMMA LookupStarts ==
  ASSUME NEW P \in SUBSET (NameSeq \ {<<>>}), VInv(P), NEW c \in CallType,
         c.op \in {"lookup", "mount", "mount_fs"}, c.path \in P,
         c.op = "mount_fs" => c.target \in P, c.op = "mount" => c.node \in DOMAIN nodes,
         Called(c, ROOT, c.path), pc' = "lookup"
  PROVE  VInv(P)'
<1>1. /\ call' = c /\ nd' = ROOT /\ rest' = c.path /\ nodes' = nodes /\ src' = src
      /\ found' = found /\ src = None /\ Well(nodes)
  BY DEF Called, VInv, Typed
<1>2. c.path \in NameSeq /\ c.path # <<>>
  OBVIOUS
<1>3. Shape(nodes) /\ ROOT \in DOMAIN nodes
  BY <1>1, WellShape
<1>4. Typed'
  BY <1>1, <1>2, <1>3 DEF Typed, CallType
<1>5. Leads(nodes, Plain(c.path), ROOT, 0) /\ Rest(c.path, 0) = c.path
  BY <1>2, <1>3, PlainFacts, LeadsRoot, RestStart
<1>6. Looking(P)'
  BY <1>1, <1>5 DEF Looking, Sought
<1> QED BY <1>1, <1>4, <1>6, KnownSame DEF VInv

LEMMA IdleTyped == Idle \in CallType
  BY DEF Idle, CallType, NameSeq

LEMMA LookupCallStep ==
  ASSUME NEW P \in SUBSET (NameSeq \ {<<>>}), VInv(P), NEW p \in P, LookupCall(p)
  PROVE  VInv(P)'
<1> DEFINE c == [Idle EXCEPT !.op = "lookup", !.path = p]
<1>1. c \in CallType /\ c.op = "lookup" /\ c.path = p
  BY IdleTyped DEF CallType, Ops
<1>2. Called(c, ROOT, c.path) /\ pc' = "lookup"
  BY <1>1 DEF LookupCall
<1> HIDE DEF c
<1> QED BY <1>1, <1>2, LookupStarts

LEMMA MountCallStep ==
  ASSUME NEW P \in SUBSET (NameSeq \ {<<>>}), VInv(P), NEW p \in P, NEW n \in DOMAIN nodes, MountCall(p, n)
  PROVE  VInv(P)'
<1> DEFINE c == [Idle EXCEPT !.op = "mount", !.path = p, !.node = n]
<1>1. c \in CallType /\ c.op = "mount" /\ c.path = p /\ c.node = n
  BY IdleTyped DEF CallType, Ops
<1>2. Called(c, ROOT, c.path) /\ pc' = "lookup"
  BY <1>1 DEF MountCall
<1> HIDE DEF c
<1> QED BY <1>1, <1>2, LookupStarts

LEMMA MountFsCallStep ==
  ASSUME NEW P \in SUBSET (NameSeq \ {<<>>}), VInv(P), NEW t \in P, NEW s \in P, MountFsCall(t, s)
  PROVE  VInv(P)'
<1> DEFINE c == [Idle EXCEPT !.op = "mount_fs", !.path = s, !.target = t]
<1>1. c \in CallType /\ c.op = "mount_fs" /\ c.path = s /\ c.target = t
  BY IdleTyped DEF CallType, Ops
<1>2. Called(c, ROOT, c.path) /\ pc' = "lookup"
  BY <1>1 DEF MountFsCall
<1> HIDE DEF c
<1> QED BY <1>1, <1>2, LookupStarts

LEMMA NodeCallStep ==
  ASSUME NEW P \in SUBSET (NameSeq \ {<<>>}), VInv(P), NEW op \in Ops, NEW n \in DOMAIN nodes,
         NEW name \in Name \cup {Empty}, NEW u \in Nat, NodeCall(op, n, name, u)
  PROVE  VInv(P)'
<1> DEFINE c == [Idle EXCEPT !.op = op, !.node = n, !.index = u]
<1>1. c \in CallType
  BY IdleTyped DEF CallType, Ops
<1>2. /\ call' = c /\ nd' = n /\ rest' = <<name>> /\ nodes' = nodes /\ src' = src
      /\ found' = found /\ src = None /\ pc' = "node"
  BY DEF NodeCall, Called, VInv, Typed
<1> HIDE DEF c
<1>3. <<name>> \in NameSeq /\ <<name>> # <<>>
  BY DEF NameSeq
<1>4. Typed'
  BY <1>1, <1>2, <1>3 DEF VInv, Typed, CallType
<1>5. Looking(P)'
  BY <1>2 DEF Looking
<1> QED BY <1>2, <1>4, <1>5, KnownSame DEF VInv

\* A call is still a call when nodes were added.
LEMMA CallKept ==
  ASSUME DOMAIN nodes \subseteq DOMAIN nodes', call \in CallType, call' = call
  PROVE  call' \in CallType'
  BY DEF CallType

LEMMA RamfsCreateFsStep ==
  ASSUME NEW P \in SUBSET (NameSeq \ {<<>>}), VInv(P), RamfsCreateFs
  PROVE  VInv(P)'
<1> DEFINE x == Node(Empty, "ramfs", "DIR")
<1>1. /\ nodes' = Append(nodes, x) /\ Len(nodes) < MaxNodes /\ Well(nodes)
      /\ UNCHANGED <<pc, call, nd, rest, src, found>> /\ pc = "idle"
  BY DEF RamfsCreateFs, VInv, Typed
<1>2. /\ x \in NodeIn(1..(Len(nodes) + 1)) /\ (x.fs = "ramfs" => x.kids # None /\ Len(x.kids) <= x.cap)
      /\ x.pointer = None /\ x.kids = <<>>
  <2>1. /\ x \in NodeIn(1..(Len(nodes) + 1))
        /\ x.kids = (IF "ramfs" = "cdfs" THEN None ELSE <<>>)
        /\ x.cap = DIR_ALLOC /\ Len(<<>>) <= DIR_ALLOC /\ <<>> # None /\ x.pointer = None
    BY NodeTyped
  <2>2. x.kids = <<>>
    BY <2>1
  <2> HIDE DEF x
  <2> QED BY <2>1, <2>2
<1>3. Well(nodes') /\ Grown(nodes, nodes')
  <2> HIDE DEF x
  <2> QED BY <1>1, <1>2, AppendedNode
<1>4. DOMAIN nodes \subseteq DOMAIN nodes'
  BY <1>3 DEF Grown
<1>5. call' \in CallType'
  BY <1>1, <1>4, CallKept DEF VInv, Typed
<1>6. Typed'
  BY <1>1, <1>3, <1>4, <1>5 DEF VInv, Typed
<1>7. Looking(P)'
  BY <1>1 DEF Looking
<1> QED BY <1>1, <1>3, <1>6, <1>7, KnownGrown DEF VInv

\* The machine stops, or does what nobody wrote.
GivesUp == pc' \in {"halted", "wild"} /\ UNCHANGED <<nodes, call, nd, rest, src, found>>

LEMMA AllGiveUp ==
  Halt \/ LookupStop \/ MountFsHalt \/ NodeCreateHalt \/ NodeListStop => GivesUp
BY DEF GivesUp, Halt, Stop, LookupStop, MountFsHalt, NodeCreateHalt, NodeListStop

LEMMA GiveUpStep ==
  ASSUME NEW P \in SUBSET (NameSeq \ {<<>>}), VInv(P), GivesUp
  PROVE  VInv(P)'
<1>1. pc' \in {"halted", "wild"} /\ UNCHANGED <<nodes, call, nd, rest, src, found>>
  BY DEF GivesUp
<1>2. Typed'
  BY <1>1 DEF VInv, Typed, CallType
<1>3. Looking(P)'
  BY <1>1 DEF Looking
<1> QED BY <1>1, <1>2, <1>3, KnownSame DEF VInv

LEMMA FollowStep ==
  ASSUME NEW P \in SUBSET (NameSeq \ {<<>>}), VInv(P), Follow
  PROVE  VInv(P)'
<1>1. /\ pc \in {"lookup", "node"} /\ nodes[nd].pointer # None /\ nd' = nodes[nd].pointer
      /\ UNCHANGED <<nodes, pc, call, rest, src, found>> /\ Typed /\ Looking(P)
  BY DEF Follow, VInv
<1>2. nodes[nd].pointer \in DOMAIN nodes
  BY <1>1, NodeFields DEF Typed
<1>3. Typed'
  BY <1>1, <1>2 DEF Typed, CallType
<1>4. Looking(P)'
  <2> SUFFICES ASSUME pc = "lookup" PROVE Looking(P)'
    BY <1>1 DEF Looking
  <2>1. PICK c : Leads(nodes, Plain(Sought), nd, c) /\ rest = Rest(Sought, c)
    BY <1>1 DEF Looking
  <2>2. Leads(nodes, Plain(Sought), nodes[nd].pointer, c)
    <3>1. Shape(nodes) /\ Plain(Sought) \in NameSeq
      BY <1>1, SoughtFacts
    <3> QED BY <1>1, <2>1, <3>1, LeadsOn
  <2>3. Sought' = Sought
    BY <1>1 DEF Sought
  <2> QED BY <1>1, <2>1, <2>2, <2>3 DEF Looking
<1> QED BY <1>1, <1>3, <1>4, KnownSame DEF VInv

\* A lookup that goes one name further, in nodes that may have grown.
LEMMA FoundStep ==
  ASSUME NEW P \in SUBSET (NameSeq \ {<<>>}), VInv(P), Step,
         Well(nodes'), Grown(nodes, nodes'),
         Child(nodes', nd, Head(rest)) # None, nd' = Child(nodes', nd, Head(rest)),
         rest' = Beyond, UNCHANGED <<pc, call, src, found>>
  PROVE  VInv(P)'
<1>1. /\ pc = "lookup" /\ nodes[nd].pointer = None /\ rest # <<Empty>>
      /\ Typed /\ Looking(P) /\ Known(P) /\ Well(nodes)
  BY DEF Step, Here, VInv, Typed
<1>2. /\ Sought \in P /\ Sought \in NameSeq /\ Sought # <<>> /\ Plain(Sought) \in NameSeq /\ Shape(nodes)
  BY <1>1, SoughtFacts
<1>3. PICK c : /\ Leads(nodes, Plain(Sought), nd, c) /\ rest = Rest(Sought, c)
               /\ c \in 0..Len(Plain(Sought))
               /\ rest = <<Empty>> <=> c = Len(Plain(Sought))
               /\ c < Len(Plain(Sought)) =>
                    Head(rest) = Plain(Sought)[c + 1] /\ Beyond = Rest(Sought, c + 1)
  BY <1>1, SoughtFacts
<1>4. c < Len(Plain(Sought))
  BY <1>1, <1>2, <1>3 DEF NameSeq
<1>5. /\ Shape(nodes') /\ DOMAIN nodes \subseteq DOMAIN nodes' /\ nd \in DOMAIN nodes /\ nd \in DOMAIN nodes'
      /\ nodes'[nd].pointer = None
  BY <1>1, WellShape DEF Grown, Typed
<1>6. nd' \in DOMAIN nodes'
  BY <1>5, ChildFacts
<1>7. Beyond \in NameSeq
  <2>1. c + 1 \in 0..Len(Plain(Sought))
    BY <1>2, <1>3, <1>4, NamesIn
  <2> QED BY <1>2, <1>3, <1>4, <2>1, RestFacts
<1>8. call' \in CallType'
  BY <1>1, <1>5, CallKept DEF Typed
<1>9. Typed'
  BY <1>1, <1>5, <1>6, <1>7, <1>8 DEF Typed
<1>10. Leads(nodes', Plain(Sought), nd', c + 1)
  <2>1. Leads(nodes', Plain(Sought), nd, c)
    BY <1>2, <1>3, <1>5, GrownKeeps
  <2> QED BY <1>2, <1>3, <1>4, <1>5, <2>1, LeadsOn
<1>11. Sought' = Sought
  BY DEF Sought
<1>12. Looking(P)'
  <2>1. call.op = "mount" => call.node \in DOMAIN nodes'
    BY <1>1, <1>5 DEF Looking
  <2> QED BY <1>1, <1>3, <1>4, <1>10, <1>11, <2>1 DEF Looking
<1> QED BY <1>1, <1>9, <1>12, KnownGrown DEF VInv

LEMMA LookupFindStep ==
  ASSUME NEW P \in SUBSET (NameSeq \ {<<>>}), VInv(P), LookupFind
  PROVE  VInv(P)'
<1>1. Step /\ Listable(nd) /\ nodes' = Loaded(nd) /\ Well(nodes) /\ nd \in DOMAIN nodes
  BY DEF LookupFind, VInv, Typed
<1>2. Well(nodes') /\ Grown(nodes, nodes')
  BY <1>1, LoadedNodes
<1> QED BY <1>1, <1>2, FoundStep DEF LookupFind

LEMMA LookupCreateStep ==
  ASSUME NEW P \in SUBSET (NameSeq \ {<<>>}), VInv(P), LookupCreate
  PROVE  VInv(P)'
<1> DEFINE type == IF Len(rest) = 1 THEN "FILE" ELSE "DIR"
<1>1. /\ Step /\ Creatable(nd) /\ nodes' = Created(nd, Head(rest), type) /\ Well(nodes) /\ nd \in DOMAIN nodes
      /\ Child(nodes, nd, Head(rest)) = None /\ nd' = Len(nodes') /\ rest' = Beyond /\ rest # <<>>
      /\ UNCHANGED <<pc, call, src, found>> /\ pc = "lookup" /\ rest \in NameSeq
  BY SoughtFacts DEF LookupCreate, VInv, Typed, Step, Here
<1>2. type \in {"FILE", "DIR"} /\ Head(rest) \in Name \cup {Empty}
  BY <1>1, HeadTailProperties DEF NameSeq
<1> HIDE DEF type
<1>3. /\ Well(nodes') /\ Grown(nodes, nodes') /\ Len(nodes') = Len(nodes) + 1
      /\ Len(nodes) + 1 \in DOMAIN nodes'
      /\ Child(nodes', nd, Head(rest)) = Len(nodes) + 1
  BY <1>1, <1>2, CreatedNodes
<1>4. Child(nodes', nd, Head(rest)) # None /\ nd' = Child(nodes', nd, Head(rest))
  <2>1. None \notin DOMAIN nodes'
    BY <1>3, WellShape
  <2> QED BY <1>1, <1>3, <2>1
<1> QED BY <1>1, <1>3, <1>4, FoundStep

\* The call returns to the one who made it.
LEMMA ReturnStep ==
  ASSUME NEW P \in SUBSET (NameSeq \ {<<>>}), Return, Well(nodes'), Known(P)'
  PROVE  VInv(P)'
<1>1. pc' = "idle" /\ call' = Idle /\ nd' = ROOT /\ rest' = <<>> /\ src' = None
  BY DEF Return
<1>2. ROOT \in DOMAIN nodes'
  BY WellShape
<1>3. Idle \in CallType'
  BY DEF Idle, CallType, NameSeq
<1>4. Typed'
  BY <1>1, <1>2, <1>3 DEF Typed, NameSeq
<1>5. Looking(P)'
  BY <1>1 DEF Looking
<1> QED BY <1>4, <1>5 DEF VInv

\* A lookup that has arrived is at the node the path resolves to.
LEMMA ArrivedAt ==
  ASSUME NEW P \in SUBSET (NameSeq \ {<<>>}), VInv(P), Here("lookup"), rest = <<Empty>>
  PROVE  /\ nd \in DOMAIN nodes /\ nodes[nd].pointer = None /\ Shape(nodes) /\ Well(nodes)
         /\ Sought \in P /\ Plain(Sought) \in NameSeq
         /\ Leads(nodes, Plain(Sought), nd, Len(Plain(Sought)))
         /\ ResolveIn(nodes, Sought) = nd
<1>1. pc = "lookup" /\ nodes[nd].pointer = None /\ Typed /\ Looking(P) /\ Well(nodes) /\ nd \in DOMAIN nodes
  BY DEF Here, VInv, Typed
<1>2. /\ Sought \in P /\ Plain(Sought) \in NameSeq /\ Shape(nodes)
      /\ Leads(nodes, Plain(Sought), nd, Len(Plain(Sought)))
  BY <1>1, SoughtFacts
<1>3. ResolveIn(nodes, Sought) = End(nodes, nd)
  BY <1>2, ResolveLeads
<1>4. End(nodes, nd) = nd
  BY <1>1, <1>2, EndNext
<1> QED BY <1>1, <1>2, <1>3, <1>4

LEMMA LookupStepKeeps ==
  ASSUME NEW P \in SUBSET (NameSeq \ {<<>>}), VInv(P), Lookup
  PROVE  VInv(P)'
<1>1. /\ Here("lookup") /\ rest = <<Empty>> /\ call.op = "lookup" /\ nodes' = nodes /\ Return
      /\ found' \in {found, <<call.path, nd>>}
  BY DEF Lookup, Arrived
<1>2. Sought = call.path
  BY <1>1 DEF Sought
<1>3. /\ nd \in DOMAIN nodes /\ Well(nodes) /\ call.path \in P /\ ResolveIn(nodes, call.path) = nd
  BY <1>1, <1>2, ArrivedAt
<1>4. Known(P)'
  <2>1. CASE found' = found
    BY <1>1, <2>1, KnownSame DEF VInv
  <2>2. CASE found' = <<call.path, nd>>
    <3>1. <<call.path, nd>> \in P \X DOMAIN nodes' /\ ResolveIn(nodes', <<call.path, nd>>[1]) = <<call.path, nd>>[2]
      BY <1>1, <1>3
    <3> QED BY <2>2, <3>1 DEF Known
  <2> QED BY <1>1, <2>1, <2>2
<1> QED BY <1>1, <1>3, <1>4, ReturnStep

\* What is known after a mount on the node a path resolves to.
LEMMA ShownStep ==
  ASSUME NEW P \in SUBSET (NameSeq \ {<<>>}), VInv(P), NEW p \in P,
         Leads(nodes, Plain(p), nd, Len(Plain(p))),
         NEW n, Well(nodes'), Mounted(nodes, nodes', nd, n), found' \in Shown(nodes', p, n)
  PROVE  Known(P)'
<1>1. /\ Shape(nodes) /\ Shape(nodes') /\ None \notin DOMAIN nodes /\ n \in DOMAIN nodes'
      /\ DOMAIN nodes \subseteq DOMAIN nodes' /\ Known(P)
  BY WellShape DEF VInv, Typed, Mounted
<1>2. CASE ~IsTree(nodes')
  <2>1. found' = None
    BY <1>2 DEF Shown
  <2> QED BY <2>1 DEF Known
<1>3. CASE IsTree(nodes')
  <2>1. Plain(p) \in NameSeq
    BY PlainFacts
  <2>2. /\ ResolveIn(nodes', p) = End(nodes', n)
        /\ \A q : Plain(q) \in NameSeq /\ ResolveIn(nodes, q) # None /\ ~Under(q, p) =>
             ResolveIn(nodes', q) = ResolveIn(nodes, q)
    BY <1>1, <1>3, <2>1, MountedOneWay, MountKeeps
  <2>3. End(nodes', n) \in DOMAIN nodes'
    BY <1>1, <1>3, EndIsEnd DEF IsTree, Looped
  <2>4. CASE found' = <<p, End(nodes', n)>>
    <3>1. <<p, End(nodes', n)>> \in P \X DOMAIN nodes'
          /\ ResolveIn(nodes', <<p, End(nodes', n)>>[1]) = <<p, End(nodes', n)>>[2]
      BY <2>2, <2>3
    <3> QED BY <2>4, <3>1 DEF Known
  <2>5. CASE found' = IF found # None /\ Under(found[1], p) THEN None ELSE found
    <3> SUFFICES ASSUME found' # None
                 PROVE  found' \in P \X DOMAIN nodes' /\ ResolveIn(nodes', found'[1]) = found'[2]
      BY DEF Known
    <3>1. found' = found /\ found # None /\ ~Under(found[1], p)
      BY <2>5
    <3>2. found \in P \X DOMAIN nodes /\ ResolveIn(nodes, found[1]) = found[2]
      BY <1>1, <3>1 DEF Known
    <3>3. found[1] \in P /\ found[2] \in DOMAIN nodes
      BY <3>2
    <3>4. Plain(found[1]) \in NameSeq /\ ResolveIn(nodes, found[1]) # None
      BY <1>1, <3>2, <3>3, PlainFacts
    <3>5. ResolveIn(nodes', found[1]) = found[2]
      BY <2>2, <3>1, <3>2, <3>4
    <3> QED BY <1>1, <3>1, <3>2, <3>5
  <2> QED BY <1>3, <2>4, <2>5 DEF Shown
<1> QED BY <1>2, <1>3

LEMMA MountStepKeeps ==
  ASSUME NEW P \in SUBSET (NameSeq \ {<<>>}), VInv(P), Mount
  PROVE  VInv(P)'
<1>1. /\ Here("lookup") /\ pc = "lookup" /\ rest = <<Empty>> /\ call.op = "mount" /\ Return
      /\ nodes' = [nodes EXCEPT ![nd].pointer = call.node]
      /\ found' \in Shown(nodes', call.path, call.node)
  BY DEF Mount, Arrived, Here
<1>2. Sought = call.path
  BY <1>1 DEF Sought
<1>3. /\ nd \in DOMAIN nodes /\ nodes[nd].pointer = None /\ Well(nodes) /\ call.path \in P
      /\ Leads(nodes, Plain(call.path), nd, Len(Plain(call.path)))
  BY <1>1, <1>2, ArrivedAt
<1>4. call.node \in DOMAIN nodes
  BY <1>1 DEF VInv, Looking
<1>5. Well(nodes') /\ Mounted(nodes, nodes', nd, call.node)
  BY <1>1, <1>3, <1>4, MountNodes
<1>6. Known(P)'
  BY <1>1, <1>3, <1>5, ShownStep
<1> QED BY <1>1, <1>5, <1>6, ReturnStep

LEMMA MountFsSourceStep ==
  ASSUME NEW P \in SUBSET (NameSeq \ {<<>>}), VInv(P), MountFsSource
  PROVE  VInv(P)'
<1>1. /\ Here("lookup") /\ pc = "lookup" /\ rest = <<Empty>> /\ call.op = "mount_fs"
      /\ src' = nd /\ nd' = ROOT /\ rest' = call.target /\ UNCHANGED <<nodes, pc, call, found>>
  BY DEF MountFsSource, Arrived, Here
<1>2. /\ nd \in DOMAIN nodes /\ Shape(nodes) /\ ROOT \in DOMAIN nodes /\ None \notin DOMAIN nodes
      /\ Typed /\ Looking(P) /\ Known(P)
  BY <1>1, ArrivedAt, WellShape DEF VInv
<1>3. call.target \in P /\ call.path \in P
  BY <1>1, <1>2 DEF Looking
<1>4. Typed'
  BY <1>1, <1>2, <1>3 DEF Typed, CallType
<1>5. Leads(nodes, Plain(call.target), ROOT, 0) /\ Rest(call.target, 0) = call.target
  BY <1>2, <1>3, PlainFacts, LeadsRoot, RestStart
<1>6. Sought' = call.target
  BY <1>1, <1>2 DEF Sought
<1>7. Looking(P)'
  BY <1>1, <1>3, <1>5, <1>6 DEF Looking
<1> QED BY <1>1, <1>2, <1>4, <1>7, KnownSame DEF VInv

\* The root of the file system of the medium s
DiscNode(s) == [Node(Empty, "cdfs", "DIR") EXCEPT !.cdrom = s, !.lba = RootRecord(s)]

LEMMA DiscNodeTyped ==
  ASSUME NEW s, NEW E, s \in E
  PROVE  /\ DiscNode(s) \in NodeIn(E) /\ DiscNode(s).fs = "cdfs"
         /\ DiscNode(s).pointer = None /\ DiscNode(s).kids = None
<1> DEFINE x == Node(Empty, "cdfs", "DIR")
           y == [x EXCEPT !.cdrom = s, !.lba = RootRecord(s)]
<1>1. x \in NodeIn(E) /\ x.fs = "cdfs" /\ x.pointer = None /\ x.kids = None
  BY NodeTyped
<1>2. RootRecord(s) \in Nat \cup {None}
  BY DiscAssumption DEF RootRecord
<1> HIDE DEF x
<1>3. y \in NodeIn(E) /\ y.fs = "cdfs" /\ y.pointer = None /\ y.kids = None
  BY <1>1, <1>2 DEF NodeIn
<1> QED BY <1>3 DEF x, DiscNode

LEMMA MountFsStep ==
  ASSUME NEW P \in SUBSET (NameSeq \ {<<>>}), VInv(P), MountFs
  PROVE  VInv(P)'
<1> DEFINE new == DiscNode(src)
<1>1. /\ Here("lookup") /\ rest = <<Empty>> /\ call.op = "mount_fs" /\ src # None
      /\ Len(nodes) < MaxNodes /\ Return
      /\ nodes' = Append([nodes EXCEPT ![nd].pointer = Len(nodes) + 1], new)
      /\ found' \in Shown(nodes', call.target, Len(nodes'))
  BY DEF MountFs, Arrived, DiscNode
<1>2. Sought = call.target
  BY <1>1 DEF Sought
<1>3. /\ nd \in DOMAIN nodes /\ nodes[nd].pointer = None /\ Well(nodes) /\ call.target \in P
      /\ Leads(nodes, Plain(call.target), nd, Len(Plain(call.target)))
  BY <1>1, <1>2, ArrivedAt
<1>4. new \in NodeIn(1..(Len(nodes) + 1)) /\ new.fs = "cdfs"
  <2>1. src \in DOMAIN nodes /\ DOMAIN nodes = 1..Len(nodes) /\ Len(nodes) \in Nat
    BY <1>1, <1>3, WellShape DEF VInv, Typed
  <2>2. src \in 1..(Len(nodes) + 1)
    BY <2>1
  <2> QED BY <2>2, DiscNodeTyped
<1> HIDE DEF new
<1>5. Well(nodes') /\ Mounted(nodes, nodes', nd, Len(nodes'))
  BY <1>1, <1>3, <1>4, MountFsNodes
<1>6. Known(P)'
  BY <1>1, <1>3, <1>5, ShownStep
<1> QED BY <1>1, <1>5, <1>6, ReturnStep

LEMMA NodeCreateStep ==
  ASSUME NEW P \in SUBSET (NameSeq \ {<<>>}), VInv(P), NodeCreate
  PROVE  VInv(P)'
<1> DEFINE type == IF call.op = "create" THEN "FILE" ELSE "DIR"
<1>1. /\ pc = "node" /\ Creatable(nd) /\ nodes' = Created(nd, Head(rest), type) /\ Return /\ found' = found
      /\ Well(nodes) /\ nd \in DOMAIN nodes /\ rest \in NameSeq /\ rest # <<>>
  BY DEF NodeCreate, Creating, Here, VInv, Typed
<1>2. type \in {"FILE", "DIR"} /\ Head(rest) \in Name \cup {Empty}
  BY <1>1, HeadTailProperties DEF NameSeq
<1> HIDE DEF type
<1>3. Well(nodes') /\ Grown(nodes, nodes')
  BY <1>1, <1>2, CreatedNodes
<1>4. Known(P)'
  BY <1>1, <1>3, KnownGrown DEF VInv
<1> QED BY <1>1, <1>3, <1>4, ReturnStep

LEMMA NodeListStep ==
  ASSUME NEW P \in SUBSET (NameSeq \ {<<>>}), VInv(P), NodeList
  PROVE  VInv(P)'
<1>1. /\ pc = "node" /\ Listable(nd) /\ nodes' = Loaded(nd) /\ found' = found /\ Well(nodes) /\ nd \in DOMAIN nodes
  BY DEF NodeList, Listing, Here, VInv, Typed
<1>2. Well(nodes') /\ Grown(nodes, nodes')
  BY <1>1, LoadedNodes
<1>3. Known(P)'
  BY <1>1, <1>2, KnownGrown DEF VInv
<1>4. CASE Return
  BY <1>2, <1>3, <1>4, ReturnStep
<1>5. CASE pc' = "wild" /\ UNCHANGED <<call, nd, rest, src>>
  <2>1. DOMAIN nodes \subseteq DOMAIN nodes'
    BY <1>2 DEF Grown
  <2>2. call' \in CallType'
    BY <1>5, <2>1, CallKept DEF VInv, Typed
  <2>3. Typed'
    BY <1>2, <1>5, <2>1, <2>2 DEF VInv, Typed
  <2>4. Looking(P)'
    BY <1>5 DEF Looking
  <2> QED BY <1>3, <2>3, <2>4 DEF VInv
<1> QED BY <1>4, <1>5 DEF NodeList

-----------------------------------------------------------------------------
(* The theorems                                                            *)

LEMMA InitVInv ==
  ASSUME NEW P \in SUBSET (NameSeq \ {<<>>}), Init
  PROVE  VInv(P)
<1> DEFINE r == Node(Empty, "none", "DIR")
           d == Node(Empty, "atapi", "BLOCK")
<1>1. /\ nodes = <<r, d>> /\ pc = "idle" /\ call = Idle /\ nd = ROOT /\ rest = <<>>
      /\ src = None /\ found = None
  BY DEF Init
<1>2. r \in NodeIn(1..2) /\ r.fs = "none" /\ d \in NodeIn(1..2) /\ d.fs = "atapi"
  BY NodeTyped
<1> HIDE DEF r, d
<1>3. Len(nodes) = 2 /\ DOMAIN nodes = 1..2 /\ nodes[1] = r /\ nodes[2] = d /\ nodes \in Seq(NodeIn(1..2))
  BY <1>1, <1>2
<1>4. Well(nodes)
  <2>1. Len(nodes) \in 2..MaxNodes
    BY <1>3, CapacityAssumption
  <2>2. \A n \in 1..2 : nodes[n].fs # "ramfs"
    BY <1>2, <1>3
  <2> QED BY <1>3, <2>1, <2>2 DEF Well
<1>5. Typed
  BY <1>1, <1>4, IdleTyped, WellShape DEF Typed, NameSeq
<1> QED BY <1>1, <1>5 DEF VInv, Looking, Known

LEMMA ServedStep ==
  ASSUME NEW P \in SUBSET (NameSeq \ {<<>>}), VInv(P), LookupStep \/ MountStep \/ NodeStep
  PROVE  VInv(P)'
<1>1. CASE LookupStep
  BY <1>1, FollowStep, LookupFindStep, LookupCreateStep, GiveUpStep, AllGiveUp, LookupStepKeeps DEF LookupStep
<1>2. CASE MountStep
  BY <1>2, MountStepKeeps, MountFsSourceStep, MountFsStep, GiveUpStep, AllGiveUp DEF MountStep
<1>3. CASE NodeStep
  BY <1>3, NodeCreateStep, GiveUpStep, AllGiveUp, NodeListStep DEF NodeStep
<1> QED BY <1>1, <1>2, <1>3

LEMMA StutterStep ==
  ASSUME NEW P \in SUBSET (NameSeq \ {<<>>}), VInv(P), UNCHANGED vars
  PROVE  VInv(P)'
<1>1. UNCHANGED <<nodes, pc, call, nd, rest, src, found>>
  BY DEF vars
<1>2. Typed'
  BY <1>1 DEF VInv, Typed, CallType
<1>3. Looking(P)'
  <2> SUFFICES ASSUME pc = "lookup" PROVE Looking(P)'
    BY <1>1 DEF Looking
  <2>1. Sought' = Sought
    BY <1>1 DEF Sought
  <2> QED BY <1>1, <2>1 DEF VInv, Looking
<1> QED BY <1>1, <1>2, <1>3, KnownSame DEF VInv

LEMMA PathsNamed == Paths \in SUBSET (NameSeq \ {<<>>})
  BY PathAssumption DEF NameSeq

LEMMA NextVInv == VInv(Paths) /\ [Next]_vars => VInv(Paths)'
<1> SUFFICES ASSUME VInv(Paths), [Next]_vars PROVE VInv(Paths)'
  OBVIOUS
<1>1. CASE \E p \in Paths : LookupCall(p)
  BY <1>1, PathsNamed, LookupCallStep
<1>2. CASE \E p \in Paths, n \in DOMAIN nodes : MountCall(p, n)
  BY <1>2, PathsNamed, MountCallStep
<1>3. CASE \E p, q \in Paths : MountFsCall(p, q)
  BY <1>3, PathsNamed, MountFsCallStep
<1>4. CASE \E n \in DOMAIN nodes, name \in Name, op \in {"create", "mkdir"} : NodeCall(op, n, name, 0)
  <2>1. PICK n \in DOMAIN nodes, name \in Name, op \in {"create", "mkdir"} : NodeCall(op, n, name, 0)
    BY <1>4
  <2>2. op \in Ops /\ name \in Name \cup {Empty} /\ 0 \in Nat
    BY DEF Ops
  <2> QED BY <2>1, <2>2, PathsNamed, NodeCallStep
<1>5. CASE \E n \in DOMAIN nodes : NodeCall("finddir", n, Empty, 0)
  <2>1. "finddir" \in Ops /\ Empty \in Name \cup {Empty} /\ 0 \in Nat
    BY DEF Ops
  <2> QED BY <1>5, <2>1, PathsNamed, NodeCallStep
<1>6. CASE \E n \in DOMAIN nodes, u \in 0..MaxIndex : NodeCall("readdir", n, Empty, u)
  <2>1. PICK n \in DOMAIN nodes, u \in 0..MaxIndex : NodeCall("readdir", n, Empty, u)
    BY <1>6
  <2>2. "readdir" \in Ops /\ Empty \in Name \cup {Empty} /\ u \in Nat
    BY CapacityAssumption DEF Ops
  <2> QED BY <2>1, <2>2, PathsNamed, NodeCallStep
<1>7. CASE RamfsCreateFs
  BY <1>7, PathsNamed, RamfsCreateFsStep
<1>8. CASE LookupStep \/ MountStep \/ NodeStep
  BY <1>8, PathsNamed, ServedStep
<1>9. CASE UNCHANGED vars
  BY <1>9, PathsNamed, StutterStep
<1> QED BY <1>1, <1>2, <1>3, <1>4, <1>5, <1>6, <1>7, <1>8, <1>9 DEF Next

LEMMA VInvCorrect == Spec => []VInv(Paths)
<1>1. Init => VInv(Paths)
  BY PathsNamed, InitVInv
<1> QED BY <1>1, NextVInv, PTL DEF Spec

\* The tree of nodes is well formed at every step of every call: vfs_lookup,
\* vfs_mount, vfs_mount_fs, ramfs_createNode and cdfs's readdir leave every
\* pointer and every child a node, and every directory of a ramfs within the
\* entries that ensureSize has room for.
THEOREM IntactCorrect == Spec => []Intact
<1>1. VInv(Paths) => Intact
  <2> SUFFICES ASSUME VInv(Paths) PROVE Intact
    OBVIOUS
  <2>1. Typed /\ Known(Paths) /\ Well(nodes)
    BY DEF VInv, Typed
  <2>2. /\ nodes \in Seq(NodeType) /\ Len(nodes) \in 2..MaxNodes
        /\ InCapacity
    BY <2>1, NodesTyped DEF InCapacity
  <2>3. call.op \in Ops \cup {"none"} /\ call.node \in DOMAIN nodes \cup {None}
    BY <2>1 DEF Typed, CallType
  <2>4. found \in (Paths \X DOMAIN nodes) \cup {None}
    BY <2>1 DEF Known
  <2>5. TypeOK
    BY <2>1, <2>2, <2>3, <2>4 DEF TypeOK, Typed, NameSeq
  <2> QED BY <2>2, <2>5 DEF Intact
<1> QED BY <1>1, VInvCorrect, PTL

\* A path that was looked up, or mounted on, keeps its node, whatever is looked
\* up, made, listed, or mounted elsewhere while no node can be reached in two
\* ways: vfs_lookup over vfs_finddir and the pointers that vfs_mount sets.
THEOREM PathsKeepCorrect == Spec => []PathsKeep
<1>1. VInv(Paths) => PathsKeep
  BY ResolveNow DEF VInv, Known, PathsKeep
<1> QED BY <1>1, VInvCorrect, PTL

-----------------------------------------------------------------------------
(* Linking                                                                 *)

\* The relocations that are done name the symbol n.
Named(n) == \E x \in Behind : image.section[x[1]].rel[x[2]].sym = n

\* Control: linking is over the exports, and every program's table is sane.
LinkControl ==
  /\ WellFormed(image)
  /\ place \in [section : Nat, rel : Nat \ {0}]
  /\ stage = "link" => symbolMap = Exports

\* A symbol that no relocation has named is as it was read; the others are
\* absolute, at their place.
SymbolsCached ==
  /\ symbol = [n \in DOMAIN image.symbol |-> symbol[n]]
  /\ \A n \in DOMAIN image.symbol :
       /\ symbol[n] = [f \in {"name", "value", "size", "weak", "shndx"} |-> symbol[n][f]]
       /\ ~Named(n) => symbol[n] = image.symbol[n]
       /\ Named(n) => symbol[n].shndx = SHN_ABS /\ symbol[n].value = Home(n)
       /\ Named(n) /\ Unplaced(image.symbol[n]) => n \in DOMAIN storage

WordsThere == word = [a \in DOMAIN image.word |-> word[a]]

WordsLinked ==
  \A a \in DOMAIN image.word :
    /\ (\A x \in Behind : Ref(x[1], image.section[x[1]].rel[x[2]]) # a) => word[a] = image.word[a]
    /\ \A x \in Behind :
         LET rel == image.section[x[1]].rel[x[2]]
         IN  Ref(x[1], rel) = a => word[a] = Relocated(rel, Home(rel.sym), image.word[a], a)

LinkInv == LinkControl /\ SymbolsCached /\ WordsThere /\ WordsLinked

LEMMA LinkInvImplies == LinkInv => LinkedRight
<1> SUFFICES ASSUME LinkInv PROVE LinkedRight
  OBVIOUS
<1> SUFFICES ASSUME NEW a \in DOMAIN word
             PROVE  LET done == {x \in Behind : Ref(x[1], image.section[x[1]].rel[x[2]]) = a}
                        meant == {LET rel == image.section[x[1]].rel[x[2]]
                                  IN  Relocated(rel, Home(rel.sym), image.word[a], a) : x \in done}
                    IN  IF done = {} THEN word[a] = image.word[a] ELSE {word[a]} = meant
  BY DEF LinkedRight
<1>1. a \in DOMAIN image.word
  BY DEF LinkInv, WordsThere
<1> QED
  BY <1>1 DEF LinkInv, WordsLinked

-----------------------------------------------------------------------------
(* The relocations behind the loops                                        *)

LEMMA Relocations ==
  ASSUME NEW im, WellFormed(im), NEW s \in DOMAIN im.section
  PROVE  /\ s \in Nat /\ im.section[s].at \in Nat /\ im.section[s].info \in Nat
         /\ DOMAIN im.section[s].rel = 1..Len(im.section[s].rel)
         /\ Len(im.section[s].rel) \in Nat
         /\ \A r \in DOMAIN im.section[s].rel :
              im.section[s].rel[r].offset \in Nat /\ im.section[s].rel[r].sym \in DOMAIN im.symbol
<1>1. im.section[s] \in Section
  BY DEF WellFormed
<1>2. im.section[s].rel \in Seq([sym : Nat, type : {"32", "PC32"}, offset : Nat])
  BY <1>1 DEF Section
<1>3. s \in Nat /\ im.section[s].at \in Nat /\ im.section[s].info \in Nat
  BY <1>1 DEF Section, WellFormed
<1>4. \A r \in DOMAIN im.section[s].rel : im.section[s].rel[r].offset \in Nat
  <2> SUFFICES ASSUME NEW r \in DOMAIN im.section[s].rel PROVE im.section[s].rel[r].offset \in Nat
    OBVIOUS
  <2>1. im.section[s].rel[r] \in [sym : Nat, type : {"32", "PC32"}, offset : Nat]
    <3>1. r \in 1..Len(im.section[s].rel)
      BY <1>2
    <3> QED
      BY <1>2, <3>1, ElementOfSeq, Zenon
  <2> QED
    BY <2>1
<1>5. \A r \in DOMAIN im.section[s].rel : im.section[s].rel[r].sym \in DOMAIN im.symbol
  BY DEF WellFormed
<1> QED
  BY <1>2, <1>3, <1>4, <1>5

LEMMA NothingBehind ==
  ASSUME WellFormed(image), place = Start
  PROVE  Behind = {}
<1>1. \A s \in DOMAIN image.section : BehindIn(s) = {}
  <2> SUFFICES ASSUME NEW s \in DOMAIN image.section, NEW r \in BehindIn(s) PROVE FALSE
    OBVIOUS
  <2>1. s \in Nat /\ r \in Nat /\ r > 0
    BY Relocations DEF BehindIn
  <2>2. s < 0 \/ (s = 0 /\ r < 1)
    BY DEF BehindIn, Start
  <2> QED
    BY <2>1, <2>2
<1> QED
  BY <1>1 DEF Behind

LEMMA InBehind ==
  ASSUME NEW s, NEW r
  PROVE  <<s, r>> \in Behind <=> s \in DOMAIN image.section /\ r \in BehindIn(s)
BY DEF Behind

LEMMA BehindPairs == \A x \in Behind : x = <<x[1], x[2]>>
BY DEF Behind

\* A relocation that was done adds itself to those behind.
LEMMA BehindOneMore ==
  ASSUME LinkControl, Pending, image' = image, place' = [place EXCEPT !.rel = @ + 1]
  PROVE  /\ Behind' = Behind \cup {<<place.section, place.rel>>}
         /\ <<place.section, place.rel>> \notin Behind
<1> DEFINE here == <<place.section, place.rel>>
<1>1. /\ place'.section = place.section /\ place'.rel = place.rel + 1
      /\ place.section \in Nat /\ place.rel \in Nat /\ place.rel > 0
  BY DEF LinkControl
<1>2. place.section \in DOMAIN image.section /\ WellFormed(image)
  BY DEF Pending, LinkControl
<1>3. \A s \in DOMAIN image.section : s # place.section => BehindIn(s)' = BehindIn(s)
  BY <1>1 DEF BehindIn
<1>4. ASSUME place.rel \in DOMAIN image.section[place.section].rel
      PROVE  BehindIn(place.section)' = BehindIn(place.section) \cup {place.rel}
  <2>1. DOMAIN image.section[place.section].rel \subseteq Nat
    BY <1>2, Relocations
  <2> QED
    BY <1>1, <1>4, <2>1 DEF BehindIn
<1>5. place.rel \in DOMAIN image.section[place.section].rel
  BY <1>1, <1>2, Relocations DEF Pending
<1>6. \A x : x \in Behind' <=> x \in Behind \/ x = here
  <2>1. \A x : x \in Behind' <=>
          \E s \in DOMAIN image.section : \E r \in BehindIn(s)' : x = <<s, r>>
    BY DEF Behind
  <2>2. \A x : x \in Behind <=>
          \E s \in DOMAIN image.section : \E r \in BehindIn(s) : x = <<s, r>>
    BY DEF Behind
  <2> QED
    BY <1>2, <1>3, <1>4, <1>5, <2>1, <2>2
<1>7. here \notin Behind
  BY <1>1, InBehind DEF BehindIn
<1> QED
  BY <1>6, <1>7

\* Between two sections nothing is done.
LEMMA BehindSameNext ==
  ASSUME LinkControl, ~Pending, place.section \in DOMAIN image.section, image' = image,
         place' = [section |-> place.section + 1, rel |-> 1]
  PROVE  Behind' = Behind
<1>1. place.section \in Nat /\ place.rel \in Nat
  BY DEF LinkControl
<1>2. \A s \in DOMAIN image.section : BehindIn(s)' = BehindIn(s)
  <2> SUFFICES ASSUME NEW s \in DOMAIN image.section,
                      NEW r \in DOMAIN image.section[s].rel
               PROVE  (s < place.section + 1 \/ (s = place.section + 1 /\ r < 1)) <=>
                      (s < place.section \/ (s = place.section /\ r < place.rel))
    BY DEF BehindIn
  <2>1. s \in Nat /\ r \in 1..Len(image.section[s].rel) /\ Len(image.section[s].rel) \in Nat
    BY Relocations DEF LinkControl
  <2>2. s = place.section => r < place.rel
    <3> SUFFICES ASSUME s = place.section PROVE r < place.rel
      OBVIOUS
    <3>1. image.section[s].type = "REL"
      <4>1. image.section[s].type # "REL" => image.section[s].rel = <<>>
        BY DEF LinkControl, WellFormed
      <4> QED
        BY <2>1, <4>1
    <3>2. ~(place.rel <= Len(image.section[s].rel))
      BY <3>1 DEF Pending
    <3> QED
      BY <1>1, <2>1, <3>2
  <2> QED
    BY <1>1, <2>1, <2>2
<1> QED
  BY <1>2 DEF Behind

-----------------------------------------------------------------------------
(* One relocation                                                          *)

\* What resolve_symbol returns is the symbol's home, and stays it.
LEMMA Homes ==
  ASSUME LinkControl, SymbolsCached, stage = "link", Pending, image' = image,
         NEW n, n = Relocation.sym, n \in DOMAIN image.symbol,
         NEW S \in Resolved(n),
         storage' = IF Unplaced(symbol[n])
                      THEN [m \in DOMAIN storage \cup {n} |->
                              IF m = n THEN [first |-> S, last |-> S + Size(n) - 1] ELSE storage[m]]
                      ELSE storage
  PROVE  /\ Home(n)' = S
         /\ Unplaced(image.symbol[n]) => n \in DOMAIN storage'
         /\ \A m \in DOMAIN image.symbol :
              Named(m) => /\ Home(m)' = Home(m)
                          /\ m \in DOMAIN storage => m \in DOMAIN storage'
<1>1. /\ symbolMap = Exports /\ SHN_UNDEF = 0 /\ SHN_ABS \notin {SHN_UNDEF, SHN_COMMON}
      /\ SHN_ABS \notin DOMAIN image.section
  BY ImageAssumption DEF LinkControl, WellFormed
<1>2. CASE Named(n)
  <2>1. symbol[n].shndx = SHN_ABS /\ symbol[n].value = Home(n)
    BY <1>2 DEF SymbolsCached
  <2>2. ~Unplaced(symbol[n])
    BY <1>1, <2>1 DEF Unplaced
  <2>3. S = Home(n)
    BY <1>1, <2>1, <2>2 DEF Resolved
  <2>4. storage' = storage
    BY <2>2
  <2>5. \A m : Home(m)' = Home(m)
    BY <2>4 DEF Home, Unplaced, Content
  <2> QED
    BY <1>2, <2>3, <2>4, <2>5 DEF SymbolsCached
<1>3. CASE ~Named(n)
  <2>1. symbol[n] = image.symbol[n]
    BY <1>3 DEF SymbolsCached
  <2>2. CASE Unplaced(symbol[n])
    <3>1. storage' = [m \in DOMAIN storage \cup {n} |->
                        IF m = n THEN [first |-> S, last |-> S + Size(n) - 1] ELSE storage[m]]
      BY <2>2
    <3>2. storage'[n].first = S /\ n \in DOMAIN storage'
      BY <3>1
    <3>3. Home(n)' = S
      BY <2>1, <2>2, <3>2 DEF Home, Unplaced
    <3>4. ASSUME NEW m \in DOMAIN image.symbol, Named(m)
          PROVE  Home(m)' = Home(m) /\ (m \in DOMAIN storage => m \in DOMAIN storage')
      <4>1. m # n
        BY <1>3, <3>4
      <4>2. Unplaced(image.symbol[m]) => m \in DOMAIN storage
        BY <3>4 DEF SymbolsCached
      <4>3. m \in DOMAIN storage => m \in DOMAIN storage' /\ storage'[m] = storage[m]
        BY <3>1, <4>1
      <4> QED
        BY <4>2, <4>3 DEF Home, Unplaced, Content
    <3> QED
      BY <3>2, <3>3, <3>4
  <2>3. CASE ~Unplaced(symbol[n])
    <3>1. storage' = storage
      BY <2>3
    <3>2. \A m : Home(m)' = Home(m)
      BY <3>1 DEF Home, Unplaced, Content
    <3>3. Home(n) = S
      <4>1. CASE symbol[n].shndx = SHN_ABS
        BY <1>1, <2>1, <2>3, <4>1 DEF Home, Resolved
      <4>2. CASE symbol[n].shndx = SHN_UNDEF
        <5>1. S = IF symbol[n].name \in DOMAIN Exports THEN Exports[symbol[n].name] ELSE 0
          BY <1>1, <2>3, <4>2 DEF Resolved
        <5> QED
          BY <1>1, <2>1, <2>3, <4>2, <5>1 DEF Home
      <4>3. CASE symbol[n].shndx # SHN_ABS /\ symbol[n].shndx # SHN_UNDEF
        <5>1. S = Content(symbol[n].shndx) + symbol[n].value
          BY <2>3, <4>3 DEF Resolved
        <5> QED
          BY <2>1, <2>3, <4>3, <5>1 DEF Home
      <4> QED
        BY <4>1, <4>2, <4>3
    <3> QED
      BY <2>1, <2>3, <3>1, <3>2, <3>3
  <2> QED
    BY <2>2, <2>3
<1> QED
  BY <1>2, <1>3

\* No relocation behind has the word of the one at hand.
LEMMA FreshWord ==
  ASSUME LinkControl, Pending, NEW x \in Behind
  PROVE  Ref(x[1], image.section[x[1]].rel[x[2]]) # Ref(place.section, Relocation)
<1> DEFINE s == x[1]
           r == x[2]
           t == place.section
           q == place.rel
<1>1. x = <<s, r>> /\ s \in DOMAIN image.section /\ r \in DOMAIN image.section[s].rel
  BY BehindPairs, InBehind DEF BehindIn
<1>2. t \in DOMAIN image.section /\ q \in DOMAIN image.section[t].rel
  BY Relocations DEF Pending, LinkControl
<1>3. ~(s = t /\ r = q)
  BY <1>1, BehindOneMore, InBehind, Relocations DEF BehindIn, LinkControl
<1>4. image.section[s].type = "REL" /\ image.section[t].type = "REL"
  <2>1. image.section[s].type # "REL" => image.section[s].rel = <<>>
    BY <1>1 DEF LinkControl, WellFormed
  <2> QED
    BY <1>1, <2>1 DEF Pending
<1>5. /\ image.section[s].info \in DOMAIN image.section
      /\ image.section[t].info \in DOMAIN image.section
  BY <1>1, <1>2, <1>4 DEF LinkControl, WellFormed
<1> DEFINE b == image.section[image.section[s].info].at
           c == image.section[image.section[t].info].at
           d == image.section[s].rel[r].offset
           e == image.section[t].rel[q].offset
<1>6. b \in Nat /\ c \in Nat /\ d \in Nat /\ e \in Nat
  BY <1>1, <1>2, <1>5, Relocations DEF LinkControl
<1>7. b + d # c + e
  BY <1>1, <1>2, <1>3 DEF LinkControl, WellFormed
<1>8. CONTENT \in Nat
  BY ImageAssumption
<1>9. /\ Ref(s, image.section[s].rel[r]) = CONTENT + b + d
      /\ Ref(t, Relocation) = CONTENT + c + e
  BY DEF Ref, Content, Relocation
<1> HIDE DEF b, c, d, e
<1> QED
  BY <1>6, <1>7, <1>8, <1>9

LEMMA RelocateStep ==
  ASSUME LinkInv, stage = "link", stage' = stage, Relocate,
         NEW rel, rel = Relocation, NEW n, n = rel.sym,
         NEW P, P = Ref(place.section, rel),
         NEW here, here = <<place.section, place.rel>>
  PROVE  LinkInv'
<1> USE DEF LinkInv
<1>0. Pending /\ image' = image /\ place' = [place EXCEPT !.rel = @ + 1] /\ symbolMap' = symbolMap
  BY DEF Relocate
<1>1. PICK S \in Resolved(n) :
        /\ word' = [word EXCEPT ![P] = Relocated(rel, S, @, P)]
        /\ symbol' = [symbol EXCEPT ![n] = Cached(@, S)]
        /\ storage' = IF Unplaced(symbol[n])
                        THEN [m \in DOMAIN storage \cup {n} |->
                                IF m = n THEN [first |-> S, last |-> S + Size(n) - 1] ELSE storage[m]]
                        ELSE storage
  BY DEF Relocate
<1>2. rel = image.section[place.section].rel[place.rel] /\ n \in DOMAIN image.symbol
  <2>1. place.rel \in DOMAIN image.section[place.section].rel /\ place.section \in DOMAIN image.section
    BY <1>0, Relocations DEF Pending, LinkControl
  <2> QED
    BY <2>1, Relocations DEF Relocation, LinkControl
<1>3. Behind' = Behind \cup {here} /\ here \notin Behind
  BY <1>0, BehindOneMore
<1>4. \A m : Named(m)' <=> Named(m) \/ m = n
  <2>1. image.section[here[1]].rel[here[2]].sym = n
    BY <1>2
  <2> QED
    BY <1>0, <1>3, <2>1 DEF Named
<1>5. /\ Home(n)' = S
      /\ Unplaced(image.symbol[n]) => n \in DOMAIN storage'
      /\ \A m \in DOMAIN image.symbol :
           Named(m) => Home(m)' = Home(m) /\ (m \in DOMAIN storage => m \in DOMAIN storage')
  BY <1>0, <1>1, <1>2, Homes
<1>6. LinkControl'
  BY <1>0 DEF LinkControl
<1>7. SymbolsCached'
  <2>1. symbol' = [m \in DOMAIN image.symbol |-> IF m = n THEN Cached(symbol[n], S) ELSE symbol[m]]
    BY <1>1, <1>2 DEF SymbolsCached
  <2>2. ASSUME NEW m \in DOMAIN image.symbol, m # n
        PROVE  /\ symbol'[m] = [f \in {"name", "value", "size", "weak", "shndx"} |-> symbol'[m][f]]
               /\ ~Named(m)' => symbol'[m] = image.symbol[m]
               /\ Named(m)' => symbol'[m].shndx = SHN_ABS /\ symbol'[m].value = Home(m)'
               /\ Named(m)' /\ Unplaced(image.symbol[m]) => m \in DOMAIN storage'
    BY <1>4, <1>5, <2>1, <2>2 DEF SymbolsCached
  <2>3. /\ symbol'[n] = [f \in {"name", "value", "size", "weak", "shndx"} |-> symbol'[n][f]]
        /\ symbol'[n].shndx = SHN_ABS /\ symbol'[n].value = S
    BY <1>2, <2>1 DEF SymbolsCached, Cached
  <2>4. Named(n)'
    BY <1>4
  <2>5. \A m : Unplaced(image.symbol[m])' <=> Unplaced(image.symbol[m])
    BY <1>0 DEF Unplaced
  <2>6. symbol' = [m \in DOMAIN image'.symbol |-> symbol'[m]]
    BY <1>0, <2>1
  <2> QED
    BY <1>0, <1>5, <2>2, <2>3, <2>4, <2>5, <2>6 DEF SymbolsCached
<1>8. word' = [a \in DOMAIN image.word |-> IF a = P THEN Relocated(rel, S, word[P], P) ELSE word[a]]
  BY <1>1 DEF WordsThere
<1>9. WordsThere'
  BY <1>0, <1>8 DEF WordsThere
<1>10. WordsLinked'
  <2>1. \A t, q : Ref(t, q)' = Ref(t, q)
    BY <1>0 DEF Ref, Content
  <2>2. \A x \in Behind : Ref(x[1], image.section[x[1]].rel[x[2]]) # P
    BY <1>0, FreshWord DEF Relocation
  <2>3. here[1] = place.section /\ here[2] = place.rel
    OBVIOUS
  <2>4. image.section[here[1]].rel[here[2]] = rel /\ Ref(here[1], rel) = P
    BY <1>2, <2>3
  <2>5. \A x \in Behind : /\ Named(image.section[x[1]].rel[x[2]].sym)
                         /\ image.section[x[1]].rel[x[2]].sym \in DOMAIN image.symbol
    <3> SUFFICES ASSUME NEW x \in Behind
                 PROVE  /\ Named(image.section[x[1]].rel[x[2]].sym)
                        /\ image.section[x[1]].rel[x[2]].sym \in DOMAIN image.symbol
      OBVIOUS
    <3>1. x[1] \in DOMAIN image.section /\ x[2] \in DOMAIN image.section[x[1]].rel
      BY BehindPairs, InBehind DEF BehindIn
    <3> QED
      BY <3>1, Relocations DEF Named, LinkControl
  <2>6. \A x \in Behind : Home(image.section[x[1]].rel[x[2]].sym)' = Home(image.section[x[1]].rel[x[2]].sym)
    BY <1>0, <1>5, <2>5
  <2> SUFFICES ASSUME NEW a \in DOMAIN image.word
               PROVE  /\ (\A x \in Behind' : Ref(x[1], image.section[x[1]].rel[x[2]]) # a) =>
                           word'[a] = image.word[a]
                      /\ \A x \in Behind' :
                           Ref(x[1], image.section[x[1]].rel[x[2]]) = a =>
                             word'[a] = Relocated(image.section[x[1]].rel[x[2]],
                                                  Home(image.section[x[1]].rel[x[2]].sym)', image.word[a], a)
    BY <1>0, <2>1 DEF WordsLinked
  <2>7. CASE a = P
    <3>1. word'[a] = Relocated(rel, S, image.word[a], a)
      BY <1>8, <2>2, <2>7 DEF WordsLinked
    <3>2. \A x \in Behind' : Ref(x[1], image.section[x[1]].rel[x[2]]) = a => x = here
      BY <1>3, <2>2, <2>7
    <3>3. \A m : m = n => Home(m)' = S
      BY <1>5
    <3>4. here \in Behind' /\ Ref(here[1], image.section[here[1]].rel[here[2]]) = a
      BY <1>3, <2>4, <2>7
    <3>5. image'.section[here[1]].rel[here[2]].sym = n
      BY <1>0, <2>4
    <3> QED
      BY <2>4, <3>1, <3>2, <3>3, <3>4, <3>5
  <2>8. CASE a # P
    <3>1. word'[a] = word[a]
      BY <1>8, <2>8
    <3>2. \A x \in Behind' : Ref(x[1], image.section[x[1]].rel[x[2]]) = a => x \in Behind
      BY <1>3, <2>3, <2>4, <2>8
    <3>3. ASSUME \A x \in Behind' : Ref(x[1], image.section[x[1]].rel[x[2]]) # a
          PROVE  word'[a] = image.word[a]
      BY <1>3, <3>1, <3>3 DEF WordsLinked
    <3>4. ASSUME NEW x \in Behind', Ref(x[1], image.section[x[1]].rel[x[2]]) = a
          PROVE  word'[a] = Relocated(image.section[x[1]].rel[x[2]],
                                      Home(image.section[x[1]].rel[x[2]].sym)', image.word[a], a)
      BY <2>6, <3>1, <3>2, <3>4 DEF WordsLinked
    <3> QED
      BY <3>3, <3>4
  <2> QED
    BY <2>7, <2>8
<1> QED
  BY <1>6, <1>7, <1>9, <1>10

-----------------------------------------------------------------------------
(* The other steps                                                         *)

\* Steps that neither read an image nor do a relocation
LEMMA LinkKept ==
  ASSUME LinkInv, UNCHANGED <<image, symbol, word, storage>>, Behind' = Behind, LinkControl'
  PROVE  LinkInv'
<1>1. \A n : Named(n)' <=> Named(n)
  BY DEF Named
<1>2. \A n : Home(n)' = Home(n)
  BY DEF Home, Unplaced, Content
<1>3. \A n : Unplaced(image.symbol[n])' <=> Unplaced(image.symbol[n])
  BY DEF Unplaced
<1>4. \A s, r : Ref(s, r)' = Ref(s, r)
  BY DEF Ref, Content
<1>5. SymbolsCached'
  BY <1>1, <1>2, <1>3 DEF LinkInv, SymbolsCached
<1>6. WordsThere' /\ WordsLinked'
  BY <1>2, <1>4 DEF LinkInv, WordsThere, WordsLinked
<1> QED
  BY <1>5, <1>6 DEF LinkInv

LEMMA LinkUnchanged ==
  ASSUME LinkInv, UNCHANGED <<image, symbol, word, symbolMap, place, storage>>,
         stage' = "link" => stage = "link"
  PROVE  LinkInv'
<1>1. Behind' = Behind
  BY DEF Behind, BehindIn
<1>2. LinkControl'
  BY DEF LinkInv, LinkControl
<1> QED
  BY <1>1, <1>2, LinkKept

\* An image as it was read, with nothing done to it
LEMMA LinkFresh ==
  ASSUME WellFormed(image)', symbol' = image'.symbol, word' = image'.word, place' = Start,
         word' = [a \in DOMAIN word' |-> word'[a]], stage' # "link"
  PROVE  LinkInv'
<1>1. Behind' = {}
  <2>1. \A s \in DOMAIN image'.section : BehindIn(s)' = {}
    <3> SUFFICES ASSUME NEW s \in DOMAIN image'.section, NEW r \in BehindIn(s)' PROVE FALSE
      OBVIOUS
    <3>1. s \in Nat /\ r \in Nat /\ r > 0
      BY Relocations DEF BehindIn
    <3>2. s < 0 \/ (s = 0 /\ r < 1)
      BY DEF BehindIn, Start
    <3> QED
      BY <3>1, <3>2
  <2> QED
    BY <2>1 DEF Behind
<1>2. \A n : ~Named(n)'
  BY <1>1 DEF Named
<1>3. LinkControl'
  BY DEF LinkControl, Start
<1>4. image'.symbol \in Seq(Symbol)
  BY DEF WellFormed
<1>5. ASSUME NEW n \in DOMAIN image'.symbol
      PROVE  image'.symbol[n] \in Symbol
  <2>1. n \in 1..Len(image'.symbol)
    BY <1>4
  <2> QED
    BY <1>4, <2>1, ElementOfSeq, Zenon
<1>6. SymbolsCached'
  <2>1. symbol' = [n \in DOMAIN image'.symbol |-> symbol'[n]]
    BY <1>4
  <2>2. \A n \in DOMAIN image'.symbol :
          symbol'[n] = [f \in {"name", "value", "size", "weak", "shndx"} |-> symbol'[n][f]]
    BY <1>5 DEF Symbol
  <2> QED
    BY <1>2, <2>1, <2>2 DEF SymbolsCached
<1>7. WordsThere' /\ WordsLinked'
  BY <1>1 DEF WordsThere, WordsLinked
<1> QED
  BY <1>3, <1>6, <1>7 DEF LinkInv

LEMMA NoImageWellFormed == WellFormed(NoImage)
BY DEF WellFormed, NoImage

LEMMA LinkInit == BootInit => LinkInv
<1> SUFFICES ASSUME BootInit PROVE LinkInv
  OBVIOUS
<1>1. image = NoImage /\ symbol = <<>> /\ word = <<>> /\ place = Start /\ stage # "link"
  BY DEF BootInit, ElfInit
<1>2. Behind = {}
  BY <1>1 DEF Behind, NoImage
<1>3. LinkControl
  BY <1>1, NoImageWellFormed DEF LinkControl, Start
<1>4. SymbolsCached /\ WordsThere /\ WordsLinked
  BY <1>1, <1>2 DEF SymbolsCached, WordsThere, WordsLinked, NoImage
<1> QED
  BY <1>3, <1>4 DEF LinkInv

\* Steps of main that do not touch the image
LEMMA NotLinking ==
  ASSUME \/ LastMemory \/ SkipRegion \/ CreatePageman \/ NoMemory \/ InitAllocator
         \/ CreateRamfs \/ MountRoot \/ MountDrive \/ NoDrive \/ MountDisc
         \/ LookupMedia \/ MountBoot \/ LookupExec \/ LinkHalt \/ LinkWild \/ ExecHalt
         \/ Serve \/ ProgramCall
  PROVE  UNCHANGED elf /\ (stage' = "link" => stage = "link")
BY DEF LastMemory, SkipRegion, CreatePageman, NoMemory, InitAllocator, CreateRamfs, MountRoot,
       MountDrive, NoDrive, MountDisc, LookupMedia, MountBoot, LookupExec, LinkHalt, LinkWild, ExecHalt,
       Serve, ProgramCall, Main, Stage

LEMMA ReadStep == LinkInv /\ ReadExec => LinkInv'
<1> SUFFICES ASSUME LinkInv, ReadExec PROVE LinkInv'
  OBVIOUS
<1>1. CASE UNCHANGED <<stage, elf>>
  BY <1>1, LinkUnchanged DEF elf
<1>2. ASSUME stage' = "export", NEW im \in Images, LoadImage(im)
      PROVE  LinkInv'
  <2>1. WellFormed(im) /\ image' = im
    BY <1>2, ImageAssumption DEF LoadImage
  <2>2. WellFormed(image)'
    BY <2>1 DEF WellFormed
  <2>3. word' = [a \in DOMAIN word' |-> word'[a]]
    BY <1>2, <2>1 DEF WellFormed, LoadImage
  <2> QED
    BY <1>2, <2>2, <2>3, LinkFresh DEF LoadImage
<1> QED
  BY <1>1, <1>2 DEF ReadExec

LEMMA EnterStep == LinkInv /\ EnterProgram => LinkInv'
<1> SUFFICES ASSUME LinkInv, EnterProgram PROVE LinkInv'
  OBVIOUS
<1>1. /\ image' = NoImage /\ symbol' = <<>> /\ word' = <<>> /\ place' = Start
      /\ stage' # "link"
  BY DEF EnterProgram, Enter
<1>2. WellFormed(image)'
  BY <1>1, NoImageWellFormed DEF WellFormed
<1>3. symbol' = image'.symbol /\ word' = image'.word /\ word' = [a \in DOMAIN word' |-> word'[a]]
  BY <1>1 DEF NoImage
<1> QED
  BY <1>1, <1>2, <1>3, LinkFresh

\* The exports come before the first relocation: nothing is cached of them.
LEMMA ExportStep == LinkInv /\ Export => LinkInv'
<1> SUFFICES ASSUME LinkInv, Export PROVE LinkInv'
  OBVIOUS
<1>1. symbolMap' = Exports /\ UNCHANGED <<image, symbol, word, place, storage>>
  BY DEF Export, AddSymbols
<1>2. Behind' = Behind
  BY <1>1 DEF Behind, BehindIn
<1>3. LinkControl'
  BY <1>1 DEF LinkInv, LinkControl
<1> QED
  BY <1>1, <1>2, <1>3, LinkKept

LEMMA NextSectionStep ==
  ASSUME LinkInv, NextSection, stage' = stage
  PROVE  LinkInv'
<1>1. /\ place.section \in DOMAIN image.section /\ ~Pending
      /\ place' = [section |-> place.section + 1, rel |-> 1]
      /\ UNCHANGED <<image, symbol, word, symbolMap, storage>>
  BY DEF NextSection
<1>2. Behind' = Behind
  BY <1>1, BehindSameNext DEF LinkInv
<1>3. LinkControl'
  BY <1>1 DEF LinkInv, LinkControl
<1> QED
  BY <1>1, <1>2, <1>3, LinkKept

LEMMA LinkStep == LinkInv /\ [BootNext]_bootVars => LinkInv'
<1> SUFFICES ASSUME LinkInv, [BootNext]_bootVars PROVE LinkInv'
  OBVIOUS
<1>1. CASE ReadExec
  BY <1>1, ReadStep
<1>2. CASE Export
  BY <1>2, ExportStep
<1>3. CASE Link
  <2>1. stage = "link" /\ stage' = stage
    BY <1>3 DEF Link, Stage
  <2> QED
    BY <1>3, <2>1, RelocateStep, NextSectionStep DEF Link
<1>4. CASE ExecImage
  BY <1>4, LinkUnchanged DEF ExecImage, FindMain
<1>5. CASE EnterProgram
  BY <1>5, EnterStep
<1>6. CASE UNCHANGED bootVars
  BY <1>6, LinkUnchanged DEF bootVars, elf
<1>7. CASE UNCHANGED elf /\ (stage' = "link" => stage = "link")
  BY <1>7, LinkUnchanged DEF elf
<1> QED
  BY <1>1, <1>2, <1>3, <1>4, <1>5, <1>6, <1>7, NotLinking DEF BootNext, MainStep

\* Every word of the program holds what its relocation means, at every point of
\* link_elf32's loops, for every image and whatever main exports: all that
\* resolve_symbol caches is the symbol's own address.
THEOREM LinkedRightCorrect == BootSpec => []LinkedRight
<1>1. BootSpec => []LinkInv
  BY LinkInit, LinkStep, PTL DEF BootSpec
<1> QED
  BY <1>1, LinkInvImplies, PTL

-----------------------------------------------------------------------------
(* The entrance                                                            *)

NamesKept == \A n \in DOMAIN image.symbol : symbol[n].name = image.symbol[n].name

EntersInv == LinkInv /\ NamesKept /\ EntersMain

\* What a program calls main is found without its section's being looked up.
LEMMA MainPlaced ==
  ASSUME EntersInv, NEW n \in Mains
  PROVE  /\ n \in DOMAIN image.symbol /\ ~Unplaced(image.symbol[n])
         /\ image.symbol[n].shndx \in DOMAIN image.section
         /\ Home(n) = Content(image.symbol[n].shndx) + image.symbol[n].value
<1>1. n \in DOMAIN image.symbol /\ image.symbol[n].name = "main"
  BY DEF Mains, EntersInv, LinkInv, SymbolsCached, NamesKept
<1>2. /\ image.symbol[n].shndx \in DOMAIN image.section \ {SHN_UNDEF, SHN_COMMON}
      /\ image.section[image.symbol[n].shndx].type # "NOBITS"
      /\ SHN_ABS \notin DOMAIN image.section
  BY <1>1 DEF EntersInv, LinkInv, LinkControl, WellFormed
<1>3. ~Unplaced(image.symbol[n])
  BY <1>2 DEF Unplaced
<1> QED
  BY <1>1, <1>2, <1>3 DEF Home

\* Steps that keep the image, its names, and the entrance if there is one
LEMMA EntersKept ==
  ASSUME EntersInv, LinkInv', image' = image, entrance' = entrance, Behind \subseteq Behind',
         \A n \in DOMAIN image.symbol : symbol'[n].name = symbol[n].name
  PROVE  EntersInv'
<1>1. DOMAIN symbol' = DOMAIN symbol /\ DOMAIN symbol = DOMAIN image.symbol
  BY DEF EntersInv, LinkInv, SymbolsCached
<1>2. Mains' = Mains
  BY <1>1 DEF Mains
<1>3. LastMain' = LastMain
  BY <1>2 DEF LastMain
<1>4. \A n \in LastMain : Home(n)' = Home(n)
  <2> SUFFICES ASSUME NEW n \in LastMain PROVE Home(n)' = Home(n)
    OBVIOUS
  <2>1. ~Unplaced(image.symbol[n])
    BY MainPlaced DEF LastMain
  <2> QED
    BY <2>1 DEF Home, Unplaced, Content
<1>5. EntersMain'
  BY <1>3, <1>4 DEF EntersInv, EntersMain
<1> QED
  BY <1>5 DEF EntersInv, NamesKept

LEMMA EntersInit == BootInit => EntersInv
BY LinkInit DEF BootInit, ElfInit, EntersInv, NamesKept, EntersMain, NoImage

LEMMA EntersStep == EntersInv /\ [BootNext]_bootVars => EntersInv'
<1> SUFFICES ASSUME EntersInv, [BootNext]_bootVars PROVE EntersInv'
  OBVIOUS
<1>0. LinkInv'
  BY LinkStep DEF EntersInv
<1>1. ASSUME UNCHANGED elf PROVE EntersInv'
  <2>1. Behind' = Behind
    BY <1>1 DEF elf, Behind, BehindIn
  <2> QED
    BY <1>0, <1>1, <2>1, EntersKept DEF elf
<1>2. CASE ReadExec
  <2>1. CASE UNCHANGED <<stage, elf>>
    BY <1>1, <2>1
  <2>2. CASE \E im \in Images : LoadImage(im)
    BY <1>0, <2>2 DEF LoadImage, EntersInv, NamesKept, EntersMain
  <2> QED
    BY <1>2, <2>1, <2>2 DEF ReadExec
<1>3. CASE Export
  <2>1. Behind' = Behind
    BY <1>3 DEF Export, AddSymbols, Behind, BehindIn
  <2> QED
    BY <1>0, <1>3, <2>1, EntersKept DEF Export, AddSymbols
<1>4. CASE Link
  <2>1. CASE Relocate
    <3>1. Behind \subseteq Behind'
      BY <2>1, BehindOneMore DEF EntersInv, LinkInv, Relocate
    <3>2. PICK S : symbol' = [symbol EXCEPT ![Relocation.sym] = Cached(@, S)]
      BY <2>1 DEF Relocate
    <3>3. \A n \in DOMAIN image.symbol : symbol'[n].name = symbol[n].name
      BY <3>2 DEF Cached, EntersInv, LinkInv, SymbolsCached
    <3> QED
      BY <1>0, <2>1, <3>1, <3>3, EntersKept DEF Relocate
  <2>2. CASE NextSection
    <3>1. Behind' = Behind
      BY <2>2, BehindSameNext DEF EntersInv, LinkInv, NextSection
    <3> QED
      BY <1>0, <2>2, <3>1, EntersKept DEF NextSection
  <2> QED
    BY <1>4, <2>1, <2>2 DEF Link
<1>5. CASE ExecImage
  <2>1. UNCHANGED <<image, symbol, word, symbolMap, place, storage>>
    BY <1>5 DEF ExecImage, FindMain
  <2>2. PICK n \in LastMain : entrance' = Entrance(symbol[n])
    BY <1>5 DEF ExecImage, FindMain
  <2>3. Behind' = Behind /\ LastMain' = LastMain
    BY <2>1 DEF Behind, BehindIn, LastMain, Mains
  <2>4. \A m : Home(m)' = Home(m)
    BY <2>1 DEF Home, Unplaced, Content
  <2>5. CASE Named(n)
    BY <1>0, <2>1, <2>2, <2>3, <2>5 DEF EntersInv, NamesKept, EntersMain, Named
  <2>6. CASE ~Named(n)
    <3>1. n \in Mains
      BY DEF LastMain
    <3>2. symbol[n] = image.symbol[n]
      BY <2>6, <3>1, MainPlaced DEF EntersInv, LinkInv, SymbolsCached
    <3>3. entrance' = Home(n)
      BY <2>2, <3>1, <3>2, MainPlaced DEF Entrance
    <3> QED
      BY <1>0, <2>1, <2>3, <2>4, <3>3 DEF EntersInv, NamesKept, EntersMain
  <2> QED
    BY <2>5, <2>6
<1>6. CASE EnterProgram
  BY <1>0, <1>6 DEF EnterProgram, Enter, EntersInv, NamesKept, EntersMain, NoImage
<1>7. CASE UNCHANGED bootVars
  BY <1>1, <1>7 DEF bootVars
<1> QED
  BY <1>1, <1>2, <1>3, <1>4, <1>5, <1>6, <1>7, NotLinking DEF BootNext, MainStep

\* The program is entered at the last "main" of its table, for every image whose
\* relocations leave that symbol alone.
THEOREM EntersMainCorrect == BootSpec => []EntersMain
<1>1. BootSpec => []EntersInv
  BY EntersInit, EntersStep, PTL DEF BootSpec
<1>2. EntersInv => EntersMain
  BY DEF EntersInv
<1> QED
  BY <1>1, <1>2, PTL

-----------------------------------------------------------------------------
(* The memory of the page manager                                          *)

\* The end of an entry
End32(e) == e.base + e.limit

\* Every entry of memory below 2 ^ 32 ends at maxAddr or below, or just above it
\* at 2 ^ 32.
Reached ==
  \A x \in DOMAIN memMap :
    memMap[x].type = 1 /\ End32(memMap[x]) <= ADDRESSES =>
      maxAddr >= End32(memMap[x]) \/ maxAddr = ADDRESSES - 1

MemoryInv ==
  /\ maxAddr \in Nat
  /\ stage = "limit" =>
       /\ memMap \in MemoryMaps /\ i \in 0..Len(memMap) /\ man = None
       /\ \A x \in DOMAIN memMap : x > i => memMap[x].type # 1
  /\ stage = "region" =>
       memMap \in MemoryMaps /\ i \in Nat \ {0} /\ man = None /\ Reached
  /\ man # None => stage = "print"
  /\ ManagerCovered

LEMMA MapEntries ==
  ASSUME NEW m \in MemoryMaps, NEW x \in DOMAIN m
  PROVE  /\ DOMAIN m = 1..Len(m) /\ Len(m) \in Nat
         /\ m[x].base \in Nat /\ m[x].limit \in Nat /\ m[x].type \in Nat
<1>1. m \in Seq(MemoryEntry)
  BY MemoryMapAssumption
<1>2. DOMAIN m = 1..Len(m) /\ Len(m) \in Nat
  BY <1>1
<1>3. m[x] \in MemoryEntry
  BY <1>1, <1>2, ElementOfSeq, Zenon
<1> QED
  BY <1>2, <1>3 DEF MemoryEntry

\* Whole pages below end have their bit where the last address is at least end,
\* and where it is the last of 2 ^ 32 for the pages are then one short.
LEMMA LastPage ==
  ASSUME NEW P \in Nat \ {0}, NEW A \in Nat, NEW end \in Nat \ {0}, NEW last \in Nat,
         A % (2 * P) = 0, end % P = 0, end <= A, last >= end \/ last = A - 1
  PROVE  ((end - 1) \div P) \div 2 <= ((last \div P) - 1) \div 2
<1>1. PICK k \in Nat : end = k * P
  BY ModZero
<1>2. k >= 1
  BY <1>1, SMT
<1>3. (end - 1) \div P = k - 1
  <2>1. end - 1 = (k - 1) * P + (P - 1) /\ k - 1 \in Nat /\ P - 1 \in 0..(P - 1) /\ end - 1 \in Nat
    BY <1>1, <1>2, SMT
  <2> QED
    BY <2>1, OneQuotient
<1>4. CASE last >= end
  <2>1. end \div P = k
    BY <1>1, DivUnique
  <2>2. k <= last \div P /\ last \div P \in Nat
    BY <1>4, <2>1, DivMono, DivMod
  <2> QED
    BY <1>2, <1>3, <2>2
<1>5. CASE last < end
  <2>1. end = A /\ last = end - 1
    BY <1>5
  <2>2. 2 * P \in Nat \ {0}
    OBVIOUS
  <2>3. PICK j \in Nat : A = j * (2 * P)
    BY <2>2, ModZero
  <2>4. A = (2 * j) * P /\ 2 * j \in Nat
    BY <2>3, SMT
  <2>5. k = 2 * j
    BY <1>1, <2>1, <2>4, DivUnique
  <2>6. (2 * j - 1) \div 2 <= (2 * j - 1 - 1) \div 2
    BY <1>2, <2>5
  <2> QED
    BY <1>3, <2>1, <2>5, <2>6
<1> QED
  BY <1>4, <1>5

LEMMA MemoryInit == BootInit => MemoryInv
BY MapEntries, MemoryMapAssumption DEF BootInit, MemoryInv, ManagerCovered

LEMMA LastMemoryStep == MemoryInv /\ LastMemory => MemoryInv'
<1> SUFFICES ASSUME MemoryInv, LastMemory PROVE MemoryInv'
  OBVIOUS
<1>1. /\ memMap \in MemoryMaps /\ i \in 0..Len(memMap) /\ man = None /\ maxAddr \in Nat
      /\ \A x \in DOMAIN memMap : x > i => memMap[x].type # 1
      /\ memMap' = memMap /\ man' = None /\ stage = "limit"
  BY DEF MemoryInv, LastMemory, Main
<1>2. memMap \in Seq(MemoryEntry) /\ DOMAIN memMap = 1..Len(memMap) /\ Len(memMap) \in Nat
  BY <1>1, MemoryMapAssumption
<1>3. ADDRESSES \in Nat /\ ADDRESSES > 0
  BY LayoutAssumption
<1>4. CASE i = 0
  <2>1. stage' = "region" /\ i' = 1 /\ maxAddr' = maxAddr
    BY <1>4 DEF LastMemory
  <2>2. Reached'
    BY <1>1, <1>2, <1>4 DEF Reached
  <2> QED
    BY <1>1, <2>1, <2>2 DEF MemoryInv, ManagerCovered
<1>5. CASE i # 0 /\ memMap[i].type = 1
  <2> DEFINE e == End32(memMap[i])
  <2>1. stage' = "region" /\ i' = 1 /\ maxAddr' = IF e > ADDRESSES - 1 THEN ADDRESSES - 1 ELSE e
    BY <1>5 DEF LastMemory, End32
  <2>2. i \in DOMAIN memMap /\ e \in Nat /\ memMap[i].base \in Nat /\ memMap[i].base <= e
    BY <1>1, <1>2, <1>5, MapEntries DEF End32
  <2>3. ASSUME NEW x \in DOMAIN memMap, memMap[x].type = 1
        PROVE  End32(memMap[x]) <= e /\ End32(memMap[x]) \in Nat
    <3>1. x <= i /\ x \in Nat /\ End32(memMap[x]) \in Nat
      BY <1>1, <1>2, <2>3, MapEntries DEF End32
    <3>2. x < i => End32(memMap[x]) <= memMap[i].base
      BY <1>1, <2>2, MemoryMapAssumption DEF End32
    <3>3. x = i => End32(memMap[x]) = e
      OBVIOUS
    <3> HIDE DEF e
    <3> QED
      BY <1>1, <1>2, <2>2, <3>1, <3>2, <3>3
  <2> HIDE DEF e
  <2>4. Reached'
    <3> SUFFICES ASSUME NEW x \in DOMAIN memMap, memMap[x].type = 1
                 PROVE  maxAddr' >= End32(memMap[x]) \/ maxAddr' = ADDRESSES - 1
      BY <1>1 DEF Reached, End32
    <3> QED
      BY <1>3, <2>1, <2>2, <2>3
  <2>5. maxAddr' \in Nat
    BY <1>3, <2>1, <2>2
  <2> QED
    BY <1>1, <2>1, <2>4, <2>5 DEF MemoryInv, ManagerCovered
<1>6. CASE i # 0 /\ memMap[i].type # 1
  <2>1. i' = i - 1 /\ maxAddr' = maxAddr /\ stage' = stage
    BY <1>6 DEF LastMemory
  <2>2. \A x \in DOMAIN memMap : x > i - 1 => memMap[x].type # 1
    BY <1>1, <1>2, <1>6
  <2>3. i - 1 \in 0..Len(memMap)
    BY <1>1, <1>2, <1>6
  <2> QED
    BY <1>1, <2>1, <2>2, <2>3 DEF MemoryInv, ManagerCovered
<1> QED
  BY <1>4, <1>5, <1>6

\* What is cut off a region before AVAIL_MEM_START leaves whole pages of it.
LEMMA Cut ==
  ASSUME NEW m \in MemoryMaps, NEW x \in DOMAIN m, Usable(m[x])
  PROVE  LET e == m[x]
             r == FromAvail(e)
         IN  /\ r.base \in Nat /\ r.limit \in Nat /\ r.base >= AVAIL_MEM_START
             /\ e.base <= r.base /\ End32(r) = End32(e)
             /\ End32(r) > 0 /\ End32(r) <= ADDRESSES
             /\ End32(r) % PAGE_SIZE = 0
             /\ r.base + (r.limit \div PAGE_SIZE) * PAGE_SIZE = End32(r)
             /\ (r.limit \div PAGE_SIZE) \in Nat
<1> DEFINE e == m[x]
           r == FromAvail(e)
<1>1. /\ PAGE_SIZE \in Nat \ {0} /\ LOW \in Nat /\ AVAIL_MEM_START \in Nat /\ ADDRESSES \in Nat
      /\ LOW < AVAIL_MEM_START /\ AVAIL_MEM_START < ADDRESSES /\ AVAIL_MEM_START % PAGE_SIZE = 0
  BY LayoutAssumption
<1>2. e.base \in Nat /\ e.limit \in Nat
  BY MapEntries
<1>3. /\ e.type = 1 /\ e.base >= LOW /\ e.base <= ADDRESSES - 1
      /\ e.base >= AVAIL_MEM_START \/ (e.base + e.limit) % ADDRESSES > AVAIL_MEM_START
  BY DEF Usable
<1>4. e.base % PAGE_SIZE = 0 /\ e.limit % PAGE_SIZE = 0
  BY <1>3, MemoryMapAssumption
<1>5. e.base >= ADDRESSES \/ e.base + e.limit <= ADDRESSES
  BY <1>3, MemoryMapAssumption
<1>6. e.base + e.limit <= ADDRESSES
  BY <1>1, <1>2, <1>3, <1>5
<1>7. e.base < AVAIL_MEM_START => e.base + e.limit > AVAIL_MEM_START
  <2>1. (e.base + e.limit) % ADDRESSES <= e.base + e.limit
    <3>1. e.base + e.limit \in Nat /\ ADDRESSES \in Nat \ {0}
      BY <1>1, <1>2
    <3> QED
      BY <3>1, ModBelow
  <2> QED
    BY <1>1, <1>2, <1>3, <2>1
<1>8. End32(e) \in Nat /\ End32(e) > 0 /\ End32(e) % PAGE_SIZE = 0
  BY <1>1, <1>2, <1>3, <1>4, <1>7, ModSum DEF End32
<1>9. /\ r.base \in Nat /\ r.limit \in Nat /\ r.base >= AVAIL_MEM_START
      /\ e.base <= r.base /\ End32(r) = End32(e) /\ r.base % PAGE_SIZE = 0
  <2>1. CASE e.base < AVAIL_MEM_START
    <3>1. r.base = AVAIL_MEM_START /\ r.limit = e.limit - (AVAIL_MEM_START - e.base)
      BY <2>1 DEF FromAvail
    <3> HIDE DEF r
    <3> QED
      BY <1>1, <1>2, <1>7, <2>1, <3>1 DEF End32
  <2>2. CASE ~(e.base < AVAIL_MEM_START)
    <3>1. r.base = e.base /\ r.limit = e.limit
      BY <2>2 DEF FromAvail
    <3> HIDE DEF r
    <3> QED
      BY <1>1, <1>2, <1>4, <2>2, <3>1 DEF End32
  <2> QED
    BY <2>1, <2>2
<1> HIDE DEF r
<1>10. r.limit % PAGE_SIZE = 0
  <2>1. r.limit = End32(e) - r.base /\ r.base <= End32(e)
    BY <1>8, <1>9 DEF End32
  <2> QED
    BY <1>1, <1>8, <1>9, <2>1, ModDiff
<1>11. (r.limit \div PAGE_SIZE) * PAGE_SIZE = r.limit /\ (r.limit \div PAGE_SIZE) \in Nat
  BY <1>1, <1>9, <1>10, ModZero
<1>12. End32(e) <= ADDRESSES
  BY <1>6 DEF End32
<1>13. r.base + r.limit = End32(r)
  BY DEF End32
<1> QED
  BY <1>8, <1>9, <1>11, <1>12, <1>13 DEF r

LEMMA CreateStep == MemoryInv /\ CreatePageman => MemoryInv'
<1> SUFFICES ASSUME MemoryInv, CreatePageman PROVE MemoryInv'
  OBVIOUS
<1>1. /\ memMap \in MemoryMaps /\ i \in Nat \ {0} /\ i <= Len(memMap) /\ man = None
      /\ maxAddr \in Nat /\ Reached /\ Usable(memMap[i]) /\ stage = "region"
  BY DEF MemoryInv, CreatePageman, Main
<1> DEFINE e == memMap[i]
           r == FromAvail(e)
<1>2. CASE PageCost <= r.limit \div PAGE_SIZE
  <2>1. /\ man' = [limit |-> maxAddr \div PAGE_SIZE, base |-> r.base, size |-> r.limit \div PAGE_SIZE]
        /\ stage' = "print" /\ UNCHANGED <<memMap, maxAddr>>
    BY <1>2 DEF CreatePageman
  <2>2. memMap \in Seq(MemoryEntry)
    BY <1>1, MemoryMapAssumption
  <2>3. i \in DOMAIN memMap
    BY <1>1, <2>2
  <2>4. /\ r.base \in Nat /\ r.base >= AVAIL_MEM_START
        /\ e.base <= r.base /\ End32(r) = End32(e)
        /\ End32(r) > 0 /\ End32(r) <= ADDRESSES /\ End32(r) % PAGE_SIZE = 0
        /\ r.base + (r.limit \div PAGE_SIZE) * PAGE_SIZE = End32(r)
        /\ e.type = 1
    BY <1>1, <2>3, Cut DEF Usable
  <2>5. /\ PAGE_SIZE \in Nat \ {0} /\ ADDRESSES \in Nat /\ ADDRESSES > 0
        /\ ADDRESSES % (2 * PAGE_SIZE) = 0
    BY LayoutAssumption
  <2>6. End32(e) \in Nat
    BY <2>3, <1>1, MapEntries DEF End32
  <2>7. maxAddr >= End32(e) \/ maxAddr = ADDRESSES - 1
    BY <1>1, <2>3, <2>4 DEF Reached
  <2> HIDE DEF r, e
  <2>8. ((End32(r) - 1) \div PAGE_SIZE) \div 2 <= ((maxAddr \div PAGE_SIZE) - 1) \div 2
    <3>1. End32(r) \in Nat \ {0} /\ (maxAddr >= End32(r) \/ maxAddr = ADDRESSES - 1)
      BY <2>4, <2>6, <2>7
    <3> QED
      BY <1>1, <2>4, <2>5, <3>1, LastPage
  <2>9. /\ man'.base = r.base /\ man'.limit = maxAddr \div PAGE_SIZE
        /\ man'.base + man'.size * PAGE_SIZE = End32(r)
    BY <2>1, <2>4
  <2>10. ManagerCovered'
    <3>1. End32(e) <= memMap[i].base + memMap[i].limit
      BY <2>6 DEF End32, e
    <3> QED
      BY <2>1, <2>3, <2>4, <2>8, <2>9, <3>1 DEF ManagerCovered, e
  <2> QED
    BY <1>1, <2>1, <2>10 DEF MemoryInv
<1>3. CASE ~(PageCost <= r.limit \div PAGE_SIZE)
  <2>1. UNCHANGED <<memory, stage>>
    BY <1>3 DEF CreatePageman
  <2> QED
    BY <1>1, <2>1 DEF memory, MemoryInv, ManagerCovered, Reached
<1> QED
  BY <1>2, <1>3

LEMMA MemoryUnchanged ==
  ASSUME MemoryInv, UNCHANGED memory, stage' = stage
  PROVE  MemoryInv'
BY DEF MemoryInv, memory, ManagerCovered, Reached

\* Past the printing of the map there is no memory map left to speak of.
LEMMA MemoryGone ==
  ASSUME MemoryInv, stage' \notin {"limit", "region", "print"}, man' = None, maxAddr' \in Nat
  PROVE  MemoryInv'
BY DEF MemoryInv, ManagerCovered

LEMMA MemoryStep == MemoryInv /\ [BootNext]_bootVars => MemoryInv'
<1> SUFFICES ASSUME MemoryInv, [BootNext]_bootVars PROVE MemoryInv'
  OBVIOUS
<1>1. CASE LastMemory
  BY <1>1, LastMemoryStep
<1>2. CASE SkipRegion
  BY <1>2 DEF SkipRegion, Main, MemoryInv, ManagerCovered, Reached
<1>3. CASE CreatePageman
  BY <1>3, CreateStep
<1>4. CASE InitAllocator
  BY <1>4, MemoryGone DEF InitAllocator
<1>5. CASE UNCHANGED <<memory, stage>>
  BY <1>5, MemoryUnchanged
<1>6. CASE /\ UNCHANGED memory
           /\ stage \notin {"limit", "region", "print"} /\ stage' \notin {"limit", "region", "print"}
  BY <1>6, MemoryGone DEF MemoryInv, memory
<1>7. NoMemory \/ NoDrive \/ LinkHalt \/ LinkWild \/ ExecHalt \/ Link \/ Serve \/ ProgramCall \/ UNCHANGED bootVars
        => UNCHANGED <<memory, stage>>
  BY DEF NoMemory, NoDrive, LinkHalt, LinkWild, ExecHalt, Link, Serve, ProgramCall, bootVars, Stage
<1>8. CreateRamfs \/ MountRoot \/ MountDrive \/ MountDisc \/ LookupMedia \/ MountBoot \/ LookupExec
        \/ ReadExec \/ Export \/ ExecImage \/ EnterProgram
        => /\ UNCHANGED memory
           /\ stage \notin {"limit", "region", "print"} /\ stage' \notin {"limit", "region", "print"}
  BY DEF CreateRamfs, MountRoot, MountDrive, MountDisc, LookupMedia, MountBoot, LookupExec,
         ReadExec, Export, ExecImage, EnterProgram, Main, Stage, elf
<1> QED
  BY <1>1, <1>2, <1>3, <1>4, <1>5, <1>6, <1>7, <1>8 DEF BootNext, MainStep

\* What main gives to pageman_create is memory of the map and its pages have
\* their bits, for every map of whole pages in ascending order.
THEOREM ManagerCoveredCorrect == BootSpec => []ManagerCovered
<1>1. BootSpec => []MemoryInv
  BY MemoryInit, MemoryStep, PTL DEF BootSpec
<1>2. MemoryInv => ManagerCovered
  BY DEF MemoryInv
<1> QED
  BY <1>1, <1>2, PTL

-----------------------------------------------------------------------------
(* The paths of the boot                                                   *)

Used == NameSeq \ {<<>>}
Drive == <<dev, cdrom>>

LEMMA PrefixNames ==
  ASSUME NEW p \in NameSeq, NEW q \in NameSeq, IsPrefix(p, q)
  PROVE  Len(p) <= Len(q) /\ \A j \in 1..Len(p) : p[j] = q[j]
<1>1. Len(p) \in Nat /\ Len(q) \in Nat /\ Len(p) <= Len(q)
  BY DEF NameSeq, IsPrefix
<1>2. SubSeq(p, 1, Len(p)) = SubSeq(q, 1, Len(p))
  BY DEF IsPrefix
<1>3. \A j \in 1..Len(p) : SubSeq(p, 1, Len(p))[j] = p[j] /\ SubSeq(q, 1, Len(p))[j] = q[j]
  BY <1>1 DEF NameSeq
<1> QED BY <1>1, <1>2, <1>3

\* main's paths, and what is left of them without a slash at the end
LEMMA BootPaths ==
  /\ <<Empty>> \in Used /\ Drive \in Used /\ Media \in Used /\ BootMedia \in Used /\ Exec \in Used
  /\ Plain(Drive) \in NameSeq /\ Plain(Media) \in NameSeq /\ Plain(BootMedia) \in NameSeq
  /\ Len(Plain(Drive)) = 2 /\ Plain(Drive)[1] = dev
  /\ Len(Plain(Media)) = 2 /\ Plain(Media)[1] = media /\ Plain(Media)[2] = cdrom
  /\ Len(Plain(BootMedia)) = 2 /\ Plain(BootMedia)[1] = media /\ Plain(BootMedia)[2] = boot
<1>1. {dev, cdrom, media, boot, saki, bootmgr, js_ske} \subseteq Name /\ Empty \notin Name
  BY NamesAssumption, PathAssumption
<1>2. /\ <<Empty>> \in Used /\ Drive \in Used /\ Media \in Used /\ BootMedia \in Used /\ Exec \in Used
  BY <1>1 DEF Used, NameSeq, Drive, Media, BootMedia, Exec
<1>3. /\ Len(Drive) = 2 /\ Drive[1] = dev /\ Last(Drive) # Empty
      /\ Len(Media) = 3 /\ Media[1] = media /\ Media[2] = cdrom /\ Last(Media) = Empty
      /\ Len(BootMedia) = 3 /\ BootMedia[1] = media /\ BootMedia[2] = boot /\ Last(BootMedia) = Empty
  BY <1>1 DEF Drive, Media, BootMedia, Last
<1>4. Len(Plain(Drive)) = 2 /\ Plain(Drive) \in NameSeq /\ Plain(Drive)[1] = dev
  BY <1>2, <1>3, PlainFacts DEF Used
<1>5. Len(Plain(Media)) = 2 /\ Plain(Media) \in NameSeq /\ Plain(Media)[1] = media /\ Plain(Media)[2] = cdrom
  <2>1. /\ Len(Plain(Media)) = Len(Media) - 1 /\ Plain(Media) \in NameSeq
        /\ \A j \in 1..Len(Plain(Media)) : Plain(Media)[j] = Media[j]
    BY <1>2, <1>3, PlainFacts, Zenon DEF Used
  <2> QED BY <1>3, <2>1
<1>6. /\ Len(Plain(BootMedia)) = 2 /\ Plain(BootMedia) \in NameSeq
      /\ Plain(BootMedia)[1] = media /\ Plain(BootMedia)[2] = boot
  <2>1. /\ Len(Plain(BootMedia)) = Len(BootMedia) - 1 /\ Plain(BootMedia) \in NameSeq
        /\ \A j \in 1..Len(Plain(BootMedia)) : Plain(BootMedia)[j] = BootMedia[j]
    BY <1>2, <1>3, PlainFacts, Zenon DEF Used
  <2> QED BY <1>3, <2>1
<1> QED BY <1>2, <1>4, <1>5, <1>6

\* None of the later mounts is on the way of an earlier one.
LEMMA Apart == ~Under(Drive, Media) /\ ~Under(Drive, BootMedia) /\ ~Under(Media, BootMedia)
<1>1. dev # media /\ cdrom # boot
  BY NamesAssumption
<1>2. ~IsPrefix(Plain(Media), Plain(Drive))
  <2>1. ASSUME IsPrefix(Plain(Media), Plain(Drive)) PROVE Plain(Media)[1] = Plain(Drive)[1]
    <3>1. \A k \in 1..Len(Plain(Media)) : Plain(Media)[k] = Plain(Drive)[k]
      BY <2>1, BootPaths, PrefixNames, Zenon
    <3>2. Len(Plain(Media)) = 2
      BY BootPaths
    <3> QED BY <3>1, <3>2
  <2> QED BY <1>1, <2>1, BootPaths
<1>3. ~IsPrefix(Plain(BootMedia), Plain(Drive))
  <2>1. ASSUME IsPrefix(Plain(BootMedia), Plain(Drive)) PROVE Plain(BootMedia)[1] = Plain(Drive)[1]
    <3>1. \A k \in 1..Len(Plain(BootMedia)) : Plain(BootMedia)[k] = Plain(Drive)[k]
      BY <2>1, BootPaths, PrefixNames, Zenon
    <3>2. Len(Plain(BootMedia)) = 2
      BY BootPaths
    <3> QED BY <3>1, <3>2
  <2> QED BY <1>1, <2>1, BootPaths
<1>4. ~IsPrefix(Plain(BootMedia), Plain(Media))
  <2>1. ASSUME IsPrefix(Plain(BootMedia), Plain(Media)) PROVE Plain(BootMedia)[2] = Plain(Media)[2]
    <3>1. \A k \in 1..Len(Plain(BootMedia)) : Plain(BootMedia)[k] = Plain(Media)[k]
      BY <2>1, BootPaths, PrefixNames, Zenon
    <3>2. Len(Plain(BootMedia)) = 2
      BY BootPaths
    <3> QED BY <3>1, <3>2
  <2> QED BY <1>1, <2>1, BootPaths
<1> QED BY <1>2, <1>3, <1>4 DEF Under

\* A step that makes nodes or none, and mounts none
Grows == Well(nodes') /\ Grown(nodes, nodes') /\ Tidy(nodes, nodes')

LEMMA NodesSame ==
  ASSUME Well(nodes), nodes' = nodes
  PROVE  Grows
<1>1. Shape(nodes) /\ ROOT \in DOMAIN nodes
  BY WellShape
<1>2. Grown(nodes, nodes)
  BY DEF Grown
<1>3. \A x \in DOMAIN nodes, n \in DOMAIN nodes : KidOf(nodes, x, n) => x \in DOMAIN nodes
  OBVIOUS
<1>4. Tidy(nodes, nodes)
  BY <1>1 DEF Tidy
<1> QED BY <1>2, <1>4 DEF Grows

\* What such a step leaves as it was
LEMMA GrowsKeeps ==
  ASSUME Well(nodes), Grows
  PROVE  /\ Mounts' = Mounts /\ Mounts \in Nat /\ DOMAIN nodes \subseteq DOMAIN nodes'
         /\ OneWay(nodes) => OneWay(nodes')
         /\ \A n \in DOMAIN nodes : /\ Free(nodes, n) => Free(nodes', n)
                                    /\ nodes'[n].pointer = nodes[n].pointer
                                    /\ nodes'[n].fs = nodes[n].fs
         /\ \A path : Plain(path) \in NameSeq /\ ResolveIn(nodes, path) # None =>
              ResolveIn(nodes', path) = ResolveIn(nodes, path)
<1>1. Shape(nodes) /\ Shape(nodes') /\ Well(nodes') /\ Grown(nodes, nodes') /\ Tidy(nodes, nodes')
  BY WellShape DEF Grows
<1>2. Mounts' = Mounts /\ Mounts \in Nat
  BY <1>1, MountsSame
<1>3. /\ OneWay(nodes) => OneWay(nodes')
      /\ \A n \in DOMAIN nodes : Free(nodes, n) => Free(nodes', n)
  BY <1>1, TidyKeeps
<1>4. \A path : Plain(path) \in NameSeq /\ ResolveIn(nodes, path) # None =>
        ResolveIn(nodes', path) = ResolveIn(nodes, path)
  BY <1>1, GrownKeeps
<1>5. /\ DOMAIN nodes \subseteq DOMAIN nodes'
      /\ \A n \in DOMAIN nodes : nodes'[n].pointer = nodes[n].pointer /\ nodes'[n].fs = nodes[n].fs
  BY <1>1 DEF Tidy
<1> QED BY <1>2, <1>3, <1>4, <1>5

\* All that serves a call but the mounts makes nodes or none.
LEMMA ServedGrows ==
  ASSUME NEW P \in SUBSET (NameSeq \ {<<>>}), VInv(P), LookupStep \/ MountStep \/ NodeStep, ~Mount, ~MountFs
  PROVE  Grows
<1>1. Well(nodes) /\ nd \in DOMAIN nodes /\ rest \in NameSeq /\ (pc = "node" => rest # <<>>)
  BY DEF VInv, Typed
<1>2. CASE nodes' = nodes
  BY <1>1, <1>2, NodesSame
<1>3. CASE Listable(nd) /\ nodes' = Loaded(nd)
  BY <1>1, <1>3, LoadedNodes DEF Grows
<1>4. CASE /\ Creatable(nd) /\ rest # <<>>
           /\ \E type \in {"FILE", "DIR"} : nodes' = Created(nd, Head(rest), type)
  <2>1. Head(rest) \in Name \cup {Empty}
    BY <1>1, <1>4, HeadTailProperties DEF NameSeq
  <2> QED BY <1>1, <1>4, <2>1, CreatedNodes DEF Grows
<1>5. Here("lookup") => rest # <<>>
  BY SoughtFacts DEF Here, VInv
<1>6. CASE LookupCreate
  <2>1. \E type \in {"FILE", "DIR"} : nodes' = Created(nd, Head(rest), type)
    BY <1>6 DEF LookupCreate
  <2> QED BY <1>4, <1>5, <1>6, <2>1 DEF LookupCreate, Step
<1>7. CASE NodeCreate
  <2>1. \E type \in {"FILE", "DIR"} : nodes' = Created(nd, Head(rest), type)
    BY <1>7 DEF NodeCreate
  <2> QED BY <1>1, <1>4, <1>7, <2>1 DEF NodeCreate, Creating, Here
<1>8. CASE LookupFind \/ NodeList
  BY <1>3, <1>8 DEF LookupFind, NodeList
<1>9. CASE Follow \/ Lookup \/ MountFsSource
  BY <1>2, <1>9 DEF Follow, Lookup, MountFsSource
<1>10. CASE GivesUp
  BY <1>2, <1>10 DEF GivesUp
<1> QED BY <1>6, <1>7, <1>8, <1>9, <1>10, AllGiveUp DEF LookupStep, MountStep, NodeStep

\* What main's mounts have made of the nodes so far
Standing ==
  /\ Mounts <= 3 => OneWay(nodes)
  /\ Mounts <= 1 => Free(nodes, CDROM) /\ nodes[CDROM].pointer = None
  /\ Mounts \in 2..4 => ResolveIn(nodes, Drive) = CDROM
  /\ Mounts \in 3..4 => /\ ResolveIn(nodes, Media) \in DOMAIN nodes
                        /\ nodes[ResolveIn(nodes, Media)].fs = "cdfs"
  /\ Mounts = 4 => ResolveIn(nodes, BootMedia) = ResolveIn(nodes, Media)

\* The mounts that main has asked for before a stage
Asked(st) ==
  IF st \in {"limit", "region", "print", "ramfs", "root"} THEN 0
  ELSE IF st = "drive" THEN 1
  ELSE IF st = "disc" THEN 2
  ELSE IF st \in {"media", "boot"} THEN 3
  ELSE 4

\* The call that main waits for at a stage
Asking ==
  /\ stage \in {"drive", "disc", "media", "boot", "exec", "read"}
  /\ stage = "drive" => /\ call.op = "mount" /\ call.path = <<Empty>>
                        /\ call.node \in DOMAIN nodes \ {ROOT, CDROM} /\ Free(nodes, call.node)
  /\ stage = "disc" => call.op = "mount" /\ call.path = Drive /\ call.node = CDROM
  /\ stage = "media" => call.op = "mount_fs" /\ call.target = Media
  /\ stage = "boot" => call.op = "lookup" /\ call.path = Media
  /\ stage = "exec" => call.op = "mount" /\ call.path = BootMedia /\ call.node = ResolveIn(nodes, Media)
  /\ stage = "read" => call.op = "lookup"

Stages ==
  /\ stage = "run" => Mounts >= 4
  /\ stage # "run" =>
       /\ pc \in {"idle", "lookup", "halted", "wild"}
       /\ pc = "idle" => Mounts = Asked(stage)
       /\ pc = "lookup" => Asking /\ Mounts = Asked(stage) - (IF call.op = "lookup" THEN 0 ELSE 1)
       /\ pc = "idle" /\ stage = "root" => Len(nodes) >= 3 /\ Free(nodes, Len(nodes))
       /\ pc = "idle" /\ stage = "boot" => answer = ResolveIn(nodes, Media)

PathInv == VInv(Used) /\ Standing /\ Stages

LEMMA StandingGrows ==
  ASSUME Well(nodes), Standing, Grows
  PROVE  Standing'
<1>1. /\ Mounts' = Mounts /\ Mounts \in Nat /\ DOMAIN nodes \subseteq DOMAIN nodes'
      /\ OneWay(nodes) => OneWay(nodes')
      /\ \A n \in DOMAIN nodes : /\ Free(nodes, n) => Free(nodes', n)
                                 /\ nodes'[n].pointer = nodes[n].pointer
                                 /\ nodes'[n].fs = nodes[n].fs
      /\ \A path : Plain(path) \in NameSeq /\ ResolveIn(nodes, path) # None =>
           ResolveIn(nodes', path) = ResolveIn(nodes, path)
  BY GrowsKeeps
<1>2. CDROM \in DOMAIN nodes /\ None \notin DOMAIN nodes
  BY WellShape
<1>3. Plain(Drive) \in NameSeq /\ Plain(Media) \in NameSeq /\ Plain(BootMedia) \in NameSeq
  BY BootPaths
<1>4. /\ Mounts <= 3 => OneWay(nodes')
      /\ Mounts <= 1 => Free(nodes', CDROM) /\ nodes'[CDROM].pointer = None
  BY <1>1, <1>2 DEF Standing
<1>5. Mounts \in 2..4 => ResolveIn(nodes', Drive) = CDROM
  BY <1>1, <1>2, <1>3 DEF Standing
<1>6. Mounts \in 3..4 => /\ ResolveIn(nodes', Media) = ResolveIn(nodes, Media)
                         /\ ResolveIn(nodes', Media) \in DOMAIN nodes'
                         /\ nodes'[ResolveIn(nodes', Media)].fs = "cdfs"
  BY <1>1, <1>2, <1>3 DEF Standing
<1>7. Mounts = 4 => ResolveIn(nodes', BootMedia) = ResolveIn(nodes', Media)
  BY <1>1, <1>2, <1>3, <1>6 DEF Standing
<1> QED BY <1>1, <1>4, <1>5, <1>6, <1>7 DEF Standing, Drive, Media, BootMedia

\* What main waits for stays when nodes are made.
LEMMA AskingGrows ==
  ASSUME Well(nodes), Standing, Grows, Asking, Mounts = Asked(stage) - (IF call.op = "lookup" THEN 0 ELSE 1),
         call' = call, stage' = stage
  PROVE  Asking'
<1>1. /\ Mounts' = Mounts /\ Mounts \in Nat /\ DOMAIN nodes \subseteq DOMAIN nodes'
      /\ \A n \in DOMAIN nodes : Free(nodes, n) => Free(nodes', n)
      /\ \A path : Plain(path) \in NameSeq /\ ResolveIn(nodes, path) # None =>
           ResolveIn(nodes', path) = ResolveIn(nodes, path)
  BY GrowsKeeps
<1>2. None \notin DOMAIN nodes
  BY WellShape
<1>3. stage = "exec" => ResolveIn(nodes', Media) = ResolveIn(nodes, Media)
  <2>1. stage = "exec" => Mounts = 3
    BY DEF Asking, Asked
  <2>2. stage = "exec" => ResolveIn(nodes, Media) \in DOMAIN nodes
    BY <2>1 DEF Standing
  <2> QED BY <1>1, <1>2, <2>2, BootPaths
<1>4. stage = "drive" => call.node \in DOMAIN nodes' \ {ROOT, CDROM} /\ Free(nodes', call.node)
  BY <1>1 DEF Asking
<1> QED BY <1>3, <1>4 DEF Asking, Drive, Media, BootMedia

\* What vfs_mount does to the nodes, when main asked for it with a free node
LEMMA MountFacts ==
  ASSUME VInv(Used), Mount
  PROVE  /\ pc = "lookup" /\ call.op = "mount" /\ pc' = "idle"
         /\ Well(nodes) /\ Well(nodes') /\ Shape(nodes) /\ Shape(nodes')
         /\ Mounted(nodes, nodes', nd, call.node) /\ DOMAIN nodes' = DOMAIN nodes
         /\ \A x \in DOMAIN nodes : nodes'[x].fs = nodes[x].fs
         /\ nd \in DOMAIN nodes /\ call.node \in DOMAIN nodes
         /\ call.path \in Used /\ Plain(call.path) \in NameSeq
         /\ Leads(nodes, Plain(call.path), nd, Len(Plain(call.path)))
         /\ Mounts' = Mounts + 1 /\ Mounts \in Nat
<1>1. /\ Here("lookup") /\ pc = "lookup" /\ rest = <<Empty>> /\ call.op = "mount" /\ pc' = "idle"
      /\ nodes' = [nodes EXCEPT ![nd].pointer = call.node]
  BY DEF Mount, Arrived, Here, Return
<1>2. Sought = call.path
  BY <1>1 DEF Sought
<1>3. Used \in SUBSET (NameSeq \ {<<>>})
  BY DEF Used
<1>4. /\ nd \in DOMAIN nodes /\ nodes[nd].pointer = None /\ Well(nodes) /\ Shape(nodes)
      /\ call.path \in Used /\ Plain(call.path) \in NameSeq
      /\ Leads(nodes, Plain(call.path), nd, Len(Plain(call.path)))
  BY <1>1, <1>2, <1>3, ArrivedAt
<1>5. call.node \in DOMAIN nodes
  BY <1>1 DEF VInv, Looking
<1>6. /\ Well(nodes') /\ Mounted(nodes, nodes', nd, call.node) /\ DOMAIN nodes' = DOMAIN nodes
      /\ \A x \in DOMAIN nodes : nodes'[x].fs = nodes[x].fs
  BY <1>1, <1>4, <1>5, MountNodes
<1>7. Mounts' = Mounts + 1 /\ Mounts \in Nat
  BY <1>4, <1>6, MountsMore
<1> QED BY <1>1, <1>4, <1>5, <1>6, <1>7, WellShape

LEMMA MountStands ==
  ASSUME PathInv, Mount
  PROVE  Standing' /\ Mounts' = Mounts + 1 /\ Mounts \in Nat
<1> DEFINE n == call.node
           p == call.path
<1>1. /\ pc = "lookup" /\ call.op = "mount" /\ pc' = "idle"
      /\ Well(nodes) /\ Well(nodes') /\ Shape(nodes) /\ Shape(nodes')
      /\ Mounted(nodes, nodes', nd, n) /\ DOMAIN nodes' = DOMAIN nodes
      /\ \A x \in DOMAIN nodes : nodes'[x].fs = nodes[x].fs
      /\ nd \in DOMAIN nodes /\ n \in DOMAIN nodes
      /\ p \in Used /\ Plain(p) \in NameSeq
      /\ Leads(nodes, Plain(p), nd, Len(Plain(p)))
      /\ Mounts' = Mounts + 1 /\ Mounts \in Nat
  BY MountFacts DEF PathInv
<1>2. Standing /\ Stages /\ CDROM \in DOMAIN nodes /\ CDROM # ROOT
  BY <1>1, WellShape DEF PathInv, CDROM, ROOT
<1>3. nd # CDROM => nodes'[CDROM].pointer = nodes[CDROM].pointer
  BY <1>1, <1>2 DEF Mounted
<1>4. Mounts <= 1 => nd # CDROM /\ nodes'[CDROM].pointer = None
  <2>1. Mounts <= 1 => Free(nodes, CDROM) /\ nodes[CDROM].pointer = None
    BY <1>2 DEF Standing
  <2> QED BY <1>1, <1>2, <1>3, <2>1, FreeNotReached
<1>5. CASE stage = "run"
  <2>1. Mounts' >= 5
    BY <1>1, <1>2, <1>5 DEF Stages
  <2> QED BY <1>1, <2>1 DEF Standing
<1>6. CASE stage # "run"
  <2>1. Asking /\ Mounts = Asked(stage) - 1
    BY <1>1, <1>2, <1>6 DEF Stages
  <2>2. stage \in {"drive", "disc", "exec"}
    BY <1>1, <2>1 DEF Asking
  <2>3. CASE stage = "drive"
    <3>1. Mounts = 0 /\ n \notin {ROOT, CDROM} /\ Free(nodes, n)
      BY <2>1, <2>3 DEF Asking, Asked
    <3>2. OneWay(nodes) /\ Free(nodes, CDROM)
      BY <1>2, <3>1 DEF Standing
    <3> HIDE DEF n
    <3>3. OneWay(nodes') /\ Free(nodes', CDROM)
      BY <1>1, <1>2, <3>1, <3>2, MountedTidy
    <3> QED BY <1>1, <1>4, <3>1, <3>3 DEF Standing
  <2>4. CASE stage = "disc"
    <3>1. Mounts = 1 /\ n = CDROM /\ p = Drive
      BY <2>1, <2>4 DEF Asking, Asked
    <3>2. OneWay(nodes) /\ Free(nodes, CDROM)
      BY <1>2, <3>1 DEF Standing
    <3> HIDE DEF n, p
    <3>3. OneWay(nodes')
      BY <1>1, <1>2, <3>1, <3>2, MountedTidy
    <3>4. ResolveIn(nodes', Drive) = End(nodes', CDROM)
      BY <1>1, <3>1, <3>2, MountKeeps
    <3>5. End(nodes', CDROM) = CDROM
      BY <1>1, <1>2, <1>4, <3>1, EndNext
    <3> QED BY <1>1, <3>1, <3>3, <3>4, <3>5 DEF Standing, Drive
  <2>5. CASE stage = "exec"
    <3>1. Mounts = 3 /\ n = ResolveIn(nodes, Media) /\ p = BootMedia
      BY <2>1, <2>5 DEF Asking, Asked
    <3>2. /\ OneWay(nodes) /\ ResolveIn(nodes, Drive) = CDROM
          /\ ResolveIn(nodes, Media) \in DOMAIN nodes /\ nodes[n].fs = "cdfs"
      BY <1>2, <3>1 DEF Standing
    <3>3. n # None /\ CDROM # None
      BY <1>1, <1>2, WellShape
    <3> HIDE DEF n, p
    <3>4. nodes[n].pointer = None /\ Leads(nodes, Plain(Media), n, Len(Plain(Media)))
      BY <1>1, <3>1, <3>3, BootPaths, ResolveLeads
    <3>5. nd # n
      <4> SUFFICES ASSUME nd = n PROVE FALSE
        OBVIOUS
      <4>1. Leads(nodes, Plain(BootMedia), n, 2) /\ Leads(nodes, Plain(Media), n, 2)
        BY <1>1, <3>1, <3>4, BootPaths
      <4>2. \A j \in 1..2 : Plain(BootMedia)[j] = Plain(Media)[j]
        BY <1>1, <3>2, <4>1, BootPaths, SameWay
      <4> QED BY <4>2, BootPaths, NamesAssumption
    <3>6. ResolveIn(nodes', BootMedia) = End(nodes', n)
      BY <1>1, <3>1, <3>2, MountKeeps
    <3>7. End(nodes', n) = n
      <4>1. nodes'[n].pointer = None
        BY <1>1, <3>4, <3>5 DEF Mounted
      <4> QED BY <1>1, <4>1, EndNext
    <3>8. \A q : Plain(q) \in NameSeq /\ ResolveIn(nodes, q) # None /\ ~Under(q, BootMedia) =>
            ResolveIn(nodes', q) = ResolveIn(nodes, q)
      BY <1>1, <3>1, <3>2, MountKeeps
    <3>9. ResolveIn(nodes', Drive) = CDROM /\ ResolveIn(nodes', Media) = n
      BY <3>1, <3>2, <3>3, <3>8, BootPaths, Apart
    <3>10. n \in DOMAIN nodes' /\ nodes'[n].fs = "cdfs"
      BY <1>1, <3>2
    <3> QED BY <1>1, <3>1, <3>6, <3>7, <3>9, <3>10 DEF Standing, Drive, Media, BootMedia
  <2> QED BY <1>1, <2>2, <2>3, <2>4, <2>5
<1> QED BY <1>1, <1>5, <1>6

LEMMA MountFsStands ==
  ASSUME PathInv, MountFs
  PROVE  Standing' /\ Mounts' = Mounts + 1 /\ Mounts \in Nat
<1> DEFINE new == DiscNode(src)
           n == Len(nodes) + 1
<1>1. /\ Here("lookup") /\ pc = "lookup" /\ rest = <<Empty>> /\ call.op = "mount_fs" /\ src # None
      /\ Len(nodes) < MaxNodes /\ VInv(Used) /\ Standing /\ Stages
      /\ nodes' = Append([nodes EXCEPT ![nd].pointer = n], new)
  BY DEF MountFs, Arrived, Here, DiscNode, PathInv
<1>2. Sought = call.target
  BY <1>1 DEF Sought
<1>3. Used \in SUBSET (NameSeq \ {<<>>})
  BY DEF Used
<1>4. /\ nd \in DOMAIN nodes /\ nodes[nd].pointer = None /\ Well(nodes) /\ Shape(nodes)
      /\ call.target \in Used /\ Plain(call.target) \in NameSeq
      /\ Leads(nodes, Plain(call.target), nd, Len(Plain(call.target)))
  BY <1>1, <1>2, <1>3, ArrivedAt
<1>5. new \in NodeIn(1..n) /\ new.fs = "cdfs" /\ new.pointer = None /\ new.kids = None
  <2>1. src \in DOMAIN nodes /\ DOMAIN nodes = 1..Len(nodes) /\ Len(nodes) \in Nat
    BY <1>1, <1>4, WellShape DEF VInv, Typed
  <2>2. src \in 1..n
    BY <2>1
  <2> HIDE DEF n
  <2> QED BY <2>2, DiscNodeTyped
<1> HIDE DEF new
<1>6. /\ Well(nodes') /\ Mounted(nodes, nodes', nd, n) /\ DOMAIN nodes \subseteq DOMAIN nodes'
      /\ n \in DOMAIN nodes' /\ nodes'[n] = new
      /\ \A m \in DOMAIN nodes' : m \in DOMAIN nodes \/ m = n
  BY <1>1, <1>4, <1>5, MountFsNodes
<1>7. Shape(nodes') /\ n \notin DOMAIN nodes /\ n # ROOT /\ n # None /\ CDROM \in DOMAIN nodes /\ CDROM # None
  BY <1>4, <1>6, WellShape DEF ROOT
<1>8. \A x \in DOMAIN nodes' : x \notin DOMAIN nodes => nodes'[x].pointer = None /\ nodes'[x].kids = None
  BY <1>5, <1>6
<1>9. Mounts' = Mounts + 1 /\ Mounts \in Nat
  BY <1>4, <1>6, <1>8, MountsMore
<1>10. CASE stage = "run"
  <2>1. Mounts' >= 5
    BY <1>1, <1>9, <1>10 DEF Stages
  <2> QED BY <1>9, <2>1 DEF Standing
<1>11. CASE stage # "run"
  <2>1. Asking /\ Mounts = Asked(stage) - 1
    BY <1>1, <1>11 DEF Stages
  <2>2. stage = "media"
    BY <1>1, <2>1 DEF Asking
  <2>3. Mounts = 2 /\ call.target = Media
    BY <2>1, <2>2 DEF Asking, Asked
  <2>4. OneWay(nodes) /\ ResolveIn(nodes, Drive) = CDROM
    BY <1>1, <2>3 DEF Standing
  <2>5. Free(nodes, n)
    BY <1>4, <1>7 DEF Free, KidOf, Shape
  <2> HIDE DEF n
  <2>6. OneWay(nodes')
    BY <1>4, <1>6, <1>7, <1>8, <2>4, <2>5, MountedTidy
  <2>7. /\ ResolveIn(nodes', Media) = End(nodes', n)
        /\ \A q : Plain(q) \in NameSeq /\ ResolveIn(nodes, q) # None /\ ~Under(q, Media) =>
             ResolveIn(nodes', q) = ResolveIn(nodes, q)
    BY <1>4, <1>6, <1>7, <2>3, <2>4, MountKeeps
  <2>8. End(nodes', n) = n
    BY <1>5, <1>6, <1>7, EndNext
  <2>9. ResolveIn(nodes', Drive) = CDROM
    BY <1>7, <2>4, <2>7, BootPaths, Apart
  <2> QED BY <1>5, <1>6, <1>9, <2>3, <2>6, <2>7, <2>8, <2>9 DEF Standing, Drive, Media
<1> QED BY <1>9, <1>10, <1>11

\* A lookup goes on, arrives, or stops the machine.
LEMMA LookupGoesOn ==
  ASSUME LookupStep \/ MountStep \/ NodeStep, ~Mount, ~MountFs, pc # "node"
  PROVE  /\ pc = "lookup" /\ pc' \in {"lookup", "idle", "halted", "wild"}
         /\ pc' = "lookup" => call' = call
         /\ pc' = "idle" => Lookup
<1>1. CASE Follow \/ LookupFind \/ LookupCreate \/ MountFsSource
  <2>1. pc = "lookup" /\ pc' = pc /\ call' = call
    BY <1>1 DEF Follow, LookupFind, LookupCreate, MountFsSource, Step, Here, Arrived
  <2> QED BY <2>1
<1>2. CASE LookupStop \/ MountFsHalt
  <2>1. pc = "lookup" /\ pc' \in {"halted", "wild"}
    BY <1>2 DEF LookupStop, Stop, MountFsHalt, Step, Here, Arrived, Halt
  <2> QED BY <2>1
<1>3. CASE Lookup
  <2>1. pc = "lookup" /\ pc' = "idle"
    BY <1>3 DEF Lookup, Here, Arrived, Return
  <2> QED BY <1>3, <2>1
<1>4. CASE NodeStep
  BY <1>4 DEF NodeStep, NodeCreate, NodeCreateHalt, NodeList, NodeListStop, Creating, Listing, Here
<1> QED BY <1>1, <1>2, <1>3, <1>4 DEF LookupStep, MountStep

LEMMA ServeStep == PathInv /\ Serve => PathInv'
<1> SUFFICES ASSUME PathInv, Serve PROVE PathInv'
  OBVIOUS
<1>1. /\ LookupStep \/ MountStep \/ NodeStep
      /\ answer' = IF call.op = "lookup" /\ pc' = "idle" THEN nd ELSE answer
      /\ stage' = stage
      /\ VInv(Used) /\ Standing /\ Stages /\ Well(nodes)
  BY DEF Serve, PathInv, VInv, Typed
<1>2. VInv(Used)'
  <2>1. Used \in SUBSET (NameSeq \ {<<>>})
    BY DEF Used
  <2>2. Used' = Used
    BY DEF Used, NameSeq
  <2> QED BY <1>1, <2>1, <2>2, ServedStep
<1>3. CASE Mount \/ MountFs
  <2>1. Standing' /\ Mounts' = Mounts + 1 /\ Mounts \in Nat
    BY <1>3, MountStands, MountFsStands
  <2>2. pc = "lookup" /\ pc' = "idle" /\ call.op \in {"mount", "mount_fs"}
    BY <1>3 DEF Mount, MountFs, Arrived, Here, Return
  <2>3. Stages'
    <3>1. CASE stage = "run"
      BY <1>1, <2>1, <3>1 DEF Stages
    <3>2. CASE stage # "run"
      <4>1. Asking /\ Mounts = Asked(stage) - 1
        BY <1>1, <2>2, <3>2 DEF Stages
      <4>2. stage \in {"drive", "disc", "media", "exec"}
        BY <2>2, <4>1 DEF Asking
      <4>3. Mounts' = Asked(stage')
        BY <1>1, <2>1, <4>1, <4>2 DEF Asked
      <4> QED BY <1>1, <2>2, <4>2, <4>3 DEF Stages
    <3> QED BY <3>1, <3>2
  <2> QED BY <1>2, <2>1, <2>3 DEF PathInv
<1>4. CASE ~Mount /\ ~MountFs
  <2>1. Grows
    <3>1. Used \in SUBSET (NameSeq \ {<<>>})
      BY DEF Used
    <3> QED BY <1>1, <1>4, <3>1, ServedGrows
  <2>2. Standing' /\ Mounts' = Mounts
    BY <1>1, <2>1, StandingGrows, GrowsKeeps
  <2>3. Stages'
    <3>1. CASE stage = "run"
      BY <1>1, <2>2, <3>1 DEF Stages
    <3>2. CASE stage # "run"
      <4>1. pc \in {"idle", "lookup", "halted", "wild"}
        BY <1>1, <3>2 DEF Stages
      <4>2. /\ pc = "lookup" /\ pc' \in {"lookup", "idle", "halted", "wild"}
            /\ pc' = "lookup" => call' = call
            /\ pc' = "idle" => Lookup
        BY <1>1, <1>4, <4>1, LookupGoesOn
      <4>3. Asking /\ Mounts = Asked(stage) - (IF call.op = "lookup" THEN 0 ELSE 1)
        BY <1>1, <3>2, <4>2 DEF Stages
      <4>4. CASE pc' = "lookup"
        <5>1. Asking' /\ call' = call
          BY <1>1, <2>1, <4>2, <4>3, <4>4, AskingGrows
        <5> QED BY <1>1, <2>2, <4>3, <4>4, <5>1 DEF Stages, Asked
      <4>5. CASE pc' = "idle"
        <5>1. Lookup /\ Here("lookup") /\ rest = <<Empty>> /\ call.op = "lookup" /\ nodes' = nodes
          BY <4>2, <4>5 DEF Lookup, Arrived
        <5>2. stage \in {"boot", "read"} /\ (stage = "boot" => call.path = Media)
          BY <4>3, <5>1 DEF Asking
        <5>3. Sought = call.path
          BY <5>1 DEF Sought
        <5>4. ResolveIn(nodes, call.path) = nd
          <6>1. Used \in SUBSET (NameSeq \ {<<>>})
            BY DEF Used
          <6> QED BY <1>1, <5>1, <5>3, <6>1, ArrivedAt
        <5>5. stage' = "boot" => answer' = ResolveIn(nodes', Media')
          BY <1>1, <4>5, <5>1, <5>2, <5>4 DEF Media
        <5>6. Mounts' = Asked(stage')
          BY <1>1, <2>2, <4>3, <5>1, <5>2 DEF Asked
        <5> QED BY <1>1, <4>5, <5>2, <5>5, <5>6 DEF Stages
      <4>6. CASE pc' \in {"halted", "wild"}
        BY <1>1, <3>2, <4>6 DEF Stages
      <4> QED BY <4>2, <4>4, <4>5, <4>6
    <3> QED BY <3>1, <3>2
  <2> QED BY <1>2, <2>2, <2>3 DEF PathInv
<1> QED BY <1>3, <1>4

\* A step of main that leaves the file systems alone
LEMMA QuietStep ==
  ASSUME PathInv, pc = "idle", UNCHANGED <<vars, answer>>, stage # "run", stage' \notin {"root", "boot"},
         stage' # "run" => Asked(stage') = Asked(stage), stage' = "run" => Asked(stage) = 4
  PROVE  PathInv'
<1>1. /\ VInv(Used)' /\ pc' = pc /\ nodes' = nodes
  <2>1. Used \in SUBSET (NameSeq \ {<<>>}) /\ Used' = Used
    BY DEF Used, NameSeq
  <2> QED BY <2>1, StutterStep DEF PathInv, vars
<1>2. Standing' /\ Mounts' = Mounts
  <2>1. Well(nodes)
    BY DEF PathInv, VInv, Typed
  <2> QED BY <1>1, <2>1, NodesSame, StandingGrows, GrowsKeeps DEF PathInv
<1>3. Mounts = Asked(stage)
  BY DEF PathInv, Stages
<1>4. Stages'
  BY <1>1, <1>2, <1>3 DEF Stages
<1> QED BY <1>1, <1>2, <1>4 DEF PathInv

\* A failed assertion, or memory that a refused malloc clears
LEMMA GiveUpQuiet ==
  ASSUME PathInv, pc = "idle", stage # "run", GivesUp, stage' = stage
  PROVE  PathInv'
<1>1. VInv(Used)' /\ pc' \in {"halted", "wild"} /\ nodes' = nodes
  <2>1. Used \in SUBSET (NameSeq \ {<<>>}) /\ Used' = Used
    BY DEF Used, NameSeq
  <2> QED BY <2>1, GiveUpStep DEF PathInv, GivesUp
<1>2. Standing'
  <2>1. Well(nodes)
    BY DEF PathInv, VInv, Typed
  <2> QED BY <1>1, <2>1, NodesSame, StandingGrows DEF PathInv
<1>3. Stages'
  BY <1>1 DEF Stages
<1> QED BY <1>1, <1>2, <1>3 DEF PathInv

\* main calls, and what it then waits for is what the next stage says.
LEMMA CallQuiet ==
  ASSUME PathInv, pc = "idle", VInv(Used)', nodes' = nodes, pc' = "lookup",
         stage # "run", stage' # "run", Asking',
         Asked(stage) = Asked(stage') - (IF call'.op = "lookup" THEN 0 ELSE 1)
  PROVE  PathInv'
<1>1. Standing' /\ Mounts' = Mounts
  <2>1. Well(nodes)
    BY DEF PathInv, VInv, Typed
  <2> QED BY <2>1, NodesSame, StandingGrows, GrowsKeeps DEF PathInv
<1>2. Mounts = Asked(stage)
  BY DEF PathInv, Stages
<1>3. Stages'
  BY <1>1, <1>2 DEF Stages
<1> QED BY <1>1, <1>3 DEF PathInv

\* The call of main is the call that is being served.
LEMMA CallIs ==
  /\ \A p : LookupCall(p) => /\ call'.op = "lookup" /\ call'.path = p
                             /\ nodes' = nodes /\ pc' = "lookup"
  /\ \A p, n : MountCall(p, n) => /\ call'.op = "mount" /\ call'.path = p /\ call'.node = n
                                  /\ nodes' = nodes /\ pc' = "lookup"
  /\ \A p, q : MountFsCall(p, q) => /\ call'.op = "mount_fs" /\ call'.path = q /\ call'.target = p
                                    /\ nodes' = nodes /\ pc' = "lookup"
<1>1. ASSUME NEW p, LookupCall(p)
      PROVE  call'.op = "lookup" /\ call'.path = p /\ nodes' = nodes /\ pc' = "lookup"
  BY <1>1, IdleTyped DEF LookupCall, Called, CallType
<1>2. ASSUME NEW p, NEW n, MountCall(p, n)
      PROVE  /\ call'.op = "mount" /\ call'.path = p /\ call'.node = n
             /\ nodes' = nodes /\ pc' = "lookup"
  BY <1>2, IdleTyped DEF MountCall, Called, CallType
<1>3. ASSUME NEW p, NEW q, MountFsCall(p, q)
      PROVE  /\ call'.op = "mount_fs" /\ call'.path = q /\ call'.target = p
             /\ nodes' = nodes /\ pc' = "lookup"
  BY <1>3, IdleTyped DEF MountFsCall, Called, CallType
<1> QED BY <1>1, <1>2, <1>3

LEMMA CreateRamfsStep == PathInv /\ CreateRamfs => PathInv'
<1> SUFFICES ASSUME PathInv, CreateRamfs PROVE PathInv'
  OBVIOUS
<1> DEFINE x == Node(Empty, "ramfs", "DIR")
<1>1. /\ pc = "idle" /\ stage = "ramfs" /\ stage' = "root" /\ RamfsCreateFs
      /\ Len(nodes) < MaxNodes /\ nodes' = Append(nodes, x) /\ pc' = "idle"
      /\ VInv(Used) /\ Standing /\ Stages /\ Well(nodes)
  BY DEF CreateRamfs, Main, RamfsCreateFs, PathInv, VInv, Typed
<1>2. VInv(Used)'
  <2>1. Used \in SUBSET (NameSeq \ {<<>>}) /\ Used' = Used
    BY DEF Used, NameSeq
  <2> QED BY <1>1, <2>1, RamfsCreateFsStep
<1>3. /\ x \in NodeIn(1..(Len(nodes) + 1)) /\ x.pointer = None /\ x.kids = <<>>
      /\ x.kids # None /\ Len(x.kids) <= x.cap
  <2> DEFINE E == 1..(Len(nodes) + 1)
  <2>1. Empty \in Name \cup {Empty}
    OBVIOUS
  <2> HIDE DEF E
  <2>2. x \in NodeIn(E) /\ x.pointer = None /\ x.kids = <<>> /\ x.kids # None /\ Len(x.kids) <= x.cap
    BY <2>1, NodeTyped
  <2> QED BY <2>2 DEF E
<1> HIDE DEF x
<1>4. /\ Well(nodes') /\ Grown(nodes, nodes') /\ Tidy(nodes, nodes')
      /\ Len(nodes') = Len(nodes) + 1 /\ nodes'[Len(nodes) + 1] = x
      /\ DOMAIN nodes' = 1..(Len(nodes) + 1)
      /\ \A n \in DOMAIN nodes : nodes'[n] = nodes[n]
  BY <1>1, <1>3, AppendedNode
<1>5. Standing' /\ Mounts' = Mounts
  <2>1. Grows
    BY <1>4 DEF Grows
  <2>2. Standing'
    BY <1>1, <2>1, StandingGrows
  <2>3. Mounts' = Mounts
    BY <1>1, <2>1, GrowsKeeps
  <2> QED BY <2>2, <2>3
<1>6. Free(nodes', Len(nodes')) /\ Len(nodes') >= 3
  <2>1. Len(nodes) \in Nat /\ Len(nodes) >= 2 /\ Shape(nodes) /\ DOMAIN nodes = 1..Len(nodes) /\ None \notin DOMAIN nodes'
    <3>1. Len(nodes) \in Nat /\ Shape(nodes) /\ DOMAIN nodes = 1..Len(nodes)
      BY <1>1, WellShape
    <3>2. None \notin DOMAIN nodes'
      BY <1>4, WellShape
    <3>3. Len(nodes) >= 2
      BY <1>1, CapacityAssumption DEF Well
    <3> QED BY <3>1, <3>2, <3>3
  <2> DEFINE k == Len(nodes) + 1
  <2>2. k \notin DOMAIN nodes /\ k # None /\ k \in DOMAIN nodes' /\ \A n \in DOMAIN nodes' : n \in DOMAIN nodes \/ n = k
    BY <1>4, <2>1
  <2> HIDE DEF k
  <2>3. nodes'[k] = x
    BY <1>4 DEF k
  <2>4. ASSUME NEW n \in DOMAIN nodes' PROVE nodes'[n].pointer # k /\ ~KidOf(nodes', n, k)
    <3>1. CASE n \in DOMAIN nodes
      BY <1>4, <2>1, <2>2, <3>1 DEF Shape, KidOf
    <3>2. CASE n = k
      BY <1>3, <2>2, <2>3, <3>2 DEF KidOf
    <3> QED BY <2>2, <3>1, <3>2
  <2>5. Len(nodes') = k /\ k >= 3
    BY <1>4, <2>1 DEF k
  <2> QED BY <2>4, <2>5 DEF Free
<1>7. Stages'
  BY <1>1, <1>5, <1>6 DEF Stages, Asked
<1> QED BY <1>2, <1>5, <1>7 DEF PathInv

\* main calls vfs_mount, vfs_mount_fs and vfs_lookup.
LEMMA MainCalls ==
  ASSUME PathInv, MountRoot \/ MountDrive \/ MountDisc \/ LookupMedia \/ MountBoot \/ LookupExec
  PROVE  PathInv'
<1>1. /\ VInv(Used) /\ Standing /\ Stages /\ Well(nodes) /\ pc = "idle"
      /\ Used \in SUBSET (NameSeq \ {<<>>}) /\ Used' = Used
  BY DEF PathInv, VInv, Typed, Used, NameSeq, MountRoot, MountDrive, MountDisc, LookupMedia, MountBoot,
         LookupExec, Main
<1>2. /\ <<Empty>> \in Used /\ Drive \in Used /\ Media \in Used /\ BootMedia \in Used /\ Exec \in Used
  BY BootPaths
<1>3. CDROM \in DOMAIN nodes /\ DOMAIN nodes = 1..Len(nodes) /\ Len(nodes) \in Nat
  BY <1>1, WellShape
<1>4. CASE MountRoot
  <2>1. stage = "root" /\ MountCall(<<Empty>>, Len(nodes)) /\ stage' = "drive"
    BY <1>4 DEF MountRoot, Main
  <2>2. Len(nodes) >= 3 /\ Free(nodes, Len(nodes)) /\ Len(nodes) \in DOMAIN nodes
    BY <1>1, <1>3, <2>1 DEF Stages
  <2>3. VInv(Used)'
    BY <1>1, <1>2, <2>1, <2>2, MountCallStep
  <2>4. call'.op = "mount" /\ call'.path = <<Empty>> /\ call'.node = Len(nodes) /\ nodes' = nodes /\ pc' = "lookup"
    BY <2>1, CallIs
  <2>5. Len(nodes) \notin {ROOT, CDROM}
    BY <1>3, <2>2 DEF ROOT, CDROM
  <2>6. Asking'
    BY <2>1, <2>2, <2>4, <2>5 DEF Asking
  <2>7. Asked(stage) = Asked(stage') - 1
    BY <2>1 DEF Asked
  <2> QED BY <1>1, <2>1, <2>3, <2>4, <2>6, <2>7, CallQuiet
<1>5. CASE MountDrive
  <2>1. stage = "drive" /\ MountCall(Drive, CDROM) /\ stage' = "disc"
    BY <1>5 DEF MountDrive, Main, Drive
  <2>2. VInv(Used)'
    BY <1>1, <1>2, <1>3, <2>1, MountCallStep
  <2>3. call'.op = "mount" /\ call'.path = Drive /\ call'.node = CDROM /\ nodes' = nodes /\ pc' = "lookup"
    BY <2>1, CallIs
  <2>4. Asking'
    BY <2>1, <2>3 DEF Asking, Drive
  <2>5. Asked(stage) = Asked(stage') - 1
    BY <2>1 DEF Asked
  <2> QED BY <1>1, <2>1, <2>2, <2>3, <2>4, <2>5, CallQuiet
<1>6. CASE MountDisc
  <2>1. stage = "disc" /\ MountFsCall(Media, Drive) /\ stage' = "media"
    BY <1>6 DEF MountDisc, Main, Drive
  <2>2. VInv(Used)'
    BY <1>1, <1>2, <2>1, MountFsCallStep
  <2>3. call'.op = "mount_fs" /\ call'.target = Media /\ nodes' = nodes /\ pc' = "lookup"
    BY <2>1, CallIs
  <2>4. Asking'
    BY <2>1, <2>3 DEF Asking, Media
  <2>5. Asked(stage) = Asked(stage') - 1
    BY <2>1 DEF Asked
  <2> QED BY <1>1, <2>1, <2>2, <2>3, <2>4, <2>5, CallQuiet
<1>7. CASE LookupMedia
  <2>1. stage = "media" /\ LookupCall(Media) /\ stage' = "boot"
    BY <1>7 DEF LookupMedia, Main
  <2>2. VInv(Used)'
    BY <1>1, <1>2, <2>1, LookupCallStep
  <2>3. call'.op = "lookup" /\ call'.path = Media /\ nodes' = nodes /\ pc' = "lookup"
    BY <2>1, CallIs
  <2>4. Asking'
    BY <2>1, <2>3 DEF Asking, Media
  <2>5. Asked(stage) = Asked(stage') - 0
    BY <2>1 DEF Asked
  <2> QED BY <1>1, <2>1, <2>2, <2>3, <2>4, <2>5, CallQuiet
<1>8. CASE MountBoot
  <2>1. stage = "boot" /\ MountCall(BootMedia, answer) /\ stage' = "exec"
    BY <1>8 DEF MountBoot, Main
  <2>2. answer = ResolveIn(nodes, Media) /\ Mounts = 3
    BY <1>1, <2>1 DEF Stages, Asked
  <2>3. answer \in DOMAIN nodes
    BY <1>1, <2>2 DEF Standing
  <2>4. VInv(Used)'
    BY <1>1, <1>2, <2>1, <2>3, MountCallStep
  <2>5. call'.op = "mount" /\ call'.path = BootMedia /\ call'.node = answer /\ nodes' = nodes /\ pc' = "lookup"
    BY <2>1, CallIs
  <2>6. Asking'
    BY <2>1, <2>2, <2>5 DEF Asking, BootMedia, Media
  <2>7. Asked(stage) = Asked(stage') - 1
    BY <2>1 DEF Asked
  <2> QED BY <1>1, <2>1, <2>4, <2>5, <2>6, <2>7, CallQuiet
<1>9. CASE LookupExec
  <2>1. stage = "exec" /\ LookupCall(Exec) /\ stage' = "read"
    BY <1>9 DEF LookupExec, Main
  <2>2. VInv(Used)'
    BY <1>1, <1>2, <2>1, LookupCallStep
  <2>3. call'.op = "lookup" /\ nodes' = nodes /\ pc' = "lookup"
    BY <2>1, CallIs
  <2>4. Asking'
    BY <2>1, <2>3 DEF Asking
  <2>5. Asked(stage) = Asked(stage') - 0
    BY <2>1 DEF Asked
  <2> QED BY <1>1, <2>1, <2>2, <2>3, <2>4, <2>5, CallQuiet
<1> QED BY <1>4, <1>5, <1>6, <1>7, <1>8, <1>9

LEMMA MainPathStep == PathInv /\ MainStep => PathInv'
<1> SUFFICES ASSUME PathInv, MainStep PROVE PathInv'
  OBVIOUS
<1>1. CASE LastMemory \/ SkipRegion
  <2>1. /\ pc = "idle" /\ UNCHANGED <<vars, answer>> /\ stage \in {"limit", "region"}
        /\ stage' \in {"limit", "region"}
    BY <1>1 DEF LastMemory, SkipRegion, Main
  <2> QED BY <2>1, QuietStep DEF Asked
<1>2. CASE CreatePageman
  <2>1. pc = "idle" /\ stage = "region"
    BY <1>2 DEF CreatePageman, Main
  <2>2. CASE stage' = "print" /\ UNCHANGED <<vars, answer>>
    BY <2>1, <2>2, QuietStep DEF Asked
  <2>3. CASE Halt /\ stage' = stage
    BY <2>1, <2>3, AllGiveUp, GiveUpQuiet
  <2>4. \/ stage' = "print" /\ UNCHANGED <<vars, answer>>
        \/ Halt /\ stage' = stage
    BY <1>2 DEF CreatePageman, Main
  <2> QED BY <2>2, <2>3, <2>4
<1>3. CASE NoMemory \/ NoDrive \/ LinkHalt \/ LinkWild \/ ExecHalt
  <2>1. pc = "idle" /\ stage \in {"region", "drive", "link"} /\ GivesUp /\ stage' = stage
    BY <1>3, AllGiveUp DEF NoMemory, NoDrive, LinkHalt, LinkWild, ExecHalt, Main, Stage, GivesUp
  <2> QED BY <2>1, GiveUpQuiet
<1>4. CASE InitAllocator
  <2>1. pc = "idle" /\ UNCHANGED <<vars, answer>> /\ stage = "print" /\ stage' = "ramfs"
    BY <1>4 DEF InitAllocator, Main
  <2> QED BY <2>1, QuietStep DEF Asked
<1>5. CASE CreateRamfs
  BY <1>5, CreateRamfsStep
<1>6. CASE MountRoot \/ MountDrive \/ MountDisc \/ LookupMedia \/ MountBoot \/ LookupExec
  BY <1>6, MainCalls
<1>7. CASE ReadExec
  <2>1. pc = "idle" /\ stage = "read" /\ answer' = answer
    BY <1>7 DEF ReadExec, Stage
  <2>2. CASE stage' = "export" /\ UNCHANGED vars
    BY <2>1, <2>2, QuietStep DEF Asked
  <2>3. CASE Halt /\ stage' = stage
    BY <2>1, <2>3, AllGiveUp, GiveUpQuiet
  <2>4. \/ stage' = "export" /\ UNCHANGED vars
        \/ Halt /\ stage' = stage
    BY <1>7 DEF ReadExec
  <2> QED BY <2>2, <2>3, <2>4
<1>8. CASE Export \/ Link \/ ExecImage
  <2>1. /\ pc = "idle" /\ UNCHANGED <<vars, answer>> /\ stage \in {"export", "link"}
        /\ stage' \in {"link", "enter"}
    BY <1>8 DEF Export, Link, ExecImage, Stage
  <2> QED BY <2>1, QuietStep DEF Asked
<1>9. CASE EnterProgram
  <2>1. pc = "idle" /\ UNCHANGED <<vars, answer>> /\ stage = "enter" /\ stage' = "run"
    BY <1>9 DEF EnterProgram, Stage
  <2> QED BY <2>1, QuietStep DEF Asked
<1> QED BY <1>1, <1>2, <1>3, <1>4, <1>5, <1>6, <1>7, <1>8, <1>9 DEF MainStep

\* The program may call what it wants: nothing is asked of its mounts.
LEMMA ProgramCallStep == PathInv /\ ProgramCall => PathInv'
<1> SUFFICES ASSUME PathInv, ProgramCall PROVE PathInv'
  OBVIOUS
<1>1. /\ VInv(Used) /\ Standing /\ Stages /\ Well(nodes) /\ stage = "run" /\ stage' = "run"
      /\ Used \in SUBSET (NameSeq \ {<<>>}) /\ Used' = Used /\ Paths \subseteq Used
  BY PathsNamed DEF PathInv, VInv, Typed, Used, NameSeq, ProgramCall, Main
<1>2. saki \in Name \cup {Empty} /\ Empty \in Name \cup {Empty} /\ 0 \in Nat /\ 0..MaxIndex \subseteq Nat
  BY NamesAssumption, CapacityAssumption
<1>3. {"mkdir", "readdir"} \subseteq Ops
  BY DEF Ops
<1>4. ASSUME NEW op, NEW n, NEW name, NEW x, NodeCall(op, n, name, x) PROVE nodes' = nodes
  BY <1>4 DEF NodeCall, Called
<1>5. VInv(Used)' /\ nodes' = nodes
  <2>1. CASE \E p \in Paths : LookupCall(p)
    BY <1>1, <2>1, LookupCallStep, CallIs
  <2>2. CASE \E p \in Paths, n \in DOMAIN nodes : MountCall(p, n)
    BY <1>1, <2>2, MountCallStep, CallIs
  <2>3. CASE \E p, q \in Paths : MountFsCall(p, q)
    BY <1>1, <2>3, MountFsCallStep, CallIs
  <2>4. CASE \E n \in DOMAIN nodes : NodeCall("mkdir", n, saki, 0)
    <3>1. PICK n \in DOMAIN nodes : NodeCall("mkdir", n, saki, 0)
      BY <2>4
    <3> QED BY <1>1, <1>2, <1>3, <1>4, <3>1, NodeCallStep
  <2>5. CASE \E n \in DOMAIN nodes, x \in 0..MaxIndex : NodeCall("readdir", n, Empty, x)
    <3>1. PICK n \in DOMAIN nodes, x \in 0..MaxIndex : NodeCall("readdir", n, Empty, x)
      BY <2>5
    <3>2. x \in Nat
      BY <1>2, <3>1
    <3> QED BY <1>1, <1>2, <1>3, <1>4, <3>1, <3>2, NodeCallStep
  <2> QED BY <2>1, <2>2, <2>3, <2>4, <2>5 DEF ProgramCall
<1>6. Standing' /\ Mounts' = Mounts
  BY <1>1, <1>5, NodesSame, StandingGrows, GrowsKeeps
<1>7. Stages'
  BY <1>1, <1>6 DEF Stages
<1> QED BY <1>5, <1>6, <1>7 DEF PathInv

LEMMA PathInit == BootInit => PathInv
<1> SUFFICES ASSUME BootInit PROVE PathInv
  OBVIOUS
<1>1. Init /\ stage = "limit"
  BY DEF BootInit
<1>2. VInv(Used)
  BY <1>1, InitVInv DEF Used
<1> DEFINE r == Node(Empty, "none", "DIR")
           d == Node(Empty, "atapi", "BLOCK")
<1>3. nodes = <<r, d>> /\ pc = "idle"
  BY <1>1 DEF Init
<1>4. r.pointer = None /\ r.kids = <<>> /\ d.pointer = None /\ d.kids = <<>>
  BY NodeTyped
<1> HIDE DEF r, d
<1>5. DOMAIN nodes = {1, 2} /\ nodes[1] = r /\ nodes[2] = d
  BY <1>3
<1>6. \A x \in DOMAIN nodes : nodes[x].pointer = None /\ nodes[x].kids = <<>>
  BY <1>4, <1>5
<1>7. Mounts = 0
  <2>1. {n \in DOMAIN nodes : nodes[n].pointer # None} = {}
    BY <1>6
  <2> QED BY <2>1, FS_EmptySet DEF Mounts
<1>8. \A x \in DOMAIN nodes : \A n : ~KidOf(nodes, x, n)
  BY <1>6 DEF KidOf
<1>9. \A x \in DOMAIN nodes : \A n \in DOMAIN nodes : nodes[x].pointer # n
  BY <1>2, <1>6, WellShape DEF VInv, Typed
<1>10. OneWay(nodes) /\ Free(nodes, CDROM) /\ nodes[CDROM].pointer = None
  BY <1>5, <1>6, <1>8, <1>9 DEF OneWay, Free, CDROM
<1>11. Standing
  BY <1>7, <1>10 DEF Standing
<1>12. Stages
  BY <1>1, <1>3, <1>7 DEF Stages, Asked
<1> QED BY <1>2, <1>11, <1>12 DEF PathInv

LEMMA PathStep == PathInv /\ [BootNext]_bootVars => PathInv'
<1> SUFFICES ASSUME PathInv, [BootNext]_bootVars PROVE PathInv'
  OBVIOUS
<1>1. CASE UNCHANGED bootVars
  <2>1. UNCHANGED <<vars, nodes, pc, call, stage, answer>>
    BY <1>1 DEF bootVars, vars
  <2>2. VInv(Used)'
    <3>1. Used \in SUBSET (NameSeq \ {<<>>}) /\ Used' = Used
      BY DEF Used, NameSeq
    <3> QED BY <2>1, <3>1, StutterStep DEF PathInv
  <2>3. Standing' /\ Mounts' = Mounts
    <3>1. Well(nodes)
      BY DEF PathInv, VInv, Typed
    <3> QED BY <2>1, <3>1, NodesSame, StandingGrows, GrowsKeeps DEF PathInv
  <2>4. Asking => Asking'
    BY <2>1 DEF Asking, Media, BootMedia, Drive
  <2>5. Stages'
    BY <2>1, <2>3, <2>4 DEF PathInv, Stages, Media
  <2> QED BY <2>2, <2>3, <2>5 DEF PathInv
<1> QED BY <1>1, MainPathStep, ServeStep, ProgramCallStep DEF BootNext

\* A path that was looked up keeps its node, and until the program mounts, the
\* drive, the disc and the boot medium are where main's mounts put them: for
\* every disc, every set of paths and any number of nodes.
THEOREM BootPathsKeepCorrect == BootSpec => []BootPathsKeep
<1>1. BootSpec => []PathInv
  BY PathInit, PathStep, PTL DEF BootSpec
<1>2. PathInv => BootPathsKeep
  <2> SUFFICES ASSUME PathInv PROVE BootPathsKeep
    OBVIOUS
  <2>1. PathsKeep
    BY ResolveNow DEF PathsKeep, PathInv, VInv, Known
  <2>2. Mounts = 4 => /\ Resolve(Drive) = CDROM
                      /\ Resolve(BootMedia) = Resolve(Media)
                      /\ nodes[Resolve(Media)].fs = "cdfs"
    BY ResolveNow DEF PathInv, Standing
  <2> QED BY <2>1, <2>2 DEF BootPathsKeep, Drive
<1> QED BY <1>1, <1>2, PTL
=============================================================================
