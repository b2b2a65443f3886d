----------------------------- MODULE Arithmetic -----------------------------
(***************************************************************************)
(* Facts about naturals that the proofs of several components rest on:     *)
(* induction, and division with its remainder.                             *)
(***************************************************************************)
EXTENDS Integers, FiniteSetTheorems, WellFoundedInduction, TLAPS

\* A set of naturals that holds 0 and is closed under successor is Nat: the
\* induction principle in the only form the provers can instantiate.
LEMMA SetInduction ==
  ASSUME NEW S \in SUBSET Nat, 0 \in S, \A n \in S : n + 1 \in S
  PROVE  S = Nat
<1>1. SUFFICES ASSUME Nat \ S # {} PROVE FALSE
  OBVIOUS
<1> DEFINE Out == {0..m : m \in Nat \ S}
<1>2. Out \subseteq FiniteSubsetsOf(Nat) /\ Out # {}
  <2>1. \A m \in Nat : IsFiniteSet(0..m) /\ 0..m \subseteq Nat
    BY FS_Interval
  <2> QED BY <1>1, <2>1 DEF FiniteSubsetsOf
<1>3. PICK m \in Nat \ S :
        \A n \in Nat \ S : ~(0..n \subseteq 0..m /\ 0..n # 0..m)
  <2> DEFINE R == StrictSubsetOrdering(Nat)
  <2>1. IsWellFoundedOn(R, FiniteSubsetsOf(Nat))
    BY FS_StrictSubsetOrderingWellFounded
  <2> HIDE DEF R
  <2>2. PICK x \in Out : \A y \in Out : ~(<<y, x>> \in R)
    <3> HIDE DEF Out
    <3> QED BY <1>2, <2>1, WFMin
  <2>3. PICK m \in Nat \ S : x = 0..m
    BY <2>2
  <2>4. \A n \in Nat : 0..n \in SUBSET Nat
    OBVIOUS
  <2>5. ASSUME NEW n \in Nat \ S
        PROVE  ~(0..n \subseteq 0..m /\ 0..n # 0..m)
    <3>1. <<0..n, x>> \notin R
      BY <2>2
    <3> QED BY <3>1, <2>3, <2>4 DEF R, StrictSubsetOrdering
  <2> HIDE DEF R, Out
  <2> QED BY <2>5
<1>4. m # 0 /\ m - 1 \in Nat
  OBVIOUS
<1>5. m - 1 \notin Nat \ S
  BY <1>3, <1>4
<1> QED BY <1>3, <1>4, <1>5

\* A set of naturals has a least one.
LEMMA LeastNat ==
  ASSUME NEW S \in SUBSET Nat, S # {}
  PROVE  \E m \in S : \A n \in S : m <= n
<1> SUFFICES ASSUME \A m \in S : \E n \in S : n < m PROVE FALSE
  OBVIOUS
<1> DEFINE U == {n \in Nat : \A k \in 0..n : k \notin S}
<1>1. 0 \in U
  OBVIOUS
<1>2. ASSUME NEW n \in U PROVE n + 1 \in U
  <2>1. n + 1 \in S => \E k \in S : k \in 0..n
    OBVIOUS
  <2>2. n + 1 \notin S
    BY <2>1
  <2>3. \A k \in 0..(n + 1) : k \in 0..n \/ k = n + 1
    OBVIOUS
  <2> QED BY <2>2, <2>3
<1>3. U = Nat
  <2> HIDE DEF U
  <2>1. U \in SUBSET Nat
    BY DEF U
  <2> QED BY <1>1, <1>2, <2>1, SetInduction
<1>4. PICK n \in S : TRUE
  OBVIOUS
<1>5. n \in U /\ n \in 0..n
  BY <1>3
<1> QED
  BY <1>4, <1>5

\* f is defined by recursion from b, g[i] being the i-th step.
Recurs(f, n, b, g) == f[0] = b /\ \A i \in 1..n : f[i] = g[i][f[i - 1]]

\* A recursion over 0..n with values in R has a solution.
LEMMA Recursion ==
  ASSUME NEW n \in Nat, NEW R, NEW b \in R, NEW g \in [1..n -> [R -> R]]
  PROVE  \E f \in [0..n -> R] : Recurs(f, n, b, g)
<1> DEFINE Solves(f, k) == f[0] = b /\ \A i \in 1..k : f[i] = g[i][f[i - 1]]
<1> DEFINE Solvable(k) == \E f \in [0..k -> R] : Solves(f, k)
<1> DEFINE S == {k \in Nat : k <= n => Solvable(k)}
<1>1. 0 \in S
  <2> DEFINE f == [i \in 0..0 |-> b]
  <2>1. f \in [0..0 -> R] /\ Solves(f, 0)
    OBVIOUS
  <2> HIDE DEF f, Solves
  <2> QED BY <2>1
<1>2. ASSUME NEW k \in S PROVE k + 1 \in S
  <2> SUFFICES ASSUME k + 1 <= n PROVE Solvable(k + 1)
    <3> HIDE DEF Solvable
    <3> QED OBVIOUS
  <2>1. k \in Nat /\ k + 1 \in 1..n
    OBVIOUS
  <2>2. PICK f \in [0..k -> R] : Solves(f, k)
    BY <2>1
  <2> DEFINE h == [i \in 0..(k + 1) |-> IF i = k + 1 THEN g[k + 1][f[k]] ELSE f[i]]
  <2>3. f[k] \in R
    BY <2>1, <2>2
  <2>4. g[k + 1] \in [R -> R] /\ g[k + 1][f[k]] \in R
    BY <2>1, <2>3
  <2>5. h \in [0..(k + 1) -> R]
    BY <2>1, <2>2, <2>4
  <2>6. h[0] = b
    BY <2>1, <2>2
  <2>7. \A i \in 1..(k + 1) : h[i] = g[i][h[i - 1]]
    <3> SUFFICES ASSUME NEW i \in 1..(k + 1) PROVE h[i] = g[i][h[i - 1]]
      OBVIOUS
    <3>1. i - 1 \in 0..k /\ h[i - 1] = f[i - 1]
      BY <2>1
    <3>2. CASE i = k + 1
      BY <2>1, <3>1, <3>2
    <3>3. CASE i # k + 1
      <4>1. i \in 1..k /\ h[i] = f[i]
        BY <2>1, <3>3
      <4> QED BY <2>2, <3>1, <4>1
    <3> QED BY <3>2, <3>3
  <2> QED BY <2>5, <2>6, <2>7
<1>3. S = Nat
  <2> HIDE DEF S
  <2>1. S \in SUBSET Nat
    BY DEF S
  <2> QED BY <1>1, <1>2, <2>1, SetInduction
<1>4. PICK f \in [0..n -> R] : Solves(f, n)
  <2> HIDE DEF Solves
  <2>1. Solvable(n)
    BY <1>3
  <2> QED BY <2>1
<1> QED BY <1>4 DEF Recurs

\* Division with remainder.
LEMMA DivMod ==
  ASSUME NEW n \in Nat, NEW w \in Nat \ {0}
  PROVE  /\ n \div w \in Nat /\ n % w \in 0..(w - 1)
         /\ n = (n \div w) * w + (n % w)
  BY SMT

\* A product is at least its factor.
LEMMA MulGrows ==
  ASSUME NEW x \in Nat, NEW w \in Nat, x >= 1
  PROVE  x * w >= w /\ x * w \in Nat
  BY SMT

\* A larger multiple is larger by at least the factor.
LEMMA MulMono ==
  ASSUME NEW a \in Nat, NEW b \in Nat, NEW w \in Nat, a < b
  PROVE  a * w + w <= b * w
<1>1. b - a \in Nat /\ b - a >= 1
  OBVIOUS
<1>2. (b - a) * w >= w
  BY <1>1, MulGrows
<1>3. b * w = a * w + (b - a) * w /\ a * w \in Nat /\ (b - a) * w \in Nat
  BY <1>1, SMT
<1> DEFINE x == a * w  y == (b - a) * w
<1> HIDE DEF x, y
<1> QED BY <1>2, <1>3 DEF x, y

\* There is one quotient and one remainder.
LEMMA OneQuotient ==
  ASSUME NEW n \in Nat, NEW w \in Nat \ {0}, NEW q \in Nat, NEW r \in 0..(w - 1), n = q * w + r
  PROVE  n \div w = q /\ n % w = r
<1> DEFINE d == n \div w  m == n % w  x == d * w  y == q * w
<1>1. d \in Nat /\ m \in 0..(w - 1) /\ n = x + m
  BY DivMod
<1>2. x \in Nat /\ y \in Nat
  BY <1>1
<1>3. n = y + r
  OBVIOUS
<1>4. q < d => y + w <= x
  BY <1>1, MulMono
<1>5. d < q => x + w <= y
  BY <1>1, MulMono
<1>6. q = d => x = y
  OBVIOUS
<1> HIDE DEF d, m, x, y
<1>7. d = q /\ m = r
  BY <1>1, <1>2, <1>3, <1>4, <1>5, <1>6
<1> QED BY <1>7 DEF d, m

\* The quotient of a multiple.
LEMMA DivUnique ==
  ASSUME NEW n \in Nat, NEW w \in Nat \ {0}, NEW q \in Nat, n = q * w
  PROVE  n \div w = q /\ n % w = 0
<1> DEFINE y == q * w
<1>1. y \in Nat
  BY SMT
<1>2. n = y + 0
  BY <1>1
<1> QED BY <1>2, OneQuotient

\* A quotient grows with the dividend.
LEMMA DivMono ==
  ASSUME NEW a \in Nat, NEW b \in Nat, NEW w \in Nat \ {0}, a <= b
  PROVE  a \div w <= b \div w
<1> DEFINE c == a \div w  d == b \div w  x == c * w  y == d * w
<1>1. c \in Nat /\ d \in Nat /\ x \in Nat /\ y \in Nat
  BY DivMod, SMT
<1>2. x <= a /\ b < y + w
  <2>1. a = x + (a % w) /\ a % w \in 0..(w - 1) /\ b = y + (b % w) /\ b % w \in 0..(w - 1)
    BY DivMod
  <2> HIDE DEF x, y
  <2> QED BY <1>1, <2>1
<1>3. d < c => y + w <= x
  BY <1>1, MulMono
<1> HIDE DEF c, d, x, y
<1>4. c <= d
  BY <1>1, <1>2, <1>3
<1> QED BY <1>4 DEF c, d

\* What a remainder of 0 says.
LEMMA ModZero ==
  ASSUME NEW n \in Nat, NEW w \in Nat \ {0}, n % w = 0
  PROVE  n \div w \in Nat /\ n = (n \div w) * w
<1> DEFINE q == n \div w
<1>1. q \in Nat /\ n = q * w + (n % w)
  BY DivMod
<1>2. q * w \in Nat
  <2> HIDE DEF q
  <2> QED BY <1>1
<1> DEFINE x == q * w
<1> HIDE DEF x
<1>3. n = x
  BY <1>1, <1>2 DEF x
<1> QED BY <1>1, <1>3 DEF x

LEMMA ModBelow ==
  ASSUME NEW n \in Nat, NEW w \in Nat \ {0}
  PROVE  n % w <= n
<1> DEFINE x == (n \div w) * w
<1>1. n = x + (n % w) /\ n % w \in 0..(w - 1) /\ n \div w \in Nat
  BY DivMod
<1>2. x \in Nat
  BY <1>1
<1> HIDE DEF x
<1> QED BY <1>1, <1>2

\* Sums and differences of multiples are multiples.
LEMMA ModSum ==
  ASSUME NEW a \in Nat, NEW b \in Nat, NEW w \in Nat \ {0}, a % w = 0, b % w = 0
  PROVE  (a + b) % w = 0
<1>1. PICK p \in Nat : a = p * w
  BY ModZero
<1>2. PICK q \in Nat : b = q * w
  BY ModZero
<1>3. a + b = (p + q) * w /\ p + q \in Nat /\ a + b \in Nat
  BY <1>1, <1>2, SMT
<1> QED BY <1>3, DivUnique, Zenon

LEMMA ModDiff ==
  ASSUME NEW a \in Nat, NEW b \in Nat, NEW w \in Nat \ {0}, a % w = 0, b % w = 0, a <= b
  PROVE  (b - a) % w = 0
<1>1. PICK p \in Nat : a = p * w
  BY ModZero
<1>2. PICK q \in Nat : b = q * w
  BY ModZero
<1>3. p <= q
  <2>1. q < p => b + w <= a
    BY <1>1, <1>2, MulMono
  <2> QED BY <2>1
<1>4. b - a = (q - p) * w /\ q - p \in Nat
  BY <1>1, <1>2, <1>3, SMT
<1> QED BY <1>4, DivUnique
=============================================================================
