---------------------------- MODULE BuddyProofs ----------------------------
(***************************************************************************)
(* Facts about the geometry of blocks, for every number of levels.         *)
(***************************************************************************)
EXTENDS BuddyBlocks, Arithmetic, FiniteSetTheorems, WellFoundedInduction, TLAPS

-----------------------------------------------------------------------------
(* Widths and alignment *)

\* The levels are an initial segment of Nat.
LEMMA LevelType ==
  /\ TOTAL_LEVEL \in Nat \ {0} /\ TOTAL_LEVEL \in Level
  /\ \A l \in Level : /\ l \in Nat /\ l <= TOTAL_LEVEL
                      /\ \A k \in 0..l : k \in Level
                      /\ l < TOTAL_LEVEL => l + 1 \in Level /\ l \in 0..(TOTAL_LEVEL - 1)
  BY LevelAssumption DEF Level

\* The width of a level is a positive number of pages.
LEMMA WidthType == \A l \in Level : Width[l] \in Nat \ {0}
  BY WidthAssumption DEF Level

\* The width of a level is a multiple of that of every level below.
LEMMA WidthDivides ==
  \A m \in Level : \A k \in 0..m : \E c \in Nat \ {0} : Width[m] = c * Width[k]
<1> DEFINE S == {m \in Nat : m \in Level =>
                   \A k \in 0..m : \E c \in Nat \ {0} : Width[m] = c * Width[k]}
<1>1. 0 \in S
  BY WidthAssumption
<1>2. ASSUME NEW m \in S PROVE m + 1 \in S
  <2>1. SUFFICES ASSUME m + 1 \in Level, NEW k \in 0..(m + 1)
                 PROVE  \E c \in Nat \ {0} : Width[m + 1] = c * Width[k]
    OBVIOUS
  <2>2. m \in 0..(TOTAL_LEVEL - 1) /\ m \in Level
    BY <2>1, LevelAssumption DEF Level
  <2>3. Width[m + 1] = 2 * Width[m] /\ Width[m + 1] \in Nat \ {0}
    BY <2>1, <2>2, WidthAssumption, WidthType
  <2>4. CASE k = m + 1
    <3>1. Width[m + 1] = 1 * Width[k]
      BY <2>3, <2>4
    <3> QED BY <3>1
  <2>5. CASE k \in 0..m
    <3>1. PICK c \in Nat \ {0} : Width[m] = c * Width[k]
      BY <2>2, <2>5
    <3>2. k \in Level
      BY <2>2, <2>5, LevelType
    <3>3. 2 * (c * Width[k]) = (2 * c) * Width[k] /\ 2 * c \in Nat \ {0}
      BY <3>2, WidthType
    <3> QED BY <2>3, <3>1, <3>3
  <2> QED BY <2>4, <2>5
<1>3. S = Nat
  <2>1. S \in SUBSET Nat
    OBVIOUS
  <2> HIDE DEF S
  <2> QED BY <1>1, <1>2, <2>1, SetInduction
<1> QED BY <1>3, LevelAssumption DEF Level

\* A higher level is at least as wide.
LEMMA WidthMono ==
  ASSUME NEW m \in Level, NEW k \in 0..m
  PROVE  Width[k] <= Width[m]
<1>1. PICK c \in Nat \ {0} : Width[m] = c * Width[k]
  BY WidthDivides
<1>2. k \in Level
  BY LevelType
<1> QED BY <1>1, <1>2, WidthType, MulGrows

\* What is aligned to a level is aligned to every level below.
LEMMA AlignedBelow ==
  ASSUME NEW m \in Level, NEW k \in 0..m, NEW n \in Nat, n % Width[m] = 0
  PROVE  n % Width[k] = 0
<1>1. k \in Level /\ Width[m] \in Nat \ {0} /\ Width[k] \in Nat \ {0}
  BY LevelType, WidthType
<1>2. PICK c \in Nat \ {0} : Width[m] = c * Width[k]
  BY WidthDivides
<1> DEFINE q == n \div Width[m]
<1>3. q \in Nat /\ n = q * Width[m]
  BY <1>1, ModZero
<1> HIDE DEF q
<1>4. q * (c * Width[k]) = (q * c) * Width[k] /\ q * c \in Nat
  BY <1>1, <1>3
<1>5. n = (q * c) * Width[k]
  BY <1>2, <1>3, <1>4
<1> QED BY <1>1, <1>4, <1>5, DivUnique

\* The page after an aligned block is aligned; and it, or the page before
\* the block, is aligned one level up, as the index is odd or even.
LEMMA AlignedNext ==
  ASSUME NEW l \in Level, NEW n \in Nat, n % Width[l] = 0
  PROVE  /\ (n + Width[l]) % Width[l] = 0
         /\ l < TOTAL_LEVEL /\ (n \div Width[l]) % 2 = 1
              => (n + Width[l]) % Width[l + 1] = 0
         /\ l < TOTAL_LEVEL /\ (n \div Width[l]) % 2 # 1
              => n % Width[l + 1] = 0
<1> DEFINE w == Width[l]  q == n \div w
<1>1. w \in Nat \ {0} /\ q \in Nat /\ n = q * w
  BY WidthType, ModZero
<1>2. l < TOTAL_LEVEL => Width[l + 1] = 2 * w /\ 2 * w \in Nat \ {0}
  BY WidthAssumption, WidthType, LevelType
<1>3. n + w = (q + 1) * w /\ q + 1 \in Nat /\ n + w \in Nat
  <2> HIDE DEF w, q
  <2> QED BY <1>1
<1>4. (n + w) % w = 0
  BY <1>1, <1>3, DivUnique
<1>5. ASSUME q % 2 = 1, l < TOTAL_LEVEL PROVE (n + w) % (2 * w) = 0
  <2> HIDE DEF w, q
  <2>1. PICK h \in Nat : q + 1 = 2 * h
    <3> DEFINE g == q \div 2
    <3>1. q = 2 * g + 1 /\ g \in Nat
      BY <1>1, <1>5
    <3> HIDE DEF g
    <3>2. q + 1 = 2 * (g + 1) /\ g + 1 \in Nat
      BY <3>1
    <3> QED BY <3>2
  <2>2. (2 * h) * w = h * (2 * w)
    BY <1>1
  <2>3. n + w = h * (2 * w)
    BY <1>3, <2>1, <2>2
  <2> QED BY <1>2, <1>3, <1>5, <2>1, <2>3, DivUnique
<1>6. ASSUME q % 2 # 1, l < TOTAL_LEVEL PROVE n % (2 * w) = 0
  <2> HIDE DEF w, q
  <2>1. PICK h \in Nat : q = 2 * h
    <3>1. q = 2 * (q \div 2) /\ q \div 2 \in Nat
      BY <1>1, <1>6
    <3> QED BY <3>1
  <2>2. (2 * h) * w = h * (2 * w)
    BY <1>1
  <2>3. n = h * (2 * w)
    BY <1>1, <2>1, <2>2
  <2> QED BY <1>2, <1>6, <2>1, <2>3, DivUnique
<1> QED BY <1>2, <1>4, <1>5, <1>6

-----------------------------------------------------------------------------
(* Pages of blocks *)

\* A block has Width[level] pages.
LEMMA PagesType ==
  ASSUME NEW b \in Block
  PROVE  /\ Start(b) \in Nat /\ Start(b) \in Pages(b) /\ Pages(b) \subseteq Nat
         /\ IsFiniteSet(Pages(b)) /\ Cardinality(Pages(b)) = Width[b[1]]
<1> DEFINE s == Start(b)  w == Width[b[1]]
<1>1. w \in Nat \ {0} /\ s \in Nat
  BY WidthType DEF Block, Start
<1>2. Pages(b) = s..(s + w - 1)
  BY DEF Pages
<1> HIDE DEF s, w
<1>3. IsFiniteSet(s..(s + w - 1)) /\ Cardinality(s..(s + w - 1)) = (s + w - 1) - s + 1
  BY <1>1, FS_Interval
<1> QED BY <1>1, <1>2, <1>3 DEF s, w

\* The block that pageman_freeBlock frees at an aligned offset.
LEMMA AlignedBlock ==
  ASSUME NEW l \in Level, NEW n \in Nat, n % Width[l] = 0
  PROVE  LET b == <<l, n \div Width[l]>>
         IN  b \in Block /\ Pages(b) = n..(n + Width[l] - 1)
<1>1. n \div Width[l] \in Nat /\ n = (n \div Width[l]) * Width[l]
  BY WidthType, ModZero
<1> QED BY <1>1 DEF Block, Pages, Start

\* Two buddies share their bit, and halve their super block.
LEMMA BuddyFacts ==
  ASSUME NEW b \in Block, b[1] < TOTAL_LEVEL
  PROVE  /\ Buddy(b) \in Block /\ Buddy(b)[1] = b[1] /\ Buddy(b) # b
         /\ Offset(Buddy(b)) = Offset(b) /\ Offset(b) \in Nat
         /\ {b[2], Buddy(b)[2]} = {2 * Offset(b), 2 * Offset(b) + 1}
         /\ Super(b) \in Block /\ Super(b)[1] = b[1] + 1
         /\ Pages(Super(b)) = Pages(b) \cup Pages(Buddy(b))
         /\ Pages(b) \cap Pages(Buddy(b)) = {}
<1> DEFINE l == b[1]  i == b[2]  h == i \div 2  w == Width[l]
<1>1. b = <<l, i>> /\ l \in Level /\ l + 1 \in Level /\ i \in Nat /\ h \in Nat
  BY LevelAssumption DEF Block, Level
<1>2. w \in Nat \ {0} /\ Width[l + 1] = 2 * w
  BY <1>1, WidthType, WidthAssumption, LevelType
<1>3. \/ i = 2 * h /\ Buddy(b) = <<l, 2 * h + 1>>
      \/ i = 2 * h + 1 /\ Buddy(b) = <<l, 2 * h>>
  BY <1>1 DEF Buddy
<1>4. Super(b) = <<l + 1, h>>
  BY DEF Super
<1>5. /\ Pages(<<l + 1, h>>) = Pages(<<l, 2 * h>>) \cup Pages(<<l, 2 * h + 1>>)
      /\ Pages(<<l, 2 * h>>) \cap Pages(<<l, 2 * h + 1>>) = {}
  <2> DEFINE x == h * w
  <2>1. /\ x \in Nat /\ h * (2 * w) = 2 * x
        /\ (2 * h) * w = 2 * x /\ (2 * h + 1) * w = 2 * x + w
    <3> HIDE DEF h, w
    <3> QED BY <1>1, <1>2
  <2>2. /\ Pages(<<l + 1, h>>) = 2 * x .. (2 * x + 2 * w - 1)
        /\ Pages(<<l, 2 * h>>) = 2 * x .. (2 * x + w - 1)
        /\ Pages(<<l, 2 * h + 1>>) = (2 * x + w) .. (2 * x + w + w - 1)
    <3> HIDE DEF x, h
    <3> QED BY <1>2, <2>1 DEF Pages, Start, x
  <2> HIDE DEF x, w, h
  <2> QED BY <1>2, <2>1, <2>2
<1>6. (2 * h) \div 2 = h /\ (2 * h + 1) \div 2 = h
  BY <1>1
<1>7. <<l, 2 * h>> \in Block /\ <<l, 2 * h + 1>> \in Block /\ <<l + 1, h>> \in Block
  BY <1>1 DEF Block
<1>8. Offset(b) = h /\ Offset(Buddy(b)) = h
  BY <1>1, <1>3, <1>6 DEF Offset
<1> HIDE DEF h, w
<1>9. CASE i = 2 * h /\ Buddy(b) = <<l, 2 * h + 1>>
  BY <1>1, <1>4, <1>5, <1>7, <1>8, <1>9
<1>10. CASE i = 2 * h + 1 /\ Buddy(b) = <<l, 2 * h>>
  BY <1>1, <1>4, <1>5, <1>7, <1>8, <1>10
<1> QED BY <1>3, <1>9, <1>10

\* A block is its buddy's buddy.
LEMMA BuddyTwice == ASSUME NEW b \in Block PROVE Buddy(Buddy(b)) = b
<1>1. b[2] \in Nat /\ b = <<b[1], b[2]>>
  BY DEF Block
<1> QED BY <1>1 DEF Buddy

\* Two blocks of one level that share a page are one block.
LEMMA SameLevel ==
  ASSUME NEW b \in Block, NEW c \in Block, b[1] = c[1],
         NEW p \in Pages(b) \cap Pages(c)
  PROVE  b = c
<1> DEFINE w == Width[b[1]]  x == b[2] * w  y == c[2] * w
<1>1. /\ b[2] \in Nat /\ c[2] \in Nat /\ w \in Nat \ {0}
      /\ b = <<b[1], b[2]>> /\ c = <<c[1], c[2]>>
  BY WidthType DEF Block
<1>2. x \in Nat /\ y \in Nat
  <2> HIDE DEF w
  <2> QED BY <1>1
<1>3. p \in x..(x + w - 1) /\ p \in y..(y + w - 1)
  BY DEF Pages, Start
<1>4. CASE b[2] < c[2]
  <2>1. x + w <= y
    <3> HIDE DEF w
    <3> QED BY <1>1, <1>4, MulMono
  <2> HIDE DEF x, y, w
  <2> QED BY <1>1, <1>2, <1>3, <2>1
<1>5. CASE c[2] < b[2]
  <2>1. y + w <= x
    <3> HIDE DEF w
    <3> QED BY <1>1, <1>5, MulMono
  <2> HIDE DEF x, y, w
  <2> QED BY <1>1, <1>2, <1>3, <2>1
<1> QED BY <1>1, <1>4, <1>5

\* Blocks nest: a block that shares a page with a block of its level or a
\* higher one lies inside it.
LEMMA Nested ==
  ASSUME NEW b \in Block, NEW c \in Block, b[1] <= c[1],
         NEW p \in Pages(b) \cap Pages(c)
  PROVE  Pages(b) \subseteq Pages(c)
<1> DEFINE w == Width[b[1]]  i == b[2]
<1>1. /\ i \in Nat /\ c[2] \in Nat /\ w \in Nat \ {0}
      /\ b[1] \in Level /\ c[1] \in Level /\ b[1] \in 0..c[1]
  <2>1. i \in Nat /\ c[2] \in Nat /\ b[1] \in Level /\ c[1] \in Level
    BY DEF Block
  <2>2. b[1] \in Nat /\ c[1] \in Nat /\ w \in Nat \ {0}
    BY <2>1, WidthType, LevelType
  <2> QED BY <2>1, <2>2
<1>2. PICK d \in Nat \ {0} : Width[c[1]] = d * w
  BY <1>1, WidthDivides
<1> DEFINE e == c[2] * d  x == i * w  y == e * w  z == (e + d) * w
<1> HIDE DEF w, i
<1>3. e \in Nat /\ e + d \in Nat
  BY <1>1, <1>2
<1>4. x \in Nat /\ y \in Nat /\ z \in Nat
  BY <1>1, <1>2, <1>3
<1>5. Start(c) = y /\ Start(c) + Width[c[1]] = z
  <2>1. c[2] * (d * w) = (c[2] * d) * w /\ (c[2] * d) * w + d * w = (c[2] * d + d) * w
    BY <1>1, <1>2
  <2> QED BY <1>2, <2>1 DEF Start
<1>6. /\ Pages(b) = x..(x + w - 1) /\ Pages(c) = y..(z - 1)
      /\ p \in x..(x + w - 1) /\ p \in y..(z - 1)
  <2>1. Pages(b) = x..(x + w - 1)
    BY DEF Pages, Start, w, i
  <2>2. Pages(c) = y..(z - 1)
    <3>1. Pages(c) = Start(c)..(Start(c) + Width[c[1]] - 1)
      BY DEF Pages
    <3> HIDE DEF y, z
    <3>2. Start(c) \in Nat /\ Width[c[1]] \in Nat
      BY <1>1, <1>4, <1>5, WidthType
    <3> QED BY <1>5, <3>1, <3>2
  <2> HIDE DEF x, y, z
  <2> QED BY <2>1, <2>2
<1>7. e <= i
  <2> SUFFICES ASSUME i < e PROVE FALSE
    BY <1>1, <1>3
  <2>1. x + w <= y
    BY <1>1, <1>3, MulMono
  <2> HIDE DEF x, y, z
  <2> QED BY <1>1, <1>4, <1>6, <2>1
<1>8. i < e + d
  <2> SUFFICES ASSUME e + d <= i PROVE FALSE
    BY <1>1, <1>3
  <2>1. z <= x
    <3>1. CASE e + d = i
      BY <1>4, <3>1
    <3>2. CASE e + d < i
      <4>1. z + w <= x
        BY <1>1, <1>3, <3>2, MulMono
      <4> HIDE DEF x, z
      <4> QED BY <1>1, <1>4, <4>1
    <3> QED BY <1>1, <1>3, <3>1, <3>2
  <2> HIDE DEF x, y, z
  <2> QED BY <1>1, <1>4, <1>6, <2>1
<1>9. y <= x
  <2>1. CASE e = i
    BY <1>4, <2>1
  <2>2. CASE e < i
    <3>1. y + w <= x
      BY <1>1, <1>3, <2>2, MulMono
    <3> HIDE DEF x, y
    <3> QED BY <1>1, <1>4, <3>1
  <2> QED BY <1>1, <1>3, <1>7, <2>1, <2>2
<1>10. x + w <= z
  BY <1>1, <1>3, <1>8, MulMono
<1> HIDE DEF x, y, z
<1> QED BY <1>1, <1>4, <1>6, <1>9, <1>10

\* A block or two pages more or less, in pages.
LEMMA CountBlock ==
  ASSUME NEW bs, NEW x \in Block, Pages(x) \cap PagesOf(bs) = {},
         IsFiniteSet(PagesOf(bs)) \/ IsFiniteSet(PagesOf(bs \cup {x}))
  PROVE  /\ IsFiniteSet(PagesOf(bs)) /\ IsFiniteSet(PagesOf(bs \cup {x}))
         /\ Cardinality(PagesOf(bs)) \in Nat
         /\ Cardinality(PagesOf(bs \cup {x})) = Cardinality(PagesOf(bs)) + Width[x[1]]
<1>1. PagesOf(bs \cup {x}) = PagesOf(bs) \cup Pages(x)
  BY DEF PagesOf
<1>2. IsFiniteSet(Pages(x)) /\ Cardinality(Pages(x)) = Width[x[1]] /\ Width[x[1]] \in Nat
  BY PagesType, WidthType DEF Block
<1>3. IsFiniteSet(PagesOf(bs))
  BY <1>1, FS_Subset
<1>4. Cardinality({}) = 0 /\ Cardinality(PagesOf(bs)) \in Nat
  BY <1>3, FS_EmptySet, FS_CardinalityType
<1>5. /\ IsFiniteSet(PagesOf(bs) \cup Pages(x))
      /\ Cardinality(PagesOf(bs) \cup Pages(x)) =
           Cardinality(PagesOf(bs)) + Cardinality(Pages(x)) - Cardinality(PagesOf(bs) \cap Pages(x))
  BY <1>2, <1>3, FS_Union
<1>6. PagesOf(bs) \cap Pages(x) = {}
  OBVIOUS
<1> DEFINE n == Cardinality(PagesOf(bs))  m == Width[x[1]]
<1>7. Cardinality(PagesOf(bs) \cup Pages(x)) = n + m
  <2>1. Cardinality(PagesOf(bs) \cup Pages(x)) = n + m - 0 /\ n \in Nat /\ m \in Nat
    BY <1>2, <1>4, <1>5, <1>6
  <2> HIDE DEF n, m
  <2> QED BY <2>1
<1> QED BY <1>1, <1>3, <1>4, <1>5, <1>7

=============================================================================
