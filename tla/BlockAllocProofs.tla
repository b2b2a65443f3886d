-------------------------- MODULE BlockAllocProofs --------------------------
(***************************************************************************)
(* Theorems about BlockAlloc: the memory is well formed at every step of   *)
(* every call, what callers were given lies in the allocator's pages and   *)
(* apart, nothing leaks, no free neighbours are left unmerged, and free    *)
(* never takes for a header what is none, for every size of page and word, *)
(* every memory, and all requests that ServedAssumption admits.            *)
(***************************************************************************)
EXTENDS BlockAlloc, BuddyProofs

(* The invariant.  What it says of small blocks it says of a memory h, for  *)
(* the code writes several headers in a step.                              *)

PlainOf(h) == {a \in DOMAIN h : ~IsBig(h, a) /\ ~IsAlias(h, a)}
SmallOf(h) == {a \in PlainOf(h) : ~Protector(a)}
PageAt(a) == a \div PAGE_SIZE

\* Headers are aligned, and are of one kind: an alias, a big block, or small.
Typed(h) ==
  /\ h \in [DOMAIN h -> [prev : Nat \cup {Junk}, size : 0..(WORD - 1)]]
  /\ \A a \in DOMAIN h :
       /\ a \in Nat /\ a % 8 = 0
       /\ h[a].size = 4 \/ h[a].size % 8 \in {0, 1, 3}

\* Tiled, in each page, and what follows from it about two blocks
Tiling(h) ==
  /\ \A a \in SmallOf(h) :
       /\ Cap(h, a) >= BLOCK_SIZE
       /\ NextBlock(h, a) \in PlainOf(h) /\ PageAt(NextBlock(h, a)) = PageAt(a)
       /\ h[NextBlock(h, a)].prev = a
       /\ h[a].prev = NULL <=> a % PAGE_SIZE = 0
  /\ \A a \in PlainOf(h) :
       /\ a # NULL
       /\ h[a].prev # NULL => h[a].prev \in SmallOf(h) /\ NextBlock(h, h[a].prev) = a
       /\ Protector(a) => h[a].size = 1
  /\ \A a \in SmallOf(h), c \in PlainOf(h) : a < c => NextBlock(h, a) <= c

\* The lists hold the free blocks and nothing else.
Lists(h, l) ==
  /\ l \in [Class -> SUBSET SmallOf(h)]
  /\ \A a \in SmallOf(h), c \in Class :
       a \in l[c] <=> ~IsUsed(h, a) /\ ClassOf(h[a].size) = c

\* A free block's neighbours are used, and it does not fill its page.
Merging(h) ==
  \A a \in SmallOf(h) : ~IsUsed(h, a) =>
    /\ h[NextBlock(h, a)].size # 1 \/ h[a].prev # NULL
    /\ IsUsed(h, NextBlock(h, a))

Known == UNION Memories
EndOf(b) == (Start(b) + Width[b[1]]) * PAGE_SIZE

\* The manager's pages and the allocator's blocks of pages are apart.
Store ==
  /\ Pm!TypeOK
  /\ \A b \in held : Pages(b) \cap free = {} /\ Pages(b) \subseteq Known
  /\ \A b, c \in held : b # c => Pages(b) \cap Pages(c) = {}

\* Small blocks lie in pages of their own.
Housed == \A a \in PlainOf(hdr) : <<0, PageAt(a)>> \in held

\* A big block is one of the manager's, got for its size.
Run(a, b) ==
  /\ b \in held /\ b[1] # 0 /\ Address(b) = a
  /\ \E n \in Asked :
       /\ n > MAX_SIZE /\ hdr[a].size = n - (n % 4) + 3
       /\ b[1] = GetPagePow(BLOCK_T + n)

Bigs ==
  /\ NULL \in DOMAIN hdr => IsBig(hdr, NULL)
  /\ \A a \in DOMAIN hdr : IsBig(hdr, a) /\ a # NULL => \E b \in held : Run(a, b)

\* The block of a header, which for an alias is the one it points to
Owner(a) == IF IsAlias(hdr, a) THEN hdr[a].prev ELSE a

\* A block of pages holds a header and the start of what follows it.
Covers(b, a) == PageAt(a) \in Pages(b) /\ PageAt(a + HEADER) \in Pages(b)

\* An alias and what it stands in front of lie in the big block that it points
\* to.  It is that of a pointer which a caller has or gives back.
Aliases ==
  \A a \in DOMAIN hdr : IsAlias(hdr, a) =>
    /\ hdr[a].prev \in DOMAIN hdr /\ IsBig(hdr, hdr[a].prev)
    /\ hdr[a].prev = NULL => a # NULL /\ PageAt(a) \notin Known
    /\ hdr[a].prev # NULL =>
         /\ a > hdr[a].prev
         /\ \E b \in held : Run(hdr[a].prev, b) /\ Covers(b, a)
         /\ (\E p \in live : p.addr = a + HEADER) \/ (pc = "free" /\ blk = a)

\* The bytes from addr on lie in the block o, behind its header.
Fits(o, addr, need) ==
  /\ o \in DOMAIN hdr /\ need \in Nat /\ addr \in Nat
  /\ \/ o \in SmallOf(hdr) /\ IsUsed(hdr, o) /\ addr = o + HEADER /\ need <= Cap(hdr, o)
     \/ o = NULL
     \/ /\ IsBig(hdr, o) /\ o + HEADER <= addr
        /\ \E b \in held :
             Run(o, b) /\ addr + need <= (Start(b) + Width[b[1]]) * PAGE_SIZE

\* A pointer's block holds it, and nothing of another's.
Lives ==
  /\ \A p \in live :
       /\ p \in [addr : Nat, need : Nat]
       /\ p.addr - HEADER \in DOMAIN hdr
       /\ Fits(Owner(p.addr - HEADER), p.addr, p.need)
  /\ \A p, q \in live :
       p # q => \/ Owner(p.addr - HEADER) # Owner(q.addr - HEADER)
                \/ Owner(p.addr - HEADER) = NULL

Unowned(o) == o = NULL \/ \A p \in live : Owner(p.addr - HEADER) # o

InMalloc == pc \in {"malloc", "big", "page", "return"}

\* What a call of allocator_malloc was made with
Serving ==
  /\ call.size \in Asked /\ call.need \in Nat
  /\ \/ call.op \in {"malloc", "realloc"} /\ call.need = call.size
     \/ /\ call.op = "aligned" /\ call.align \in Nat \ {0} /\ call.align % PAGE_SIZE = 0
        /\ call.size = call.need + call.align - BLOCK_SIZE
        /\ call.align \div PAGE_SIZE - 1 \notin Known
  /\ call.op = "realloc" => \E p \in live : p.addr = call.old

\* The block it has found is large enough and nobody's.  A big one has room for
\* two headers.
Answering ==
  /\ Fits(blk, blk + HEADER, call.size) /\ ~IsAlias(hdr, blk) /\ Unowned(blk)
  /\ blk # NULL /\ call.size <= MAX_SIZE => blk \in SmallOf(hdr)
  /\ call.size > MAX_SIZE =>
       /\ IsBig(hdr, blk)
       /\ blk # NULL =>
            \E b \in held : Run(blk, b) /\ blk + BLOCK_T + call.size <= EndOf(b)

\* The block to be freed is used and nobody's.
Freeing ==
  /\ blk \in DOMAIN hdr /\ Unowned(Owner(blk))
  /\ blk \in PlainOf(hdr) => blk \in SmallOf(hdr) /\ IsUsed(hdr, blk)

\* What the calls have at hand at each place
Control ==
  /\ pc \in {"create", "idle", "malloc", "big", "page", "return", "free", "frame",
             "wild", "halted"}
  /\ pc \in {"idle", "create", "free", "frame"} => call = Idle
  /\ req # None <=> pc \in {"create", "big", "page"}
  /\ pc = "page" => req = 0 /\ call.size <= MAX_SIZE /\ Wanted + 32 <= PAGE_SIZE
  /\ pc = "big" => req = GetPagePow(BLOCK_T + call.size) /\ call.size > MAX_SIZE
  /\ pc = "create" => held = {} /\ DOMAIN hdr = {} /\ live = {}
  /\ InMalloc /\ ~(pc = "return" /\ blk = None) => Serving
  /\ pc = "return" /\ blk # None => Answering
  /\ pc \in {"free", "frame"} => Freeing
  /\ pc = "frame" => ~IsAlias(hdr, blk)

\* Two memories agree on some headers.
Same(g, h, S) == \A a \in S : g[a] = h[a]
SameSize(g, h, S) == \A a \in S : g[a].size = h[a].size
SamePrev(g, h, S) == \A a \in S : g[a].prev = h[a].prev

Heap(h, l) == Typed(h) /\ Tiling(h) /\ Lists(h, l) /\ Merging(h)

\* The memory and the pages, without the callers' pointers
Sound == Heap(hdr, blocks) /\ Store /\ Housed /\ Bigs /\ Aliases

\* The block that a call has found, or is freeing
InHand(o) ==
  \/ pc = "return" /\ blk # None /\ blk = o
  \/ pc \in {"free", "frame"} /\ Owner(blk) = o

InUse(a) ==
  \/ a \in SmallOf(hdr) /\ IsUsed(hdr, a)
  \/ a \in DOMAIN hdr /\ IsBig(hdr, a) /\ a # NULL

\* A block that is used is a caller's or in hand.
NoneLost == \A a \in DOMAIN hdr : InUse(a) => InHand(a) \/ ~Unowned(a)

\* The pages that small blocks are cut from, or that are a big block
Filled(b) ==
  \/ \E a \in SmallOf(hdr) : b = <<0, PageAt(a)>>
  \/ \E a \in DOMAIN hdr : IsBig(hdr, a) /\ a # NULL /\ Run(a, b)

\* All that are held, but the allocator's own
OneOwn == \E own \in held : \A b \in held : Filled(b) <=> b # own

Running == pc \notin {"create", "wild", "halted"}
Accounted == IsFiniteSet(held) /\ (Running => NoneLost /\ OneOwn)

BInv == Sound /\ Lives /\ Control /\ Accounted

(* Sizes and pages                                                         *)

LEMMA Constants ==
  /\ HEADER = 8 /\ BLOCK_T = 16 /\ BLOCK_SIZE = 8 /\ NULL = 0 /\ Junk = -1
  /\ PAGE_SIZE \in Nat /\ PAGE_SIZE % 8 = 0 /\ PAGE_SIZE >= 32
  /\ WORD \in Nat /\ WORD % 8 = 0 /\ WORD >= PAGE_SIZE
  /\ MAX_SIZE = PAGE_SIZE - 16 /\ ARR_LEN \in Nat /\ MAX_SIZE = 8 * ARR_LEN
  /\ Class = 0..(ARR_LEN - 1)
<1>1. HEADER = 8 /\ BLOCK_T = 16 /\ BLOCK_SIZE = 8 /\ NULL = 0 /\ Junk = -1
  BY DEF HEADER, BLOCK_T, BLOCK_SIZE, NULL, Junk
<1>2. /\ PAGE_SIZE \in Nat /\ PAGE_SIZE % 8 = 0 /\ PAGE_SIZE >= 32
      /\ WORD \in Nat /\ WORD % 8 = 0 /\ WORD >= PAGE_SIZE
  BY <1>1, PageSizeAssumption, RequestAssumption
<1>3. MAX_SIZE = PAGE_SIZE - 16 /\ ARR_LEN = (PAGE_SIZE - 16) \div 8
  BY <1>1 DEF MAX_SIZE, ARR_LEN
<1>4. ARR_LEN \in Nat /\ MAX_SIZE = 8 * ARR_LEN
  BY <1>2, <1>3
<1> QED
  BY <1>1, <1>2, <1>3, <1>4 DEF Class

LEMMA Sized ==
  /\ HEADER = 8 /\ BLOCK_SIZE = 8 /\ NULL = 0 /\ Junk = -1
  /\ PAGE_SIZE \in Nat /\ PAGE_SIZE >= 32 /\ WORD \in Nat /\ WORD >= PAGE_SIZE
  /\ MAX_SIZE = PAGE_SIZE - 16
  BY Constants

\* The low bits of a size say what kind of header it is in.
LEMMA Bits ==
  ASSUME NEW s \in Nat, s = 4 \/ s % 8 \in {0, 1, 3}
  PROVE  /\ (s \div 2) % 2 = 1 <=> s % 8 = 3
         /\ (s \div 4) % 2 = 1 <=> s = 4
         /\ s % 2 = 1 <=> s % 8 \in {1, 3}
         /\ s % 8 = 0 => s % 2 = 0 /\ s % 4 = 0
         /\ s % 8 = 1 => s % 2 = 1 /\ s % 4 = 1 /\ (s - 1) % 8 = 0
         /\ s % 8 = 3 => s % 2 = 1 /\ s % 4 = 3
  BY SMT

\* What a header's size says of it.
LEMMA Kind ==
  ASSUME NEW h, Typed(h), NEW a \in DOMAIN h
  PROVE  /\ a \in Nat /\ a % 8 = 0
         /\ h[a].size \in Nat /\ h[a].size < WORD /\ h[a].prev \in Int
         /\ IsAlias(h, a) <=> h[a].size = 4
         /\ IsBig(h, a) <=> h[a].size % 8 = 3
         /\ a \in PlainOf(h) <=> h[a].size % 8 \in {0, 1}
         /\ IsBig(h, a) => IsUsed(h, a) /\ ~IsAlias(h, a)
         /\ a \in PlainOf(h) =>
              /\ Cap(h, a) \in Nat /\ Cap(h, a) % 8 = 0
              /\ IsUsed(h, a) => h[a].size = Cap(h, a) + 1
              /\ ~IsUsed(h, a) => h[a].size = Cap(h, a)
              /\ NextBlock(h, a) = a + 8 + Cap(h, a)
              /\ NextBlock(h, a) \in Nat /\ NextBlock(h, a) % 8 = 0
<1> DEFINE s == h[a].size
<1>1. a \in Nat /\ a % 8 = 0 /\ s \in Nat /\ s < WORD /\ h[a].prev \in Int
      /\ (s = 4 \/ s % 8 \in {0, 1, 3})
  BY Constants DEF Typed
<1> HIDE DEF s
<1>2. /\ (s \div 2) % 2 = 1 <=> s % 8 = 3
      /\ (s \div 4) % 2 = 1 <=> s = 4
      /\ s % 2 = 1 <=> s % 8 \in {1, 3}
      /\ s % 8 = 0 => s % 2 = 0 /\ s % 4 = 0
      /\ s % 8 = 1 => s % 2 = 1 /\ s % 4 = 1 /\ (s - 1) % 8 = 0
      /\ s % 8 = 3 => s % 2 = 1 /\ s % 4 = 3
  BY <1>1, Bits
<1>3. IsAlias(h, a) <=> s = 4
  BY <1>2 DEF IsAlias, s
<1>4. IsBig(h, a) <=> s % 8 = 3
  BY <1>2 DEF IsBig, s
<1>5. IsUsed(h, a) <=> s % 8 \in {1, 3}
  BY <1>2 DEF IsUsed, s
<1>6. a \in PlainOf(h) <=> s % 8 \in {0, 1}
  BY <1>1, <1>3, <1>4 DEF PlainOf
<1>7. ASSUME s % 8 \in {0, 1}
      PROVE  /\ Cap(h, a) \in Nat /\ Cap(h, a) % 8 = 0
             /\ s % 8 = 1 => s = Cap(h, a) + 1
             /\ s % 8 = 0 => s = Cap(h, a)
  <2>1. Cap(h, a) = s - (s % 4)
    BY DEF Cap, s
  <2> QED BY <1>1, <1>2, <1>7, <2>1
<1>8. ASSUME a \in PlainOf(h)
      PROVE  /\ NextBlock(h, a) = a + 8 + Cap(h, a)
             /\ NextBlock(h, a) \in Nat /\ NextBlock(h, a) % 8 = 0
  BY <1>1, <1>6, <1>7, <1>8, Constants DEF NextBlock
<1> QED
  BY <1>1, <1>3, <1>4, <1>5, <1>6, <1>7, <1>8 DEF s

\* The page of an address, and where it begins and ends
LEMMA PageBounds ==
  ASSUME NEW a \in Nat
  PROVE  \E y \in Nat : /\ PageAt(a) \in Nat /\ y = PageAt(a) * PAGE_SIZE
                        /\ y <= a /\ a < y + PAGE_SIZE /\ a % PAGE_SIZE = a - y
                        /\ y % 8 = 0 /\ y % PAGE_SIZE = 0 /\ PageAt(y) = PageAt(a)
<1> DEFINE q == PageAt(a)  r == a % PAGE_SIZE  y == q * PAGE_SIZE
<1>1. PAGE_SIZE \in Nat \ {0}
  BY Constants
<1>2. q \in Nat /\ r \in 0..(PAGE_SIZE - 1) /\ a = y + r
  BY <1>1, DivMod DEF PageAt
<1>3. y \in Nat /\ y % PAGE_SIZE = 0 /\ PageAt(y) = q
  <2>1. y \in Nat
    <3> HIDE DEF q
    <3> QED BY <1>1, <1>2
  <2> HIDE DEF q
  <2> QED BY <1>1, <1>2, <2>1, DivUnique DEF PageAt
<1>4. y % 8 = 0
  <2>1. PICK k \in Nat : PAGE_SIZE = k * 8
    BY Constants, ModZero
  <2>2. y = (q * k) * 8 /\ q * k \in Nat
    <3> HIDE DEF q
    <3> QED BY <1>2, <2>1
  <2> HIDE DEF y
  <2> QED BY <1>3, <2>2, DivUnique
<1> HIDE DEF q, r, y
<1>5. y <= a /\ a < y + PAGE_SIZE /\ r = a - y
  BY <1>1, <1>2, <1>3
<1> QED
  BY <1>2, <1>3, <1>4, <1>5 DEF q, r, y

LEMMA PageIs ==
  ASSUME NEW a \in Nat, NEW q \in Nat, NEW y \in Nat, y = q * PAGE_SIZE,
         y <= a, a < y + PAGE_SIZE
  PROVE  PageAt(a) = q /\ a % PAGE_SIZE = a - y
<1>1. a - y \in 0..(PAGE_SIZE - 1) /\ PAGE_SIZE \in Nat \ {0} /\ a = q * PAGE_SIZE + (a - y)
  BY Constants
<1> QED
  BY <1>1, OneQuotient DEF PageAt

\* Pages in between, in order
LEMMA PageMono ==
  ASSUME NEW a \in Nat, NEW c \in Nat, a <= c
  PROVE  PageAt(a) <= PageAt(c)
  BY Constants, DivMono DEF PageAt

\* The page of two addresses
LEMMA SamePage ==
  ASSUME NEW a \in Nat, NEW c \in Nat, PageAt(a) = PageAt(c), a % 8 = 0, c % 8 = 0
  PROVE  c - a <= PAGE_SIZE - 8
<1>1. PICK y \in Nat : y = PageAt(a) * PAGE_SIZE /\ y <= a /\ y % 8 = 0
  BY PageBounds
<1>2. PICK x \in Nat : x = PageAt(c) * PAGE_SIZE /\ c < x + PAGE_SIZE
  BY PageBounds
<1>3. x = y
  BY <1>1, <1>2
<1>4. c < y + PAGE_SIZE
  BY <1>2, <1>3
<1>5. c <= y + PAGE_SIZE - 8
  <2>1. PICK p : p = PAGE_SIZE
    OBVIOUS
  <2>2. p \in Nat /\ p % 8 = 0 /\ y \in Nat /\ y % 8 = 0 /\ c < y + p
    BY <1>1, <1>4, <2>1, Constants
  <2>3. c <= y + p - 8
    BY <2>2
  <2> QED BY <2>1, <2>3
<1> QED
  BY <1>1, <1>5, Constants

-----------------------------------------------------------------------------
(* Small blocks of a memory                                                *)

LEMMA SmallFacts ==
  ASSUME NEW h, Typed(h), Tiling(h), NEW a \in SmallOf(h)
  PROVE  /\ a \in DOMAIN h /\ a \in PlainOf(h) /\ a \in Nat /\ a % 8 = 0
         /\ Cap(h, a) \in Nat /\ Cap(h, a) % 8 = 0 /\ Cap(h, a) >= 8 /\ Cap(h, a) <= MAX_SIZE
         /\ NextBlock(h, a) = a + 8 + Cap(h, a) /\ NextBlock(h, a) \in PlainOf(h)
         /\ h[a].size \in Nat /\ (IsUsed(h, a) => h[a].size = Cap(h, a) + 1)
         /\ (~IsUsed(h, a) => h[a].size = Cap(h, a))
         /\ ClassOf(h[a].size) \in Class /\ Cap(h, a) = 8 * (ClassOf(h[a].size) + 1)
<1> DEFINE n == NextBlock(h, a)  c == Cap(h, a)  s == h[a].size
<1>1. a \in DOMAIN h /\ a \in PlainOf(h)
  BY DEF SmallOf, PlainOf
<1>2. /\ a \in Nat /\ a % 8 = 0 /\ s \in Nat
      /\ c \in Nat /\ c % 8 = 0 /\ (IsUsed(h, a) => s = c + 1) /\ (~IsUsed(h, a) => s = c)
      /\ n = a + 8 + c /\ n \in Nat /\ n % 8 = 0
  BY <1>1, Kind
<1>3. c >= 8 /\ n \in PlainOf(h) /\ PageAt(n) = PageAt(a)
  BY Constants DEF Tiling
<1> HIDE DEF n, c, s
<1>4. c <= MAX_SIZE
  BY <1>2, <1>3, SamePage, Constants
<1>5. ClassOf(s) = c \div 8 - 1
  <2>1. ClassOf(s) = s \div 8 - 1
    BY Constants DEF ClassOf
  <2> QED BY <1>2, <2>1
<1>6. ClassOf(s) \in Class /\ c = 8 * (ClassOf(s) + 1)
  BY <1>2, <1>3, <1>4, <1>5, Constants
<1> QED
  BY <1>1, <1>2, <1>3, <1>4, <1>6 DEF n, c, s

\* Tiling is about the plain headers, their ends and where they point back.
LEMMA SameTiling ==
  ASSUME NEW g, NEW h, Tiling(h), PlainOf(g) = PlainOf(h),
         \A a \in PlainOf(h) : /\ g[a].prev = h[a].prev /\ Cap(g, a) = Cap(h, a)
                               /\ Protector(a) => g[a].size = h[a].size
  PROVE  Tiling(g) /\ \A a \in PlainOf(h) : NextBlock(g, a) = NextBlock(h, a)
<1>1. \A a \in PlainOf(h) : NextBlock(g, a) = NextBlock(h, a)
  BY DEF NextBlock
<1>2. SmallOf(g) = SmallOf(h) /\ SmallOf(h) \subseteq PlainOf(h)
  BY DEF SmallOf
<1>3. ASSUME NEW a \in SmallOf(g)
      PROVE  /\ Cap(g, a) >= BLOCK_SIZE
             /\ NextBlock(g, a) \in PlainOf(g) /\ PageAt(NextBlock(g, a)) = PageAt(a)
             /\ g[NextBlock(g, a)].prev = a
             /\ g[a].prev = NULL <=> a % PAGE_SIZE = 0
  BY <1>1, <1>2 DEF Tiling
<1>4. ASSUME NEW a \in PlainOf(g)
      PROVE  /\ a # NULL
             /\ g[a].prev # NULL => g[a].prev \in SmallOf(g) /\ NextBlock(g, g[a].prev) = a
             /\ Protector(a) => g[a].size = 1
  BY <1>1, <1>2 DEF Tiling
<1>5. \A a \in SmallOf(g), c \in PlainOf(g) : a < c => NextBlock(g, a) <= c
  BY <1>1, <1>2 DEF Tiling
<1> QED
  BY <1>1, <1>3, <1>4, <1>5 DEF Tiling

\* Two words of a memory are written.
LEMMA Writes ==
  ASSUME NEW P, NEW S, NEW D, NEW h \in [D -> [prev : P, size : S]],
         NEW f \in D, NEW t \in D, f # t, NEW x, NEW y
  PROVE  [h EXCEPT ![f].size = x, ![t].prev = y] =
           [a \in D |-> [prev |-> IF a = t THEN y ELSE h[a].prev,
                         size |-> IF a = f THEN x ELSE h[a].size]]
<1> DEFINE e == [h EXCEPT ![f].size = x, ![t].prev = y]
<1>1. e \in [D -> {e[a] : a \in D}]
  OBVIOUS
<1>2. ASSUME NEW a \in D
      PROVE  e[a] = [prev |-> IF a = t THEN y ELSE h[a].prev,
                     size |-> IF a = f THEN x ELSE h[a].size]
  OBVIOUS
<1> HIDE DEF e
<1> QED BY <1>1, <1>2 DEF e

LEMMA NextIs == \A h, a : NextBlock(h, a) = a + 8 + Cap(h, a)
  BY Constants DEF NextBlock

\* Two used blocks become one (mergeBlock).
LEMMA MergeTiling ==
  ASSUME NEW h, Typed(h), Tiling(h), NEW f \in SmallOf(h), NEW s \in SmallOf(h),
         s = NextBlock(h, f), IsUsed(h, f), IsUsed(h, s)
  PROVE  /\ Typed(Merged(h, f)) /\ Tiling(Merged(h, f))
         /\ DOMAIN Merged(h, f) = DOMAIN h \ {s}
         /\ PlainOf(Merged(h, f)) = PlainOf(h) \ {s}
         /\ NextBlock(Merged(h, f), f) = NextBlock(h, s)
         /\ IsUsed(Merged(h, f), f)
         /\ \A a \in DOMAIN h \ {f, s} : Merged(h, f)[a].size = h[a].size
         /\ \A a \in DOMAIN h \ {s} : a # NextBlock(h, s) => Merged(h, f)[a].prev = h[a].prev
<1> DEFINE t == NextBlock(h, s)  g == Merged(h, f)
           z == h[f].size + h[s].size + 7
<1>1. /\ f \in DOMAIN h /\ f \in PlainOf(h) /\ f \in Nat /\ h[f].size \in Nat
      /\ h[f].size = Cap(h, f) + 1 /\ Cap(h, f) \in Nat /\ Cap(h, f) % 8 = 0 /\ Cap(h, f) >= 8
      /\ s = f + 8 + Cap(h, f) /\ f % 8 = 0
  BY SmallFacts
<1>2. /\ s \in DOMAIN h /\ s \in PlainOf(h) /\ s \in Nat /\ h[s].size \in Nat
      /\ h[s].size = Cap(h, s) + 1 /\ Cap(h, s) \in Nat /\ Cap(h, s) % 8 = 0 /\ Cap(h, s) >= 8
      /\ t = s + 8 + Cap(h, s) /\ t \in PlainOf(h)
  BY SmallFacts
<1>3. t \in DOMAIN h /\ f < s /\ s < t /\ t \in Nat /\ t % 8 = 0 /\ PageAt(t) = PageAt(s) /\ PageAt(s) = PageAt(f)
  <2>1. t \in DOMAIN h /\ PageAt(t) = PageAt(s) /\ PageAt(s) = PageAt(f)
    BY <1>2 DEF PlainOf, Tiling
  <2>2. t \in Nat /\ t % 8 = 0
    BY <2>1, Kind
  <2> HIDE DEF t
  <2> QED BY <1>1, <1>2, <2>1, <2>2
<1>4. /\ z \in Nat /\ z % 8 = 1 /\ z < WORD /\ z - (z % 4) = Cap(h, f) + Cap(h, s) + 8
  <2>1. t - f <= PAGE_SIZE - 8 /\ PAGE_SIZE <= WORD /\ PAGE_SIZE \in Nat /\ WORD \in Nat
    BY <1>1, <1>3, SamePage, Constants
  <2> HIDE DEF t
  <2>2. t = f + Cap(h, f) + Cap(h, s) + 16 /\ z = Cap(h, f) + Cap(h, s) + 9
    BY <1>1, <1>2
  <2> HIDE DEF z
  <2>3. PICK c \in Nat, d \in Nat : c = Cap(h, f) /\ d = Cap(h, s)
    BY <1>1, <1>2
  <2>4. z < WORD /\ z = c + d + 9 /\ c % 8 = 0 /\ d % 8 = 0
    BY <1>1, <1>2, <2>1, <2>2, <2>3
  <2>5. z \in Nat /\ z % 8 = 1 /\ z % 4 = 1
    <3>1. c = 8 * (c \div 8) /\ d = 8 * (d \div 8) /\ c \div 8 \in Nat /\ d \div 8 \in Nat
      BY <2>4
    <3>2. PICK i \in Nat, j \in Nat : c = 8 * i /\ d = 8 * j
      BY <3>1
    <3>3. z = 8 * (i + j + 1) + 1
      BY <2>4, <3>2
    <3> QED BY <3>2, <3>3
  <2>6. z - (z % 4) = c + d + 8
    BY <2>3, <2>4, <2>5
  <2> QED BY <2>3, <2>4, <2>5, <2>6
<1> HIDE DEF z, t
<1>5. /\ DOMAIN g = DOMAIN h \ {s}
      /\ g = [a \in DOMAIN h \ {s} |->
                [prev |-> IF a = t THEN f ELSE h[a].prev, size |-> IF a = f THEN z ELSE h[a].size]]
  <2>1. PICK v : v = h[f].size + h[s].size + HEADER - 1
    OBVIOUS
  <2>2. v = z
    BY <1>1, <1>2, <2>1, Constants DEF z
  <2> DEFINE e == [h EXCEPT ![f].size = v, ![t].prev = f]
  <2>3. g = [x \in DOMAIN e \ {s} |-> e[x]]
    BY <2>1 DEF Merged, Drop, t
  <2>4. h \in [DOMAIN h -> [prev : Nat \cup {Junk}, size : 0..(WORD - 1)]]
    BY DEF Typed
  <2>5. e = [a \in DOMAIN h |-> [prev |-> IF a = t THEN f ELSE h[a].prev,
                                 size |-> IF a = f THEN z ELSE h[a].size]]
    BY <1>1, <1>3, <2>2, <2>4, Writes
  <2> HIDE DEF e, g
  <2> QED BY <2>3, <2>5
<1> HIDE DEF g
<1>6. Typed(g)
  <2>1. \A a \in DOMAIN h : /\ a \in Nat /\ a % 8 = 0
                            /\ h[a].size = 4 \/ h[a].size % 8 \in {0, 1, 3}
                            /\ h[a].prev \in Nat \cup {Junk} /\ h[a].size \in 0..(WORD - 1)
    BY DEF Typed
  <2>2. z \in 0..(WORD - 1)
    BY <1>4, Constants
  <2> QED BY <1>1, <1>4, <1>5, <2>1, <2>2 DEF Typed
<1>7. PlainOf(g) = PlainOf(h) \ {s}
  <2>1. \A a \in DOMAIN g : a \in DOMAIN h /\ a # s /\ (a \in PlainOf(g) <=> g[a].size % 8 \in {0, 1})
    BY <1>5, <1>6, Kind
  <2>2. \A a \in DOMAIN h : a \in PlainOf(h) <=> h[a].size % 8 \in {0, 1}
    BY Kind
  <2>3. \A a \in DOMAIN g : g[a].size % 8 \in {0, 1} <=> h[a].size % 8 \in {0, 1}
    BY <1>1, <1>4, <1>5, <2>2
  <2>4. PlainOf(g) \subseteq DOMAIN g /\ PlainOf(h) \subseteq DOMAIN h
    BY DEF PlainOf
  <2> QED BY <1>5, <2>1, <2>2, <2>3, <2>4
<1>8. /\ NextBlock(g, f) = t /\ Cap(g, f) >= 8 /\ IsUsed(g, f)
      /\ \A a \in PlainOf(h) \ {s, f} : Cap(g, a) = Cap(h, a) /\ NextBlock(g, a) = NextBlock(h, a)
  <2>1. g[f].size = z /\ \A a \in PlainOf(h) \ {s, f} : g[a].size = h[a].size
    BY <1>1, <1>2, <1>3, <1>5 DEF PlainOf
  <2>2. Cap(g, f) = Cap(h, f) + Cap(h, s) + 8
    BY <1>4, <2>1 DEF Cap
  <2>3. NextBlock(g, f) = t
    BY <1>1, <1>2, <1>3, <2>2, NextIs
  <2>4. IsUsed(g, f)
    BY <1>4, <2>1 DEF IsUsed
  <2>5. \A a \in PlainOf(h) \ {s, f} : Cap(g, a) = Cap(h, a)
    BY <2>1 DEF Cap
  <2>6. \A a \in PlainOf(h) \ {s, f} : NextBlock(g, a) = NextBlock(h, a)
    BY <2>5, NextIs
  <2> QED BY <1>1, <1>2, <2>2, <2>3, <2>4, <2>5, <2>6
<1>9. SmallOf(g) = SmallOf(h) \ {s} /\ SmallOf(h) \subseteq PlainOf(h)
  BY <1>7 DEF SmallOf
<1>10. \A a \in PlainOf(g) : g[a].prev = IF a = t THEN f ELSE h[a].prev
  BY <1>5, <1>7 DEF PlainOf
<1>11. Tiling(g)
  <2>1. ASSUME NEW a \in SmallOf(g)
        PROVE  /\ Cap(g, a) >= BLOCK_SIZE
               /\ NextBlock(g, a) \in PlainOf(g) /\ PageAt(NextBlock(g, a)) = PageAt(a)
               /\ g[NextBlock(g, a)].prev = a
               /\ g[a].prev = NULL <=> a % PAGE_SIZE = 0
    <3>1. g[a].prev = NULL <=> a % PAGE_SIZE = 0
      <4>1. CASE a = t
        <5>1. h[t].prev = s /\ s # NULL /\ f # NULL
          BY <1>1, <1>2 DEF Tiling, t
        <5>2. g[a].prev = f /\ a \in SmallOf(h)
          BY <1>9, <1>10, <4>1 DEF SmallOf
        <5> QED BY <4>1, <5>1, <5>2 DEF Tiling
      <4>2. CASE a # t
        BY <1>9, <1>10, <4>2 DEF Tiling, SmallOf
      <4> QED BY <4>1, <4>2
    <3>2. CASE a = f
      BY <1>3, <1>2, <1>7, <1>8, <1>10, <3>1, <3>2, Constants
    <3>3. CASE a # f
      <4>1. a \in SmallOf(h) /\ a # s
        BY <1>9
      <4>2. NextBlock(h, a) \in PlainOf(h) /\ h[NextBlock(h, a)].prev = a
            /\ Cap(h, a) >= BLOCK_SIZE /\ PageAt(NextBlock(h, a)) = PageAt(a)
        BY <4>1 DEF Tiling
      <4>3. h[s].prev = f /\ h[t].prev = s
        BY DEF Tiling, t
      <4>4. NextBlock(h, a) # s /\ NextBlock(h, a) # t
        BY <3>3, <4>1, <4>2, <4>3
      <4> QED BY <1>7, <1>8, <1>9, <1>10, <3>1, <3>3, <4>1, <4>2, <4>4
    <3> QED BY <3>2, <3>3
  <2>2. ASSUME NEW a \in PlainOf(g)
        PROVE  /\ a # NULL
               /\ g[a].prev # NULL => g[a].prev \in SmallOf(g) /\ NextBlock(g, g[a].prev) = a
               /\ Protector(a) => g[a].size = 1
    <3>1. a \in PlainOf(h) /\ a # s
      BY <1>7
    <3>2. a # NULL
      BY <3>1 DEF Tiling
    <3>3. Protector(a) => g[a].size = 1
      <4>1. a # f \/ ~Protector(a)
        BY DEF SmallOf
      <4>2. Protector(a) => h[a].size = 1
        BY <3>1 DEF Tiling
      <4> QED BY <1>5, <3>1, <4>1, <4>2 DEF PlainOf
    <3>4. CASE a = t
      <4>1. g[a].prev = f
        BY <1>10, <3>4
      <4>2. f \in SmallOf(g) /\ NextBlock(g, f) = t
        BY <1>1, <1>3, <1>8, <1>9
      <4> QED BY <3>2, <3>3, <3>4, <4>1, <4>2
    <3>5. CASE a # t
      <4>1. g[a].prev = h[a].prev
        BY <1>10, <3>5
      <4>2. ASSUME h[a].prev # NULL
            PROVE  h[a].prev \in SmallOf(g) /\ NextBlock(g, h[a].prev) = a
        <5>1. h[a].prev \in SmallOf(h) /\ NextBlock(h, h[a].prev) = a
          BY <3>1, <4>2 DEF Tiling
        <5>2. h[a].prev # s /\ h[a].prev # f
          BY <3>1, <3>5, <5>1 DEF t
        <5> QED BY <1>8, <1>9, <5>1, <5>2
      <4> QED BY <3>2, <3>3, <4>1, <4>2
    <3> QED BY <3>4, <3>5
  <2>3. ASSUME NEW a \in SmallOf(g), NEW c \in PlainOf(g), a < c
        PROVE  NextBlock(g, a) <= c
    <3>1. a \in SmallOf(h) /\ c \in PlainOf(h) /\ c # s /\ c \in Nat
      <4>1. c \in PlainOf(h) /\ c \in DOMAIN h
        BY <1>7 DEF PlainOf
      <4> QED BY <1>7, <1>9, <4>1, Kind
    <3>2. NextBlock(h, a) <= c
      BY <2>3, <3>1 DEF Tiling
    <3>3. CASE a = f
      <4>1. s <= c
        BY <3>2, <3>3
      <4>2. s < c
        BY <1>2, <3>1, <4>1
      <4> QED BY <1>8, <3>1, <3>3, <4>2 DEF Tiling, t
    <3>4. CASE a # f
      BY <1>8, <1>9, <3>1, <3>2, <3>4
    <3> QED BY <3>3, <3>4
  <2> QED BY <2>1, <2>2, <2>3 DEF Tiling
<1>12. /\ \A a \in DOMAIN h \ {f, s} : g[a].size = h[a].size
       /\ \A a \in DOMAIN h \ {s} : a # t => g[a].prev = h[a].prev
  BY <1>5
<1> QED
  BY <1>5, <1>6, <1>7, <1>8, <1>11, <1>12 DEF g, t

\* A block of w bytes and a rest, which is at r, have room in f.
Room(h, f, w, r) == w % 8 = 0 /\ w >= 8 /\ w + 16 <= Cap(h, f) /\ r = f + 8 + w

\* h with the block f, in front of t, cut into w bytes and a rest of v at r
CutOf(h, f, t, r, v, w) ==
  [a \in DOMAIN h \cup {r} |->
    [prev |-> IF a = r THEN f ELSE IF a = t THEN r ELSE h[a].prev,
     size |-> IF a = r THEN v ELSE IF a = f THEN w + 1 ELSE h[a].size]]

SplitIn(g, h, f, t, r, v, w) ==
  /\ Room(h, f, w, r) /\ t = NextBlock(h, f) /\ v = Cap(h, f) - w - 8
  /\ g = CutOf(h, f, t, r, v, w)

\* A block becomes two, the second of them free.
LEMMA SplitTiling ==
  ASSUME NEW h, Typed(h), Tiling(h), NEW f \in SmallOf(h),
         NEW w \in Nat, NEW r, NEW t, NEW g, NEW rest, SplitIn(g, h, f, t, r, rest, w)
  PROVE  /\ Typed(g) /\ Tiling(g) /\ r \notin PlainOf(h) /\ r \in Nat
         /\ PlainOf(g) = PlainOf(h) \cup {r} /\ r \in SmallOf(g) /\ f \in SmallOf(g)
         /\ IsUsed(g, f) /\ ~IsUsed(g, r) /\ Cap(g, f) = w /\ Cap(g, r) = Cap(h, f) - w - 8
         /\ NextBlock(g, r) = t /\ PageAt(r) = PageAt(f) /\ NextBlock(g, f) = r
<1>0. w % 8 = 0 /\ w >= 8 /\ w + 16 <= Cap(h, f) /\ r = f + 8 + w /\ t = NextBlock(h, f)
  BY DEF Room, SplitIn
<1> USE <1>0
<1> DEFINE c == Cap(h, f)  v == c - w - 8
<1>1. /\ f \in DOMAIN h /\ f \in PlainOf(h) /\ f \in Nat /\ f % 8 = 0
      /\ c \in Nat /\ c % 8 = 0 /\ c <= MAX_SIZE /\ w + 16 <= c
      /\ t = f + 8 + c /\ t \in PlainOf(h)
  BY SmallFacts
<1>2. /\ t \in DOMAIN h /\ t \in Nat /\ t % 8 = 0 /\ h[t].prev = f /\ PageAt(t) = PageAt(f)
  <2>1. t \in DOMAIN h
    BY <1>1 DEF PlainOf
  <2> QED BY <1>1, <2>1, Kind DEF Tiling
<1>3. v \in Nat /\ v >= 8 /\ v < WORD /\ w + 1 \in Nat /\ w + 1 < WORD
  <2> HIDE DEF c
  <2> QED BY <1>1, Sized
<1>4. v % 8 = 0 /\ v % 4 = 0 /\ v % 2 = 0
      /\ (w + 1) % 8 = 1 /\ (w + 1) % 4 = 1 /\ (w + 1) % 2 = 1 /\ r % 8 = 0
  <2> HIDE DEF c
  <2>1. PICK i \in Nat, j \in Nat, k \in Nat : c = 8 * i /\ w = 8 * j /\ f = 8 * k
    <3>1. c = 8 * (c \div 8) /\ c \div 8 \in Nat /\ w = 8 * (w \div 8) /\ w \div 8 \in Nat
          /\ f = 8 * (f \div 8) /\ f \div 8 \in Nat
      BY <1>1
    <3> QED BY <3>1
  <2>2. v = 8 * (i - j - 1) /\ w + 1 = 8 * j + 1 /\ r = 8 * (k + j + 1)
    BY <2>1
  <2> HIDE DEF v
  <2> QED BY <1>3, <2>1, <2>2
<1>20. f < r /\ r + 16 <= t /\ t = r + 8 + v /\ r \in Nat
  BY <1>1, <1>3
<1>5. PageAt(r) = PageAt(f) /\ r % PAGE_SIZE # 0 /\ ~Protector(r)
  <2>1. PageAt(f) <= PageAt(r) /\ PageAt(r) <= PageAt(t) /\ PageAt(f) \in Nat /\ PageAt(r) \in Nat
    BY <1>1, <1>2, <1>20, PageMono, PageBounds
  <2>2. PageAt(r) = PageAt(f)
    BY <1>2, <2>1
  <2>3. PICK y \in Nat : /\ y = PageAt(f) * PAGE_SIZE /\ y <= f
    BY <1>1, PageBounds
  <2>4. PICK x \in Nat : /\ x = PageAt(r) * PAGE_SIZE /\ r % PAGE_SIZE = r - x
    BY <1>20, PageBounds
  <2>5. r % PAGE_SIZE # 0
    <3>1. x = y
      BY <2>2, <2>3, <2>4
    <3> QED BY <1>1, <1>20, <2>3, <2>4, <3>1
  <2>6. ~Protector(r)
    <3>1. PICK e \in Nat : e = r + 8 /\ r <= e /\ e <= t
      BY <1>20
    <3>2. PageAt(r) <= PageAt(e) /\ PageAt(e) <= PageAt(t) /\ PageAt(e) \in Nat
      BY <1>2, <1>20, <3>1, PageMono, PageBounds
    <3>3. PageAt(e) = PageAt(r)
      BY <1>2, <2>1, <2>2, <3>2
    <3>4. PICK z \in Nat : z = PageAt(e) * PAGE_SIZE /\ e % PAGE_SIZE = e - z
      BY PageBounds
    <3>5. z = y
      BY <2>2, <2>3, <3>3, <3>4
    <3>6. e % PAGE_SIZE # 0
      BY <1>1, <1>20, <2>3, <3>1, <3>4, <3>5
    <3> QED BY <3>1, <3>6, Sized DEF Protector
  <2> QED BY <2>2, <2>5, <2>6
<1> HIDE DEF v, c
<1>6. r \notin PlainOf(h)
  <2>1. ASSUME r \in PlainOf(h) PROVE FALSE
    <3>1. t <= r
      <4>1. \A a \in SmallOf(h), d \in PlainOf(h) : a < d => NextBlock(h, a) <= d
        BY DEF Tiling
      <4> QED BY <1>20, <2>1, <4>1
    <3> QED BY <1>20, <1>2, <3>1
  <2> QED BY <2>1
<1>7. g = [a \in DOMAIN h \cup {r} |->
             [prev |-> IF a = r THEN f ELSE IF a = t THEN r ELSE h[a].prev,
              size |-> IF a = r THEN v ELSE IF a = f THEN w + 1 ELSE h[a].size]]
  BY DEF v, c, SplitIn, CutOf
<1>8. Typed(g)
  <2>1. \A a \in DOMAIN h : /\ a \in Nat /\ a % 8 = 0
                            /\ h[a].size = 4 \/ h[a].size % 8 \in {0, 1, 3}
                            /\ h[a].prev \in Nat \cup {Junk} /\ h[a].size \in 0..(WORD - 1)
    BY DEF Typed
  <2>2. v \in 0..(WORD - 1) /\ w + 1 \in 0..(WORD - 1)
    <3>1. PICK u : u = WORD
      OBVIOUS
    <3>2. u \in Nat
      BY <3>1, Sized
    <3> QED BY <1>3, <3>1, <3>2
  <2>3. DOMAIN g = DOMAIN h \cup {r}
    BY <1>7
  <2>4. \A a \in DOMAIN g : g[a] \in [prev : Nat \cup {Junk}, size : 0..(WORD - 1)]
    BY <1>1, <1>20, <1>7, <2>1, <2>2
  <2>5. g \in [DOMAIN g -> [prev : Nat \cup {Junk}, size : 0..(WORD - 1)]]
    BY <1>7, <2>3, <2>4
  <2>6. \A a \in DOMAIN g : a \in Nat /\ a % 8 = 0 /\ (g[a].size = 4 \/ g[a].size % 8 \in {0, 1, 3})
    BY <1>3, <1>4, <1>20, <1>7, <2>1
  <2> QED BY <2>5, <2>6 DEF Typed
<1>9. PlainOf(g) = PlainOf(h) \cup {r}
  <2>1. \A a \in DOMAIN g : a \in PlainOf(g) <=> g[a].size % 8 \in {0, 1}
    BY <1>8, Kind
  <2>2. \A a \in DOMAIN h : a \in PlainOf(h) <=> h[a].size % 8 \in {0, 1}
    BY Kind
  <2>3. r \in PlainOf(g)
    <3>1. r \in DOMAIN g /\ g[r].size = v
      BY <1>7
    <3> QED BY <1>4, <2>1, <3>1
  <2>4. ASSUME NEW a \in DOMAIN h \ {r}
        PROVE  a \in DOMAIN g /\ (a \in PlainOf(g) <=> a \in PlainOf(h))
    <3>1. a \in DOMAIN g /\ (a # f => g[a].size = h[a].size) /\ (a = f => g[a].size = w + 1)
      BY <1>7
    <3>2. a = f => a \in PlainOf(h)
      BY <1>1
    <3> QED BY <1>4, <2>1, <2>2, <3>1, <3>2
  <2>5. PlainOf(g) \subseteq DOMAIN h \cup {r} /\ PlainOf(h) \subseteq DOMAIN h
    BY <1>7 DEF PlainOf
  <2> QED BY <2>3, <2>4, <2>5
<1>10. SmallOf(g) = SmallOf(h) \cup {r} /\ SmallOf(h) \subseteq PlainOf(h)
  BY <1>5, <1>9 DEF SmallOf
<1>11. /\ Cap(g, r) = v /\ Cap(g, f) = w /\ NextBlock(g, r) = t /\ NextBlock(g, f) = r
       /\ ~IsUsed(g, r) /\ IsUsed(g, f)
  <2>1. g[r].size = v /\ g[f].size = w + 1
    BY <1>1, <1>20, <1>7
  <2>2. Cap(g, r) = v /\ Cap(g, f) = w
    <3>1. Cap(g, r) = v - (v % 4) /\ Cap(g, f) = (w + 1) - ((w + 1) % 4)
      BY <2>1 DEF Cap
    <3> HIDE DEF v
    <3> QED BY <1>3, <1>4, <3>1
  <2>3. ~IsUsed(g, r) /\ IsUsed(g, f)
    BY <1>4, <2>1 DEF IsUsed
  <2> QED BY <1>1, <1>20, <2>2, <2>3, NextIs
<1>12. \A a \in PlainOf(h) \ {f} : Cap(g, a) = Cap(h, a) /\ NextBlock(g, a) = NextBlock(h, a)
  <2>1. \A a \in PlainOf(h) \ {f} : g[a].size = h[a].size
    BY <1>6, <1>7 DEF PlainOf
  <2>2. \A a \in PlainOf(h) \ {f} : Cap(g, a) = Cap(h, a)
    BY <2>1 DEF Cap
  <2> QED BY <2>2, NextIs
<1>13. g[r].prev = f /\ g[t].prev = r /\ \A a \in PlainOf(h) \ {t} : g[a].prev = h[a].prev
  BY <1>2, <1>20, <1>6, <1>7 DEF PlainOf
<1>14. Tiling(g)
  <2>1. ASSUME NEW a \in SmallOf(g)
        PROVE  /\ Cap(g, a) >= BLOCK_SIZE
               /\ NextBlock(g, a) \in PlainOf(g) /\ PageAt(NextBlock(g, a)) = PageAt(a)
               /\ g[NextBlock(g, a)].prev = a
               /\ g[a].prev = NULL <=> a % PAGE_SIZE = 0
    <3>1. CASE a = r
      <4>1. f # NULL
        BY <1>1 DEF Tiling
      <4> QED BY <1>1, <1>2, <1>3, <1>5, <1>9, <1>11, <1>13, <3>1, <4>1, Sized
    <3>2. ASSUME a # r
          PROVE  a \in SmallOf(h) /\ (g[a].prev = NULL <=> a % PAGE_SIZE = 0)
      <4>1. a \in SmallOf(h) /\ a \in PlainOf(h)
        BY <1>10, <3>2
      <4>2. CASE a = t
        <5>1. h[t].prev # NULL /\ r # NULL
          <6>1. f # NULL
            BY <1>1 DEF Tiling
          <6> QED BY <1>2, <1>20, <1>1, <6>1, Sized
        <5> QED BY <1>13, <4>1, <4>2, <5>1 DEF Tiling
      <4>3. CASE a # t
        BY <1>13, <4>1, <4>3 DEF Tiling
      <4> QED BY <4>1, <4>2, <4>3
    <3>3. CASE a = f
      <4>1. f # r
        BY <1>1, <1>20
      <4> QED BY <1>5, <1>9, <1>11, <1>13, <3>2, <3>3, <4>1, Sized
    <3>4. CASE a # r /\ a # f
      <4>1. /\ a \in SmallOf(h) /\ a \in PlainOf(h) /\ NextBlock(h, a) \in PlainOf(h)
            /\ h[NextBlock(h, a)].prev = a /\ Cap(h, a) >= BLOCK_SIZE
            /\ PageAt(NextBlock(h, a)) = PageAt(a)
        BY <1>10, <3>2, <3>4 DEF Tiling
      <4>2. NextBlock(h, a) # t
        BY <1>2, <3>4, <4>1
      <4> QED BY <1>9, <1>12, <1>13, <3>2, <3>4, <4>1, <4>2
    <3> QED BY <3>1, <3>3, <3>4
  <2>2. ASSUME NEW a \in PlainOf(g)
        PROVE  /\ a # NULL
               /\ g[a].prev # NULL => g[a].prev \in SmallOf(g) /\ NextBlock(g, g[a].prev) = a
               /\ Protector(a) => g[a].size = 1
    <3>1. CASE a = r
      <4>1. r # NULL
        BY <1>1, <1>20, Sized
      <4> QED BY <1>5, <1>10, <1>11, <1>13, <3>1, <4>1
    <3>2. CASE a = t
      <4>1. t # r /\ t # f
        BY <1>1, <1>2, <1>20
      <4>2. g[t].prev = r /\ g[t].size = h[t].size
        BY <1>2, <1>7, <4>1
      <4> QED BY <1>1, <1>10, <1>11, <3>2, <4>2 DEF Tiling
    <3>3. CASE a # r /\ a # t
      <4>1. a \in PlainOf(h) /\ g[a].prev = h[a].prev
        BY <1>9, <1>13, <3>3
      <4>2. Protector(a) => a # f
        BY DEF SmallOf
      <4>3. Protector(a) => g[a].size = 1
        BY <1>7, <3>3, <4>1, <4>2 DEF PlainOf, Tiling
      <4>4. ASSUME h[a].prev # NULL
            PROVE  h[a].prev \in SmallOf(h) /\ NextBlock(h, h[a].prev) = a /\ h[a].prev # f
        BY <3>3, <4>1, <4>4 DEF Tiling
      <4>5. h[a].prev # NULL => h[a].prev \in SmallOf(g) /\ NextBlock(g, h[a].prev) = a
        BY <1>10, <1>12, <4>4
      <4> QED BY <4>1, <4>3, <4>5 DEF Tiling
    <3> QED BY <3>1, <3>2, <3>3
  <2>3. ASSUME NEW a \in SmallOf(g), NEW d \in PlainOf(g), a < d
        PROVE  NextBlock(g, a) <= d
    <3>1. \A x \in PlainOf(h) : x \in Nat
      BY Kind DEF PlainOf
    <3>2. \A x \in SmallOf(h) : \A y \in PlainOf(h) : x < y => NextBlock(h, x) <= y
      BY DEF Tiling
    <3>3. \A x \in SmallOf(h) : x < NextBlock(h, x) /\ NextBlock(h, x) \in Nat
      <4>1. ASSUME NEW x \in SmallOf(h) PROVE x < NextBlock(h, x) /\ NextBlock(h, x) \in Nat
        BY SmallFacts
      <4> QED BY <4>1
    <3>4. CASE d = r
      <4>1. a # r /\ a \in SmallOf(h)
        <5>1. ~(r < r)
          BY <1>20
        <5> QED BY <1>10, <2>3, <3>4, <5>1
      <4>2. CASE a = f
        BY <1>20, <1>11, <3>4, <4>2
      <4>3. CASE a # f
        <5>1. a \in Nat /\ NextBlock(g, a) = NextBlock(h, a)
          BY <1>10, <1>12, <3>1, <4>1, <4>3
        <5>2. ~(f < a)
          <6>1. f < a => t <= a
            BY <1>10, <3>2, <4>1
          <6> QED BY <1>1, <1>2, <1>20, <2>3, <3>4, <5>1, <6>1
        <5>3. a < f
          BY <1>1, <4>3, <5>1, <5>2
        <5>4. NextBlock(h, a) <= f
          BY <1>1, <3>2, <4>1, <5>3
        <5> QED BY <1>1, <1>20, <3>3, <3>4, <4>1, <5>1, <5>4
      <4> QED BY <4>2, <4>3
    <3>5. CASE d # r
      <4>1. d \in PlainOf(h) /\ d \in Nat
        BY <1>9, <3>1, <3>5
      <4>2. CASE a = r
        <5>1. f < d
          BY <1>1, <1>20, <2>3, <4>1, <4>2
        <5> QED BY <1>11, <3>2, <4>1, <4>2, <5>1
      <4>3. CASE a = f
        <5>1. t <= d
          BY <2>3, <3>2, <4>1, <4>3
        <5> QED BY <1>2, <1>20, <1>11, <4>1, <4>3, <5>1
      <4>4. CASE a # r /\ a # f
        BY <1>10, <1>12, <2>3, <3>2, <4>1, <4>4
      <4> QED BY <4>2, <4>3, <4>4
    <3> QED BY <3>4, <3>5
  <2> QED BY <2>1, <2>2, <2>3 DEF Tiling
<1>15. f # r
  BY <1>1, <1>20
<1> QED
  BY <1>20, <1>5, <1>6, <1>8, <1>9, <1>10, <1>11, <1>14 DEF v, c

LEMMA PageLess ==
  ASSUME NEW a \in Nat, NEW c \in Nat, PageAt(a) < PageAt(c)
  PROVE  a < c
<1>1. PageAt(a) \in Nat /\ PageAt(c) \in Nat
  BY PageBounds
<1>2. c <= a => PageAt(c) <= PageAt(a)
  BY PageMono
<1> QED BY <1>1, <1>2

Begins(y, q) == y = q * PAGE_SIZE

\* Page q, from y on, is cut into a block of w bytes, the rest of v bytes at r
\* and the protector at e.
Cut(q, y, w, r, e, v) ==
  /\ q \in Nat \ {0} /\ y \in Nat /\ Begins(y, q)
  /\ w \in Nat /\ w % 8 = 0 /\ w >= 8 /\ w + 32 <= PAGE_SIZE
  /\ r = y + 8 + w /\ e = y + PAGE_SIZE - 8 /\ v = PAGE_SIZE - w - 24

\* Where the headers of a fresh page lie
LEMMA FreshPlace ==
  ASSUME NEW q, NEW y, NEW w, NEW r, NEW e, NEW v, Cut(q, y, w, r, e, v)
  PROVE  /\ v \in Nat /\ v >= 8 /\ v < WORD /\ w + 1 \in Nat /\ w + 1 < WORD
         /\ y < r /\ r < e /\ r \in Nat /\ e \in Nat /\ e = r + 8 + v /\ e < y + PAGE_SIZE
         /\ y % 8 = 0 /\ r % 8 = 0 /\ e % 8 = 0 /\ v % 8 = 0 /\ v % 4 = 0 /\ v % 2 = 0
         /\ (w + 1) % 8 = 1 /\ (w + 1) % 4 = 1 /\ (w + 1) % 2 = 1
         /\ PageAt(y) = q /\ PageAt(r) = q /\ PageAt(e) = q
         /\ y % PAGE_SIZE = 0 /\ r % PAGE_SIZE # 0 /\ y # 0
         /\ ~Protector(y) /\ ~Protector(r) /\ Protector(e)
<1>1. PICK p : p = PAGE_SIZE
  OBVIOUS
<1>2. /\ p \in Nat /\ p >= 32 /\ w + 32 <= p /\ e = y + p - 8 /\ p <= WORD /\ WORD \in Nat
      /\ w \in Nat /\ w >= 8 /\ r = y + 8 + w /\ v = p - w - 24
      /\ q \in Nat \ {0} /\ y \in Nat
  BY <1>1, Sized DEF Cut
<1>3. y = q * p /\ w % 8 = 0
  BY <1>1 DEF Cut, Begins
<1>4. /\ v \in Nat /\ v >= 8 /\ v < WORD /\ w + 1 \in Nat /\ w + 1 < WORD
      /\ y < r /\ r < e /\ r \in Nat /\ e \in Nat /\ e = r + 8 + v /\ e < y + p
  BY <1>2
<1>5. /\ y % 8 = 0 /\ r % 8 = 0 /\ e % 8 = 0 /\ v % 8 = 0 /\ v % 4 = 0 /\ v % 2 = 0
      /\ (w + 1) % 8 = 1 /\ (w + 1) % 4 = 1 /\ (w + 1) % 2 = 1
  <2>1. PICK i \in Nat, j \in Nat : p = 8 * i /\ w = 8 * j
    <3>1. p % 8 = 0
      BY <1>1, Constants
    <3>2. p = 8 * (p \div 8) /\ p \div 8 \in Nat /\ w = 8 * (w \div 8) /\ w \div 8 \in Nat
      BY <1>2, <1>3, <3>1
    <3> QED BY <3>2
  <2>2. PICK k \in Nat : k = q * i /\ y = 8 * k
    <3>1. q * i \in Nat /\ y = 8 * (q * i)
      BY <1>2, <1>3, <2>1
    <3> QED BY <3>1
  <2>3. r = 8 * (k + 1 + j) /\ e = 8 * (k + i - 1) /\ v = 8 * (i - j - 3) /\ w + 1 = 8 * j + 1
    BY <1>2, <2>1, <2>2
  <2> QED BY <1>4, <2>1, <2>2, <2>3
<1>6. /\ PageAt(y) = q /\ PageAt(r) = q /\ PageAt(e) = q
      /\ y % p = 0 /\ r % p # 0 /\ y # 0
  <2>1. PageAt(y) = q /\ y % p = y - y
    BY <1>1, <1>2, <1>3, PageIs
  <2>2. PageAt(r) = q /\ r % p = r - y
    BY <1>1, <1>2, <1>3, <1>4, PageIs
  <2>3. PageAt(e) = q
    BY <1>1, <1>2, <1>3, <1>4, PageIs
  <2>4. y # 0
    <3>1. y >= p
      BY <1>2, <1>3, MulGrows
    <3> QED BY <1>2, <3>1
  <2> QED BY <1>2, <1>4, <2>1, <2>2, <2>3, <2>4
<1>7. ~Protector(y) /\ ~Protector(r) /\ Protector(e)
  <2>1. PICK d \in Nat : d = y + 8
    BY <1>2
  <2>2. PICK x \in Nat : x = r + 8
    BY <1>4
  <2>3. PICK z \in Nat : z = e + 8
    BY <1>4
  <2>4. d % p = d - y
    <3>1. y <= d /\ d < y + p
      BY <1>2, <2>1
    <3> QED BY <1>1, <1>2, <1>3, <3>1, PageIs
  <2>5. x % p = x - y
    <3>1. y <= x /\ x < y + p
      BY <1>2, <1>4, <2>2
    <3> QED BY <1>1, <1>2, <1>3, <3>1, PageIs
  <2>6. z % p = 0
    <3>1. z = (q + 1) * p /\ q + 1 \in Nat
      BY <1>2, <1>3, <2>3
    <3> QED BY <1>2, <3>1, DivUnique
  <2>7. d % p # 0 /\ x % p # 0
    BY <1>2, <1>4, <2>1, <2>2, <2>4, <2>5
  <2> QED BY <1>1, <2>1, <2>2, <2>3, <2>6, <2>7, Sized DEF Protector
<1> QED
  BY <1>1, <1>4, <1>5, <1>6, <1>7

\* g is h with a fresh page: a block, a free rest and the protector.
FreshIn(g, h, y, r, e, w, v) ==
  /\ DOMAIN g = DOMAIN h \cup {y, r, e} /\ g = [a \in DOMAIN g |-> g[a]]
  /\ g[y] = [prev |-> NULL, size |-> w + 1]
  /\ g[r] = [prev |-> y, size |-> v] /\ g[e] = [prev |-> r, size |-> 1]
  /\ \A a \in DOMAIN h \ {y, r, e} : g[a] = h[a]

NoneIn(h, q) == \A a \in PlainOf(h) : PageAt(a) # q

\* Nothing is before NULL in its page, and the first header of a page points
\* to NULL.
LEMMA FreshTiling ==
  ASSUME NEW h, Typed(h), Tiling(h), NEW q \in Nat, NoneIn(h, q),
         NEW y \in Nat, NEW w \in Nat, NEW r \in Nat, NEW e \in Nat, NEW v \in Nat,
         Cut(q, y, w, r, e, v),
         NEW g, FreshIn(g, h, y, r, e, w, v)
  PROVE  /\ Typed(g) /\ Tiling(g)
         /\ y < r /\ r < e /\ {y, r, e} \subseteq Nat /\ y # 0
         /\ PageAt(y) = q /\ PageAt(r) = q /\ PageAt(e) = q
         /\ PlainOf(g) = PlainOf(h) \cup {y, r, e} /\ SmallOf(g) = SmallOf(h) \cup {y, r}
         /\ IsUsed(g, y) /\ ~IsUsed(g, r) /\ IsUsed(g, e) /\ Cap(g, y) = w /\ Cap(g, r) = v
         /\ NextBlock(g, r) = e /\ NextBlock(g, y) = r
<1>2. WORD \in Nat /\ w \in Nat /\ w >= 8
  BY Sized DEF Cut
<1>4. /\ v \in Nat /\ v >= 8 /\ v < WORD /\ w + 1 \in Nat /\ w + 1 < WORD
      /\ y < r /\ r < e /\ r \in Nat /\ e \in Nat /\ e = r + 8 + v
  BY FreshPlace
<1>5. /\ y % 8 = 0 /\ r % 8 = 0 /\ e % 8 = 0 /\ v % 8 = 0 /\ v % 4 = 0 /\ v % 2 = 0
      /\ (w + 1) % 8 = 1 /\ (w + 1) % 4 = 1 /\ (w + 1) % 2 = 1
  BY FreshPlace
<1>6. /\ PageAt(y) = q /\ PageAt(r) = q /\ PageAt(e) = q
      /\ y % PAGE_SIZE = 0 /\ r % PAGE_SIZE # 0 /\ y # 0
  BY FreshPlace
<1>7. ~Protector(y) /\ ~Protector(r) /\ Protector(e)
  BY FreshPlace
<1>8. y \notin PlainOf(h) /\ r \notin PlainOf(h) /\ e \notin PlainOf(h)
  BY <1>6 DEF NoneIn
<1>9. /\ DOMAIN g = DOMAIN h \cup {y, r, e}
      /\ g[y] = [prev |-> NULL, size |-> w + 1]
      /\ g[r] = [prev |-> y, size |-> v] /\ g[e] = [prev |-> r, size |-> 1]
      /\ \A a \in DOMAIN h \ {y, r, e} : g[a] = h[a]
  BY DEF FreshIn
<1>10. Typed(g)
  <2>1. \A a \in DOMAIN h : /\ a \in Nat /\ a % 8 = 0
                            /\ h[a].size = 4 \/ h[a].size % 8 \in {0, 1, 3}
                            /\ h[a].prev \in Nat \cup {Junk} /\ h[a].size \in 0..(WORD - 1)
    BY DEF Typed
  <2>2. {v, w + 1, 1} \subseteq 0..(WORD - 1)
    BY <1>2, <1>4
  <2>3. \A a \in DOMAIN h : h[a] \in [prev : Nat \cup {Junk}, size : 0..(WORD - 1)]
    BY DEF Typed
  <2>7. {g[y], g[r], g[e]} \subseteq [prev : Nat \cup {Junk}, size : 0..(WORD - 1)]
    BY <1>4, <1>9, <2>2, Sized
  <2>4. g \in [DOMAIN g -> [prev : Nat \cup {Junk}, size : 0..(WORD - 1)]]
    BY <1>9, <2>3, <2>7 DEF FreshIn
  <2>5. \A a \in DOMAIN g : a \in Nat /\ a % 8 = 0
    BY <1>4, <1>5, <1>9, <2>1
  <2>6. \A a \in DOMAIN g : g[a].size = 4 \/ g[a].size % 8 \in {0, 1, 3}
    <3>1. 1 % 8 = 1
      OBVIOUS
    <3> QED BY <1>5, <1>9, <2>1, <3>1
  <2> QED BY <2>4, <2>5, <2>6 DEF Typed
<1>11. PlainOf(g) = PlainOf(h) \cup {y, r, e}
  <2>1. \A a \in DOMAIN g : a \in PlainOf(g) <=> g[a].size % 8 \in {0, 1}
    BY <1>10, Kind
  <2>2. \A a \in DOMAIN h : a \in PlainOf(h) <=> h[a].size % 8 \in {0, 1}
    BY Kind
  <2>3. {y, r, e} \subseteq PlainOf(g)
    <3>1. 1 % 8 = 1
      OBVIOUS
    <3> QED BY <1>5, <1>9, <2>1, <3>1
  <2>4. \A a \in DOMAIN h \ {y, r, e} : a \in DOMAIN g /\ (a \in PlainOf(g) <=> a \in PlainOf(h))
    BY <1>9, <2>1, <2>2
  <2>5. PlainOf(g) \subseteq DOMAIN h \cup {y, r, e} /\ PlainOf(h) \subseteq DOMAIN h
    BY <1>9 DEF PlainOf
  <2> QED BY <1>8, <2>3, <2>4, <2>5
<1>12. SmallOf(g) = SmallOf(h) \cup {y, r} /\ SmallOf(h) \subseteq PlainOf(h)
  BY <1>7, <1>11 DEF SmallOf
<1>13. /\ Cap(g, y) = w /\ Cap(g, r) = v /\ NextBlock(g, y) = r /\ NextBlock(g, r) = e
       /\ IsUsed(g, y) /\ ~IsUsed(g, r) /\ IsUsed(g, e)
  <2>1. Cap(g, y) = (w + 1) - ((w + 1) % 4) /\ Cap(g, r) = v - (v % 4)
    BY <1>9 DEF Cap
  <2>2. Cap(g, y) = w /\ Cap(g, r) = v
    BY <1>4, <1>5, <2>1
  <2>3. IsUsed(g, y) /\ ~IsUsed(g, r) /\ IsUsed(g, e)
    <3>1. 1 % 2 = 1
      OBVIOUS
    <3> QED BY <1>5, <1>9, <3>1 DEF IsUsed
  <2>4. NextBlock(g, y) = y + 8 + w /\ NextBlock(g, r) = r + 8 + v
    BY <2>2, NextIs
  <2>5. r = y + 8 + w
    BY DEF Cut
  <2> QED BY <1>4, <2>2, <2>3, <2>4, <2>5
<1>14. \A a \in PlainOf(h) : /\ Cap(g, a) = Cap(h, a) /\ NextBlock(g, a) = NextBlock(h, a)
                             /\ g[a].prev = h[a].prev /\ g[a].size = h[a].size
  <2>1. \A a \in PlainOf(h) : g[a].prev = h[a].prev /\ g[a].size = h[a].size
    BY <1>8, <1>9 DEF PlainOf
  <2>2. \A a \in PlainOf(h) : Cap(g, a) = Cap(h, a)
    BY <2>1 DEF Cap
  <2> QED BY <2>1, <2>2, NextIs
<1>15. Tiling(g)
  <2>1. ASSUME NEW a \in SmallOf(g)
        PROVE  /\ Cap(g, a) >= BLOCK_SIZE
               /\ NextBlock(g, a) \in PlainOf(g) /\ PageAt(NextBlock(g, a)) = PageAt(a)
               /\ g[NextBlock(g, a)].prev = a
               /\ g[a].prev = NULL <=> a % PAGE_SIZE = 0
    <3>1. CASE a \in SmallOf(h)
      <4>1. /\ a \in PlainOf(h) /\ NextBlock(h, a) \in PlainOf(h)
            /\ h[NextBlock(h, a)].prev = a /\ Cap(h, a) >= BLOCK_SIZE
            /\ PageAt(NextBlock(h, a)) = PageAt(a) /\ (h[a].prev = NULL <=> a % PAGE_SIZE = 0)
        BY <1>12, <3>1 DEF Tiling
      <4> QED BY <1>11, <1>14, <4>1
    <3>2. CASE a = y
      BY <1>2, <1>6, <1>9, <1>11, <1>13, <3>2, Sized
    <3>3. CASE a = r
      BY <1>2, <1>4, <1>6, <1>9, <1>11, <1>13, <3>3, Sized
    <3> QED BY <1>12, <3>1, <3>2, <3>3
  <2>2. ASSUME NEW a \in PlainOf(g)
        PROVE  /\ a # NULL
               /\ g[a].prev # NULL => g[a].prev \in SmallOf(g) /\ NextBlock(g, g[a].prev) = a
               /\ Protector(a) => g[a].size = 1
    <3>1. CASE a \in PlainOf(h)
      <4>1. /\ a # NULL /\ (Protector(a) => h[a].size = 1)
            /\ h[a].prev # NULL => h[a].prev \in SmallOf(h) /\ NextBlock(h, h[a].prev) = a
        BY <3>1 DEF Tiling
      <4>2. g[a].prev = h[a].prev /\ g[a].size = h[a].size
        BY <1>14, <3>1
      <4>3. ASSUME g[a].prev # NULL
            PROVE  g[a].prev \in SmallOf(g) /\ NextBlock(g, g[a].prev) = a
        <5>1. h[a].prev \in SmallOf(h) /\ h[a].prev \in PlainOf(h)
          BY <1>12, <4>1, <4>2, <4>3
        <5> QED BY <1>12, <1>14, <4>1, <4>2, <4>3, <5>1
      <4> QED BY <4>1, <4>2, <4>3
    <3>2. CASE a = y
      BY <1>6, <1>7, <1>9, <3>2, Sized
    <3>3. CASE a = r
      <4>1. g[a].prev = y /\ y \in SmallOf(g) /\ NextBlock(g, y) = a
        BY <1>9, <1>12, <1>13, <3>3
      <4>2. a # NULL /\ ~Protector(a)
        BY <1>4, <1>7, <3>3, Sized
      <4> QED BY <4>1, <4>2
    <3>4. CASE a = e
      <4>1. g[a].prev = r /\ r \in SmallOf(g) /\ NextBlock(g, r) = a /\ g[a].size = 1
        BY <1>9, <1>12, <1>13, <3>4
      <4>2. a # NULL
        BY <1>4, <3>4, Sized
      <4> QED BY <4>1, <4>2
    <3> QED BY <1>11, <3>1, <3>2, <3>3, <3>4
  <2>3. ASSUME NEW a \in SmallOf(g), NEW d \in PlainOf(g), a < d
        PROVE  NextBlock(g, a) <= d
    <3>1. \A x \in PlainOf(h) : x \in Nat /\ PageAt(x) \in Nat /\ PageAt(x) # q
      BY Kind, PageBounds DEF PlainOf, NoneIn
    <3>2. \A x \in SmallOf(h) : \A z \in PlainOf(h) : x < z => NextBlock(h, x) <= z
      BY DEF Tiling
    <3>3. \A x \in SmallOf(h) : NextBlock(h, x) \in PlainOf(h) /\ PageAt(NextBlock(h, x)) = PageAt(x)
      BY DEF Tiling
    <3>4. CASE a \in SmallOf(h) /\ d \in PlainOf(h)
      BY <1>12, <1>14, <2>3, <3>2, <3>4
    <3>5. CASE a \in SmallOf(h) /\ d \in {y, r, e}
      <4>1. /\ a \in PlainOf(h) /\ a \in Nat /\ d \in Nat /\ PageAt(d) = q
            /\ NextBlock(g, a) = NextBlock(h, a)
            /\ NextBlock(h, a) \in Nat /\ PageAt(NextBlock(h, a)) = PageAt(a)
        BY <1>4, <1>6, <1>12, <1>14, <3>1, <3>3, <3>5
      <4>2. PageAt(a) <= q
        BY <2>3, <4>1, PageMono
      <4>3. PageAt(NextBlock(h, a)) < PageAt(d)
        BY <3>1, <4>1, <4>2
      <4>4. NextBlock(h, a) < d
        BY <4>1, <4>3, PageLess
      <4> QED BY <4>1, <4>4
    <3>6. CASE a \in {y, r} /\ d \in PlainOf(h)
      <4>1. /\ a \in Nat /\ d \in Nat /\ PageAt(a) = q /\ NextBlock(g, a) \in {r, e}
            /\ NextBlock(g, a) \in Nat /\ PageAt(NextBlock(g, a)) = q
        BY <1>4, <1>6, <1>13, <3>1, <3>6
      <4>2. q <= PageAt(d)
        BY <2>3, <4>1, PageMono
      <4>3. PageAt(NextBlock(g, a)) < PageAt(d)
        BY <3>1, <3>6, <4>1, <4>2
      <4>4. NextBlock(g, a) < d
        BY <4>1, <4>3, PageLess
      <4> QED BY <4>1, <4>4
    <3>7. CASE a \in {y, r} /\ d \in {y, r, e}
      BY <1>4, <1>13, <2>3, <3>7
    <3> QED BY <1>11, <1>12, <3>4, <3>5, <3>6, <3>7
  <2> QED BY <2>1, <2>2, <2>3 DEF Tiling
<1> QED
  BY <1>4, <1>6, <1>10, <1>11, <1>12, <1>13, <1>15

\* A page of one block and its protector is given back.
LEMMA DropTiling ==
  ASSUME NEW h, Typed(h), Tiling(h), NEW f \in SmallOf(h), h[f].prev = NULL,
         NEW t, t = NextBlock(h, f), h[t].size = 1
  PROVE  /\ Typed(Drop(h, {f, t})) /\ Tiling(Drop(h, {f, t}))
         /\ PlainOf(Drop(h, {f, t})) = PlainOf(h) \ {f, t}
         /\ \A a \in PlainOf(h) \ {f, t} : PageAt(a) # PageAt(f)
         /\ f % PAGE_SIZE = 0
<1> DEFINE g == Drop(h, {f, t})
<1>1. /\ f \in DOMAIN h /\ f \in PlainOf(h) /\ f \in Nat /\ f % 8 = 0
      /\ t = f + 8 + Cap(h, f) /\ t \in PlainOf(h) /\ t \in DOMAIN h /\ Cap(h, f) \in Nat
  BY SmallFacts DEF PlainOf
<1>2. /\ t \in Nat /\ t % 8 = 0 /\ h[t].prev = f /\ PageAt(t) = PageAt(f) /\ f % PAGE_SIZE = 0
      /\ f # NULL
  BY <1>1, Kind DEF Tiling
<1>3. t \notin SmallOf(h) /\ Protector(t)
  <2>1. t \notin SmallOf(h)
    <3>1. Cap(h, t) = 0
      <4>1. 1 - (1 % 4) = 0
        OBVIOUS
      <4> QED BY <4>1 DEF Cap
    <3> QED BY <3>1, SmallFacts
  <2> QED BY <1>1, <2>1 DEF SmallOf
<1>4. DOMAIN g = DOMAIN h \ {f, t} /\ \A a \in DOMAIN g : g[a] = h[a]
  BY DEF Drop
<1>5. Typed(g)
  <2>1. \A a \in DOMAIN g : g[a] \in [prev : Nat \cup {Junk}, size : 0..(WORD - 1)]
    BY <1>4 DEF Typed
  <2>2. g \in [DOMAIN g -> [prev : Nat \cup {Junk}, size : 0..(WORD - 1)]]
    BY <2>1 DEF Drop
  <2> QED BY <1>4, <2>2 DEF Typed
<1>6. PlainOf(g) = PlainOf(h) \ {f, t}
  BY <1>4 DEF PlainOf, IsBig, IsAlias
<1>7. SmallOf(g) = SmallOf(h) \ {f} /\ SmallOf(h) \subseteq PlainOf(h)
  BY <1>3, <1>6 DEF SmallOf
<1>8. \A a \in PlainOf(g) : g[a] = h[a] /\ Cap(g, a) = Cap(h, a) /\ NextBlock(g, a) = NextBlock(h, a)
  <2>1. \A a \in PlainOf(g) : g[a] = h[a] /\ Cap(g, a) = Cap(h, a)
    BY <1>4 DEF PlainOf, Cap
  <2> QED BY <2>1, NextIs
<1>9. \A a \in PlainOf(g) : PageAt(a) # PageAt(f)
  <2>1. SUFFICES ASSUME NEW a \in PlainOf(g), PageAt(a) = PageAt(f) PROVE FALSE
    OBVIOUS
  <2>2. a \in PlainOf(h) /\ a # f /\ a # t /\ a \in Nat /\ a % 8 = 0
    <3>1. a \in PlainOf(h) /\ a \in DOMAIN h
      BY <1>6 DEF PlainOf
    <3> QED BY <1>6, <3>1, Kind
  <2>3. PICK y \in Nat : y = PageAt(f) * PAGE_SIZE /\ f % PAGE_SIZE = f - y
    BY <1>1, PageBounds
  <2>4. PICK x \in Nat : x = PageAt(a) * PAGE_SIZE /\ x <= a /\ a < x + PAGE_SIZE
    BY <2>2, PageBounds
  <2>5. x = y /\ y = f
    BY <1>1, <1>2, <2>1, <2>3, <2>4
  <2>6. f < a
    BY <1>1, <2>2, <2>4, <2>5
  <2>7. t <= a
    <3>1. \A c \in SmallOf(h), d \in PlainOf(h) : c < d => NextBlock(h, c) <= d
      BY DEF Tiling
    <3> QED BY <2>2, <2>6, <3>1
  <2>8. t + 8 <= a
    <3>1. t < a
      BY <1>2, <2>2, <2>7
    <3> HIDE DEF g
    <3> QED BY <1>2, <2>2, <3>1
  <2>9. PageAt(t + 8) > PageAt(f)
    <3>1. PICK e \in Nat : e = t + 8 /\ e % PAGE_SIZE = 0 /\ e <= a /\ t <= e
      BY <1>2, <1>3, <2>8, Sized DEF Protector
    <3>2. PICK z \in Nat : z = PageAt(e) * PAGE_SIZE /\ e % PAGE_SIZE = e - z
      BY PageBounds
    <3>3. PageAt(f) <= PageAt(e) /\ PageAt(f) \in Nat /\ PageAt(e) \in Nat
      BY <1>1, <1>2, <3>1, PageMono, PageBounds
    <3>4. PageAt(e) # PageAt(f)
      <4>1. ASSUME PageAt(e) = PageAt(f) PROVE FALSE
        <5>1. z = f
          BY <2>3, <2>5, <3>2, <4>1
        <5> QED BY <1>1, <3>1, <3>2, <5>1
      <4> QED BY <4>1
    <3> QED BY <3>1, <3>3, <3>4
  <2>10. PageAt(t + 8) <= PageAt(a)
    BY <1>2, <2>2, <2>8, PageMono
  <2>11. PICK e \in Nat : e = t + 8
    BY <1>2
  <2>12. PageAt(e) \in Nat /\ PageAt(f) \in Nat
    BY <1>1, PageBounds
  <2> QED BY <2>1, <2>9, <2>10, <2>11, <2>12
<1>10. Tiling(g)
  <2>1. ASSUME NEW a \in SmallOf(g)
        PROVE  /\ Cap(g, a) >= BLOCK_SIZE
               /\ NextBlock(g, a) \in PlainOf(g) /\ PageAt(NextBlock(g, a)) = PageAt(a)
               /\ g[NextBlock(g, a)].prev = a
               /\ g[a].prev = NULL <=> a % PAGE_SIZE = 0
    <3>1. /\ a \in SmallOf(h) /\ a # f /\ a \in PlainOf(g)
      BY <1>7 DEF SmallOf
    <3>2. /\ NextBlock(h, a) \in PlainOf(h) /\ h[NextBlock(h, a)].prev = a
          /\ Cap(h, a) >= BLOCK_SIZE
          /\ PageAt(NextBlock(h, a)) = PageAt(a) /\ (h[a].prev = NULL <=> a % PAGE_SIZE = 0)
      BY <3>1 DEF Tiling
    <3>3. NextBlock(h, a) # f /\ NextBlock(h, a) # t
      <4>1. a # NULL
        BY <3>1, <1>7 DEF Tiling
      <4> QED BY <1>2, <3>1, <3>2, <4>1
    <3> QED BY <1>6, <1>8, <3>1, <3>2, <3>3
  <2>2. ASSUME NEW a \in PlainOf(g)
        PROVE  /\ a # NULL
               /\ g[a].prev # NULL => g[a].prev \in SmallOf(g) /\ NextBlock(g, g[a].prev) = a
               /\ Protector(a) => g[a].size = 1
    <3>1. a \in PlainOf(h) /\ a # t /\ g[a] = h[a]
      BY <1>6, <1>8
    <3>2. ASSUME h[a].prev # NULL
          PROVE  h[a].prev \in SmallOf(g) /\ NextBlock(g, h[a].prev) = a
      <4>1. h[a].prev \in SmallOf(h) /\ NextBlock(h, h[a].prev) = a
        BY <3>1, <3>2 DEF Tiling
      <4>2. h[a].prev # f
        BY <3>1, <4>1
      <4>3. h[a].prev \in SmallOf(g) /\ h[a].prev \in PlainOf(g)
        BY <1>7, <4>1, <4>2 DEF SmallOf
      <4> QED BY <1>8, <4>1, <4>3
    <3> QED BY <3>1, <3>2 DEF Tiling
  <2>3. ASSUME NEW a \in SmallOf(g), NEW d \in PlainOf(g), a < d
        PROVE  NextBlock(g, a) <= d
    <3>1. a \in SmallOf(h) /\ d \in PlainOf(h) /\ a \in PlainOf(g)
      BY <1>6, <1>7 DEF SmallOf
    <3> QED BY <1>8, <2>3, <3>1 DEF Tiling
  <2> QED BY <2>1, <2>2, <2>3 DEF Tiling
<1> QED
  BY <1>2, <1>5, <1>6, <1>9, <1>10

-----------------------------------------------------------------------------
(* Blocks and their lists                                                  *)

\* Only headers that are not plain come and go.
LEMMA SameHeap ==
  ASSUME NEW h, NEW l, Heap(h, l), NEW g, Typed(g), PlainOf(g) = PlainOf(h),
         Same(g, h, PlainOf(h))
  PROVE  Heap(g, l) /\ SmallOf(g) = SmallOf(h)
<1>1. \A a \in PlainOf(h) : /\ Cap(g, a) = Cap(h, a) /\ g[a].prev = h[a].prev
                            /\ g[a].size = h[a].size /\ (IsUsed(g, a) <=> IsUsed(h, a))
  BY DEF Cap, IsUsed, Same
<1>2. Tiling(h) /\ Lists(h, l) /\ Merging(h)
  BY DEF Heap
<1>3. Tiling(g) /\ \A a \in PlainOf(h) : NextBlock(g, a) = NextBlock(h, a)
  BY <1>1, <1>2, SameTiling
<1>4. SmallOf(g) = SmallOf(h) /\ SmallOf(h) \subseteq PlainOf(h)
  BY DEF SmallOf
<1>5. \A a \in SmallOf(h) : NextBlock(h, a) \in PlainOf(h)
  BY <1>2 DEF Tiling
<1>6. Lists(g, l)
  <2>1. l \in [Class -> SUBSET SmallOf(g)]
    BY <1>2, <1>4 DEF Lists
  <2>2. \A a \in SmallOf(g), c \in Class :
          a \in l[c] <=> ~IsUsed(g, a) /\ ClassOf(g[a].size) = c
    <3>1. \A a \in SmallOf(h), c \in Class :
            a \in l[c] <=> ~IsUsed(h, a) /\ ClassOf(h[a].size) = c
      BY <1>2 DEF Lists
    <3> QED BY <1>1, <1>4, <3>1
  <2> QED BY <2>1, <2>2 DEF Lists
<1>7. Merging(g)
  <2>1. \A a \in SmallOf(h) : ~IsUsed(h, a) =>
          /\ h[NextBlock(h, a)].size # 1 \/ h[a].prev # NULL
          /\ IsUsed(h, NextBlock(h, a))
    BY <1>2 DEF Merging
  <2>2. \A a \in SmallOf(g) : ~IsUsed(g, a) =>
          /\ g[NextBlock(g, a)].size # 1 \/ g[a].prev # NULL
          /\ IsUsed(g, NextBlock(g, a))
    BY <1>1, <1>3, <1>4, <1>5, <2>1
  <2> QED BY <2>2 DEF Merging
<1> QED
  BY <1>3, <1>4, <1>6, <1>7 DEF Heap

Removed(l, b) == [c \in Class |-> l[c] \ {b}]

\* A free block leaves its list.
LEMMA TakeHeap ==
  ASSUME NEW h, NEW l, Heap(h, l), NEW b \in SmallOf(h), ~IsUsed(h, b),
         NEW g, g = SetUsed(h, b), NEW k, k = Removed(l, b)
  PROVE  /\ Heap(g, k) /\ DOMAIN g = DOMAIN h /\ PlainOf(g) = PlainOf(h)
         /\ SmallOf(g) = SmallOf(h) /\ IsUsed(g, b) /\ g[b].size = Cap(h, b) + 1
         /\ Same(g, h, DOMAIN h \ {b}) /\ SamePrev(g, h, DOMAIN h)
         /\ \A a \in PlainOf(h) : Cap(g, a) = Cap(h, a) /\ NextBlock(g, a) = NextBlock(h, a)
<1>1. Typed(h) /\ Tiling(h) /\ Lists(h, l) /\ Merging(h)
  BY DEF Heap
<1>2. PICK s \in Nat : s = h[b].size /\ s = Cap(h, b)
  BY <1>1, SmallFacts
<1>3. b \in DOMAIN h /\ b \in PlainOf(h) /\ s % 8 = 0 /\ s >= 8 /\ s < WORD
  <2>1. b \in DOMAIN h /\ b \in PlainOf(h) /\ Cap(h, b) % 8 = 0 /\ Cap(h, b) >= 8
    BY <1>1, SmallFacts
  <2>2. h[b].size < WORD
    BY <1>1, <2>1, Kind
  <2> QED BY <1>2, <2>1, <2>2
<1>4. s - (s % 2) + 1 = s + 1 /\ (s + 1) % 8 = 1 /\ (s + 1) % 4 = 1 /\ (s + 1) % 2 = 1
  BY <1>3
<1>5. s + 1 < WORD
  <2>1. WORD % 8 = 0 /\ WORD \in Nat
    BY Constants
  <2> QED BY <1>3, <2>1
<1>6. /\ DOMAIN g = DOMAIN h /\ g = [a \in DOMAIN h |-> g[a]]
      /\ \A a \in DOMAIN h \ {b} : g[a] = h[a]
      /\ g[b].size = s + 1 /\ g[b].prev = h[b].prev
      /\ g[b] \in [prev : Nat \cup {Junk}, size : 0..(WORD - 1)]
  <2>1. g = [h EXCEPT ![b].size = h[b].size - (h[b].size % 2) + 1]
    BY DEF SetUsed
  <2>2. g = [h EXCEPT ![b].size = s + 1]
    BY <1>2, <1>4, <2>1
  <2>3. h[b] \in [prev : Nat \cup {Junk}, size : 0..(WORD - 1)]
    BY <1>1, <1>3 DEF Typed
  <2>4. g = [h EXCEPT ![b] = [h[b] EXCEPT !.size = s + 1]]
    BY <2>2
  <2>5. s + 1 \in 0..(WORD - 1)
    BY <1>5, Sized
  <2>6. [h[b] EXCEPT !.size = s + 1] \in [prev : Nat \cup {Junk}, size : 0..(WORD - 1)]
    BY <2>3, <2>5
  <2>7. h = [a \in DOMAIN h |-> h[a]]
    BY <1>1 DEF Typed
  <2> QED BY <1>3, <2>3, <2>4, <2>6, <2>7
<1>7. Typed(g)
  <2>1. \A a \in DOMAIN h : h[a] \in [prev : Nat \cup {Junk}, size : 0..(WORD - 1)]
    BY <1>1 DEF Typed
  <2>2. g \in [DOMAIN g -> [prev : Nat \cup {Junk}, size : 0..(WORD - 1)]]
    BY <1>6, <2>1
  <2>3. \A a \in DOMAIN h : /\ a \in Nat /\ a % 8 = 0
                            /\ h[a].size = 4 \/ h[a].size % 8 \in {0, 1, 3}
    BY <1>1 DEF Typed
  <2>4. ASSUME NEW a \in DOMAIN g
        PROVE  /\ a \in Nat /\ a % 8 = 0
               /\ g[a].size = 4 \/ g[a].size % 8 \in {0, 1, 3}
    <3>1. CASE a = b
      BY <1>3, <1>4, <1>6, <2>3, <3>1
    <3>2. CASE a # b
      BY <1>6, <2>3, <3>2
    <3> QED BY <3>1, <3>2
  <2> QED BY <2>2, <2>4 DEF Typed
<1>8. PlainOf(g) = PlainOf(h)
  <2>1. \A a \in DOMAIN g : a \in PlainOf(g) <=> g[a].size % 8 \in {0, 1}
    BY <1>7, Kind
  <2>2. \A a \in DOMAIN h : a \in PlainOf(h) <=> h[a].size % 8 \in {0, 1}
    BY <1>1, Kind
  <2>3. b \in PlainOf(g)
    BY <1>3, <1>4, <1>6, <2>1
  <2>4. PlainOf(g) \subseteq DOMAIN h /\ PlainOf(h) \subseteq DOMAIN h
    BY <1>6 DEF PlainOf
  <2>5. \A a \in DOMAIN h \ {b} : a \in PlainOf(g) <=> a \in PlainOf(h)
    BY <1>6, <2>1, <2>2
  <2>6. ASSUME NEW a PROVE a \in PlainOf(g) <=> a \in PlainOf(h)
    BY <1>3, <2>3, <2>4, <2>5
  <2> QED BY <2>6
<1>9. SmallOf(g) = SmallOf(h) /\ ~Protector(b) /\ SmallOf(h) \subseteq PlainOf(h) /\ PlainOf(h) \subseteq DOMAIN h
  BY <1>8 DEF SmallOf, PlainOf
<1>10. Cap(g, b) = Cap(h, b) /\ IsUsed(g, b)
  <2>1. Cap(g, b) = (s + 1) - ((s + 1) % 4)
    BY <1>6 DEF Cap
  <2>2. Cap(g, b) = s
    BY <1>4, <2>1
  <2> QED BY <1>2, <1>4, <1>6, <2>2 DEF IsUsed
<1>11. \A a \in PlainOf(h) : /\ g[a].prev = h[a].prev /\ Cap(g, a) = Cap(h, a)
                             /\ a # b => g[a].size = h[a].size /\ (IsUsed(g, a) <=> IsUsed(h, a))
  BY <1>6, <1>9, <1>10 DEF Cap, IsUsed
<1>12. Tiling(g) /\ \A a \in PlainOf(h) : NextBlock(g, a) = NextBlock(h, a)
  BY <1>1, <1>8, <1>9, <1>11, SameTiling
<1>13. Lists(g, k)
  <2>1. l \in [Class -> SUBSET SmallOf(h)]
    BY <1>1 DEF Lists
  <2>2. k \in [Class -> SUBSET SmallOf(g)]
    BY <1>9, <2>1 DEF Removed
  <2>3. \A a \in SmallOf(h), c \in Class :
          a \in l[c] <=> ~IsUsed(h, a) /\ ClassOf(h[a].size) = c
    BY <1>1 DEF Lists
  <2>4. \A a \in SmallOf(g), c \in Class :
          a \in k[c] <=> ~IsUsed(g, a) /\ ClassOf(g[a].size) = c
    BY <1>9, <1>10, <1>11, <2>3 DEF Removed
  <2> QED BY <2>2, <2>4 DEF Lists
<1>14. Merging(g)
  <2>1. \A a \in SmallOf(h) : ~IsUsed(h, a) =>
          /\ h[NextBlock(h, a)].size # 1 \/ h[a].prev # NULL
          /\ IsUsed(h, NextBlock(h, a))
    BY <1>1 DEF Merging
  <2>2. \A a \in SmallOf(h) : NextBlock(h, a) \in PlainOf(h)
    BY <1>1 DEF Tiling
  <2>3. s + 1 # 1
    BY <1>3
  <2>4. \A a \in SmallOf(g) : ~IsUsed(g, a) =>
          /\ g[NextBlock(g, a)].size # 1 \/ g[a].prev # NULL
          /\ IsUsed(g, NextBlock(g, a))
    BY <1>6, <1>9, <1>10, <1>11, <1>12, <2>1, <2>2, <2>3
  <2> QED BY <2>4 DEF Merging
<1> QED
  BY <1>2, <1>6, <1>7, <1>8, <1>9, <1>10, <1>11, <1>12, <1>13, <1>14 DEF Heap, Same, SamePrev

Listed(l, c, b) == [l EXCEPT ![c] = @ \cup {b}]
SetFree(h, b) == [h EXCEPT ![b].size = @ - (@ % 2)]

\* A used block whose neighbours are used goes to its list.
LEMMA MarkFreeHeap ==
  ASSUME NEW h, NEW l, Heap(h, l), NEW b \in SmallOf(h), IsUsed(h, b),
         IsUsed(h, NextBlock(h, b)), h[b].prev = NULL \/ IsUsed(h, h[b].prev),
         h[b].prev # NULL \/ h[NextBlock(h, b)].size # 1,
         NEW g, g = SetFree(h, b),
         NEW k, k = Listed(l, ClassOf(h[b].size), b)
  PROVE  /\ Heap(g, k) /\ DOMAIN g = DOMAIN h /\ PlainOf(g) = PlainOf(h)
         /\ SmallOf(g) = SmallOf(h) /\ ~IsUsed(g, b)
         /\ Same(g, h, DOMAIN h \ {b})
<1>1. Typed(h) /\ Tiling(h) /\ Lists(h, l) /\ Merging(h)
  BY DEF Heap
<1>2. PICK s \in Nat : s = Cap(h, b) /\ h[b].size = s + 1
  BY <1>1, SmallFacts
<1>3. b \in DOMAIN h /\ b \in PlainOf(h) /\ s % 8 = 0 /\ s >= 8 /\ s + 1 < WORD
  <2>1. b \in DOMAIN h /\ b \in PlainOf(h) /\ Cap(h, b) % 8 = 0 /\ Cap(h, b) >= 8
    BY <1>1, SmallFacts
  <2>2. h[b].size < WORD
    BY <1>1, <2>1, Kind
  <2> QED BY <1>2, <2>1, <2>2
<1>4. (s + 1) - ((s + 1) % 2) = s /\ s % 4 = 0 /\ s % 2 = 0
  BY <1>3
<1>5. ClassOf(s + 1) = ClassOf(s) /\ ClassOf(s + 1) \in Class
  <2>1. ClassOf(s + 1) = (s + 1) \div 8 - 1 /\ ClassOf(s) = s \div 8 - 1
    BY Constants DEF ClassOf
  <2>2. (s + 1) \div 8 = s \div 8
    BY <1>3
  <2>3. ClassOf(h[b].size) \in Class
    BY <1>1, SmallFacts
  <2> QED BY <1>2, <2>1, <2>2, <2>3
<1>6. /\ DOMAIN g = DOMAIN h /\ g = [a \in DOMAIN h |-> g[a]]
      /\ \A a \in DOMAIN h \ {b} : g[a] = h[a]
      /\ g[b].size = s /\ g[b].prev = h[b].prev
      /\ g[b] \in [prev : Nat \cup {Junk}, size : 0..(WORD - 1)]
  <2>1. g = [h EXCEPT ![b].size = h[b].size - (h[b].size % 2)]
    BY DEF SetFree
  <2>2. g = [h EXCEPT ![b].size = s]
    BY <1>2, <1>4, <2>1
  <2>3. h[b] \in [prev : Nat \cup {Junk}, size : 0..(WORD - 1)]
    BY <1>1, <1>3 DEF Typed
  <2>4. g = [h EXCEPT ![b] = [h[b] EXCEPT !.size = s]]
    BY <2>2
  <2>5. s \in 0..(WORD - 1)
    BY <1>3, Sized
  <2>6. [h[b] EXCEPT !.size = s] \in [prev : Nat \cup {Junk}, size : 0..(WORD - 1)]
    BY <2>3, <2>5
  <2>7. h = [a \in DOMAIN h |-> h[a]]
    BY <1>1 DEF Typed
  <2> QED BY <1>3, <2>3, <2>4, <2>6, <2>7
<1>7. Typed(g)
  <2>1. \A a \in DOMAIN h : h[a] \in [prev : Nat \cup {Junk}, size : 0..(WORD - 1)]
    BY <1>1 DEF Typed
  <2>2. g \in [DOMAIN g -> [prev : Nat \cup {Junk}, size : 0..(WORD - 1)]]
    BY <1>6, <2>1
  <2>3. \A a \in DOMAIN h : /\ a \in Nat /\ a % 8 = 0
                            /\ h[a].size = 4 \/ h[a].size % 8 \in {0, 1, 3}
    BY <1>1 DEF Typed
  <2>4. \A a \in DOMAIN g : /\ a \in Nat /\ a % 8 = 0
                            /\ g[a].size = 4 \/ g[a].size % 8 \in {0, 1, 3}
    BY <1>3, <1>6, <2>3
  <2> QED BY <2>2, <2>4 DEF Typed
<1>8. PlainOf(g) = PlainOf(h)
  <2>1. \A a \in DOMAIN g : a \in PlainOf(g) <=> g[a].size % 8 \in {0, 1}
    BY <1>7, Kind
  <2>2. \A a \in DOMAIN h : a \in PlainOf(h) <=> h[a].size % 8 \in {0, 1}
    BY <1>1, Kind
  <2>3. b \in PlainOf(g)
    BY <1>3, <1>6, <2>1
  <2>4. PlainOf(g) \subseteq DOMAIN h /\ PlainOf(h) \subseteq DOMAIN h
    BY <1>6 DEF PlainOf
  <2>5. \A a \in DOMAIN h \ {b} : a \in PlainOf(g) <=> a \in PlainOf(h)
    BY <1>6, <2>1, <2>2
  <2>6. ASSUME NEW a PROVE a \in PlainOf(g) <=> a \in PlainOf(h)
    BY <1>3, <2>3, <2>4, <2>5
  <2> QED BY <2>6
<1>9. SmallOf(g) = SmallOf(h) /\ ~Protector(b) /\ SmallOf(h) \subseteq PlainOf(h) /\ PlainOf(h) \subseteq DOMAIN h
  BY <1>8 DEF SmallOf, PlainOf
<1>10. Cap(g, b) = Cap(h, b) /\ ~IsUsed(g, b)
  <2>1. Cap(g, b) = s - (s % 4)
    BY <1>6 DEF Cap
  <2>2. Cap(g, b) = s
    BY <1>4, <2>1
  <2> QED BY <1>2, <1>4, <1>6, <2>2 DEF IsUsed
<1>11. \A a \in PlainOf(h) : /\ g[a].prev = h[a].prev /\ Cap(g, a) = Cap(h, a)
                             /\ a # b => g[a].size = h[a].size /\ (IsUsed(g, a) <=> IsUsed(h, a))
  BY <1>6, <1>9, <1>10 DEF Cap, IsUsed
<1>12. Tiling(g) /\ \A a \in PlainOf(h) : NextBlock(g, a) = NextBlock(h, a)
  BY <1>1, <1>8, <1>9, <1>11, SameTiling
<1>13. Lists(g, k)
  <2>1. l \in [Class -> SUBSET SmallOf(h)]
    BY <1>1 DEF Lists
  <2>2. /\ k \in [Class -> SUBSET SmallOf(g)] /\ k[ClassOf(s)] = l[ClassOf(s)] \cup {b}
        /\ \A c \in Class \ {ClassOf(s)} : k[c] = l[c]
    BY <1>2, <1>5, <1>9, <2>1 DEF Listed
  <2>3. \A a \in SmallOf(h), c \in Class :
          a \in l[c] <=> ~IsUsed(h, a) /\ ClassOf(h[a].size) = c
    BY <1>1 DEF Lists
  <2>4. ASSUME NEW a \in SmallOf(g), NEW c \in Class
        PROVE  a \in k[c] <=> ~IsUsed(g, a) /\ ClassOf(g[a].size) = c
    <3>1. CASE a = b
      <4>1. a \notin l[c]
        BY <2>3, <3>1
      <4> QED BY <1>5, <1>6, <1>10, <2>2, <3>1, <4>1
    <3>2. CASE a # b
      BY <1>9, <1>11, <2>2, <2>3, <3>2
    <3> QED BY <3>1, <3>2
  <2> QED BY <2>2, <2>4 DEF Lists
<1>14. Merging(g)
  <2>1. \A a \in SmallOf(h) : ~IsUsed(h, a) =>
          /\ h[NextBlock(h, a)].size # 1 \/ h[a].prev # NULL
          /\ IsUsed(h, NextBlock(h, a))
    BY <1>1 DEF Merging
  <2>2. \A a \in SmallOf(h) : NextBlock(h, a) \in PlainOf(h) /\ h[NextBlock(h, a)].prev = a /\ a # NULL
    BY <1>1, <1>9 DEF Tiling
  <2>3. NextBlock(h, b) # b
    BY <1>1, <1>2, <1>3, SmallFacts
  <2>4. \A a \in SmallOf(h) : ~IsUsed(h, a) => NextBlock(h, a) # b
    BY <2>2
  <2>5. ASSUME NEW a \in SmallOf(g), ~IsUsed(g, a)
        PROVE  /\ g[NextBlock(g, a)].size # 1 \/ g[a].prev # NULL
               /\ IsUsed(g, NextBlock(g, a))
    <3>1. PICK n \in PlainOf(h) : /\ n = NextBlock(h, a) /\ n = NextBlock(g, a) /\ n # b
                                  /\ IsUsed(h, n) /\ (h[n].size # 1 \/ h[a].prev # NULL)
      <4>1. CASE a = b
        BY <1>9, <1>12, <2>2, <2>3, <4>1
      <4>2. CASE a # b
        <5>1. ~IsUsed(h, a)
          BY <1>9, <1>11, <2>5, <4>2
        <5> QED BY <1>9, <1>12, <2>1, <2>2, <2>4, <5>1
      <4> QED BY <4>1, <4>2
    <3>2. IsUsed(g, n) /\ g[n].size = h[n].size /\ g[a].prev = h[a].prev
      BY <1>9, <1>11, <3>1
    <3> QED BY <3>1, <3>2
  <2> QED BY <2>5 DEF Merging
<1> QED
  BY <1>6, <1>7, <1>8, <1>9, <1>10, <1>12, <1>13, <1>14 DEF Heap, Same

\* Two used blocks become one.
LEMMA MergeHeap ==
  ASSUME NEW h, NEW l, Heap(h, l), NEW f \in SmallOf(h), NEW s \in SmallOf(h),
         s = NextBlock(h, f), IsUsed(h, f), IsUsed(h, s), NEW g, g = Merged(h, f)
  PROVE  /\ Heap(g, l) /\ DOMAIN g = DOMAIN h \ {s} /\ PlainOf(g) = PlainOf(h) \ {s}
         /\ SmallOf(g) = SmallOf(h) \ {s} /\ IsUsed(g, f)
         /\ SameSize(g, h, DOMAIN h \ {f, s})
         /\ SamePrev(g, h, DOMAIN h \ {s, NextBlock(h, s)})
<1>1. Typed(h) /\ Tiling(h) /\ Lists(h, l) /\ Merging(h)
  BY DEF Heap
<1>2. /\ Typed(g) /\ Tiling(g) /\ DOMAIN g = DOMAIN h \ {s} /\ PlainOf(g) = PlainOf(h) \ {s}
      /\ IsUsed(g, f) /\ NextBlock(g, f) = NextBlock(h, s)
      /\ \A a \in DOMAIN h \ {f, s} : g[a].size = h[a].size
      /\ \A a \in DOMAIN h \ {s} : a # NextBlock(h, s) => g[a].prev = h[a].prev
  BY <1>1, MergeTiling
<1>3. /\ SmallOf(g) = SmallOf(h) \ {s} /\ SmallOf(h) \subseteq PlainOf(h)
      /\ PlainOf(h) \subseteq DOMAIN h
  BY <1>2 DEF SmallOf, PlainOf
<1>4. \A a \in DOMAIN h \ {f, s} : /\ Cap(g, a) = Cap(h, a) /\ NextBlock(g, a) = NextBlock(h, a)
                                   /\ IsUsed(g, a) <=> IsUsed(h, a)
  <2>1. \A a \in DOMAIN h \ {f, s} : Cap(g, a) = Cap(h, a) /\ (IsUsed(g, a) <=> IsUsed(h, a))
    BY <1>2 DEF Cap, IsUsed
  <2> QED BY <2>1, NextIs
<1>5. Lists(g, l)
  <2>1. l \in [Class -> SUBSET SmallOf(h)]
    BY <1>1 DEF Lists
  <2>2. \A a \in SmallOf(h), c \in Class :
          a \in l[c] <=> ~IsUsed(h, a) /\ ClassOf(h[a].size) = c
    BY <1>1 DEF Lists
  <2>3. l \in [Class -> SUBSET SmallOf(g)]
    BY <1>3, <2>1, <2>2
  <2>4. \A a \in SmallOf(g), c \in Class :
          a \in l[c] <=> ~IsUsed(g, a) /\ ClassOf(g[a].size) = c
    BY <1>2, <1>3, <1>4, <2>2
  <2> QED BY <2>3, <2>4 DEF Lists
<1>6. Merging(g)
  <2>1. \A a \in SmallOf(h) : ~IsUsed(h, a) =>
          /\ h[NextBlock(h, a)].size # 1 \/ h[a].prev # NULL
          /\ IsUsed(h, NextBlock(h, a))
    BY <1>1 DEF Merging
  <2>2. \A a \in SmallOf(h) : NextBlock(h, a) \in PlainOf(h) /\ h[NextBlock(h, a)].prev = a /\ a # NULL
    BY <1>1, <1>3 DEF Tiling
  <2>3. SUFFICES ASSUME NEW a \in SmallOf(g), ~IsUsed(g, a)
                 PROVE  /\ g[NextBlock(g, a)].size # 1 \/ g[a].prev # NULL
                        /\ IsUsed(g, NextBlock(g, a))
    BY DEF Merging
  <2>4. a \in SmallOf(h) \ {f, s} /\ a \in DOMAIN h /\ ~IsUsed(h, a) /\ NextBlock(g, a) = NextBlock(h, a)
    BY <1>2, <1>3, <1>4, <2>3
  <2>5. PICK n \in DOMAIN h \ {s} : n = NextBlock(h, a) /\ IsUsed(h, n)
    BY <1>3, <2>1, <2>2, <2>4
  <2>6. IsUsed(g, n)
    BY <1>2, <1>4, <2>5
  <2>7. g[a].prev = NULL => h[a].prev = NULL
    <3>1. CASE a = NextBlock(h, s)
      <4>2. f \in SmallOf(g)
        <5>1. f # s
          BY <1>1, SmallFacts
        <5> QED BY <1>3, <5>1
      <4>3. g[a].prev = f /\ f # NULL
        BY <1>2, <2>2, <3>1, <4>2 DEF Tiling
      <4> QED BY <4>3
    <3>2. CASE a # NextBlock(h, s)
      BY <1>2, <2>4, <3>2
    <3> QED BY <3>1, <3>2
  <2>8. g[n].size # 1 \/ g[a].prev # NULL
    <3>1. CASE n = f
      <4>1. f \in SmallOf(g)
        <5>1. f # s
          BY <1>1, SmallFacts
        <5> QED BY <1>3, <5>1
      <4>2. g[f].size = Cap(g, f) + 1 /\ Cap(g, f) >= 8 /\ Cap(g, f) \in Nat
        BY <1>2, <4>1, SmallFacts
      <4> QED BY <3>1, <4>2
    <3>2. CASE n # f
      BY <1>2, <2>1, <2>4, <2>5, <2>7, <3>2
    <3> QED BY <3>1, <3>2
  <2> QED BY <2>4, <2>5, <2>6, <2>8
<1> QED
  BY <1>1, <1>2, <1>3, <1>5, <1>6 DEF Heap, SameSize, SamePrev

\* The block f in front of t has room for w bytes and a rest of v at r.
CutAt(h, f, t, w, r, v) ==
  /\ f \in DOMAIN h /\ t \in DOMAIN h /\ t = NextBlock(h, f) /\ f # t
  /\ r = f + 8 + w /\ r # f /\ r # t /\ v \in Nat /\ t - (r + 8) = v /\ v % 8 = 0

\* What splitBlock and the clearing of the rest's bit write
LEMMA SplitWrites ==
  ASSUME NEW h, Typed(h), NEW f, NEW t, NEW w, NEW r, NEW v, CutAt(h, f, t, w, r, v),
         NEW u, u = SplitOff(h, f, w), NEW g, g = SetFree(u, r)
  PROVE  /\ u[r].size = v + 1
         /\ g = CutOf(h, f, t, r, v, w)
<1> DEFINE d == [h EXCEPT ![t].prev = r]
           e == Put(d, f, h[f].prev, w + 1)
           o == Put(e, r, f, v + 1)
<1>0. /\ f \in DOMAIN h /\ t \in DOMAIN h /\ f # t /\ r # f /\ r # t
      /\ v \in Nat /\ v % 8 = 0
  BY DEF CutAt
<1>1. u = o
  BY Sized DEF SplitOff, CutAt
<1>2. /\ DOMAIN d = DOMAIN h /\ d = [a \in DOMAIN h |-> d[a]]
      /\ d[t] = [prev |-> r, size |-> h[t].size]
      /\ \A a \in DOMAIN h \ {t} : d[a] = h[a]
  <2>1. h = [a \in DOMAIN h |-> h[a]] /\ h[t] \in [prev : Nat \cup {Junk}, size : 0..(WORD - 1)]
    BY <1>0 DEF Typed
  <2>2. d = [h EXCEPT ![t] = [h[t] EXCEPT !.prev = r]]
    OBVIOUS
  <2>3. [h[t] EXCEPT !.prev = r] = [prev |-> r, size |-> h[t].size]
    BY <2>1
  <2> QED BY <1>0, <2>1, <2>2, <2>3
<1> HIDE DEF d
<1>3. /\ DOMAIN e = DOMAIN h /\ e = [a \in DOMAIN h |-> e[a]]
      /\ e[f] = [prev |-> h[f].prev, size |-> w + 1]
      /\ \A a \in DOMAIN h \ {f} : e[a] = d[a]
  BY <1>0, <1>2 DEF Put
<1> HIDE DEF e
<1>4. /\ DOMAIN o = DOMAIN h \cup {r} /\ o = [a \in DOMAIN h \cup {r} |-> o[a]]
      /\ o[r] = [prev |-> f, size |-> v + 1]
      /\ \A a \in DOMAIN h \ {r} : o[a] = e[a]
  BY <1>0, <1>3 DEF Put
<1> HIDE DEF o
<1>5. (v + 1) - ((v + 1) % 2) = v
  BY <1>0
<1>6. /\ DOMAIN g = DOMAIN h \cup {r} /\ g = [a \in DOMAIN h \cup {r} |-> g[a]]
      /\ g[r] = [prev |-> f, size |-> v]
      /\ \A a \in DOMAIN h \ {r} : g[a] = e[a]
  <2>1. g = [o EXCEPT ![r].size = o[r].size - (o[r].size % 2)]
    BY <1>1 DEF SetFree
  <2>2. o[r].size - (o[r].size % 2) = v
    BY <1>4, <1>5
  <2>3. g = [o EXCEPT ![r] = [o[r] EXCEPT !.size = v]]
    BY <2>1, <2>2
  <2>4. [o[r] EXCEPT !.size = v] = [prev |-> f, size |-> v]
    BY <1>4
  <2> QED BY <1>4, <2>3, <2>4
<1>7. ASSUME NEW a \in DOMAIN h \cup {r}
      PROVE  g[a] = [prev |-> IF a = r THEN f ELSE IF a = t THEN r ELSE h[a].prev,
                     size |-> IF a = r THEN v ELSE IF a = f THEN w + 1 ELSE h[a].size]
  <2>1. CASE a = r
    BY <1>0, <1>6, <2>1
  <2>2. CASE a = f
    BY <1>0, <1>3, <1>6, <2>2
  <2>3. CASE a = t
    BY <1>0, <1>2, <1>3, <1>6, <2>3
  <2>4. CASE a \notin {r, f, t}
    <3>1. h[a] = [prev |-> h[a].prev, size |-> h[a].size]
      BY <1>0, <2>4 DEF Typed
    <3> QED BY <1>0, <1>2, <1>3, <1>6, <2>4, <3>1
  <2> QED BY <2>1, <2>2, <2>3, <2>4
<1>8. u[r].size = v + 1
  BY <1>1, <1>4
<1> DEFINE z(a) == [prev |-> IF a = r THEN f ELSE IF a = t THEN r ELSE h[a].prev,
                    size |-> IF a = r THEN v ELSE IF a = f THEN w + 1 ELSE h[a].size]
<1>9. \A a \in DOMAIN h \cup {r} : g[a] = z(a)
  BY <1>7
<1> HIDE DEF z
<1>10. g = [a \in DOMAIN h \cup {r} |-> z(a)]
  BY <1>6, <1>9
<1> QED
  BY <1>8, <1>10 DEF z, CutOf

\* A header is new, in the page of f, which keeps w bytes.
Splits(g, h, f, w, r) ==
  /\ DOMAIN g = DOMAIN h \cup {r} /\ PlainOf(g) = PlainOf(h) \cup {r}
  /\ Cap(g, f) = w /\ PageAt(r) = PageAt(f) /\ ~IsUsed(g, r)

\* h and its lists l become g and k: the block f keeps w bytes, r is its rest.
SplitBy(h, l, f, w, r, u, g, k) ==
  /\ Room(h, f, w, r) /\ w \in Nat
  /\ u = SplitOff(h, f, w) /\ g = SetFree(u, r) /\ k = Listed(l, ClassOf(u[r].size), r)

\* A used block is cut in two, and what is left is free.
LEMMA SplitHeap ==
  ASSUME NEW h, NEW l, Heap(h, l), NEW f \in SmallOf(h), IsUsed(h, f), IsUsed(h, NextBlock(h, f)),
         NEW w, NEW r, NEW u, NEW g, NEW k, SplitBy(h, l, f, w, r, u, g, k)
  PROVE  /\ Heap(g, k) /\ Splits(g, h, f, w, r)
         /\ f \in SmallOf(g) /\ IsUsed(g, f) /\ r \in Nat
         /\ r \notin PlainOf(h)
         /\ SameSize(g, h, DOMAIN h \ {f, r})
         /\ SamePrev(g, h, DOMAIN h \ {r, NextBlock(h, f)})
<1>1. Typed(h) /\ Tiling(h) /\ Lists(h, l) /\ Merging(h)
  BY DEF Heap
<1>0. w \in Nat /\ w % 8 = 0 /\ w >= 8 /\ w + 16 <= Cap(h, f) /\ r = f + 8 + w
  BY DEF Room, SplitBy
<1>2. PICK c \in Nat, t \in PlainOf(h) :
        c = Cap(h, f) /\ t = NextBlock(h, f) /\ t = f + 8 + c /\ c % 8 = 0 /\ c <= MAX_SIZE
  BY <1>1, SmallFacts
<1>3. f \in Nat /\ f \in DOMAIN h /\ t \in DOMAIN h /\ f \in PlainOf(h)
  BY <1>1, SmallFacts DEF PlainOf
<1>4. PICK v \in Nat : v = c - w - 8 /\ v % 8 = 0 /\ v >= 8 /\ v <= MAX_SIZE
  <2>1. MAX_SIZE \in Nat
    BY Constants
  <2> QED BY <1>0, <1>2, <2>1
<1>5. r \in Nat /\ r # f /\ r # t /\ t - (r + 8) = v /\ f # t /\ r > f /\ r < t
  BY <1>0, <1>2, <1>3, <1>4
<1>6. u[r].size = v + 1 /\ g = CutOf(h, f, t, r, v, w)
  <2>1. CutAt(h, f, t, w, r, v)
    BY <1>0, <1>2, <1>3, <1>4, <1>5 DEF CutAt
  <2>2. u = SplitOff(h, f, w) /\ g = SetFree(u, r)
    BY DEF SplitBy
  <2> QED BY <1>0, <1>1, <2>1, <2>2, SplitWrites
<1>7. SplitIn(g, h, f, t, r, v, w)
  BY <1>2, <1>4, <1>6 DEF SplitIn, SplitBy
<1>8. /\ Typed(g) /\ Tiling(g) /\ r \notin PlainOf(h)
      /\ PlainOf(g) = PlainOf(h) \cup {r} /\ r \in SmallOf(g) /\ f \in SmallOf(g)
      /\ IsUsed(g, f) /\ ~IsUsed(g, r) /\ Cap(g, f) = w
      /\ NextBlock(g, r) = t /\ PageAt(r) = PageAt(f) /\ NextBlock(g, f) = r
  BY <1>0, <1>1, <1>7, SplitTiling
<1>9. /\ DOMAIN g = DOMAIN h \cup {r} /\ g[r].prev = f /\ g[r].size = v
      /\ \A a \in DOMAIN h \ {f, r} : g[a].size = h[a].size
      /\ \A a \in DOMAIN h \ {r} : a # t => g[a].prev = h[a].prev
      /\ g[t].prev = r
  BY <1>3, <1>5, <1>6 DEF CutOf
<1>10. /\ SmallOf(g) = SmallOf(h) \cup {r} /\ SmallOf(h) \subseteq PlainOf(h)
       /\ PlainOf(h) \subseteq DOMAIN h
  BY <1>8 DEF SmallOf, PlainOf
<1>11. \A a \in DOMAIN h \ {f, r} : /\ Cap(g, a) = Cap(h, a) /\ NextBlock(g, a) = NextBlock(h, a)
                                    /\ IsUsed(g, a) <=> IsUsed(h, a)
  <2>1. \A a \in DOMAIN h \ {f, r} : Cap(g, a) = Cap(h, a) /\ (IsUsed(g, a) <=> IsUsed(h, a))
    BY <1>9 DEF Cap, IsUsed
  <2> QED BY <2>1, NextIs
<1>12. ClassOf(v + 1) = ClassOf(v) /\ ClassOf(v) \in Class
  <2>1. ClassOf(v + 1) = (v + 1) \div 8 - 1 /\ ClassOf(v) = v \div 8 - 1
    BY Constants DEF ClassOf
  <2>2. (v + 1) \div 8 = v \div 8
    BY <1>4
  <2>3. ClassOf(g[r].size) \in Class
    BY <1>8, SmallFacts
  <2> QED BY <1>9, <2>1, <2>2, <2>3
<1>13. Lists(g, k)
  <2>1. l \in [Class -> SUBSET SmallOf(h)]
    BY <1>1 DEF Lists
  <2>2. k = [l EXCEPT ![ClassOf(v)] = l[ClassOf(v)] \cup {r}]
    BY <1>6, <1>12 DEF Listed, SplitBy
  <2>3. /\ k \in [Class -> SUBSET SmallOf(g)] /\ k[ClassOf(v)] = l[ClassOf(v)] \cup {r}
        /\ \A d \in Class \ {ClassOf(v)} : k[d] = l[d]
    BY <1>10, <1>12, <2>1, <2>2
  <2>4. \A a \in SmallOf(h), d \in Class :
          a \in l[d] <=> ~IsUsed(h, a) /\ ClassOf(h[a].size) = d
    BY <1>1 DEF Lists
  <2>5. ASSUME NEW a \in SmallOf(g), NEW d \in Class
        PROVE  a \in k[d] <=> ~IsUsed(g, a) /\ ClassOf(g[a].size) = d
    <3>1. CASE a = r
      <4>1. a \notin l[d]
        BY <1>8, <1>10, <2>1, <3>1
      <4> QED BY <1>8, <1>9, <2>3, <3>1, <4>1
    <3>2. CASE a # r
      <4>1. a \in SmallOf(h) /\ (a \in k[d] <=> a \in l[d])
        BY <1>10, <2>3, <3>2
      <4>2. CASE a = f
        <5>1. a \notin l[d]
          BY <2>4, <4>1, <4>2
        <5> QED BY <1>8, <4>1, <4>2, <5>1
      <4>3. CASE a # f
        BY <1>9, <1>10, <1>11, <2>4, <3>2, <4>1, <4>3
      <4> QED BY <4>2, <4>3
    <3> QED BY <3>1, <3>2
  <2> QED BY <2>3, <2>5 DEF Lists
<1>14. Merging(g)
  <2>1. \A a \in SmallOf(h) : ~IsUsed(h, a) =>
          /\ h[NextBlock(h, a)].size # 1 \/ h[a].prev # NULL
          /\ IsUsed(h, NextBlock(h, a))
    BY <1>1 DEF Merging
  <2>2. \A a \in SmallOf(h) : NextBlock(h, a) \in PlainOf(h) /\ a # NULL
    BY <1>1, <1>10 DEF Tiling
  <2>3. r # NULL /\ f # NULL
    <3>1. NULL = 0
      BY Sized
    <3> QED BY <1>3, <1>5, <2>2, <3>1
  <2>4. SUFFICES ASSUME NEW a \in SmallOf(g), ~IsUsed(g, a)
                 PROVE  /\ g[NextBlock(g, a)].size # 1 \/ g[a].prev # NULL
                        /\ IsUsed(g, NextBlock(g, a))
    BY DEF Merging
  <2>5. CASE a = r
    <3>1. IsUsed(g, t)
      BY <1>2, <1>3, <1>5, <1>11
    <3> QED BY <1>8, <1>9, <2>3, <2>5, <3>1
  <2>6. CASE a # r
    <3>1. a \in SmallOf(h) \ {f} /\ a \in DOMAIN h \ {f, r}
      BY <1>8, <1>10, <2>4, <2>6
    <3>2. ~IsUsed(h, a) /\ NextBlock(g, a) = NextBlock(h, a)
      BY <1>11, <2>4, <3>1
    <3>3. PICK n \in PlainOf(h) : n = NextBlock(h, a) /\ IsUsed(h, n) /\ n # r /\ n \in DOMAIN h
      BY <1>8, <1>10, <2>1, <2>2, <3>1, <3>2
    <3>4. IsUsed(g, n)
      BY <1>8, <1>11, <3>3
    <3>5. g[a].prev = NULL => h[a].prev = NULL
      BY <1>9, <2>3, <3>1
    <3>6. g[n].size # 1 \/ g[a].prev # NULL
      <4>1. CASE n = f
        <5>1. g[f].size = Cap(g, f) + 1
          BY <1>8, SmallFacts
        <5> QED BY <1>0, <1>8, <4>1, <5>1
      <4>2. CASE n # f
        BY <1>9, <2>1, <3>1, <3>2, <3>3, <3>5, <4>2
      <4> QED BY <4>1, <4>2
    <3> QED BY <3>2, <3>3, <3>4, <3>6
  <2> QED BY <2>5, <2>6
<1> QED
  BY <1>2, <1>5, <1>8, <1>9, <1>13, <1>14 DEF Heap, Splits, SameSize, SamePrev

\* Page q has been cut into a block, a rest and the protector.
Opens(g, h, q, y, r, e, w) ==
  /\ PlainOf(g) = PlainOf(h) \cup {y, r, e} /\ SmallOf(g) = SmallOf(h) \cup {y, r}
  /\ PageAt(y) = q /\ PageAt(r) = q /\ PageAt(e) = q /\ Cap(g, y) = w /\ ~IsUsed(g, r)

\* A fresh page is a block, a rest that is free and the protector.
LEMMA FreshHeap ==
  ASSUME NEW h, NEW l, Heap(h, l), NEW q \in Nat, NoneIn(h, q),
         NEW y \in Nat, NEW w \in Nat, NEW r \in Nat, NEW e \in Nat, NEW v \in Nat,
         Cut(q, y, w, r, e, v), NEW g, FreshIn(g, h, y, r, e, w, v),
         NEW k, k = Listed(l, ClassOf(v), r)
  PROVE  Heap(g, k) /\ Opens(g, h, q, y, r, e, w) /\ IsUsed(g, y)
<1>1. Typed(h) /\ Tiling(h) /\ Lists(h, l) /\ Merging(h)
  BY DEF Heap
<1>2. /\ Typed(g) /\ Tiling(g) /\ y < r /\ r < e /\ y # 0
      /\ PageAt(y) = q /\ PageAt(r) = q /\ PageAt(e) = q
      /\ PlainOf(g) = PlainOf(h) \cup {y, r, e} /\ SmallOf(g) = SmallOf(h) \cup {y, r}
      /\ IsUsed(g, y) /\ ~IsUsed(g, r) /\ IsUsed(g, e) /\ Cap(g, y) = w /\ Cap(g, r) = v
      /\ NextBlock(g, r) = e /\ NextBlock(g, y) = r
  BY <1>1, FreshTiling
<1>3. y \notin PlainOf(h) /\ r \notin PlainOf(h) /\ e \notin PlainOf(h)
  BY <1>2 DEF NoneIn
<1>4. SmallOf(h) \subseteq PlainOf(h) /\ PlainOf(h) \subseteq DOMAIN h
  BY DEF SmallOf, PlainOf
<1>5. g[r].prev = y /\ g[r].size = v
  BY DEF FreshIn
<1>6. \A a \in PlainOf(h) : /\ g[a].size = h[a].size /\ g[a].prev = h[a].prev
                            /\ NextBlock(g, a) = NextBlock(h, a) /\ (IsUsed(g, a) <=> IsUsed(h, a))
  <2>1. \A a \in PlainOf(h) : g[a] = h[a]
    BY <1>3, <1>4 DEF FreshIn
  <2>2. \A a \in PlainOf(h) : Cap(g, a) = Cap(h, a) /\ (IsUsed(g, a) <=> IsUsed(h, a))
    BY <2>1 DEF Cap, IsUsed
  <2> QED BY <2>1, <2>2, NextIs
<1>7. ClassOf(v) \in Class
  <2>1. r \in SmallOf(g)
    BY <1>2
  <2> QED BY <1>2, <1>5, <2>1, SmallFacts
<1>8. Lists(g, k)
  <2>1. l \in [Class -> SUBSET SmallOf(h)]
    BY <1>1 DEF Lists
  <2>2. /\ k \in [Class -> SUBSET SmallOf(g)] /\ k[ClassOf(v)] = l[ClassOf(v)] \cup {r}
        /\ \A d \in Class \ {ClassOf(v)} : k[d] = l[d]
    BY <1>2, <1>7, <2>1 DEF Listed
  <2>3. \A a \in SmallOf(h), d \in Class :
          a \in l[d] <=> ~IsUsed(h, a) /\ ClassOf(h[a].size) = d
    BY <1>1 DEF Lists
  <2>4. ASSUME NEW a \in SmallOf(g), NEW d \in Class
        PROVE  a \in k[d] <=> ~IsUsed(g, a) /\ ClassOf(g[a].size) = d
    <3>1. CASE a = r
      <4>1. a \notin l[d]
        BY <1>3, <1>4, <2>1, <3>1
      <4> QED BY <1>2, <1>5, <2>2, <3>1, <4>1
    <3>2. CASE a = y
      <4>1. a \notin l[d] /\ a # r
        BY <1>2, <1>3, <1>4, <2>1, <3>2
      <4> QED BY <1>2, <2>2, <3>2, <4>1
    <3>3. CASE a \in SmallOf(h)
      <4>1. a \in PlainOf(h) /\ a # r
        BY <1>3, <1>4, <3>3
      <4>2. a \in k[d] <=> a \in l[d]
        BY <2>2, <4>1
      <4> QED BY <1>6, <2>3, <3>3, <4>1, <4>2
    <3> QED BY <1>2, <3>1, <3>2, <3>3
  <2> QED BY <2>2, <2>4 DEF Lists
<1>9. Merging(g)
  <2>1. \A a \in SmallOf(h) : ~IsUsed(h, a) =>
          /\ h[NextBlock(h, a)].size # 1 \/ h[a].prev # NULL
          /\ IsUsed(h, NextBlock(h, a))
    BY <1>1 DEF Merging
  <2>2. \A a \in SmallOf(h) : NextBlock(h, a) \in PlainOf(h)
    BY <1>1 DEF Tiling
  <2>3. NULL = 0
    BY Sized
  <2>4. ASSUME NEW a \in SmallOf(g), ~IsUsed(g, a)
        PROVE  /\ g[NextBlock(g, a)].size # 1 \/ g[a].prev # NULL
               /\ IsUsed(g, NextBlock(g, a))
    <3>1. CASE a = r
      BY <1>2, <1>5, <2>3, <3>1
    <3>2. CASE a \in SmallOf(h)
      <4>1. a \in PlainOf(h) /\ NextBlock(h, a) \in PlainOf(h)
        BY <1>4, <2>2, <3>2
      <4> QED BY <1>6, <2>1, <2>4, <3>2, <4>1
    <3> QED BY <1>2, <2>4, <3>1, <3>2
  <2> QED BY <2>4 DEF Merging
<1> QED
  BY <1>2, <1>8, <1>9 DEF Heap, Opens

Dropped(g, h, f, t) ==
  /\ PlainOf(g) = PlainOf(h) \ {f, t} /\ DOMAIN g = DOMAIN h \ {f, t}
  /\ Same(g, h, DOMAIN g)
  /\ \A a \in PlainOf(h) \ {f, t} : PageAt(a) # PageAt(f)

\* The one block of a page and the protector are dropped.
LEMMA DropHeap ==
  ASSUME NEW h, NEW l, Heap(h, l), NEW f \in SmallOf(h), IsUsed(h, f), h[f].prev = NULL,
         NEW t, t = NextBlock(h, f), h[t].size = 1, NEW g, g = Drop(h, {f, t})
  PROVE  Heap(g, l) /\ Dropped(g, h, f, t)
<1>1. Typed(h) /\ Tiling(h) /\ Lists(h, l) /\ Merging(h)
  BY DEF Heap
<1>2. /\ Typed(g) /\ Tiling(g) /\ PlainOf(g) = PlainOf(h) \ {f, t}
      /\ \A a \in PlainOf(h) \ {f, t} : PageAt(a) # PageAt(f)
      /\ f % PAGE_SIZE = 0
  BY <1>1, DropTiling
<1>3. DOMAIN g = DOMAIN h \ {f, t} /\ \A a \in DOMAIN g : g[a] = h[a]
  BY DEF Drop
<1>4. IsUsed(h, t)
  <2>1. 1 % 2 = 1
    OBVIOUS
  <2> QED BY <2>1 DEF IsUsed
<1>5. SmallOf(g) = SmallOf(h) \ {f, t} /\ SmallOf(g) \subseteq PlainOf(g)
  BY <1>2 DEF SmallOf
<1>6. \A a \in PlainOf(g) : /\ g[a].size = h[a].size /\ g[a].prev = h[a].prev
                            /\ NextBlock(g, a) = NextBlock(h, a) /\ (IsUsed(g, a) <=> IsUsed(h, a))
  <2>1. \A a \in PlainOf(g) : g[a] = h[a]
    BY <1>3 DEF PlainOf
  <2>2. \A a \in PlainOf(g) : Cap(g, a) = Cap(h, a) /\ (IsUsed(g, a) <=> IsUsed(h, a))
    BY <2>1 DEF Cap, IsUsed
  <2> QED BY <2>1, <2>2, NextIs
<1>7. Lists(g, l)
  <2>1. l \in [Class -> SUBSET SmallOf(h)]
    BY <1>1 DEF Lists
  <2>2. \A a \in SmallOf(h), d \in Class :
          a \in l[d] <=> ~IsUsed(h, a) /\ ClassOf(h[a].size) = d
    BY <1>1 DEF Lists
  <2>3. l \in [Class -> SUBSET SmallOf(g)]
    BY <1>4, <1>5, <2>1, <2>2
  <2>4. \A a \in SmallOf(g), d \in Class :
          a \in l[d] <=> ~IsUsed(g, a) /\ ClassOf(g[a].size) = d
    BY <1>5, <1>6, <2>2
  <2> QED BY <2>3, <2>4 DEF Lists
<1>8. Merging(g)
  <2>1. \A a \in SmallOf(h) : ~IsUsed(h, a) =>
          /\ h[NextBlock(h, a)].size # 1 \/ h[a].prev # NULL
          /\ IsUsed(h, NextBlock(h, a))
    BY <1>1 DEF Merging
  <2>2. \A a \in SmallOf(g) : NextBlock(g, a) \in PlainOf(g)
    BY <1>2 DEF Tiling
  <2>3. ASSUME NEW a \in SmallOf(g), ~IsUsed(g, a)
        PROVE  /\ g[NextBlock(g, a)].size # 1 \/ g[a].prev # NULL
               /\ IsUsed(g, NextBlock(g, a))
    <3>1. a \in SmallOf(h) /\ a \in PlainOf(g) /\ NextBlock(g, a) \in PlainOf(g)
      BY <1>5, <2>2
    <3>2. ~IsUsed(h, a) /\ g[a].prev = h[a].prev /\ NextBlock(g, a) = NextBlock(h, a)
      BY <1>6, <2>3, <3>1
    <3> QED BY <1>6, <2>1, <3>1, <3>2
  <2> QED BY <2>3 DEF Merging
<1>9. Same(g, h, DOMAIN g)
  BY <1>3 DEF Same
<1> QED
  BY <1>2, <1>3, <1>7, <1>8, <1>9 DEF Heap, Dropped

-----------------------------------------------------------------------------
(* Blocks of pages                                                         *)

LEMMA RunType ==
  ASSUME NEW b \in Block
  PROVE  /\ Address(b) \in Nat /\ EndOf(b) \in Nat /\ Start(b) \in Nat /\ Address(b) % 8 = 0
         /\ EndOf(b) = Address(b) + Width[b[1]] * PAGE_SIZE
         /\ Width[b[1]] \in Nat \ {0} /\ Width[b[1]] * PAGE_SIZE \in Nat
         /\ Address(b) + PAGE_SIZE <= EndOf(b) /\ PageAt(Address(b)) = Start(b)
         /\ Start(b) \in Pages(b) /\ Address(b) % PAGE_SIZE = 0
<1>1. PICK s \in Nat, w \in Nat \ {0}, p \in Nat \ {0} :
        s = Start(b) /\ w = Width[b[1]] /\ p = PAGE_SIZE
  BY PagesType, WidthType, Sized DEF Block
<1>2. Address(b) = s * p /\ EndOf(b) = (s + w) * p
  BY <1>1 DEF Address, EndOf
<1>3. s * p \in Nat /\ (s + w) * p = s * p + w * p /\ w * p \in Nat /\ w * p >= p
  BY MulGrows, <1>1
<1>8. PICK m \in Nat : m = s * p
  BY <1>3
<1>4. m \div p = s /\ m % p = 0
  BY <1>8, DivUnique
<1>5. m % 8 = 0
  <2>1. PICK k \in Nat : p = k * 8
    BY <1>1, Constants, ModZero
  <2>2. PICK n \in Nat : n = s * k
    OBVIOUS
  <2>3. m = n * 8
    BY <1>8, <2>1, <2>2
  <2> QED BY <2>3, DivUnique
<1>6. Start(b) \in Pages(b)
  BY PagesType
<1>7. PageAt(Address(b)) = s /\ Address(b) % PAGE_SIZE = 0 /\ Address(b) % 8 = 0
  BY <1>1, <1>2, <1>4, <1>5, <1>8 DEF PageAt
<1> QED
  BY <1>1, <1>2, <1>3, <1>6, <1>7

\* A page is in a block when its bytes are.
LEMMA InRun ==
  ASSUME NEW b \in Block, NEW a \in Nat
  PROVE  PageAt(a) \in Pages(b) <=> Address(b) <= a /\ a < EndOf(b)
<1>1. PICK s \in Nat, w \in Nat \ {0}, p \in Nat \ {0}, x \in Nat, e \in Nat :
        /\ s = Start(b) /\ w = Width[b[1]] /\ p = PAGE_SIZE /\ x = Address(b) /\ e = EndOf(b)
  <2>1. /\ Start(b) \in Nat /\ Width[b[1]] \in Nat \ {0} /\ PAGE_SIZE \in Nat \ {0}
        /\ Address(b) \in Nat /\ EndOf(b) \in Nat
    BY RunType, Sized
  <2> QED BY <2>1, Zenon
<1>2. x = s * p /\ e = (s + w) * p
  BY <1>1 DEF Address, EndOf
<1>3. PICK q \in Nat, y \in Nat : q = PageAt(a) /\ y = q * p /\ y <= a /\ a < y + p
  BY <1>1, PageBounds
<1>4. q \in Pages(b) <=> s <= q /\ q < s + w
  BY <1>1 DEF Pages
<1>5. s <= q => x <= y
  <2>1. s < q => x + p <= y
    BY <1>2, <1>3, MulMono
  <2> QED BY <1>2, <1>3, <2>1
<1>6. q < s => y + p <= x
  BY <1>2, <1>3, MulMono
<1>7. q < s + w => y + p <= e
  <2>1. PICK z \in Nat : z = s + w
    OBVIOUS
  <2> QED BY <1>2, <1>3, <2>1, MulMono
<1>8. s + w <= q => e <= y
  <2>1. PICK z \in Nat : z = s + w
    OBVIOUS
  <2>2. z < q => e + p <= y
    BY <1>2, <1>3, <2>1, MulMono
  <2> QED BY <1>2, <1>3, <2>1, <2>2
<1>9. q \in Pages(b) => x <= a /\ a < e
  BY <1>3, <1>4, <1>5, <1>7
<1>10. x <= a /\ a < e => q \in Pages(b)
  BY <1>3, <1>4, <1>6, <1>8
<1> QED
  BY <1>1, <1>3, <1>9, <1>10

\* A page is a block of its own.
LEMMA PageBlock ==
  ASSUME NEW q \in Nat
  PROVE  /\ <<0, q>> \in Block /\ Pages(<<0, q>>) = {q} /\ Start(<<0, q>>) = q
         /\ Address(<<0, q>>) = q * PAGE_SIZE
<1>1. 0 \in Level /\ Width[0] = 1
  BY LevelType, WidthAssumption DEF Level
<1>2. Start(<<0, q>>) = q
  BY <1>1 DEF Start
<1>3. Pages(<<0, q>>) = q..(q + 1 - 1)
  BY <1>1, <1>2 DEF Pages
<1>4. Pages(<<0, q>>) = {q}
  BY <1>3
<1> QED
  BY <1>1, <1>2, <1>4 DEF Block, Address

\* Two blocks of pages with no page in common do not overlap.
LEMMA RunsApart ==
  ASSUME NEW b \in Block, NEW c \in Block, Pages(b) \cap Pages(c) = {}
  PROVE  EndOf(b) <= Address(c) \/ EndOf(c) <= Address(b)
<1>1. PICK s \in Nat, w \in Nat \ {0}, i \in Nat, j \in Nat \ {0}, p \in Nat \ {0} :
        /\ s = Start(b) /\ w = Width[b[1]] /\ i = Start(c) /\ j = Width[c[1]] /\ p = PAGE_SIZE
  <2>1. /\ Start(b) \in Nat /\ Width[b[1]] \in Nat \ {0} /\ PAGE_SIZE \in Nat \ {0}
        /\ Start(c) \in Nat /\ Width[c[1]] \in Nat \ {0}
    BY RunType, Sized
  <2> QED BY <2>1, Zenon
<1>2. s + w <= i \/ i + j <= s
  <2>1. Pages(b) = s..(s + w - 1) /\ Pages(c) = i..(i + j - 1)
    BY <1>1 DEF Pages
  <2>2. CASE s <= i
    <3>1. i \notin s..(s + w - 1)
      BY <2>1
    <3> QED BY <2>2, <3>1
  <2>3. CASE i < s
    <3>1. s \notin i..(i + j - 1)
      BY <2>1
    <3> QED BY <2>3, <3>1
  <2> QED BY <2>2, <2>3
<1>3. ASSUME NEW m \in Nat, NEW n \in Nat, m <= n PROVE m * p <= n * p
  <2>1. m < n => m * p + p <= n * p
    BY MulMono
  <2>2. m * p \in Nat /\ n * p \in Nat
    OBVIOUS
  <2> QED BY <1>3, <2>1, <2>2
<1>4. s + w \in Nat /\ i + j \in Nat
  OBVIOUS
<1> QED
  BY <1>1, <1>2, <1>3, <1>4 DEF EndOf, Address

-----------------------------------------------------------------------------
(* The page manager                                                        *)

LEMMA PmIs ==
  /\ Pm!Block = Block /\ Pm!Level = Level
  /\ \A b : Pm!Start(b) = Start(b) /\ Pm!Pages(b) = Pages(b)
  BY DEF Pm!Block, Block, Pm!Level, Level, Pm!Start, Start, Pm!Pages, Pages

LEMMA StoreType ==
  ASSUME Store
  PROVE  /\ free \subseteq Known /\ held \subseteq Block /\ req \in Level \cup {None}
         /\ Known \subseteq Nat \ {0}
         /\ \A b \in held : Pages(b) \cap free = {} /\ Pages(b) \subseteq Known
         /\ \A b, c \in held : b # c => Pages(b) \cap Pages(c) = {}
<1>1. Pm!TypeOK
  BY DEF Store
<1>2. free \subseteq Known /\ held \subseteq Block /\ req \in Level \cup {None}
  BY <1>1, PmIs DEF Pm!TypeOK, Known
<1> QED
  BY <1>2, MemoryAssumption DEF Store, Known

\* A block that is granted was free.
LEMMA GrantStore ==
  ASSUME Store, NEW b \in Pm!Available(req), Pm!Grant(b)
  PROVE  /\ Store' /\ b \in Block /\ b[1] = req /\ Pages(b) \subseteq free
         /\ held' = held \cup {b} /\ req' = None
         /\ \A c \in held : Pages(c) \cap Pages(b) = {}
<1>1. /\ free' = free \ Pages(b) /\ held' = held \cup {b} /\ req' = None
      /\ req # None /\ req < TOTAL_LEVEL
  BY PmIs DEF Pm!Grant
<1>2. /\ free \subseteq Known /\ held \subseteq Block /\ req \in Level /\ Known \subseteq Nat \ {0}
      /\ \A c \in held : Pages(c) \cap free = {} /\ Pages(c) \subseteq Known
      /\ \A c, d \in held : c # d => Pages(c) \cap Pages(d) = {}
  BY <1>1, StoreType
<1>3. b \in {<<req, p \div Width[req]>> : p \in free} /\ Pages(b) \subseteq free
  BY PmIs DEF Pm!Available
<1>4. b \in Block /\ b[1] = req
  <2>1. PICK p \in free : b = <<req, p \div Width[req]>>
    BY <1>3
  <2>2. p \in Nat /\ Width[req] \in Nat \ {0}
    BY <1>2, WidthType
  <2>3. p \div Width[req] \in Nat
    BY <2>2, DivMod
  <2> QED BY <1>2, <2>1, <2>3 DEF Block
<1>5. Pm!TypeOK'
  <2>1. free' \subseteq UNION Memories /\ held' \subseteq Pm!Block /\ req' \in Pm!Level \cup {None}
    BY <1>1, <1>2, <1>4, PmIs DEF Known
  <2> QED BY <2>1 DEF Pm!TypeOK
<1>6. \A c \in held' : Pages(c) \cap free' = {} /\ Pages(c) \subseteq Known
  BY <1>1, <1>2, <1>3
<1>7. \A c, d \in held' : c # d => Pages(c) \cap Pages(d) = {}
  BY <1>1, <1>2, <1>3
<1> QED
  BY <1>1, <1>2, <1>3, <1>4, <1>5, <1>6, <1>7 DEF Store

LEMMA ReleaseStore ==
  ASSUME Store, NEW b \in held, Pm!Release(b)
  PROVE  Store' /\ held' = held \ {b} /\ req' = req
<1>1. free' = free \cup Pages(b) /\ held' = held \ {b} /\ req' = req
  BY PmIs DEF Pm!Release
<1>2. /\ free \subseteq Known /\ held \subseteq Block /\ req \in Level \cup {None}
      /\ \A c \in held : Pages(c) \cap free = {} /\ Pages(c) \subseteq Known
      /\ \A c, d \in held : c # d => Pages(c) \cap Pages(d) = {}
  BY StoreType
<1>3. Pm!TypeOK'
  <2>1. free' \subseteq UNION Memories /\ held' \subseteq Pm!Block /\ req' \in Pm!Level \cup {None}
    BY <1>1, <1>2, PmIs DEF Known
  <2> QED BY <2>1 DEF Pm!TypeOK
<1>4. \A c \in held' : Pages(c) \cap free' = {} /\ Pages(c) \subseteq Known
  BY <1>1, <1>2
<1>5. \A c, d \in held' : c # d => Pages(c) \cap Pages(d) = {}
  BY <1>1, <1>2
<1> QED
  BY <1>1, <1>3, <1>4, <1>5 DEF Store

\* Asking and being refused change nothing of it.
LEMMA AskStore ==
  ASSUME Store, free' = free, held' = held, req' \in Level \cup {None}
  PROVE  Store'
<1>1. free \subseteq UNION Memories /\ held \subseteq Pm!Block /\ req' \in Pm!Level \cup {None}
  BY StoreType, PmIs DEF Known
<1>2. Pm!TypeOK'
  BY <1>1 DEF Pm!TypeOK
<1> QED
  BY <1>2 DEF Store

-----------------------------------------------------------------------------
(* Where headers lie                                                       *)

\* A header lies in a page of small blocks, in a big block, or outside of the
\* memory.
LEMMA Homes ==
  ASSUME Sound, NEW a \in DOMAIN hdr
  PROVE  /\ a \in Nat /\ a % 8 = 0 /\ PageAt(a) \in Nat
         /\ \/ a \in PlainOf(hdr) /\ <<0, PageAt(a)>> \in held
            \/ PageAt(a) \notin Known /\ ((IsBig(hdr, a) /\ a = NULL) \/ (IsAlias(hdr, a) /\ hdr[a].prev = NULL))
            \/ \E b \in held :
                 /\ b[1] # 0 /\ PageAt(a) \in Pages(b)
                 /\ \/ IsBig(hdr, a) /\ ~IsAlias(hdr, a) /\ a # NULL /\ Run(a, b)
                    \/ /\ IsAlias(hdr, a) /\ hdr[a].prev # NULL
                       /\ IsBig(hdr, hdr[a].prev) /\ Run(hdr[a].prev, b)
<1>1. Typed(hdr) /\ Store /\ Housed /\ Bigs /\ Aliases
  BY DEF Sound, Heap
<1>2. a \in Nat /\ a % 8 = 0 /\ PageAt(a) \in Nat /\ (IsBig(hdr, a) => ~IsAlias(hdr, a))
  BY <1>1, Kind, PageBounds
<1>3. CASE a \in PlainOf(hdr)
  BY <1>1, <1>2, <1>3 DEF Housed
<1>4. CASE IsBig(hdr, a) /\ a = NULL
  <2>1. PageAt(a) = 0
    <3>1. PAGE_SIZE \in Nat \ {0} /\ NULL = 0
      BY Sized
    <3>2. 0 = 0 * PAGE_SIZE
      BY <3>1
    <3> QED BY <1>4, <3>1, <3>2, DivUnique DEF PageAt
  <2> QED BY <1>1, <1>2, <1>4, <2>1, StoreType
<1>5. CASE IsBig(hdr, a) /\ a # NULL
  <2>1. PICK b \in held : Run(a, b)
    BY <1>1, <1>5 DEF Bigs
  <2>2. b \in Block /\ b[1] # 0 /\ Address(b) = a
    BY <1>1, <2>1, StoreType DEF Run
  <2>3. PageAt(a) \in Pages(b)
    BY <2>2, RunType
  <2> QED BY <1>2, <1>5, <2>1, <2>2, <2>3
<1>6. CASE IsAlias(hdr, a) /\ hdr[a].prev = NULL
  BY <1>1, <1>2, <1>6 DEF Aliases
<1>7. CASE IsAlias(hdr, a) /\ hdr[a].prev # NULL
  <2>1. PICK b \in held : Run(hdr[a].prev, b) /\ Covers(b, a) /\ IsBig(hdr, hdr[a].prev)
    BY <1>1, <1>7 DEF Aliases
  <2>2. b[1] # 0 /\ PageAt(a) \in Pages(b)
    BY <2>1 DEF Run, Covers
  <2> QED BY <1>2, <1>7, <2>1, <2>2
<1> QED
  BY <1>2, <1>3, <1>4, <1>5, <1>6, <1>7 DEF PlainOf

\* Nothing is in a free page.
LEMMA FreshAt ==
  ASSUME Sound, NEW q \in free
  PROVE  q \in Nat \ {0} /\ \A a \in DOMAIN hdr : PageAt(a) # q
<1>1. Store
  BY DEF Sound
<1>2. q \in Nat \ {0} /\ q \in Known /\ \A b \in held : q \notin Pages(b)
  BY <1>1, StoreType
<1>3. ASSUME NEW a \in DOMAIN hdr, PageAt(a) = q PROVE FALSE
  <2>1. PageAt(a) \in Nat /\ <<0, PageAt(a)>> \notin held
    <3>1. PageAt(a) \in Nat
      BY Homes
    <3>2. Pages(<<0, PageAt(a)>>) = {PageAt(a)}
      BY <3>1, PageBlock
    <3> QED BY <1>2, <1>3, <3>1, <3>2
  <2> QED BY <1>2, <1>3, <2>1, Homes
<1> QED
  BY <1>2, <1>3

\* Only small blocks are in a page of small blocks.
LEMMA PlainPage ==
  ASSUME Sound, NEW f \in PlainOf(hdr), NEW a \in DOMAIN hdr, PageAt(a) = PageAt(f)
  PROVE  a \in PlainOf(hdr)
<1>1. Store /\ Housed
  BY DEF Sound
<1>2. PICK c \in held : c = <<0, PageAt(f)>>
  BY <1>1 DEF Housed
<1>3. PageAt(a) \in Nat
  BY Homes
<1>4. Pages(c) = {PageAt(a)} /\ PageAt(a) \in Known /\ c[1] = 0
  BY <1>1, <1>2, <1>3, PageBlock, StoreType
<1>5. \A b \in held : PageAt(a) \in Pages(b) => b = c
  BY <1>1, <1>4, StoreType
<1> QED
  BY <1>4, <1>5, Homes

-----------------------------------------------------------------------------
(* What a step leaves alone                                                *)

\* The step writes or forgets headers of no use to a caller, those of T, and
\* puts no alias anywhere.
Kept(T) ==
  /\ \A a \in DOMAIN hdr \ T :
       /\ a \in DOMAIN hdr' /\ hdr'[a].size = hdr[a].size
       /\ IsAlias(hdr, a) => hdr'[a].prev = hdr[a].prev
  /\ \A a \in T : a = NULL \/ (Owner(a) # NULL /\ Unowned(Owner(a)))
  /\ \A a \in DOMAIN hdr' :
       \/ a \in DOMAIN hdr /\ a \notin T
       \/ /\ ~IsAlias(hdr', a)
          /\ IsBig(hdr', a) /\ a # NULL => \E b \in held' : Run(a, b)'
  /\ \A b \in held \ held' : b[1] = 0 \/ Address(b) \in T
  /\ live' = live
  /\ ~(pc = "free" /\ IsAlias(hdr, blk) /\ hdr[blk].prev # NULL /\ blk \notin T)
  /\ NULL \in DOMAIN hdr => NULL \in DOMAIN hdr'
  /\ NULL \in DOMAIN hdr' => IsBig(hdr', NULL)

LEMMA KeptHeader ==
  ASSUME NEW T, Kept(T), NEW a \in DOMAIN hdr, a \notin T
  PROVE  /\ a \in DOMAIN hdr' /\ hdr'[a].size = hdr[a].size
         /\ IsAlias(hdr, a) => hdr'[a].prev = hdr[a].prev
         /\ IsAlias(hdr', a) <=> IsAlias(hdr, a)
         /\ IsBig(hdr', a) <=> IsBig(hdr, a)
         /\ IsUsed(hdr', a) <=> IsUsed(hdr, a)
         /\ Cap(hdr', a) = Cap(hdr, a)
         /\ a \in SmallOf(hdr) => a \in SmallOf(hdr')
         /\ Owner(a)' = Owner(a)
         /\ \A b \in held : Run(a, b) => b \in held' /\ Run(a, b)'
<1>1. /\ a \in DOMAIN hdr' /\ hdr'[a].size = hdr[a].size
      /\ IsAlias(hdr, a) => hdr'[a].prev = hdr[a].prev
      /\ \A b \in held \ held' : b[1] = 0 \/ Address(b) \in T
  BY DEF Kept
<1>2. /\ IsAlias(hdr', a) <=> IsAlias(hdr, a)
      /\ IsBig(hdr', a) <=> IsBig(hdr, a)
      /\ IsUsed(hdr', a) <=> IsUsed(hdr, a)
      /\ Cap(hdr', a) = Cap(hdr, a)
  BY <1>1 DEF IsAlias, IsBig, IsUsed, Cap
<1>3. a \in SmallOf(hdr) => a \in SmallOf(hdr')
  BY <1>1, <1>2 DEF SmallOf, PlainOf
<1>4. Owner(a)' = Owner(a)
  BY <1>1, <1>2 DEF Owner
<1>5. ASSUME NEW b \in held, Run(a, b)
      PROVE  b \in held' /\ Run(a, b)'
  <2>1. b[1] # 0 /\ Address(b) = a
    BY <1>5 DEF Run
  <2>2. b \in held'
    BY <1>1, <2>1
  <2> QED BY <1>1, <1>5, <2>2 DEF Run
<1> QED
  BY <1>1, <1>2, <1>3, <1>4, <1>5

\* A header that a pointer's block has, and the block, stay.
LEMMA KeptOwner ==
  ASSUME Sound, NEW T, Kept(T), NEW a \in DOMAIN hdr, ~Unowned(Owner(a))
  PROVE  a \notin T /\ Owner(a) \notin T /\ Owner(a) # NULL /\ Owner(a) \in DOMAIN hdr
<1>1. Owner(a) # NULL
  BY DEF Unowned
<1>2. /\ Typed(hdr) /\ Aliases
      /\ \A c \in T : c = NULL \/ (Owner(c) # NULL /\ Unowned(Owner(c)))
  BY DEF Sound, Kept, Heap
<1>3. ASSUME a \in T PROVE FALSE
  <2>1. a = NULL
    BY <1>2, <1>3
  <2>2. IsBig(hdr, a)
    BY <2>1 DEF Sound, Bigs
  <2>3. Owner(a) = a
    BY <1>2, <2>2, Kind DEF Owner
  <2> QED BY <1>1, <2>1, <2>3
<1>4. Owner(a) \in DOMAIN hdr /\ Owner(Owner(a)) = Owner(a)
  <2>1. CASE IsAlias(hdr, a)
    <3>1. hdr[a].prev \in DOMAIN hdr /\ IsBig(hdr, hdr[a].prev)
      BY <1>2, <2>1 DEF Aliases
    <3>2. ~IsAlias(hdr, hdr[a].prev)
      BY <1>2, <3>1, Kind
    <3> QED BY <2>1, <3>1, <3>2 DEF Owner
  <2> QED BY <2>1 DEF Owner
<1>5. Owner(a) \notin T
  BY <1>1, <1>2, <1>4
<1> QED
  BY <1>1, <1>3, <1>4, <1>5

LEMMA KeptBigs ==
  ASSUME Sound, NEW T, Kept(T)
  PROVE  Bigs'
<1>1. NULL \in DOMAIN hdr' => IsBig(hdr', NULL)
  BY DEF Kept
<1>2. ASSUME NEW a \in DOMAIN hdr', IsBig(hdr', a), a # NULL
      PROVE  \E b \in held' : Run(a, b)'
  <2>1. CASE a \in DOMAIN hdr /\ a \notin T
    <3>1. IsBig(hdr, a)
      BY <1>2, <2>1, KeptHeader
    <3>2. PICK b \in held : Run(a, b)
      BY <1>2, <2>1, <3>1 DEF Sound, Bigs
    <3> QED BY <2>1, <3>2, KeptHeader
  <2>2. CASE ~(a \in DOMAIN hdr /\ a \notin T)
    BY <1>2, <2>2 DEF Kept
  <2> QED BY <2>1, <2>2
<1> QED
  BY <1>1, <1>2 DEF Bigs

LEMMA KeptAliases ==
  ASSUME Sound, NEW T, Kept(T)
  PROVE  Aliases'
<1> SUFFICES ASSUME NEW a \in DOMAIN hdr', IsAlias(hdr', a)
             PROVE  /\ hdr'[a].prev \in DOMAIN hdr' /\ IsBig(hdr', hdr'[a].prev)
                    /\ hdr'[a].prev = NULL => a # NULL /\ PageAt(a) \notin Known
                    /\ hdr'[a].prev # NULL =>
                         /\ a > hdr'[a].prev
                         /\ \E b \in held' : Run(hdr[a].prev, b)' /\ Covers(b, a)
                         /\ (\E p \in live' : p.addr = a + HEADER) \/ (pc' = "free" /\ blk' = a)
  BY DEF Aliases
<1>1. a \in DOMAIN hdr /\ a \notin T
  BY DEF Kept
<1>2. IsAlias(hdr, a) /\ hdr'[a].prev = hdr[a].prev
  BY <1>1, KeptHeader
<1>0. PICK r : r = hdr[a].prev
  OBVIOUS
<1>3. /\ r \in DOMAIN hdr /\ IsBig(hdr, r)
      /\ r = NULL => a # NULL /\ PageAt(a) \notin Known
      /\ r # NULL =>
           /\ a > r
           /\ \E b \in held : Run(r, b) /\ Covers(b, a)
           /\ (\E p \in live : p.addr = a + HEADER) \/ (pc = "free" /\ blk = a)
  BY <1>0, <1>1, <1>2 DEF Sound, Aliases
<1>4. Owner(a) = r
  BY <1>0, <1>2 DEF Owner
<1>5. CASE r = NULL
  <2>1. NULL \in DOMAIN hdr' /\ IsBig(hdr', NULL)
    BY <1>3, <1>5 DEF Kept
  <2> QED BY <1>0, <1>2, <1>3, <1>5, <2>1
<1>6. CASE r # NULL
  <2>1. PICK p \in live : p.addr = a + HEADER
    <3>1. ~(pc = "free" /\ IsAlias(hdr, blk) /\ hdr[blk].prev # NULL /\ blk \notin T)
      BY DEF Kept
    <3>2. ~(pc = "free" /\ blk = a)
      BY <1>0, <1>1, <1>2, <1>6, <3>1
    <3> QED BY <1>3, <1>6, <3>2
  <2>2. p.addr - HEADER = a
    <3>1. a \in Nat /\ HEADER = 8
      BY <1>1, Sized, Kind DEF Sound, Heap
    <3> QED BY <2>1, <3>1
  <2>3. ~Unowned(Owner(a))
    BY <1>4, <1>6, <2>2 DEF Unowned
  <2>4. r \notin T
    BY <1>1, <1>4, <2>3, KeptOwner
  <2>5. r \in DOMAIN hdr' /\ IsBig(hdr', r)
    BY <1>3, <2>4, KeptHeader
  <2>6. PICK b \in held : Run(r, b) /\ Covers(b, a)
    BY <1>3, <1>6
  <2>7. b \in held' /\ Run(r, b)'
    BY <1>3, <2>4, <2>6, KeptHeader
  <2>8. p \in live'
    BY DEF Kept
  <2>9. hdr[a].prev' = r
    BY <1>0, <1>2
  <2>10. Run(hdr[a].prev, b)'
    BY <2>7, <2>9 DEF Run
  <2> QED BY <1>3, <1>6, <2>1, <2>5, <2>6, <2>7, <2>8, <2>9, <2>10
<1> QED
  BY <1>5, <1>6

LEMMA KeptLives ==
  ASSUME Sound, Lives, NEW T, Kept(T)
  PROVE  Lives' /\ \A p \in live : Owner(p.addr - HEADER)' = Owner(p.addr - HEADER)
<1>1. live' = live
  BY DEF Kept
<1>2. ASSUME NEW p \in live
      PROVE  /\ p \in [addr : Nat, need : Nat] /\ p.addr - HEADER \in DOMAIN hdr'
             /\ Owner(p.addr - HEADER)' = Owner(p.addr - HEADER)
             /\ Fits(Owner(p.addr - HEADER), p.addr, p.need)'
  <2>0. PICK a, o : a = p.addr - HEADER /\ o = Owner(a)
    OBVIOUS
  <2>1. /\ p \in [addr : Nat, need : Nat] /\ a \in DOMAIN hdr
        /\ Fits(o, p.addr, p.need)
    BY <2>0 DEF Lives
  <2>2. o = NULL \/ ~Unowned(o)
    BY <2>0 DEF Unowned
  <2>3. /\ o = NULL => IsBig(hdr, NULL) /\ NULL \in DOMAIN hdr' /\ IsBig(hdr', NULL) /\ NULL \in DOMAIN hdr
    <3>1. o = NULL => NULL \in DOMAIN hdr
      BY <2>1 DEF Fits
    <3> QED BY <3>1 DEF Kept, Sound, Bigs
  <2>4. a \notin T \/ a = NULL
    <3>1. CASE o = NULL
      <4>1. \A c \in T : c = NULL \/ (Owner(c) # NULL /\ Unowned(Owner(c)))
        BY DEF Kept
      <4> QED BY <2>0, <3>1, <4>1
    <3> QED BY <2>0, <2>1, <2>2, <3>1, KeptOwner
  <2>5. a \in DOMAIN hdr' /\ Owner(a)' = o
    <3>1. CASE a \notin T
      BY <2>0, <2>1, <3>1, KeptHeader
    <3>2. CASE a = NULL
      <4>1. IsBig(hdr, NULL) /\ NULL \in DOMAIN hdr' /\ IsBig(hdr', NULL)
        BY <2>1, <3>2 DEF Kept, Sound, Bigs
      <4>3. ~IsAlias(hdr, NULL) /\ o = NULL
        <5>1. ~IsAlias(hdr, NULL)
          BY <2>1, <3>2, <4>1, Kind DEF Sound, Heap
        <5> QED BY <2>0, <3>2, <5>1 DEF Owner
      <4>4. CASE NULL \notin T
        BY <2>0, <2>1, <3>2, <4>4, KeptHeader
      <4>5. CASE NULL \in T
        <5>1. ~IsAlias(hdr', NULL)
          BY <4>1, <4>5 DEF Kept
        <5> QED BY <3>2, <4>1, <4>3, <5>1 DEF Owner
      <4> QED BY <4>4, <4>5
    <3> QED BY <2>4, <3>1, <3>2
  <2>6. Fits(o, p.addr, p.need)'
    <3>1. CASE o = NULL
      <4>1. NULL \in DOMAIN hdr'
        BY <2>3, <3>1
      <4> QED BY <2>1, <3>1, <4>1 DEF Fits
    <3>2. CASE o # NULL
      <4>1. o \in DOMAIN hdr /\ o \notin T
        BY <2>0, <2>1, <2>2, <3>2, KeptOwner
      <4>2. /\ o \in DOMAIN hdr' /\ (IsBig(hdr', o) <=> IsBig(hdr, o))
            /\ (IsUsed(hdr', o) <=> IsUsed(hdr, o)) /\ Cap(hdr', o) = Cap(hdr, o)
            /\ o \in SmallOf(hdr) => o \in SmallOf(hdr')
            /\ \A b \in held : Run(o, b) => b \in held' /\ Run(o, b)'
        BY <4>1, KeptHeader
      <4> QED BY <2>1, <3>2, <4>2 DEF Fits
    <3> QED BY <3>1, <3>2
  <2> QED BY <2>0, <2>1, <2>5, <2>6
<1>3. ASSUME NEW p \in live, NEW q \in live, p # q
      PROVE  \/ Owner(p.addr - HEADER)' # Owner(q.addr - HEADER)'
             \/ Owner(p.addr - HEADER)' = NULL
  <2>1. \/ Owner(p.addr - HEADER) # Owner(q.addr - HEADER)
        \/ Owner(p.addr - HEADER) = NULL
    BY <1>3 DEF Lives
  <2> QED BY <1>2, <2>1
<1>4. \A p \in live' : Fits(Owner(p.addr - HEADER), p.addr, p.need)'
  BY <1>1, <1>2
<1> QED
  BY <1>1, <1>2, <1>3, <1>4 DEF Lives

LEMMA KeptUnowned ==
  ASSUME Sound, Lives, NEW T, Kept(T), NEW o, Unowned(o)
  PROVE  Unowned(o)'
<1>1. live' = live
  BY DEF Kept
<1> QED
  BY <1>1, KeptLives DEF Unowned

\* The block of a pointer is big or a used small block.
LEMMA OwnerKind ==
  ASSUME Sound, Lives, NEW a, a \in PlainOf(hdr), ~(a \in SmallOf(hdr) /\ IsUsed(hdr, a))
  PROVE  Owner(a) = a /\ a # NULL /\ Unowned(a)
<1>1. a \in DOMAIN hdr /\ ~IsAlias(hdr, a) /\ ~IsBig(hdr, a)
  BY DEF PlainOf
<1>2. a # NULL
  BY DEF Sound, Heap, Tiling
<1>3. ASSUME NEW p \in live, Owner(p.addr - HEADER) = a PROVE FALSE
  <2>1. Fits(a, p.addr, p.need)
    BY <1>3 DEF Lives
  <2> QED BY <1>1, <1>2, <2>1 DEF Fits
<1> QED
  BY <1>1, <1>2, <1>3 DEF Owner, Unowned

\* A step among the small blocks
LEMMA KeptSmall ==
  ASSUME Sound, Heap(hdr, blocks)', NEW T, T \subseteq PlainOf(hdr), \A a \in T : Unowned(a),
         DOMAIN hdr \ T \subseteq DOMAIN hdr',
         SameSize(hdr', hdr, DOMAIN hdr \ T), SamePrev(hdr', hdr, DOMAIN hdr \ PlainOf(hdr)),
         \A a \in DOMAIN hdr' : a \in DOMAIN hdr \ T \/ a \in PlainOf(hdr'),
         \A b \in held \ held' : b[1] = 0,
         live' = live, ~(pc = "free" /\ IsAlias(hdr, blk))
  PROVE  Kept(T)
<1>1. \A a \in DOMAIN hdr \ T : IsAlias(hdr, a) => hdr'[a].prev = hdr[a].prev
  BY DEF PlainOf, SamePrev
<1>2. \A a \in T : Owner(a) # NULL /\ Unowned(Owner(a))
  <2>1. \A a \in T : a # NULL /\ Owner(a) = a
    BY DEF Sound, Heap, Tiling, PlainOf, Owner
  <2> QED BY <2>1
<1>3. \A a \in DOMAIN hdr' : ~(a \in DOMAIN hdr /\ a \notin T) => ~IsAlias(hdr', a) /\ ~IsBig(hdr', a)
  BY DEF PlainOf
<1>4. NULL \in DOMAIN hdr => NULL \in DOMAIN hdr'
  BY DEF Sound, Heap, Tiling
<1>5. NULL \in DOMAIN hdr' => IsBig(hdr', NULL)
  <2>1. NULL \notin PlainOf(hdr')
    BY DEF Heap, Tiling
  <2>2. NULL \in DOMAIN hdr => IsBig(hdr, NULL)
    BY DEF Sound, Bigs
  <2> QED BY <2>1, <2>2 DEF IsBig, SameSize
<1> QED
  BY <1>1, <1>2, <1>3, <1>4, <1>5 DEF Kept, SameSize

-----------------------------------------------------------------------------
(* Nothing is lost                                                         *)

\* What the step writes of use is in hand, and what was in hand stays there.
Handed(T) ==
  /\ \A a \in DOMAIN hdr' : (a \in T \/ a \notin DOMAIN hdr) /\ InUse(a)' => InHand(a)'
  /\ \A a \in DOMAIN hdr : InHand(a) /\ a \notin T => InHand(a)'

\* The blocks of pages that are held before and after the step are filled as
\* before.
Refilled(T) ==
  /\ \A a \in T \cap SmallOf(hdr) :
       <<0, PageAt(a)>> \in held' => \E c \in SmallOf(hdr') : PageAt(c) = PageAt(a)
  /\ \A a \in T \cap DOMAIN hdr, b \in held \cap held' :
       IsBig(hdr, a) /\ a # NULL => ~Run(a, b)
  /\ \A a \in DOMAIN hdr', b \in held \cap held' : a \in T \/ a \notin DOMAIN hdr =>
       /\ IsBig(hdr', a) /\ a # NULL => ~Run(a, b)'
       /\ a \in SmallOf(hdr') /\ b = <<0, PageAt(a)>> =>
            \E c \in SmallOf(hdr) : PageAt(c) = PageAt(a)

LEMMA KeptNoneLost ==
  ASSUME Sound, Lives, NoneLost, NEW T, Kept(T), Handed(T)
  PROVE  NoneLost'
<1> SUFFICES ASSUME NEW a \in DOMAIN hdr', InUse(a)' PROVE InHand(a)' \/ ~Unowned(a)'
  BY DEF NoneLost
<1>1. CASE a \in T \/ a \notin DOMAIN hdr
  BY <1>1 DEF Handed
<1>2. CASE a \in DOMAIN hdr /\ a \notin T
  <2>1. /\ IsAlias(hdr', a) <=> IsAlias(hdr, a)
        /\ IsBig(hdr', a) <=> IsBig(hdr, a)
        /\ IsUsed(hdr', a) <=> IsUsed(hdr, a)
    BY <1>2, KeptHeader
  <2>2. InUse(a)
    BY <1>2, <2>1 DEF InUse, SmallOf, PlainOf
  <2>3. CASE InHand(a)
    BY <1>2, <2>3 DEF Handed
  <2>4. CASE ~Unowned(a)
    <3>1. live' = live /\ \A p \in live : Owner(p.addr - HEADER)' = Owner(p.addr - HEADER)
      BY KeptLives DEF Kept
    <3> QED BY <2>4, <3>1 DEF Unowned
  <2> QED BY <1>2, <2>2, <2>3, <2>4 DEF NoneLost
<1> QED
  BY <1>1, <1>2

LEMMA KeptFilled ==
  ASSUME Sound, NEW T, Kept(T), Refilled(T), NEW b \in held \cap held'
  PROVE  Filled(b)' <=> Filled(b)
<1>1. ASSUME NEW a \in SmallOf(hdr), b = <<0, PageAt(a)>> PROVE Filled(b)'
  <2>1. CASE a \in T
    BY <1>1, <2>1 DEF Refilled, Filled
  <2>2. CASE a \notin T
    <3>1. a \in SmallOf(hdr')
      BY <2>2, KeptHeader DEF SmallOf, PlainOf
    <3> QED BY <1>1, <3>1 DEF Filled
  <2> QED BY <2>1, <2>2
<1>2. ASSUME NEW a \in DOMAIN hdr, IsBig(hdr, a), a # NULL, Run(a, b) PROVE Filled(b)'
  <2>1. a \notin T
    BY <1>2 DEF Refilled
  <2>2. a \in DOMAIN hdr' /\ IsBig(hdr', a) /\ Run(a, b)'
    BY <1>2, <2>1, KeptHeader
  <2> QED BY <1>2, <2>2 DEF Filled
<1>3. ASSUME NEW a \in SmallOf(hdr'), b = <<0, PageAt(a)>> PROVE Filled(b)
  <2>0. a \in DOMAIN hdr'
    BY DEF SmallOf, PlainOf
  <2>1. CASE a \in T \/ a \notin DOMAIN hdr
    BY <1>3, <2>0, <2>1 DEF Refilled, Filled
  <2>2. CASE a \in DOMAIN hdr /\ a \notin T
    <3>1. a \in SmallOf(hdr)
      BY <2>2, KeptHeader DEF SmallOf, PlainOf
    <3> QED BY <1>3, <3>1 DEF Filled
  <2> QED BY <2>1, <2>2
<1>4. ASSUME NEW a \in DOMAIN hdr', IsBig(hdr', a), a # NULL, Run(a, b)' PROVE Filled(b)
  <2>1. a \in DOMAIN hdr /\ a \notin T
    BY <1>4 DEF Refilled
  <2>2. IsBig(hdr, a) /\ hdr'[a].size = hdr[a].size
    BY <1>4, <2>1, KeptHeader
  <2>3. Run(a, b)
    BY <1>4, <2>2 DEF Run
  <2> QED BY <1>4, <2>1, <2>2, <2>3 DEF Filled
<1>5. Filled(b) => Filled(b)'
  BY <1>1, <1>2 DEF Filled
<1>6. Filled(b)' => Filled(b)
  BY <1>3, <1>4 DEF Filled
<1> QED
  BY <1>5, <1>6

LEMMA OneOwnKept ==
  ASSUME OneOwn, \A b \in held \cap held' : Filled(b)' <=> Filled(b),
         \A b \in held' \ held : Filled(b)', \A b \in held \ held' : Filled(b)
  PROVE  OneOwn'
<1>1. PICK own \in held : \A b \in held : Filled(b) <=> b # own
  BY DEF OneOwn
<1>2. own \in held'
  BY <1>1
<1>3. ASSUME NEW b \in held' PROVE Filled(b)' <=> b # own
  BY <1>1, <1>2
<1> QED
  BY <1>2, <1>3 DEF OneOwn

LEMMA KeptAccounted ==
  ASSUME Sound, Lives, Accounted, Running, NEW T, Kept(T), Handed(T), Refilled(T),
         IsFiniteSet(held'), \A b \in held' \ held : Filled(b)', \A b \in held \ held' : Filled(b)
  PROVE  Accounted'
<1>1. NoneLost'
  BY KeptNoneLost DEF Accounted
<1>2. OneOwn'
  BY KeptFilled, OneOwnKept DEF Accounted
<1> QED
  BY <1>1, <1>2 DEF Accounted

\* A step among the small blocks of the pages at hand
LEMMA SmallAccounted ==
  ASSUME Sound, Lives, Accounted, Running, NEW T, Kept(T), Handed(T), held' = held,
         T \subseteq PlainOf(hdr),
         \A a \in DOMAIN hdr' : a \in T \/ a \notin DOMAIN hdr => a \in PlainOf(hdr'),
         \A a \in T \cap SmallOf(hdr) : \E c \in SmallOf(hdr') : PageAt(c) = PageAt(a),
         \A a \in SmallOf(hdr') : a \in T \/ a \notin DOMAIN hdr =>
           \E c \in SmallOf(hdr) : PageAt(c) = PageAt(a)
  PROVE  Accounted'
<1>1. \A a \in T : ~IsBig(hdr, a)
  BY DEF PlainOf
<1>2. \A a \in DOMAIN hdr' : a \in T \/ a \notin DOMAIN hdr => ~IsBig(hdr', a)
  BY DEF PlainOf
<1>3. Refilled(T)
  BY <1>1, <1>2 DEF Refilled
<1>4. IsFiniteSet(held')
  BY DEF Accounted
<1> QED
  BY <1>3, <1>4, KeptAccounted

\* A step that leaves the memory and the callers alone
LEMMA StillAccounted ==
  ASSUME Accounted, hdr' = hdr, held' = held, live' = live,
         Running' => Running /\ \A o : InHand(o) => InHand(o)'
  PROVE  Accounted'
<1>1. \A o : Unowned(o)' <=> Unowned(o)
  BY DEF Unowned, Owner
<1>2. \A a : InUse(a)' <=> InUse(a)
  BY DEF InUse
<1>3. \A a, b : Run(a, b)' <=> Run(a, b)
  BY DEF Run
<1>4. \A b : Filled(b)' <=> Filled(b)
  BY <1>3 DEF Filled
<1>5. NoneLost /\ Running' => NoneLost'
  BY <1>1, <1>2 DEF NoneLost
<1>6. OneOwn => OneOwn'
  BY <1>4 DEF OneOwn
<1> QED
  BY <1>5, <1>6 DEF Accounted

-----------------------------------------------------------------------------
(* What is asked for                                                       *)

\* The level that getPagePow finds is large enough.
LEMMA PagePow ==
  ASSUME NEW n \in Nat
  PROVE  /\ GetPagePow(n) \in Level
         /\ GetPagePow(n) < TOTAL_LEVEL => n <= Width[GetPagePow(n)] * PAGE_SIZE
         /\ n > PAGE_SIZE => GetPagePow(n) # 0
<1>1. PICK p \in Nat \ {0} : p = PAGE_SIZE
  BY Sized
<1>2. PICK k \in Nat : k = (n + p - 1) \div p /\ n + p - 1 = k * p + ((n + p - 1) % p)
                       /\ (n + p - 1) % p \in 0..(p - 1)
  <2>1. n + p - 1 \in Nat
    OBVIOUS
  <2> QED BY <2>1, DivMod
<1>3. n <= k * p /\ k * p \in Nat
  <2>1. PICK x \in Nat : x = k * p
    OBVIOUS
  <2> QED BY <1>2, <2>1
<1>4. AlignTo(n, PAGE_SIZE) \div PAGE_SIZE = k
  <2>1. AlignTo(n, PAGE_SIZE) = k * p
    BY <1>1, <1>2 DEF AlignTo
  <2> QED BY <1>1, <1>3, <2>1, DivUnique
<1> DEFINE S == {l \in Level : Width[l] >= k} \cup {TOTAL_LEVEL}
<1>5. GetPagePow(n) = CHOOSE x \in S : \A y \in S : x <= y
  BY <1>4 DEF GetPagePow, Min
<1>6. S \subseteq Level /\ S \subseteq Nat /\ S # {}
  BY LevelType
<1>7. PICK m \in S : \A y \in S : m <= y
  BY <1>6, LeastNat
<1>8. GetPagePow(n) \in S
  BY <1>5, <1>7
<1>9. PICK l \in S : l = GetPagePow(n)
  BY <1>8
<1>10. l \in Level
  BY <1>6
<1>11. ASSUME l < TOTAL_LEVEL PROVE n <= Width[l] * p
  <2>1. Width[l] >= k
    BY <1>9, <1>10, <1>11, LevelType
  <2>2. PICK w \in Nat : w = Width[l]
    BY <1>10, WidthType
  <2>3. k = w \/ k < w
    BY <2>1, <2>2
  <2>4. k < w => k * p + p <= w * p
    BY MulMono
  <2>5. PICK x \in Nat, y \in Nat : x = k * p /\ y = w * p
    OBVIOUS
  <2> QED BY <1>3, <2>2, <2>3, <2>4, <2>5
<1>12. ASSUME n > p PROVE l # 0
  <2>1. k # 0 /\ k # 1
    BY <1>3, <1>12
  <2>2. k > 1
    BY <2>1
  <2>3. Width[0] = 1 /\ TOTAL_LEVEL # 0
    BY WidthAssumption, LevelAssumption
  <2> QED BY <2>2, <2>3
<1> QED
  BY <1>1, <1>9, <1>10, <1>11, <1>12

LEMMA AskedType == Asked \subseteq 0..(WORD - 1)
<1>1. WORD \in Nat \ {0} /\ BLOCK_SIZE = 8
  BY Sized
<1>2. Sizes \subseteq 0..(WORD - 1) /\ Counts \subseteq (0..(WORD - 1)) \X (0..(WORD - 1))
      /\ Alignments \subseteq (1..(WORD - 1)) \X (0..(WORD - 1))
  BY RequestAssumption
<1>3. ASSUME NEW c \in Counts PROVE (c[1] * c[2]) % WORD \in 0..(WORD - 1)
  <2>1. c[1] \in Nat /\ c[2] \in Nat
    BY <1>2
  <2>2. c[1] * c[2] \in Nat
    BY <2>1
  <2> QED BY <1>1, <2>2, DivMod
<1>4. ASSUME NEW c \in Alignments
      PROVE  /\ c[2] \in 0..(WORD - 1)
             /\ c[1] > BLOCK_SIZE => (c[2] + c[1] - BLOCK_SIZE) % WORD \in 0..(WORD - 1)
  <2>1. c[1] \in Nat /\ c[2] \in Nat /\ c[2] \in 0..(WORD - 1)
    BY <1>2
  <2>2. c[1] > BLOCK_SIZE => c[2] + c[1] - BLOCK_SIZE \in Nat
    BY <1>1, <2>1
  <2> QED BY <1>1, <2>1, <2>2, DivMod
<1>5. \A c \in Alignments : ~(c[1] <= BLOCK_SIZE) => c[1] > BLOCK_SIZE
  BY <1>1, <1>2
<1> QED
  BY <1>2, <1>3, <1>4, <1>5 DEF Asked

LEMMA AskedNat == \A n \in Asked : n \in Nat
<1>1. WORD \in Nat
  BY Constants
<1> QED
  BY <1>1, AskedType

\* A small request rounded up, and its class
LEMMA WantedType ==
  ASSUME NEW n \in Nat, n <= MAX_SIZE, NEW w, w = Rounded(n)
  PROVE  /\ w \in Nat /\ w % 8 = 0 /\ w >= 8 /\ n <= w /\ w <= MAX_SIZE
         /\ ClassOf(w) \in Class /\ w = 8 * (ClassOf(w) + 1)
<1>1. BLOCK_SIZE = 8
  BY Sized
<1>2. PICK m \in Nat, k \in Nat : m = MAX_SIZE /\ k = ARR_LEN /\ m = 8 * k /\ k >= 1 /\ Class = 0..(k - 1)
  BY Constants
<1>3. w = IF n < 8 THEN 8 ELSE ((n + 8 - 1) \div 8) * 8
  BY <1>1 DEF Rounded, AlignTo
<1>4. PICK j \in Nat : j = (n + 7) \div 8 /\ n <= 8 * j /\ 8 * j <= n + 7
  OBVIOUS
<1>5. w = IF n < 8 THEN 8 ELSE 8 * j
  BY <1>3, <1>4
<1>6. PICK i \in Nat \ {0} : w = 8 * i /\ n <= w
  <2>1. CASE n < 8
    BY <1>5, <2>1
  <2>2. CASE n >= 8
    <3>1. j # 0
      BY <1>4, <2>2
    <3> QED BY <1>4, <1>5, <2>2, <3>1
  <2> QED BY <2>1, <2>2
<1>7. 8 * i <= 8 * k
  <2>1. CASE n < 8
    BY <1>2, <1>5, <1>6, <2>1
  <2>2. CASE n >= 8
    <3>1. 8 * i = 8 * j
      BY <1>5, <1>6, <2>2
    <3>2. 8 * j <= 8 * k + 7
      BY <1>2, <1>4
    <3> QED BY <3>1, <3>2
  <2> QED BY <2>1, <2>2
<1>8. ClassOf(w) = i - 1
  BY <1>1, <1>6 DEF ClassOf
<1> QED
  BY <1>2, <1>6, <1>7, <1>8

-----------------------------------------------------------------------------
(* Steps that leave the memory alone                                       *)

Still ==
  /\ hdr' = hdr /\ blocks' = blocks /\ held' = held /\ free' = free /\ live' = live
  /\ req' \in Level \cup {None}

LEMMA StillSound ==
  ASSUME Sound, Lives, Still, ~(pc = "free" /\ IsAlias(hdr, blk) /\ hdr[blk].prev # NULL)
  PROVE  Sound' /\ Lives' /\ \A o : Unowned(o) <=> Unowned(o)'
<1>1. Kept({})
  BY DEF Still, Kept, Sound, Bigs, Owner, Unowned
<1>2. Bigs' /\ Aliases' /\ Lives'
  BY <1>1, KeptBigs, KeptAliases, KeptLives
<1>3. Heap(hdr, blocks)' /\ Store' /\ Housed'
  BY AskStore DEF Still, Sound, Housed
<1>4. \A o : Unowned(o) <=> Unowned(o)'
  BY <1>1, KeptLives DEF Still, Unowned
<1> QED
  BY <1>2, <1>3, <1>4 DEF Sound

LEMMA CalledInv ==
  ASSUME BInv, NEW c, Called(c), c.size \in Asked, c.need \in Nat,
         \/ c.op \in {"malloc", "realloc"} /\ c.need = c.size
         \/ /\ c.op = "aligned" /\ c.align \in Nat \ {0} /\ c.align % PAGE_SIZE = 0
            /\ c.size = c.need + c.align - BLOCK_SIZE
            /\ c.align \div PAGE_SIZE - 1 \notin Known,
         c.op = "realloc" => \E p \in live : p.addr = c.old
  PROVE  BInv'
<1>1. Sound /\ Lives /\ Control /\ Accounted
  BY DEF BInv
<1>2. /\ hdr' = hdr /\ blocks' = blocks /\ held' = held /\ free' = free /\ live' = live /\ req' = req
      /\ pc = "idle" /\ pc' = "malloc" /\ call' = c /\ blk' = blk
  BY DEF Called, pages, heap
<1>3. req \in Level \cup {None}
  BY <1>1, StoreType DEF Sound
<1>4. Sound' /\ Lives'
  BY <1>1, <1>2, <1>3, StillSound DEF Still
<1>5. Serving'
  BY <1>2 DEF Serving
<1>6. req = None
  BY <1>1, <1>2 DEF Control
<1>7. Control'
  BY <1>2, <1>5, <1>6 DEF Control
<1>8. Running' => Running /\ \A o : InHand(o) => InHand(o)'
  BY <1>2 DEF Running, InHand
<1> QED
  BY <1>1, <1>2, <1>4, <1>7, <1>8, StillAccounted DEF BInv

LEMMA MallocCallInv == ASSUME BInv, NEW n \in Asked, MallocCall(n) PROVE BInv'
<1>1. n \in Nat
  BY AskedType, Sized
<1> DEFINE c == [Idle EXCEPT !.op = "malloc", !.need = n, !.size = n]
<1>2. c.size = n /\ c.need = n /\ c.op = "malloc"
  BY DEF Idle
<1>3. Called(c)
  BY DEF MallocCall
<1> HIDE DEF c
<1> QED BY <1>1, <1>2, <1>3, CalledInv

LEMMA CallocCallInv == ASSUME BInv, NEW m \in Counts, CallocCall(m) PROVE BInv'
<1>1. m[1] * m[2] \in Nat /\ m[1] * m[2] < WORD /\ WORD \in Nat \ {0}
  <2>1. m[1] \in Nat /\ m[2] \in Nat /\ WORD \in Nat \ {0}
    BY RequestAssumption, Sized
  <2> QED BY <2>1, ServedAssumption
<1>2. (m[1] * m[2]) % WORD = m[1] * m[2]
  <2>1. PICK z \in Nat : z = m[1] * m[2]
    BY <1>1
  <2>2. z \in 0..(WORD - 1) /\ z = 0 * WORD + z
    BY <1>1, <2>1
  <2>3. z % WORD = z
    BY <1>1, <2>2, OneQuotient
  <2> QED BY <2>1, <2>3
<1>3. (m[1] * m[2]) % WORD \in Asked
  BY DEF Asked
<1> DEFINE z == m[1] * m[2]
           c == [Idle EXCEPT !.op = "malloc", !.need = z, !.size = z % WORD]
<1>4. c.size = z % WORD /\ c.need = z /\ c.op = "malloc"
  BY DEF Idle
<1>5. Called(c)
  BY DEF CallocCall
<1> HIDE DEF c
<1> QED BY <1>1, <1>2, <1>3, <1>4, <1>5, CalledInv

LEMMA ReallocCallInv ==
  ASSUME BInv, NEW p \in live, NEW n \in Sizes, ReallocCall(p, n)
  PROVE  BInv'
<1>1. n \in Asked /\ n \in Nat
  BY AskedType, Sized DEF Asked
<1> DEFINE c == [Idle EXCEPT !.op = "realloc", !.need = n, !.size = n, !.old = p.addr]
<1>2. c.size = n /\ c.need = n /\ c.op = "realloc" /\ c.old = p.addr
  BY DEF Idle
<1>3. Called(c)
  BY DEF ReallocCall
<1> HIDE DEF c
<1> QED BY <1>1, <1>2, <1>3, CalledInv

LEMMA AlignedCallInv == ASSUME BInv, NEW m \in Alignments, AlignedCall(m) PROVE BInv'
<1>1. m[1] \in Nat \ {0} /\ m[2] \in Nat /\ WORD \in Nat \ {0} /\ BLOCK_SIZE = 8
  BY RequestAssumption, Sized
<1>2. CASE IsPowerOf2(m[1]) /\ m[1] <= BLOCK_SIZE /\ MallocCall(m[2])
  <2>1. m[2] \in Asked
    BY <1>2 DEF Asked
  <2> QED BY <1>2, <2>1, MallocCallInv
<1>3. CASE /\ IsPowerOf2(m[1]) /\ m[1] > BLOCK_SIZE
           /\ Called([Idle EXCEPT !.op = "aligned", !.need = m[2], !.align = m[1],
                                  !.size = (m[2] + m[1] - BLOCK_SIZE) % WORD])
  <2>1. /\ m[1] % PAGE_SIZE = 0 /\ m[1] + m[2] < WORD
        /\ \A k \in Memories : m[1] \div PAGE_SIZE - 1 \notin k
    BY <1>3, ServedAssumption
  <2>2. m[1] \div PAGE_SIZE - 1 \notin Known
    BY <2>1 DEF Known
  <2>3. (m[2] + m[1] - BLOCK_SIZE) % WORD = m[2] + m[1] - BLOCK_SIZE
    <3>1. PICK z \in Nat : z = m[2] + m[1] - BLOCK_SIZE
      BY <1>1, <1>3
    <3>2. z \in 0..(WORD - 1) /\ z = 0 * WORD + z
      BY <1>1, <2>1, <3>1
    <3>3. z % WORD = z
      BY <1>1, <3>2, OneQuotient
    <3> QED BY <3>1, <3>3
  <2>4. (m[2] + m[1] - BLOCK_SIZE) % WORD \in Asked
    <3>1. ~(m[1] <= BLOCK_SIZE)
      BY <1>1, <1>3
    <3> QED BY <1>3, <3>1 DEF Asked
  <2> DEFINE z == (m[2] + m[1] - BLOCK_SIZE) % WORD
             c == [Idle EXCEPT !.op = "aligned", !.need = m[2], !.align = m[1], !.size = z]
  <2>5. c.size = z /\ c.need = m[2] /\ c.op = "aligned" /\ c.align = m[1]
    BY DEF Idle
  <2>6. Called(c)
    BY <1>3
  <2>7. z = m[2] + m[1] - BLOCK_SIZE /\ z \in Asked
    BY <2>3, <2>4
  <2> HIDE DEF c, z
  <2> QED BY <1>1, <2>1, <2>2, <2>5, <2>6, <2>7, CalledInv
<1>4. CASE pc = "idle" /\ blk' = None /\ pc' = "return" /\ UNCHANGED <<pages, heap, live, call>>
  <2>1. Sound /\ Lives /\ Control /\ Accounted
    BY DEF BInv
  <2>2. hdr' = hdr /\ blocks' = blocks /\ held' = held /\ free' = free /\ live' = live /\ req' = req
    BY <1>4 DEF pages, heap
  <2>3. req \in Level \cup {None}
    BY <2>1, StoreType DEF Sound
  <2>4. Sound' /\ Lives'
    BY <1>4, <2>1, <2>2, <2>3, StillSound DEF Still
  <2>5. req = None
    BY <1>4, <2>1 DEF Control
  <2>6. Control'
    BY <1>4, <2>2, <2>5 DEF Control
  <2>7. Running' => Running /\ \A o : InHand(o) => InHand(o)'
    BY <1>4 DEF Running, InHand
  <2> QED BY <2>1, <2>2, <2>4, <2>6, <2>7, StillAccounted DEF BInv
<1> QED
  BY <1>2, <1>3, <1>4 DEF AlignedCall

\* pageman_alloc is called, or returns NULL, and the places where the program
\* ends.
LEMMA AskingInv ==
  ASSUME BInv, \/ MallocBig \/ MallocPage \/ MallocOverrun
               \/ CreateFails \/ PageRefuse \/ ReturnNull \/ Enter \/ FreeWild
  PROVE  BInv'
<1>1. Sound /\ Lives /\ Control /\ Accounted
  BY DEF BInv
<1>2. req \in Level \cup {None}
  BY <1>1, StoreType DEF Sound
<1>3. CASE MallocBig
  <2>1. /\ req' = GetPagePow(BLOCK_T + call.size) /\ free' = free /\ held' = held
        /\ hdr' = hdr /\ blocks' = blocks /\ live' = live /\ call' = call /\ blk' = blk
        /\ pc = "malloc" /\ pc' = "big" /\ call.size > MAX_SIZE
    BY <1>3 DEF MallocBig, Pm!Request, heap
  <2>2. Serving
    BY <1>1, <2>1 DEF Control, InMalloc
  <2>3. call.size \in Nat /\ BLOCK_T + call.size \in Nat
    <3>1. call.size \in Nat
      BY <2>2, AskedNat DEF Serving
    <3> QED BY <3>1 DEF BLOCK_T
  <2>4. req' \in Level /\ req' # None
    BY <2>1, <2>3, PagePow, NoneAssumption, LevelType
  <2>5. Sound' /\ Lives'
    BY <1>1, <2>1, <2>4, StillSound DEF Still
  <2>6. Serving'
    BY <2>1, <2>2 DEF Serving
  <2>7. Control'
    BY <2>1, <2>4, <2>6 DEF Control
  <2>8. Running' => Running /\ \A o : InHand(o) => InHand(o)'
    BY <2>1 DEF Running, InHand, Owner
  <2> QED BY <1>1, <2>1, <2>5, <2>7, <2>8, StillAccounted DEF BInv
<1>4. CASE MallocPage
  <2>1. /\ req' = 0 /\ free' = free /\ held' = held
        /\ hdr' = hdr /\ blocks' = blocks /\ live' = live /\ call' = call /\ blk' = blk
        /\ pc = "malloc" /\ pc' = "page" /\ call.size <= MAX_SIZE /\ Id + 1 \in Class
    BY <1>4 DEF MallocPage, Pm!Request, heap, Small
  <2>2. Serving
    BY <1>1, <2>1 DEF Control, InMalloc
  <2>3. call.size \in Asked /\ call.size \in Nat
    BY <2>2, AskedNat DEF Serving
  <2>4. 0 \in Level /\ 0 # None
    BY NoneAssumption, LevelAssumption DEF Level
  <2>5. Wanted + 32 <= PAGE_SIZE
    <3>1. PICK w : w = Wanted
      OBVIOUS
    <3>2. w \in Nat /\ w % 8 = 0 /\ w = 8 * (Id + 1) /\ Id \in Class
      BY <2>1, <2>3, <3>1, WantedType DEF Wanted, Id
    <3>3. w # MAX_SIZE - 8
      BY <2>1, <2>3, <3>1, ServedAssumption, Sized DEF Wanted
    <3>4. /\ MAX_SIZE = PAGE_SIZE - 16 /\ ARR_LEN \in Nat /\ MAX_SIZE = 8 * ARR_LEN
          /\ Class = 0..(ARR_LEN - 1) /\ PAGE_SIZE \in Nat
      BY Constants
    <3>5. Id \in Nat /\ Id + 2 <= ARR_LEN
      BY <2>1, <3>2, <3>4
    <3>6. PICK i \in Nat, k \in Nat : i = Id /\ k = ARR_LEN
      BY <3>4, <3>5
    <3>7. w = 8 * (i + 1) /\ i + 2 <= k /\ w # 8 * k - 8
      BY <3>2, <3>3, <3>4, <3>5, <3>6
    <3>8. w + 16 <= 8 * k
      BY <3>7
    <3> QED BY <3>1, <3>2, <3>4, <3>6, <3>8
  <2>6. Sound' /\ Lives'
    BY <1>1, <2>1, <2>4, StillSound DEF Still
  <2>7. Serving'
    BY <2>1, <2>2 DEF Serving
  <2>8. Wanted' = Wanted
    BY <2>1 DEF Wanted
  <2>9. Control'
    BY <2>1, <2>4, <2>5, <2>7, <2>8 DEF Control
  <2>10. Running' => Running /\ \A o : InHand(o) => InHand(o)'
    BY <2>1 DEF Running, InHand, Owner
  <2> QED BY <1>1, <2>1, <2>6, <2>9, <2>10, StillAccounted DEF BInv
<1>5. CASE MallocOverrun
  <2>1. /\ req' = req /\ free' = free /\ held' = held
        /\ hdr' = hdr /\ blocks' = blocks /\ live' = live /\ pc = "malloc" /\ pc' = "wild"
    BY <1>5 DEF MallocOverrun, Small, pages, heap
  <2>2. Sound' /\ Lives'
    BY <1>1, <1>2, <2>1, StillSound DEF Still
  <2>3. req' = None
    BY <1>1, <2>1 DEF Control
  <2>4. Control'
    BY <2>1, <2>3 DEF Control, InMalloc
  <2>5. Running' => Running /\ \A o : InHand(o) => InHand(o)'
    BY <2>1 DEF Running, InHand, Owner
  <2> QED BY <1>1, <2>1, <2>2, <2>4, <2>5, StillAccounted DEF BInv
<1>6. CASE CreateFails
  <2>1. /\ req' = None /\ free' = free /\ held' = held
        /\ hdr' = hdr /\ blocks' = blocks /\ live' = live /\ pc = "create" /\ pc' = "halted"
    BY <1>6 DEF CreateFails, Pm!Refuse, heap
  <2>2. Sound' /\ Lives'
    BY <1>1, <2>1, StillSound DEF Still
  <2>3. Control'
    BY <2>1 DEF Control, InMalloc
  <2>4. Running' => Running /\ \A o : InHand(o) => InHand(o)'
    BY <2>1 DEF Running, InHand, Owner
  <2> QED BY <1>1, <2>1, <2>2, <2>3, <2>4, StillAccounted DEF BInv
<1>7. CASE PageRefuse
  <2>1. /\ req' = None /\ free' = free /\ held' = held /\ blk' = None
        /\ hdr' = hdr /\ blocks' = blocks /\ live' = live /\ pc = "page" /\ pc' = "return"
    BY <1>7 DEF PageRefuse, Pm!Refuse, heap, Found
  <2>2. Sound' /\ Lives'
    BY <1>1, <2>1, StillSound DEF Still
  <2>3. Control'
    BY <2>1 DEF Control, InMalloc
  <2>4. Running' => Running /\ \A o : InHand(o) => InHand(o)'
    BY <2>1 DEF Running, InHand, Owner
  <2> QED BY <1>1, <2>1, <2>2, <2>3, <2>4, StillAccounted DEF BInv
<1>8. CASE ReturnNull
  <2>1. /\ req' = req /\ free' = free /\ held' = held
        /\ hdr' = hdr /\ blocks' = blocks /\ live' = live /\ pc = "return" /\ pc' = "halted"
    BY <1>8 DEF ReturnNull, pages, heap
  <2>2. Sound' /\ Lives'
    BY <1>1, <1>2, <2>1, StillSound DEF Still
  <2>3. req' = None
    BY <1>1, <2>1 DEF Control
  <2>4. Control'
    BY <2>1, <2>3 DEF Control, InMalloc
  <2>5. Running' => Running /\ \A o : InHand(o) => InHand(o)'
    BY <2>1 DEF Running, InHand, Owner
  <2> QED BY <1>1, <2>1, <2>2, <2>4, <2>5, StillAccounted DEF BInv
<1>9. CASE Enter
  <2>1. /\ req' = req /\ free' = free /\ held' = held /\ blk' = blk /\ call' = call
        /\ hdr' = hdr /\ blocks' = blocks /\ live' = live /\ pc = "free" /\ pc' = "frame"
        /\ ~IsAlias(hdr, blk)
    BY <1>9 DEF Enter, pages, heap
  <2>2. Sound' /\ Lives' /\ \A o : Unowned(o) <=> Unowned(o)'
    BY <1>1, <1>2, <2>1, StillSound DEF Still
  <2>3. req = None /\ call = Idle /\ Freeing
    BY <1>1, <2>1 DEF Control
  <2>4. Freeing'
    BY <2>1, <2>2, <2>3 DEF Freeing, Owner
  <2>5. Control'
    BY <2>1, <2>3, <2>4 DEF Control, InMalloc
  <2>6. Running' => Running /\ \A o : InHand(o) => InHand(o)'
    BY <2>1 DEF Running, InHand, Owner
  <2> QED BY <1>1, <2>1, <2>2, <2>5, <2>6, StillAccounted DEF BInv
<1>10. CASE FreeWild
  <2>1. /\ req' = req /\ free' = free /\ held' = held
        /\ hdr' = hdr /\ blocks' = blocks /\ live' = live /\ pc = "frame" /\ pc' = "wild"
    BY <1>10 DEF FreeWild, pages, heap
  <2>2. Sound' /\ Lives'
    BY <1>1, <1>2, <2>1, StillSound DEF Still
  <2>3. req' = None
    BY <1>1, <2>1 DEF Control
  <2>4. Control'
    BY <2>1, <2>3 DEF Control, InMalloc
  <2>5. Running' => Running /\ \A o : InHand(o) => InHand(o)'
    BY <2>1 DEF Running, InHand, Owner
  <2> QED BY <1>1, <2>1, <2>2, <2>4, <2>5, StillAccounted DEF BInv
<1> QED
  BY <1>3, <1>4, <1>5, <1>6, <1>7, <1>8, <1>9, <1>10

-----------------------------------------------------------------------------
(* Steps of allocator_malloc                                               *)

LEMMA CreateInv == ASSUME BInv, Create PROVE BInv'
<1>1. Sound /\ Lives /\ Control /\ Accounted
  BY DEF BInv
<1>2. PICK b \in Pm!Available(req) : Pm!Grant(b)
  BY DEF Create
<1>3. /\ pc = "create" /\ pc' = "idle" /\ hdr' = hdr /\ blocks' = blocks /\ live' = live
      /\ call' = call
  BY DEF Create, heap
<1>4. DOMAIN hdr = {} /\ live = {} /\ call = Idle
  BY <1>1, <1>3 DEF Control
<1>5. Store' /\ req' = None
  BY <1>1, <1>2, GrantStore DEF Sound
<1>6. Heap(hdr, blocks)'
  BY <1>1, <1>3 DEF Sound
<1>7. Housed' /\ Bigs' /\ Aliases' /\ Lives'
  BY <1>3, <1>4 DEF Housed, PlainOf, Bigs, Aliases, Lives
<1>8. Control'
  BY <1>3, <1>4, <1>5 DEF Control, InMalloc
<1>9. Accounted'
  <2>1. held' = {b} /\ DOMAIN hdr' = {}
    BY <1>1, <1>2, <1>3, <1>4, GrantStore DEF Control, Sound
  <2>2. IsFiniteSet(held')
    <3>1. IsFiniteSet({b})
      BY FS_Singleton
    <3> QED BY <2>1, <3>1
  <2>3. ~Filled(b)'
    BY <2>1 DEF Filled, SmallOf, PlainOf
  <2>4. OneOwn'
    BY <2>1, <2>3 DEF OneOwn
  <2>5. NoneLost'
    BY <2>1 DEF NoneLost
  <2> QED BY <2>2, <2>4, <2>5 DEF Accounted
<1> QED
  BY <1>5, <1>6, <1>7, <1>8, <1>9 DEF BInv, Sound

\* A header that is not a small block's is written.
PutIn(g, h, a, z, s) ==
  /\ a \in Nat /\ a % 8 = 0 /\ a \notin PlainOf(h)
  /\ z \in Nat \cup {Junk} /\ s \in 0..(WORD - 1) /\ (s = 4 \/ s % 8 = 3)
  /\ g = Put(h, a, z, s)

Puts(g, h, a, z, s) ==
  /\ DOMAIN g = DOMAIN h \cup {a} /\ g[a].prev = z /\ g[a].size = s
  /\ PlainOf(g) = PlainOf(h)
  /\ s = 4 => IsAlias(g, a)

LEMMA PutHeap ==
  ASSUME NEW h, NEW l, Heap(h, l), NEW g, NEW a, NEW z, NEW s, PutIn(g, h, a, z, s)
  PROVE  /\ Heap(g, l) /\ DOMAIN g = DOMAIN h \cup {a}
         /\ g[a].prev = z /\ g[a].size = s
         /\ Same(g, h, DOMAIN h \ {a})
         /\ PlainOf(g) = PlainOf(h) /\ SmallOf(g) = SmallOf(h)
         /\ s = 4 => IsAlias(g, a) /\ ~IsBig(g, a)
         /\ s # 4 => IsBig(g, a) /\ ~IsAlias(g, a)
         /\ Puts(g, h, a, z, s)
<1>0. /\ a \in Nat /\ a % 8 = 0 /\ a \notin PlainOf(h)
      /\ z \in Nat \cup {Junk} /\ s \in 0..(WORD - 1) /\ (s = 4 \/ s % 8 = 3)
  BY DEF PutIn
<1>1. g = [x \in DOMAIN h \cup {a} |-> IF x = a THEN [prev |-> z, size |-> s] ELSE h[x]]
  BY DEF Put, PutIn
<1>2. /\ DOMAIN g = DOMAIN h \cup {a} /\ g[a].prev = z /\ g[a].size = s
      /\ \A x \in DOMAIN h : x # a => g[x] = h[x]
  BY <1>1
<1>3. Typed(h)
  BY DEF Heap
<1>4. Typed(g)
  <2>1. /\ h \in [DOMAIN h -> [prev : Nat \cup {Junk}, size : 0..(WORD - 1)]]
        /\ \A x \in DOMAIN h :
             /\ x \in Nat /\ x % 8 = 0
             /\ h[x].size = 4 \/ h[x].size % 8 \in {0, 1, 3}
    BY <1>3 DEF Typed
  <2>2. \A x \in DOMAIN h : h[x] \in [prev : Nat \cup {Junk}, size : 0..(WORD - 1)]
    BY <2>1
  <2>3. g \in [DOMAIN g -> [prev : Nat \cup {Junk}, size : 0..(WORD - 1)]]
    BY <1>0, <1>1, <2>2
  <2>4. \A x \in DOMAIN g : /\ x \in Nat /\ x % 8 = 0
                            /\ g[x].size = 4 \/ g[x].size % 8 \in {0, 1, 3}
    BY <1>0, <1>2, <2>1
  <2> QED BY <2>3, <2>4 DEF Typed
<1>5. /\ s = 4 => IsAlias(g, a) /\ ~IsBig(g, a)
      /\ s # 4 => IsBig(g, a) /\ ~IsAlias(g, a)
      /\ a \notin PlainOf(g)
  <2>1. a \in DOMAIN g
    BY <1>2
  <2>2. (IsAlias(g, a) <=> s = 4) /\ (IsBig(g, a) <=> s % 8 = 3)
    BY <1>2, <1>4, <2>1, Kind
  <2>3. s % 8 = 3 => s # 4
    BY <1>0
  <2> QED BY <1>0, <2>2, <2>3 DEF PlainOf
<1>6. PlainOf(g) = PlainOf(h)
  <2>1. ASSUME NEW x, x # a PROVE x \in PlainOf(g) <=> x \in PlainOf(h)
    BY <1>2, <2>1 DEF PlainOf, IsBig, IsAlias
  <2> QED BY <1>0, <1>5, <2>1
<1>7. Heap(g, l) /\ SmallOf(g) = SmallOf(h)
  <2>1. Same(g, h, PlainOf(h))
    BY <1>0, <1>2 DEF PlainOf, Same
  <2> QED BY <1>4, <1>6, <2>1, SameHeap
<1> QED
  BY <1>2, <1>5, <1>6, <1>7 DEF Same, Puts

\* The size that a big block's header holds
LEMMA BigSize ==
  ASSUME NEW n \in Asked, n > MAX_SIZE, NEW s, s = n - (n % 4) + 3
  PROVE  s \in 0..(WORD - 1) /\ s % 8 = 3 /\ n \in Nat
<1>1. n \in 0..(WORD - 1) /\ n % 8 < 4
  BY AskedType, ServedAssumption
<1>2. PICK w \in Nat : w = WORD /\ w % 8 = 0
  BY Constants
<1>3. n \in Nat /\ n <= w - 1
  BY <1>1, <1>2
<1>4. PICK q \in Nat, r \in 0..3 : n = 8 * q + r
  BY <1>1, <1>3
<1>5. n % 4 = r
  BY <1>4
<1>6. s = 8 * q + 3
  BY <1>4, <1>5
<1>7. s % 8 = 3 /\ s \in Nat
  BY <1>6
<1>8. s <= w - 1
  <2>1. PICK k \in Nat : w = 8 * k
    BY <1>2
  <2>2. q < k
    BY <1>3, <1>4, <2>1
  <2> QED BY <1>6, <2>1, <2>2
<1> QED
  BY <1>2, <1>3, <1>7, <1>8

LEMMA ServingSame ==
  ASSUME Serving, call' = call, live' = live
  PROVE  Serving'
  BY DEF Serving

LEMMA BigGrantInv == ASSUME BInv, BigGrant PROVE BInv'
<1>1. Sound /\ Lives /\ Control /\ Accounted
  BY DEF BInv
<1>2. PICK b \in Pm!Available(req) :
        Pm!Grant(b) /\ hdr' = BigHeader(Address(b)) /\ Found(Address(b))
  BY DEF BigGrant
<1>3. PICK a : a = Address(b)
  OBVIOUS
<1>4. pc = "big" /\ blocks' = blocks /\ blk' = a /\ pc' = "return" /\ live' = live /\ call' = call
  BY <1>2, <1>3 DEF BigGrant, Found
<1>5. /\ Store /\ Store' /\ b \in Block /\ b[1] = req /\ Pages(b) \subseteq free
      /\ held' = held \cup {b} /\ req' = None /\ req < TOTAL_LEVEL
  BY <1>1, <1>2, GrantStore, PmIs DEF Sound, Pm!Grant
<1>6. Serving /\ req = GetPagePow(BLOCK_T + call.size) /\ call.size > MAX_SIZE
  BY <1>1, <1>4 DEF Control, InMalloc
<1>7. PICK n \in Asked : n = call.size /\ n > MAX_SIZE
  BY <1>6 DEF Serving
<1>8. PICK s \in 0..(WORD - 1) : s = n - (n % 4) + 3 /\ s % 8 = 3 /\ n \in Nat
  BY <1>7, BigSize
<1>9. PICK q \in free : q = Start(b)
  BY <1>5, RunType
<1>10. a \in Nat /\ a % 8 = 0 /\ PageAt(a) = q
  BY <1>3, <1>5, <1>9, RunType
<1>11. q # 0 /\ \A x \in DOMAIN hdr : PageAt(x) # q
  BY <1>1, FreshAt
<1>12. a \notin DOMAIN hdr /\ a # NULL
  <2>1. PageAt(NULL) = 0
    <3>1. PAGE_SIZE \in Nat \ {0} /\ NULL = 0 /\ 0 = 0 * PAGE_SIZE
      BY Sized
    <3> QED BY <3>1, DivUnique DEF PageAt
  <2> QED BY <1>10, <1>11, <2>1
<1>13. /\ hdr' = Put(hdr, a, Junk, s) /\ a \notin PlainOf(hdr) /\ Junk \in Nat \cup {Junk}
  BY <1>2, <1>3, <1>7, <1>8, <1>12 DEF BigHeader, PlainOf
<1>14. /\ Heap(hdr', blocks) /\ DOMAIN hdr' = DOMAIN hdr \cup {a} /\ hdr'[a].size = s
       /\ Same(hdr', hdr, DOMAIN hdr \ {a})
       /\ PlainOf(hdr') = PlainOf(hdr) /\ SmallOf(hdr') = SmallOf(hdr)
       /\ ~IsAlias(hdr', a) /\ IsBig(hdr', a)
  <2>1. Heap(hdr, blocks)
    BY <1>1 DEF Sound
  <2>2. s # 4
    BY <1>8
  <2>3. PutIn(hdr', hdr, a, Junk, s)
    BY <1>8, <1>10, <1>13 DEF PutIn
  <2> QED BY <2>1, <2>2, <2>3, PutHeap
<1>15. b[1] # 0 /\ BLOCK_T + n <= Width[b[1]] * PAGE_SIZE
  <2>1. BLOCK_T + n \in Nat /\ BLOCK_T + n > PAGE_SIZE
    <3>1. BLOCK_T = 16 /\ PAGE_SIZE \in Nat /\ MAX_SIZE = PAGE_SIZE - 16
      BY Constants
    <3> QED BY <1>7, <1>8, <3>1
  <2> QED BY <1>5, <1>6, <1>7, <2>1, PagePow
<1>16. Run(a, b)'
  BY <1>3, <1>5, <1>6, <1>7, <1>8, <1>14, <1>15 DEF Run
<1>17. Kept({})
  <2>1. \A x \in DOMAIN hdr \ {} : x \in DOMAIN hdr' /\ hdr'[x] = hdr[x]
    BY <1>12, <1>14 DEF Same
  <2>2. \A x \in DOMAIN hdr' : (x \in DOMAIN hdr /\ x \notin {}) \/ x = a
    BY <1>14
  <2>3. held \ held' = {} /\ b \in held'
    BY <1>5
  <2>4. (NULL \in DOMAIN hdr => NULL \in DOMAIN hdr') /\ (NULL \in DOMAIN hdr' => IsBig(hdr', NULL))
    BY <1>1, <1>12, <1>14 DEF Sound, Bigs, IsBig, Same
  <2> QED BY <1>4, <1>14, <1>16, <2>1, <2>2, <2>3, <2>4 DEF Kept
<1>18. Bigs' /\ Aliases' /\ Lives'
  BY <1>1, <1>17, KeptBigs, KeptAliases, KeptLives
<1>19. Housed'
  BY <1>1, <1>5, <1>14 DEF Sound, Housed
<1>20. Unowned(a)'
  <2>1. Unowned(a)
    BY <1>1, <1>12 DEF Unowned, Lives, Fits
  <2> QED BY <1>1, <1>17, <2>1, KeptUnowned
<1>21. Fits(a, a + HEADER, n)'
  <2>1. HEADER = 8 /\ BLOCK_T = 16 /\ a + HEADER \in Nat
    BY <1>10, Constants
  <2>2. a + HEADER + n <= EndOf(b)
    <3>1. EndOf(b) = a + Width[b[1]] * PAGE_SIZE /\ Width[b[1]] * PAGE_SIZE \in Nat
      BY <1>3, <1>5, RunType
    <3>2. PICK e \in Nat : e = Width[b[1]] * PAGE_SIZE
      BY <3>1
    <3> QED BY <1>8, <1>10, <1>15, <2>1, <3>1, <3>2
  <2>3. b \in held' /\ Run(a, b)' /\ a + HEADER + n <= (Start(b) + Width[b[1]]) * PAGE_SIZE
    BY <1>5, <1>16, <2>2 DEF EndOf
  <2>4. a + HEADER <= a + HEADER
    BY <2>1
  <2> QED BY <1>8, <1>14, <2>1, <2>3, <2>4 DEF Fits
<1>22. Answering'
  <2>1. b \in held' /\ Run(a, b)' /\ a + BLOCK_T + n <= EndOf(b)
    <3>1. EndOf(b) = a + Width[b[1]] * PAGE_SIZE /\ Width[b[1]] * PAGE_SIZE \in Nat
      BY <1>3, <1>5, RunType
    <3>2. PICK e \in Nat : e = Width[b[1]] * PAGE_SIZE
      BY <3>1
    <3>3. BLOCK_T = 16 /\ 16 + n <= e
      BY <1>15, <3>2 DEF BLOCK_T
    <3>4. a + 16 + n <= a + e
      BY <1>8, <1>10, <3>2, <3>3
    <3> QED BY <1>5, <1>16, <3>1, <3>2, <3>3, <3>4
  <2> QED BY <1>4, <1>6, <1>7, <1>8, <1>14, <1>20, <1>21, <2>1, Sized DEF Answering
<1>23. Control'
  <2>1. Serving'
    BY <1>4, <1>6, ServingSame
  <2> QED BY <1>4, <1>5, <1>22, <2>1 DEF Control
<1>24. Accounted'
  <2>1. Handed({})
    <3>1. \A x \in DOMAIN hdr' : x \notin DOMAIN hdr => x = a
      BY <1>14
    <3>2. InHand(a)'
      BY <1>4, <1>10, NoneAssumption DEF InHand
    <3>3. \A x : ~InHand(x)
      BY <1>4 DEF InHand
    <3> QED BY <3>1, <3>2, <3>3 DEF Handed
  <2>2. ASSUME NEW c \in held PROVE ~Run(a, c)'
    <3>1. c \in Block /\ Pages(c) \cap free = {}
      BY <1>5, StoreType
    <3>2. q \notin Pages(c)
      BY <1>9, <3>1
    <3>3. Address(c) # a
      BY <1>10, <3>1, <3>2, RunType
    <3> QED BY <3>3 DEF Run
  <2>3. Refilled({})
    <3>1. a \notin SmallOf(hdr') /\ \A x \in DOMAIN hdr' : x \notin DOMAIN hdr => x = a
      BY <1>14 DEF SmallOf, PlainOf
    <3> QED BY <2>2, <3>1 DEF Refilled
  <2>4. IsFiniteSet(held')
    BY <1>1, <1>5, FS_AddElement DEF Accounted
  <2>5. Filled(b)'
    BY <1>12, <1>14, <1>16 DEF Filled
  <2>6. held' \ held \subseteq {b} /\ held \ held' = {}
    BY <1>5
  <2>7. Running
    BY <1>4 DEF Running
  <2> QED BY <1>1, <1>17, <2>1, <2>3, <2>4, <2>5, <2>6, <2>7, KeptAccounted
<1> QED
  BY <1>4, <1>5, <1>14, <1>18, <1>19, <1>23, <1>24 DEF BInv, Sound

LEMMA BigRefuseInv == ASSUME BInv, BigRefuse PROVE BInv'
<1>1. Sound /\ Lives /\ Control /\ Accounted
  BY DEF BInv
<1>2. /\ hdr' = BigHeader(NULL) /\ blk' = NULL /\ pc = "big" /\ pc' = "return"
      /\ live' = live /\ call' = call /\ blocks' = blocks
      /\ free' = free /\ held' = held /\ req' = None
  BY PmIs DEF BigRefuse, Found, Pm!Refuse
<1>3. Serving /\ call.size > MAX_SIZE
  BY <1>1, <1>2 DEF Control, InMalloc
<1>4. PICK n \in Asked : n = call.size /\ n > MAX_SIZE
  BY <1>3 DEF Serving
<1>5. PICK s \in 0..(WORD - 1) : s = n - (n % 4) + 3 /\ s % 8 = 3 /\ n \in Nat
  BY <1>4, BigSize
<1>6. NULL \notin PlainOf(hdr) /\ NULL \in Nat /\ NULL % 8 = 0 /\ NULL = 0
  BY <1>1, Sized DEF Sound, Heap, Tiling
<1>7. hdr' = Put(hdr, NULL, Junk, s) /\ Junk \in Nat \cup {Junk} /\ s # 4
  BY <1>2, <1>4, <1>5 DEF BigHeader
<1>8. /\ Heap(hdr', blocks) /\ DOMAIN hdr' = DOMAIN hdr \cup {NULL}
      /\ Same(hdr', hdr, DOMAIN hdr \ {NULL})
      /\ PlainOf(hdr') = PlainOf(hdr) /\ SmallOf(hdr') = SmallOf(hdr)
      /\ ~IsAlias(hdr', NULL) /\ IsBig(hdr', NULL)
  <2>1. Heap(hdr, blocks)
    BY <1>1 DEF Sound
  <2>2. PutIn(hdr', hdr, NULL, Junk, s)
    BY <1>5, <1>6, <1>7 DEF PutIn
  <2>3. s # 4
    BY <1>5
  <2> QED BY <2>1, <2>2, <2>3, PutHeap
<1>9. Kept({NULL})
  <2>1. \A x \in DOMAIN hdr \ {NULL} : x \in DOMAIN hdr' /\ hdr'[x] = hdr[x]
    BY <1>8 DEF Same
  <2>2. \A x \in DOMAIN hdr' : (x \in DOMAIN hdr /\ x \notin {NULL}) \/ x = NULL
    BY <1>8
  <2> QED BY <1>2, <1>8, <2>1, <2>2 DEF Kept
<1>10. Bigs' /\ Aliases' /\ Lives'
  BY <1>1, <1>9, KeptBigs, KeptAliases, KeptLives
<1>11. Store' /\ Housed'
  BY <1>1, <1>2, <1>8, AskStore DEF Sound, Housed
<1>12. Answering'
  <2>1. NULL + HEADER \in Nat
    BY Sized
  <2>2. Fits(NULL, NULL + HEADER, n)'
    BY <1>5, <1>8, <2>1 DEF Fits
  <2>3. Unowned(NULL)'
    BY DEF Unowned
  <2> QED BY <1>2, <1>4, <1>8, <2>2, <2>3 DEF Answering
<1>13. Control'
  <2>1. Serving'
    BY <1>2, <1>3, ServingSame
  <2> QED BY <1>2, <1>12, <2>1 DEF Control
<1>14. Accounted'
  <2>1. Handed({NULL})
    <3>1. \A x : ~InHand(x)
      BY <1>2 DEF InHand
    <3>2. \A x \in DOMAIN hdr' : x \notin DOMAIN hdr => x = NULL
      BY <1>8
    <3>3. ~InUse(NULL)'
      BY <1>8 DEF InUse, SmallOf, PlainOf
    <3> QED BY <3>1, <3>2, <3>3 DEF Handed
  <2>2. Refilled({NULL})
    <3>1. NULL \notin SmallOf(hdr) /\ NULL \notin SmallOf(hdr')
      BY <1>6, <1>8 DEF SmallOf
    <3>2. \A x \in DOMAIN hdr' : x \notin DOMAIN hdr => x = NULL
      BY <1>8
    <3> QED BY <3>1, <3>2 DEF Refilled
  <2>3. Running /\ IsFiniteSet(held') /\ held' \ held = {} /\ held \ held' = {}
    BY <1>1, <1>2 DEF Running, Accounted
  <2> QED BY <1>1, <1>9, <2>1, <2>2, <2>3, KeptAccounted
<1> QED
  BY <1>2, <1>8, <1>10, <1>11, <1>13, <1>14 DEF BInv, Sound

\* A small block that is found
LEMMA FoundSmall ==
  ASSUME Serving, Heap(hdr, blocks)', call.size <= MAX_SIZE, NEW b \in SmallOf(hdr'), IsUsed(hdr', b),
         call.size <= Cap(hdr', b), Unowned(b)', req' = None,
         pc' = "return", blk' = b, call' = call, live' = live
  PROVE  Control'
<1>1. call.size \in Nat /\ MAX_SIZE \in Nat /\ HEADER = 8
  <2>1. call.size \in Asked
    BY DEF Serving
  <2>2. call.size \in Nat
    BY <2>1, AskedNat
  <2> QED BY <2>2, Constants
<1>2. b \in DOMAIN hdr' /\ ~IsAlias(hdr', b) /\ b \in Nat
  BY Kind DEF Heap, SmallOf, PlainOf
<1>3. Fits(b, b + HEADER, call.size)'
  <2>1. b + HEADER \in Nat
    BY <1>1, <1>2
  <2> QED BY <1>1, <1>2, <2>1 DEF Fits
<1>4. ~(call.size > MAX_SIZE)
  BY <1>1
<1>5. Answering'
  BY <1>2, <1>3, <1>4 DEF Answering
<1>6. Serving'
  BY ServingSame
<1> QED
  BY <1>5, <1>6 DEF Control

\* What holds of a small request
LEMMA SmallRequest ==
  ASSUME BInv, Small
  PROVE  /\ pc = "malloc" /\ Serving /\ call.size \in Nat /\ call.size <= MAX_SIZE /\ req = None
         /\ Id \in Class /\ call.size <= 8 * (Id + 1) /\ Wanted = 8 * (Id + 1)
<1>1. pc = "malloc" /\ call.size <= MAX_SIZE
  BY DEF Small
<1>2. Serving /\ req = None
  BY <1>1 DEF BInv, Control, InMalloc
<1>3. call.size \in Nat
  BY <1>2, AskedType, Constants DEF Serving
<1>4. PICK w : w = Wanted /\ w = Rounded(call.size) /\ Id = ClassOf(w)
  BY DEF Wanted, Id
<1> QED
  BY <1>1, <1>2, <1>3, <1>4, WantedType

\* A block of a list
LEMMA ListedBlock ==
  ASSUME Sound, Lives, NEW c \in Class, NEW b \in blocks[c]
  PROVE  /\ b \in SmallOf(hdr) /\ b \in PlainOf(hdr) /\ b \in DOMAIN hdr
         /\ ~IsUsed(hdr, b) /\ Cap(hdr, b) = 8 * (c + 1) /\ Unowned(b)
<1>1. Typed(hdr) /\ Tiling(hdr) /\ Lists(hdr, blocks)
  BY DEF Sound, Heap
<1>2. b \in SmallOf(hdr) /\ ~IsUsed(hdr, b) /\ ClassOf(hdr[b].size) = c
  BY <1>1 DEF Lists
<1>3. b \in PlainOf(hdr) /\ b \in DOMAIN hdr /\ Cap(hdr, b) = 8 * (c + 1)
  BY <1>1, <1>2, SmallFacts
<1> QED
  BY <1>2, <1>3, OwnerKind

LEMMA TakeInv ==
  ASSUME BInv, Small, NEW c \in Class, c >= Id, Take(c)
  PROVE  BInv'
<1>1. Sound /\ Lives /\ Accounted
  BY DEF BInv
<1>2. PICK b \in blocks[c] : /\ hdr' = SetUsed(hdr, b) /\ blocks' = Unlisted(b) /\ Found(b)
                             /\ UNCHANGED pages
  BY DEF Take
<1>3. /\ free' = free /\ held' = held /\ req' = req /\ blk' = b /\ pc' = "return"
      /\ live' = live /\ call' = call
  BY <1>2 DEF Found, pages
<1>4. /\ b \in SmallOf(hdr) /\ b \in PlainOf(hdr) /\ b \in DOMAIN hdr
      /\ ~IsUsed(hdr, b) /\ Cap(hdr, b) = 8 * (c + 1) /\ Unowned(b)
  BY <1>1, ListedBlock
<1>5. /\ pc = "malloc" /\ Serving /\ call.size \in Nat /\ call.size <= MAX_SIZE /\ req = None
      /\ Id \in Class /\ call.size <= 8 * (Id + 1)
  BY SmallRequest
<1>6. /\ Heap(hdr', blocks') /\ DOMAIN hdr' = DOMAIN hdr /\ PlainOf(hdr') = PlainOf(hdr)
      /\ SmallOf(hdr') = SmallOf(hdr) /\ IsUsed(hdr', b)
      /\ Same(hdr', hdr, DOMAIN hdr \ {b}) /\ SamePrev(hdr', hdr, DOMAIN hdr)
      /\ Cap(hdr', b) = Cap(hdr, b)
  <2>1. Heap(hdr, blocks) /\ blocks' = Removed(blocks, b)
    BY <1>1, <1>2 DEF Sound, Unlisted, Removed
  <2> QED BY <1>2, <1>4, <2>1, TakeHeap
<1>7. Kept({b})
  <2>1. SameSize(hdr', hdr, DOMAIN hdr \ {b}) /\ SamePrev(hdr', hdr, DOMAIN hdr \ PlainOf(hdr))
    BY <1>6 DEF Same, SameSize, SamePrev
  <2>2. \A a \in DOMAIN hdr' : a \in DOMAIN hdr \ {b} \/ a \in PlainOf(hdr')
    BY <1>4, <1>6
  <2>3. \A a \in {b} : Unowned(a)
    BY <1>4
  <2>4. {b} \subseteq PlainOf(hdr) /\ DOMAIN hdr \ {b} \subseteq DOMAIN hdr' /\ held \ held' = {}
    BY <1>3, <1>4, <1>6
  <2> QED BY <1>1, <1>3, <1>5, <1>6, <2>1, <2>2, <2>3, <2>4, KeptSmall
<1>8. Bigs' /\ Aliases' /\ Lives' /\ Unowned(b)'
  BY <1>1, <1>4, <1>7, KeptBigs, KeptAliases, KeptLives, KeptUnowned
<1>9. Store' /\ Housed'
  <2>1. Store /\ Housed
    BY <1>1 DEF Sound
  <2>2. Store'
    BY <1>3, <2>1, StoreType, AskStore
  <2> QED BY <1>3, <1>6, <2>1, <2>2 DEF Housed
<1>10. Control'
  <2>1. call.size <= Cap(hdr', b)
    <3>1. ARR_LEN \in Nat /\ Class = 0..(ARR_LEN - 1)
      BY Constants
    <3>2. PICK i \in Nat, j \in Nat, k \in Nat : i = Id /\ j = c /\ k = call.size
      BY <1>5, <3>1
    <3>3. k <= 8 * (i + 1) /\ i <= j
      BY <1>5, <3>2
    <3>4. k <= 8 * (j + 1)
      BY <3>3
    <3> QED BY <1>4, <1>6, <3>2, <3>4
  <2> QED BY <1>3, <1>4, <1>5, <1>6, <1>8, <2>1, FoundSmall
<1>11. Accounted'
  <2>1. b \in Nat /\ ~IsAlias(hdr, b)
    BY <1>1, <1>4, Kind DEF Sound, Heap, PlainOf
  <2>2. InHand(b)'
    BY <1>3, <2>1, NoneAssumption DEF InHand
  <2>3. \A x : ~InHand(x)
    BY <1>5 DEF InHand
  <2>4. Handed({b})
    BY <1>6, <2>2, <2>3 DEF Handed
  <2>5. Running
    BY <1>5 DEF Running
  <2> QED BY <1>1, <1>3, <1>4, <1>6, <1>7, <2>4, <2>5, SmallAccounted
<1> QED
  BY <1>6, <1>8, <1>9, <1>10, <1>11 DEF BInv, Sound

LEMMA MallocSplitInv == ASSUME BInv, MallocSplit PROVE BInv'
<1>1. Sound /\ Lives /\ Accounted
  BY DEF BInv
<1>2. /\ pc = "malloc" /\ Serving /\ call.size \in Nat /\ call.size <= MAX_SIZE /\ req = None
      /\ Id \in Class /\ call.size <= 8 * (Id + 1) /\ Wanted = 8 * (Id + 1)
  BY SmallRequest DEF MallocSplit
<1>3. ARR_LEN \in Nat /\ Class = 0..(ARR_LEN - 1)
  BY Constants
<1>4. PICK c \in Class : c = Min(Larger) /\ c >= Id + 2
  <2>1. Larger \subseteq Nat /\ Larger # {}
    BY <1>3 DEF Larger, MallocSplit
  <2>2. PICK m \in Larger : \A n \in Larger : m <= n
    BY <2>1, LeastNat
  <2>3. Min(Larger) \in Larger
    BY <2>2 DEF Min
  <2> QED BY <2>3 DEF Larger
<1>b. PICK b \in blocks[c] : \E r, h :
        /\ h = SplitOff(SetUsed(hdr, b), b, Wanted) /\ r = b + HEADER + Wanted
        /\ hdr' = [h EXCEPT ![r].size = @ - (@ % 2)]
        /\ blocks' = [Unlisted(b) EXCEPT ![ClassOf(h[r].size)] = @ \cup {r}]
        /\ Found(b)
  BY <1>4, Zenon DEF MallocSplit
<1>5. PICK r, h :
        /\ h = SplitOff(SetUsed(hdr, b), b, Wanted) /\ r = b + HEADER + Wanted
        /\ hdr' = [h EXCEPT ![r].size = @ - (@ % 2)]
        /\ blocks' = [Unlisted(b) EXCEPT ![ClassOf(h[r].size)] = @ \cup {r}]
        /\ Found(b)
  BY <1>b, Zenon
<1>6. /\ free' = free /\ held' = held /\ req' = req /\ blk' = b /\ pc' = "return"
      /\ live' = live /\ call' = call
  BY <1>5 DEF Found, pages, MallocSplit
<1>7. /\ b \in SmallOf(hdr) /\ b \in PlainOf(hdr) /\ b \in DOMAIN hdr
      /\ ~IsUsed(hdr, b) /\ Cap(hdr, b) = 8 * (c + 1) /\ Unowned(b)
  BY <1>1, ListedBlock
<1>8. PICK u, k : u = SetUsed(hdr, b) /\ k = Removed(blocks, b) /\ k = Unlisted(b)
  BY Zenon DEF Unlisted, Removed
<1>9. Heap(hdr, blocks)
  BY <1>1 DEF Sound
<1>10. /\ Heap(u, k) /\ DOMAIN u = DOMAIN hdr /\ PlainOf(u) = PlainOf(hdr)
       /\ SmallOf(u) = SmallOf(hdr) /\ IsUsed(u, b)
       /\ Same(u, hdr, DOMAIN hdr \ {b}) /\ SamePrev(u, hdr, DOMAIN hdr)
       /\ Cap(u, b) = Cap(hdr, b) /\ NextBlock(u, b) = NextBlock(hdr, b)
  <2>1. /\ Heap(u, k) /\ DOMAIN u = DOMAIN hdr /\ PlainOf(u) = PlainOf(hdr)
        /\ SmallOf(u) = SmallOf(hdr) /\ IsUsed(u, b)
        /\ Same(u, hdr, DOMAIN hdr \ {b}) /\ SamePrev(u, hdr, DOMAIN hdr)
    BY <1>7, <1>8, <1>9, TakeHeap
  <2>2. Cap(u, b) = Cap(hdr, b) /\ NextBlock(u, b) = NextBlock(hdr, b)
    BY <1>7, <1>8, <1>9, TakeHeap
  <2> QED BY <2>1, <2>2
<1>11. NextBlock(hdr, b) \in PlainOf(hdr) /\ IsUsed(hdr, NextBlock(hdr, b)) /\ NextBlock(hdr, b) # b
  <2>1. /\ IsUsed(hdr, NextBlock(hdr, b)) /\ NextBlock(hdr, b) \in PlainOf(hdr)
    BY <1>7, <1>9 DEF Heap, Merging, Tiling
  <2>2. NextBlock(hdr, b) # b
    BY <1>7, <2>1
  <2> QED BY <2>1, <2>2
<1>12. IsUsed(u, NextBlock(u, b))
  <2>1. NextBlock(hdr, b) \in DOMAIN hdr \ {b}
    BY <1>11 DEF PlainOf
  <2>2. u[NextBlock(hdr, b)] = hdr[NextBlock(hdr, b)]
    BY <1>10, <2>1 DEF Same
  <2> QED BY <1>10, <1>11, <2>2 DEF IsUsed
<1>13. PICK w \in Nat : w = Wanted
  BY <1>2, <1>3
<1>14. Room(u, b, w, r)
  <2>1. PICK i \in Nat, j \in Nat : i = Id /\ j = c
    BY <1>2, <1>3
  <2>2. w = 8 * (i + 1) /\ Cap(u, b) = 8 * (j + 1) /\ j >= i + 2
    BY <1>2, <1>4, <1>7, <1>10, <1>13, <2>1
  <2>3. w % 8 = 0 /\ w >= 8 /\ w + 16 <= Cap(u, b)
    BY <2>2
  <2>4. r = b + 8 + w
    BY <1>5, <1>13, Sized
  <2> QED BY <2>3, <2>4 DEF Room
<1>15. h = SplitOff(u, b, w) /\ hdr' = SetFree(h, r) /\ blocks' = Listed(k, ClassOf(h[r].size), r)
  BY <1>5, <1>8, <1>13, Zenon DEF SetFree, Listed
<1>16. /\ Heap(hdr', blocks') /\ DOMAIN hdr' = DOMAIN hdr \cup {r} /\ PlainOf(hdr') = PlainOf(hdr) \cup {r}
       /\ b \in SmallOf(hdr') /\ IsUsed(hdr', b) /\ Cap(hdr', b) = w /\ PageAt(r) = PageAt(b)
       /\ ~IsUsed(hdr', r) /\ r \in Nat /\ r \notin PlainOf(hdr)
       /\ SameSize(hdr', u, DOMAIN hdr \ {b, r})
       /\ SamePrev(hdr', u, DOMAIN hdr \ {r, NextBlock(hdr, b)})
  <2>1. b \in SmallOf(u)
    BY <1>7, <1>10
  <2>3. Heap(u, k) /\ IsUsed(u, b)
    BY <1>10
  <2>4. SplitBy(u, k, b, w, r, h, hdr', blocks')
    BY <1>14, <1>15 DEF SplitBy
  <2>5. /\ Heap(hdr', blocks') /\ Splits(hdr', u, b, w, r) /\ b \in SmallOf(hdr') /\ IsUsed(hdr', b)
        /\ r \in Nat /\ r \notin PlainOf(u)
        /\ SameSize(hdr', u, DOMAIN u \ {b, r})
        /\ SamePrev(hdr', u, DOMAIN u \ {r, NextBlock(u, b)})
    BY <1>12, <2>1, <2>3, <2>4, SplitHeap
  <2>2. /\ DOMAIN hdr' = DOMAIN u \cup {r} /\ PlainOf(hdr') = PlainOf(u) \cup {r}
        /\ Cap(hdr', b) = w /\ PageAt(r) = PageAt(b) /\ ~IsUsed(hdr', r)
    BY <2>5 DEF Splits
  <2> QED BY <1>10, <2>2, <2>5
<1>17. r \notin DOMAIN hdr
  BY <1>1, <1>7, <1>16, PlainPage
<1>18. Kept({b})
  <2>1. SameSize(hdr', hdr, DOMAIN hdr \ {b})
    BY <1>10, <1>16, <1>17 DEF Same, SameSize
  <2>2. SamePrev(hdr', hdr, DOMAIN hdr \ PlainOf(hdr))
    BY <1>10, <1>11, <1>16, <1>17 DEF SamePrev
  <2>3. \A a \in DOMAIN hdr' : a \in DOMAIN hdr \ {b} \/ a \in PlainOf(hdr')
    BY <1>7, <1>16
  <2>4. \A a \in {b} : Unowned(a)
    BY <1>7
  <2>5. {b} \subseteq PlainOf(hdr) /\ DOMAIN hdr \ {b} \subseteq DOMAIN hdr' /\ held \ held' = {}
    BY <1>6, <1>7, <1>16
  <2> QED BY <1>1, <1>2, <1>6, <1>16, <2>1, <2>2, <2>3, <2>4, <2>5, KeptSmall
<1>19. Bigs' /\ Aliases' /\ Lives' /\ Unowned(b)'
  BY <1>1, <1>7, <1>18, KeptBigs, KeptAliases, KeptLives, KeptUnowned
<1>20. Store' /\ Housed'
  <2>1. Store /\ Housed
    BY <1>1 DEF Sound
  <2>2. Store'
    BY <1>6, <2>1, StoreType, AskStore
  <2> QED BY <1>6, <1>7, <1>16, <2>1, <2>2 DEF Housed
<1>21. Control'
  BY <1>2, <1>6, <1>13, <1>16, <1>19, FoundSmall
<1>22. Accounted'
  <2>1. b \in Nat
    BY <1>1, <1>7, Kind DEF Sound, Heap, PlainOf
  <2>2. InHand(b)'
    BY <1>6, <2>1, NoneAssumption DEF InHand
  <2>3. \A x : ~InHand(x)
    BY <1>2 DEF InHand
  <2>4. ~InUse(r)'
    BY <1>16 DEF InUse, PlainOf
  <2>5. Handed({b})
    <3>1. \A x \in DOMAIN hdr' : x \in {b} \/ x \notin DOMAIN hdr => x = b \/ x = r
      BY <1>16
    <3> QED BY <2>2, <2>3, <2>4, <3>1 DEF Handed
  <2>6. Running
    BY <1>2 DEF Running
  <2>7. \A x \in DOMAIN hdr' : x \in {b} \/ x \notin DOMAIN hdr =>
           x \in PlainOf(hdr') /\ PageAt(x) = PageAt(b)
    BY <1>7, <1>16
  <2>8. \A x \in SmallOf(hdr') : x \in DOMAIN hdr'
    BY DEF SmallOf, PlainOf
  <2>9. {b} \subseteq PlainOf(hdr)
    BY <1>7
  <2>10. \A x \in SmallOf(hdr') : x \in {b} \/ x \notin DOMAIN hdr =>
           \E z \in SmallOf(hdr) : PageAt(z) = PageAt(x)
    BY <1>7, <2>7, <2>8
  <2>11. \A x \in {b} \cap SmallOf(hdr) : \E z \in SmallOf(hdr') : PageAt(z) = PageAt(x)
    BY <1>16
  <2> QED BY <1>1, <1>6, <1>18, <2>5, <2>6, <2>7, <2>9, <2>10, <2>11, SmallAccounted
<1> QED
  BY <1>16, <1>19, <1>20, <1>21, <1>22 DEF BInv, Sound

\* What is written to a fresh page
LEMMA FreshWrites ==
  ASSUME NEW d, d \in [DOMAIN d -> {d[a] : a \in DOMAIN d}], NEW y, NEW r, NEW e, y # r, y # e, r # e,
         NEW w, NEW v \in Nat, v % 2 = 0,
         NEW h, h = Put(Put(Put(d, y, NULL, w + 1), r, y, v), e, r, 1),
         NEW g, g = SetFree(h, r)
  PROVE  FreshIn(g, d, y, r, e, w, v) /\ h[r].size = v
<1>1. /\ h = [x \in DOMAIN h |-> h[x]] /\ DOMAIN h = DOMAIN d \cup {y, r, e}
      /\ h[y] = [prev |-> NULL, size |-> w + 1]
      /\ h[r] = [prev |-> y, size |-> v] /\ h[e] = [prev |-> r, size |-> 1]
      /\ \A a \in DOMAIN d \ {y, r, e} : h[a] = d[a]
  <2>1. PICK f : f = Put(d, y, NULL, w + 1)
    OBVIOUS
  <2>2. PICK m : m = Put(f, r, y, v)
    OBVIOUS
  <2>3. h = Put(m, e, r, 1)
    BY <2>1, <2>2
  <2>4. /\ DOMAIN f = DOMAIN d \cup {y} /\ f[y] = [prev |-> NULL, size |-> w + 1]
        /\ \A a \in DOMAIN d \ {y} : f[a] = d[a]
    BY <2>1 DEF Put
  <2>5. /\ DOMAIN m = DOMAIN f \cup {r} /\ m[r] = [prev |-> y, size |-> v]
        /\ \A a \in DOMAIN f \ {r} : m[a] = f[a]
    BY <2>2 DEF Put
  <2>6. /\ DOMAIN h = DOMAIN m \cup {e} /\ h[e] = [prev |-> r, size |-> 1]
        /\ \A a \in DOMAIN m \ {e} : h[a] = m[a] /\ h = [x \in DOMAIN h |-> h[x]]
    BY <2>3 DEF Put
  <2>7. h = [x \in DOMAIN h |-> h[x]]
    BY <2>3 DEF Put
  <2>8. m[y] = f[y] /\ h[y] = m[y] /\ h[r] = m[r]
    BY <2>4, <2>5, <2>6
  <2>9. DOMAIN h = DOMAIN d \cup {y, r, e}
    BY <2>4, <2>5, <2>6
  <2>10. ASSUME NEW a \in DOMAIN d \ {y, r, e} PROVE h[a] = d[a]
    BY <2>4, <2>5, <2>6
  <2> QED BY <2>4, <2>5, <2>6, <2>7, <2>8, <2>9, <2>10
<1>2. h[r].size = v
  BY <1>1
<1>3. v - (v % 2) = v
  OBVIOUS
<1>4. g = [h EXCEPT ![r].size = v]
  BY <1>2, <1>3 DEF SetFree
<1>5. g = h
  <2>1. h[r] = [h[r] EXCEPT !.size = v]
    BY <1>1
  <2>2. g = [h EXCEPT ![r] = [h[r] EXCEPT !.size = v]]
    BY <1>4
  <2>3. g = [h EXCEPT ![r] = h[r]]
    BY <2>1, <2>2
  <2> QED BY <1>1, <2>3
<1> QED
  BY <1>1, <1>2, <1>5 DEF FreshIn

LEMMA PageGrantInv == ASSUME BInv, PageGrant PROVE BInv'
<1>1. Sound /\ Lives /\ Control /\ Accounted
  BY DEF BInv
<1>2. PICK b \in Pm!Available(req) :
       /\ Pm!Grant(b)
       /\ MarkFree(Fresh(Address(b)), Address(b) + HEADER + Wanted)
       /\ IF ClassOf(RestSize) \in Class
            THEN Found(Address(b))
            ELSE pc' = "wild" /\ UNCHANGED <<live, call, blk>>
  BY DEF PageGrant
<1>3. /\ pc = "page" /\ req = 0 /\ call.size <= MAX_SIZE /\ Wanted + 32 <= PAGE_SIZE /\ Serving
  BY <1>1 DEF PageGrant, Control, InMalloc
<1>4. PICK w \in Nat : w = Wanted /\ w % 8 = 0 /\ w >= 8 /\ call.size <= w /\ w + 32 <= PAGE_SIZE
  <2>1. call.size \in Nat
    BY <1>3, AskedType, Constants DEF Serving
  <2>2. PICK w : w = Wanted /\ w = Rounded(call.size)
    BY DEF Wanted
  <2> QED BY <1>3, <2>1, <2>2, WantedType
<1>5. /\ Store' /\ b \in Block /\ b[1] = 0 /\ Pages(b) \subseteq free
      /\ held' = held \cup {b} /\ req' = None
  BY <1>1, <1>2, <1>3, GrantStore DEF Sound
<1>6. PICK q \in free : /\ b = <<0, q>> /\ q \in Nat \ {0} /\ \A x \in DOMAIN hdr : PageAt(x) # q
  <2>1. b = <<0, b[2]>> /\ b[2] \in Nat
    BY <1>5 DEF Block
  <2>2. Pages(b) = {b[2]}
    BY <2>1, PageBlock
  <2>3. b[2] \in free
    BY <1>5, <2>2
  <2> QED BY <1>1, <2>1, <2>3, FreshAt
<1>7. PICK y \in Nat : y = Address(b) /\ y = q * PAGE_SIZE
  <2>1. Address(b) = q * PAGE_SIZE /\ Address(b) \in Nat
    BY <1>5, <1>6, PageBlock, RunType
  <2> QED BY <2>1
<1>8. PICK p \in Nat : p = PAGE_SIZE
  BY Sized
<1>9. PICK r \in Nat, e \in Nat, v \in Nat :
        /\ r = y + 8 + w /\ e = y + p - 8 /\ v = p - w - 24 /\ e = r + 8 + v
  <2>1. y + 8 + w \in Nat /\ y + p - 8 \in Nat /\ p - w - 24 \in Nat /\ y + p - 8 = y + 8 + w + 8 + (p - w - 24)
    BY <1>4, <1>8
  <2> QED BY <2>1, Zenon
<1>10. Cut(q, y, w, r, e, v)
  BY <1>4, <1>6, <1>7, <1>8, <1>9 DEF Cut, Begins
<1>11. /\ y < r /\ r < e /\ v % 2 = 0 /\ PageAt(y) = q /\ PageAt(r) = q /\ PageAt(e) = q
  BY <1>10, FreshPlace
<1>12. y \notin DOMAIN hdr /\ r \notin DOMAIN hdr /\ e \notin DOMAIN hdr
  BY <1>6, <1>11
<1>13. PICK h : h = Put(Put(Put(hdr, y, NULL, w + 1), r, y, v), e, r, 1) /\ h = Fresh(y)
  <2>1. RestSize = v
    <3>1. RestSize = PAGE_SIZE - (Wanted + 8 + 8) - 8
      BY Sized DEF RestSize
    <3> QED BY <1>4, <1>8, <1>9, <3>1
  <2>2. y + HEADER + Wanted = r /\ r + HEADER + RestSize = e
    BY <1>4, <1>9, <2>1, Sized
  <2>3. Fresh(y) = Put(Put(Put(hdr, y, NULL, w + 1), r, y, v), e, r, 1)
    BY <1>4, <2>1, <2>2 DEF Fresh
  <2> QED BY <2>3
<1>14. y + HEADER + Wanted = r
  BY <1>4, <1>9, Sized
<1>15. hdr' = SetFree(h, r) /\ blocks' = Listed(blocks, ClassOf(h[r].size), r)
  BY <1>2, <1>7, <1>13, <1>14, Zenon DEF MarkFree, SetFree, Listed
<1>16. Heap(hdr, blocks) /\ Typed(hdr)
  BY <1>1 DEF Sound, Heap
<1>17. FreshIn(hdr', hdr, y, r, e, w, v) /\ h[r].size = v
  <2>1. hdr \in [DOMAIN hdr -> {hdr[a] : a \in DOMAIN hdr}]
    BY <1>16 DEF Typed
  <2>2. y # r /\ y # e /\ r # e
    BY <1>11
  <2> HIDE DEF SetFree
  <2> QED BY <1>11, <1>13, <1>15, <2>1, <2>2, FreshWrites
<1>18. Heap(hdr', blocks') /\ Opens(hdr', hdr, q, y, r, e, w) /\ IsUsed(hdr', y)
  <2>1. NoneIn(hdr, q)
    BY <1>6 DEF NoneIn, PlainOf
  <2>2. blocks' = Listed(blocks, ClassOf(v), r)
    BY <1>15, <1>17
  <2> QED BY <1>6, <1>10, <1>16, <1>17, <2>1, <2>2, FreshHeap
<1>19. /\ PageAt(y) = q /\ PageAt(r) = q /\ PageAt(e) = q /\ ~IsUsed(hdr', r)
       /\ PlainOf(hdr') = PlainOf(hdr) \cup {y, r, e} /\ SmallOf(hdr') = SmallOf(hdr) \cup {y, r}
       /\ Cap(hdr', y) = w
  BY <1>18 DEF Opens
<1>20. /\ DOMAIN hdr' = DOMAIN hdr \cup {y, r, e}
       /\ SameSize(hdr', hdr, DOMAIN hdr) /\ SamePrev(hdr', hdr, DOMAIN hdr \ PlainOf(hdr))
  BY <1>12, <1>17 DEF FreshIn, SameSize, SamePrev
<1>21. live' = live
  BY <1>2 DEF Found
<1>22. Kept({})
  <2>1. \A a \in DOMAIN hdr' : a \in DOMAIN hdr \ {} \/ a \in PlainOf(hdr')
    BY <1>19, <1>20
  <2>2. held \ held' = {} /\ DOMAIN hdr \ {} \subseteq DOMAIN hdr' /\ DOMAIN hdr \ {} = DOMAIN hdr
    BY <1>5, <1>20
  <2> QED BY <1>1, <1>3, <1>18, <1>20, <1>21, <2>1, <2>2, KeptSmall
<1>23. Bigs' /\ Aliases' /\ Lives'
  BY <1>1, <1>22, KeptBigs, KeptAliases, KeptLives
<1>24. Unowned(y)'
  <2>1. Unowned(y)
    BY <1>1, <1>12 DEF Unowned, Lives, Fits
  <2> QED BY <1>1, <1>22, <2>1, KeptUnowned
<1>25. Housed'
  BY <1>1, <1>5, <1>6, <1>11, <1>19 DEF Sound, Housed
<1>26. Control'
  <2>1. CASE Found(Address(b))
    <3>1. blk' = y /\ pc' = "return" /\ call' = call
      BY <1>7, <2>1 DEF Found
    <3>2. y \in SmallOf(hdr')
      BY <1>19
    <3> QED BY <1>3, <1>4, <1>5, <1>18, <1>19, <1>21, <1>24, <3>1, <3>2, FoundSmall
  <2>2. CASE pc' = "wild"
    BY <1>5, <2>2 DEF Control, InMalloc
  <2> QED BY <1>2, <2>1, <2>2
<1>27. Accounted'
  <2>0. IsFiniteSet(held')
    BY <1>1, <1>5, FS_AddElement DEF Accounted
  <2>1. CASE Found(Address(b))
    <3>1. InHand(y)'
      BY <1>7, <2>1, NoneAssumption DEF Found, InHand
    <3>2. \A x : ~InHand(x)
      BY <1>3 DEF InHand
    <3>3. ~InUse(r)' /\ ~InUse(e)'
      <4>1. e \notin SmallOf(hdr')
        <5>1. e \notin SmallOf(hdr)
          BY <1>12 DEF SmallOf, PlainOf
        <5> QED BY <1>11, <1>19, <5>1
      <4>2. r \in PlainOf(hdr') /\ e \in PlainOf(hdr')
        BY <1>19
      <4> QED BY <1>19, <4>1, <4>2 DEF InUse, PlainOf
    <3>4. \A x \in DOMAIN hdr' : x \notin DOMAIN hdr => x \in {y, r, e}
      BY <1>20
    <3>5. Handed({})
      BY <3>1, <3>2, <3>3, <3>4 DEF Handed
    <3>6. \A c \in held : c # b
      <4>1. \A c \in held : Pages(c) \cap free = {}
        BY <1>1, StoreType DEF Sound
      <4>2. Pages(b) = {q}
        BY <1>6, PageBlock
      <4> QED BY <1>6, <4>1, <4>2
    <3>7. Refilled({})
      <4>1. \A x \in {y, r, e} : ~IsBig(hdr', x) /\ <<0, PageAt(x)>> = b
        BY <1>6, <1>19 DEF PlainOf
      <4> QED BY <3>4, <3>6, <4>1 DEF Refilled
    <3>8. Filled(b)'
      BY <1>6, <1>19 DEF Filled
    <3>9. held' \ held \subseteq {b} /\ held \ held' = {} /\ Running
      BY <1>3, <1>5 DEF Running
    <3> QED BY <1>1, <1>22, <2>0, <3>5, <3>7, <3>8, <3>9, KeptAccounted
  <2>2. CASE pc' = "wild"
    BY <2>0, <2>2 DEF Accounted, Running
  <2> QED BY <1>2, <2>1, <2>2
<1> QED
  BY <1>5, <1>18, <1>23, <1>25, <1>26, <1>27 DEF BInv, Sound

-----------------------------------------------------------------------------
(* Steps of allocator_free                                                 *)

\* What holds of the block that is freed
LEMMA FrameFacts ==
  ASSUME BInv, pc = "frame"
  PROVE  /\ Sound /\ Lives /\ Accounted /\ Running /\ req = None /\ call = Idle
         /\ \A x : InHand(x) => x = blk
         /\ blk \in DOMAIN hdr /\ ~IsAlias(hdr, blk) /\ Unowned(blk) /\ Owner(blk) = blk
         /\ ~IsBig(hdr, blk) => blk \in SmallOf(hdr) /\ blk \in PlainOf(hdr) /\ IsUsed(hdr, blk)
<1>1. Freeing /\ req = None /\ call = Idle /\ ~IsAlias(hdr, blk)
  BY DEF BInv, Control
<1>2. Owner(blk) = blk
  BY <1>1 DEF Owner
<1>3. Running /\ \A x : InHand(x) => x = blk
  BY <1>2 DEF Running, InHand
<1> QED
  BY <1>1, <1>2, <1>3 DEF BInv, Freeing, PlainOf

LEMMA FreedInv ==
  ASSUME Sound', Lives', Accounted', Freed, call = Idle, req' = None
  PROVE  BInv'
  BY DEF BInv, Control, Freed, InMalloc

LEMMA FreeBlockInv == ASSUME BInv, FreeBlock PROVE BInv'
<1>1. pc = "frame" /\ ~IsBig(hdr, blk) /\ ~LastOfPage /\ ~PrevFree /\ IsUsed(hdr, next)
  BY DEF FreeBlock, Frame
<1>2. /\ Sound /\ Lives /\ Accounted /\ Running /\ (\A x : InHand(x) => x = blk) /\ req = None /\ call = Idle /\ Unowned(blk) /\ blk \in DOMAIN hdr
      /\ blk \in SmallOf(hdr) /\ blk \in PlainOf(hdr) /\ IsUsed(hdr, blk)
  BY <1>1, FrameFacts
<1>3. /\ free' = free /\ held' = held /\ req' = req /\ live' = live /\ Freed
      /\ hdr' = SetFree(hdr, blk) /\ blocks' = Listed(blocks, ClassOf(hdr[blk].size), blk)
  BY Zenon DEF FreeBlock, MarkFree, Freed, pages, SetFree, Listed
<1>4. /\ Heap(hdr', blocks') /\ DOMAIN hdr' = DOMAIN hdr /\ PlainOf(hdr') = PlainOf(hdr)
      /\ Same(hdr', hdr, DOMAIN hdr \ {blk}) /\ ~IsUsed(hdr', blk)
  <2>1. Heap(hdr, blocks)
    BY <1>2 DEF Sound
  <2>2. /\ IsUsed(hdr, NextBlock(hdr, blk))
        /\ hdr[blk].prev = NULL \/ IsUsed(hdr, hdr[blk].prev)
        /\ hdr[blk].prev # NULL \/ hdr[NextBlock(hdr, blk)].size # 1
    BY <1>1 DEF LastOfPage, PrevFree, prev, next
  <2> HIDE DEF SetFree, Listed
  <2> QED BY <1>2, <1>3, <2>1, <2>2, MarkFreeHeap
<1>5. Kept({blk})
  <2>1. SameSize(hdr', hdr, DOMAIN hdr \ {blk}) /\ SamePrev(hdr', hdr, DOMAIN hdr \ PlainOf(hdr))
    BY <1>2, <1>4 DEF Same, SameSize, SamePrev
  <2>2. \A a \in DOMAIN hdr' : a \in DOMAIN hdr \ {blk} \/ a \in PlainOf(hdr')
    BY <1>2, <1>4
  <2>3. \A a \in {blk} : Unowned(a)
    BY <1>2
  <2>4. {blk} \subseteq PlainOf(hdr) /\ DOMAIN hdr \ {blk} \subseteq DOMAIN hdr' /\ held \ held' = {}
    BY <1>2, <1>3, <1>4
  <2> QED BY <1>1, <1>2, <1>3, <1>4, <2>1, <2>2, <2>3, <2>4, KeptSmall
<1>6. Bigs' /\ Aliases' /\ Lives'
  BY <1>2, <1>5, KeptBigs, KeptAliases, KeptLives
<1>7. Store' /\ Housed'
  <2>1. Store /\ Housed
    BY <1>2 DEF Sound
  <2>2. Store'
    BY <1>3, <2>1, StoreType, AskStore
  <2> QED BY <1>3, <1>4, <2>1, <2>2 DEF Housed
<1>8. Accounted'
  <2>1. Handed({blk})
    <3>0. PICK f : f = blk
      OBVIOUS
    <3>1. f \in PlainOf(hdr') /\ ~IsUsed(hdr', f)
      BY <1>2, <1>4, <3>0
    <3>2. ~InUse(f)'
      BY <3>1 DEF InUse, PlainOf
    <3>3. \A a \in DOMAIN hdr' : a \in {blk} \/ a \notin DOMAIN hdr => a = f
      BY <1>4, <3>0
    <3> QED BY <1>2, <3>2, <3>3 DEF Handed
  <2>2. SmallOf(hdr') = SmallOf(hdr)
    BY <1>4 DEF SmallOf
  <2> QED BY <1>2, <1>3, <1>4, <1>5, <2>1, <2>2, SmallAccounted
<1> QED
  BY <1>2, <1>3, <1>4, <1>6, <1>7, <1>8, FreedInv DEF Sound

\* Two blocks have become one, which is freed next.
LEMMA MergedInv ==
  ASSUME BInv, pc = "frame", NEW f \in PlainOf(hdr), Unowned(f), NEW s \in PlainOf(hdr), Unowned(s),
         f \in SmallOf(hdr), s = NextBlock(hdr, f), blk \in {f, s},
         Heap(hdr, blocks)', DOMAIN hdr' = DOMAIN hdr \ {s}, f # s,
         SameSize(hdr', hdr, DOMAIN hdr \ {f, s}), SamePrev(hdr', hdr, DOMAIN hdr \ PlainOf(hdr)),
         PlainOf(hdr') = PlainOf(hdr) \ {s}, f \in SmallOf(hdr'), IsUsed(hdr', f),
         UNCHANGED <<pages, live, call>>, blk' = f, pc' = "free"
  PROVE  BInv'
<1>1. Sound /\ Lives /\ Accounted /\ Running /\ (\A x : InHand(x) => x = blk) /\ req = None /\ call = Idle /\ ~IsAlias(hdr, blk)
  BY FrameFacts
<1>2. free' = free /\ held' = held /\ req' = req /\ live' = live /\ call' = call
  BY DEF pages
<1>3. Kept({f, s})
  <2>1. \A a \in DOMAIN hdr' : a \in DOMAIN hdr \ {f, s} \/ a \in PlainOf(hdr')
    BY DEF PlainOf
  <2>2. \A a \in {f, s} : Unowned(a)
    OBVIOUS
  <2>3. {f, s} \subseteq PlainOf(hdr) /\ DOMAIN hdr \ {f, s} \subseteq DOMAIN hdr' /\ held \ held' = {}
    BY <1>2
  <2> QED BY <1>1, <1>2, <2>1, <2>2, <2>3, KeptSmall
<1>4. Bigs' /\ Aliases' /\ Lives' /\ Unowned(f)'
  BY <1>1, <1>3, KeptBigs, KeptAliases, KeptLives, KeptUnowned
<1>5. Store' /\ Housed'
  <2>1. Store /\ Housed
    BY <1>1 DEF Sound
  <2>2. Store'
    BY <1>2, <2>1, StoreType, AskStore
  <2> QED BY <1>2, <2>1, <2>2 DEF Housed
<1>6. Freeing'
  <2>1. f \in DOMAIN hdr' /\ ~IsAlias(hdr', f)
    BY DEF SmallOf, PlainOf
  <2>2. Owner(blk)' = f
    BY <2>1 DEF Owner
  <2>3. Unowned(Owner(blk))'
    BY <1>4, <2>2 DEF Unowned
  <2> QED BY <2>1, <2>3 DEF Freeing
<1>7. Control'
  BY <1>1, <1>2, <1>6 DEF Control, InMalloc
<1>8. Accounted'
  <2>1. f \in DOMAIN hdr' /\ ~IsAlias(hdr', f)
    BY DEF SmallOf, PlainOf
  <2>2. InHand(f)'
    BY <2>1 DEF InHand, Owner
  <2>3. \A a \in DOMAIN hdr' : a \in {f, s} \/ a \notin DOMAIN hdr => a = f
    OBVIOUS
  <2>4. Handed({f, s})
    BY <1>1, <2>2, <2>3 DEF Handed
  <2>5. PageAt(s) = PageAt(f)
    BY <1>1 DEF Sound, Heap, Tiling
  <2>6. {f, s} \subseteq PlainOf(hdr)
    OBVIOUS
  <2>7. \A a \in DOMAIN hdr' : a \in {f, s} \/ a \notin DOMAIN hdr => a \in PlainOf(hdr')
    BY <2>3
  <2>8. \A a \in {f, s} \cap SmallOf(hdr) : \E c \in SmallOf(hdr') : PageAt(c) = PageAt(a)
    BY <2>5
  <2>9. \A a \in SmallOf(hdr') : a \in DOMAIN hdr'
    BY DEF SmallOf, PlainOf
  <2>10. \A a \in SmallOf(hdr') : a \in {f, s} \/ a \notin DOMAIN hdr =>
           \E c \in SmallOf(hdr) : PageAt(c) = PageAt(a)
    BY <2>3, <2>9
  <2> QED BY <1>1, <1>2, <1>3, <2>4, <2>6, <2>7, <2>8, <2>10, SmallAccounted
<1> QED
  BY <1>4, <1>5, <1>7, <1>8 DEF BInv, Sound

\* The blocks around a block of a page
LEMMA Neighbours ==
  ASSUME Sound, Lives, NEW b \in SmallOf(hdr), NEW n, n = NextBlock(hdr, b), NEW p, p = hdr[b].prev
  PROVE  /\ n \in PlainOf(hdr) /\ n \in DOMAIN hdr /\ n # b /\ hdr[n].prev = b
         /\ ~IsUsed(hdr, n) => n \in SmallOf(hdr) /\ Unowned(n)
         /\ p # NULL => p \in SmallOf(hdr) /\ p \in PlainOf(hdr) /\ p # b /\ NextBlock(hdr, p) = b
         /\ p # NULL /\ ~IsUsed(hdr, p) => Unowned(p)
<1>1. Typed(hdr) /\ Tiling(hdr)
  BY DEF Sound, Heap
<1>2. /\ b \in PlainOf(hdr) /\ b \in Nat /\ n = b + 8 + Cap(hdr, b) /\ Cap(hdr, b) \in Nat
      /\ n \in PlainOf(hdr)
  BY <1>1, SmallFacts
<1>3. n # b /\ n \in DOMAIN hdr /\ hdr[n].prev = b
  <2>1. n # b
    BY <1>2
  <2>2. n \in DOMAIN hdr
    BY <1>2 DEF PlainOf
  <2> QED BY <1>1, <2>1, <2>2 DEF Tiling
<1>4. ASSUME ~IsUsed(hdr, n) PROVE n \in SmallOf(hdr) /\ Unowned(n)
  <2>1. Protector(n) => hdr[n].size = 1
    BY <1>1, <1>2 DEF Tiling
  <2>2. ~Protector(n)
    BY <1>4, <2>1 DEF IsUsed
  <2>3. n \in SmallOf(hdr)
    BY <1>2, <2>2 DEF SmallOf
  <2> QED BY <1>2, <1>4, <2>3, OwnerKind
<1>5. ASSUME p # NULL
      PROVE  p \in SmallOf(hdr) /\ p \in PlainOf(hdr) /\ p # b /\ NextBlock(hdr, p) = b
  <2>1. p \in SmallOf(hdr) /\ NextBlock(hdr, p) = b
    BY <1>1, <1>2, <1>5 DEF Tiling
  <2>2. /\ p \in PlainOf(hdr) /\ p \in Nat /\ NextBlock(hdr, p) = p + 8 + Cap(hdr, p)
        /\ Cap(hdr, p) \in Nat
    BY <1>1, <2>1, SmallFacts
  <2>3. p # b
    BY <2>1, <2>2
  <2> QED BY <2>1, <2>2, <2>3
<1>6. p # NULL /\ ~IsUsed(hdr, p) => Unowned(p)
  BY <1>5, OwnerKind
<1> QED
  BY <1>2, <1>3, <1>4, <1>5, <1>6

\* A free block s is taken from its list and merged with its neighbour.
LEMMA MergeTwo ==
  ASSUME Sound, Lives, NEW f \in SmallOf(hdr), NEW s \in SmallOf(hdr), f # s, s = NextBlock(hdr, f),
         NEW t \in {f, s}, ~IsUsed(hdr, t), \A a \in {f, s} \ {t} : IsUsed(hdr, a),
         hdr' = Merged(SetUsed(hdr, t), f), blocks' = Unlisted(t)
  PROVE  /\ Heap(hdr, blocks)' /\ DOMAIN hdr' = DOMAIN hdr \ {s}
         /\ SameSize(hdr', hdr, DOMAIN hdr \ {f, s}) /\ SamePrev(hdr', hdr, DOMAIN hdr \ PlainOf(hdr))
         /\ PlainOf(hdr') = PlainOf(hdr) \ {s} /\ f \in SmallOf(hdr') /\ IsUsed(hdr', f)
<1>1. Heap(hdr, blocks)
  BY DEF Sound
<1>2. PICK u, k : u = SetUsed(hdr, t) /\ k = Removed(blocks, t) /\ k = Unlisted(t)
  BY Zenon DEF Unlisted, Removed
<1>3. t \in SmallOf(hdr)
  OBVIOUS
<1>4. /\ Heap(u, k) /\ DOMAIN u = DOMAIN hdr /\ PlainOf(u) = PlainOf(hdr)
      /\ SmallOf(u) = SmallOf(hdr) /\ IsUsed(u, t)
      /\ Same(u, hdr, DOMAIN hdr \ {t}) /\ SamePrev(u, hdr, DOMAIN hdr)
      /\ \A a \in PlainOf(hdr) : Cap(u, a) = Cap(hdr, a) /\ NextBlock(u, a) = NextBlock(hdr, a)
  <2>1. u = SetUsed(hdr, t) /\ k = Removed(blocks, t)
    BY <1>2
  <2>2. /\ Heap(u, k) /\ DOMAIN u = DOMAIN hdr /\ PlainOf(u) = PlainOf(hdr)
        /\ SmallOf(u) = SmallOf(hdr) /\ IsUsed(u, t)
        /\ Same(u, hdr, DOMAIN hdr \ {t}) /\ SamePrev(u, hdr, DOMAIN hdr)
    BY <1>1, <1>3, <2>1, TakeHeap
  <2>3. ASSUME NEW a \in PlainOf(hdr)
        PROVE  Cap(u, a) = Cap(hdr, a) /\ NextBlock(u, a) = NextBlock(hdr, a)
    BY <1>1, <1>3, <2>1, <2>2, TakeHeap
  <2> QED BY <2>2, <2>3
<1>5. f \in PlainOf(hdr) /\ s \in PlainOf(hdr) /\ f \in DOMAIN hdr /\ s \in DOMAIN hdr
  BY DEF SmallOf, PlainOf
<1>6. IsUsed(u, f) /\ IsUsed(u, s)
  BY <1>4, <1>5 DEF Same, IsUsed
<1>7. hdr' = Merged(u, f) /\ blocks' = k /\ s = NextBlock(u, f)
  BY <1>2, <1>4, <1>5
<1>8. /\ Heap(hdr', k) /\ DOMAIN hdr' = DOMAIN u \ {s} /\ PlainOf(hdr') = PlainOf(u) \ {s}
      /\ SmallOf(hdr') = SmallOf(u) \ {s} /\ IsUsed(hdr', f)
      /\ SameSize(hdr', u, DOMAIN u \ {f, s})
      /\ SamePrev(hdr', u, DOMAIN u \ {s, NextBlock(u, s)})
  BY <1>4, <1>6, <1>7, MergeHeap
<1>9. NextBlock(u, s) \in PlainOf(hdr)
  BY <1>4 DEF Heap, Tiling
<1>10. SameSize(hdr', hdr, DOMAIN hdr \ {f, s})
  BY <1>4, <1>8 DEF SameSize, Same
<1>11. SamePrev(hdr', hdr, DOMAIN hdr \ PlainOf(hdr))
  BY <1>4, <1>5, <1>8, <1>9 DEF SamePrev
<1> QED
  BY <1>4, <1>7, <1>8, <1>10, <1>11

LEMMA MergePrevInv == ASSUME BInv, MergePrev PROVE BInv'
<1>1. /\ pc = "frame" /\ ~IsBig(hdr, blk) /\ PrevFree
      /\ UNCHANGED <<pages, live, call>> /\ pc' = "free"
  BY DEF MergePrev, Frame
<1>2. /\ Sound /\ Lives /\ Unowned(blk) /\ blk \in SmallOf(hdr) /\ blk \in PlainOf(hdr) /\ IsUsed(hdr, blk)
  BY <1>1, FrameFacts
<1>3. PICK p : p = hdr[blk].prev /\ p = prev
  BY DEF prev
<1>4. p # NULL /\ ~IsUsed(hdr, p)
  BY <1>1, <1>3 DEF PrevFree
<1>5. /\ p \in SmallOf(hdr) /\ p \in PlainOf(hdr) /\ p # blk /\ NextBlock(hdr, p) = blk /\ Unowned(p)
  BY <1>2, <1>3, <1>4, Neighbours
<1>6. hdr' = Merged(SetUsed(hdr, p), p) /\ blocks' = Unlisted(p) /\ blk' = p
  BY <1>3 DEF MergePrev
<1>7. /\ Heap(hdr, blocks)' /\ DOMAIN hdr' = DOMAIN hdr \ {blk}
      /\ SameSize(hdr', hdr, DOMAIN hdr \ {p, blk}) /\ SamePrev(hdr', hdr, DOMAIN hdr \ PlainOf(hdr))
      /\ PlainOf(hdr') = PlainOf(hdr) \ {blk} /\ p \in SmallOf(hdr') /\ IsUsed(hdr', p)
  <2>1. p \in {p, blk} /\ (\A a \in {p, blk} \ {p} : IsUsed(hdr, a)) /\ blk = NextBlock(hdr, p)
    BY <1>2, <1>5
  <2> QED BY <1>2, <1>4, <1>5, <1>6, <2>1, MergeTwo
<1> QED
  BY <1>1, <1>2, <1>5, <1>6, <1>7, MergedInv

LEMMA MergeNextInv == ASSUME BInv, MergeNext PROVE BInv'
<1>1. /\ pc = "frame" /\ ~IsBig(hdr, blk) /\ ~IsUsed(hdr, next)
      /\ UNCHANGED <<pages, live, call>> /\ pc' = "free" /\ blk' = blk
  BY DEF MergeNext, Frame
<1>2. /\ Sound /\ Lives /\ Unowned(blk) /\ blk \in SmallOf(hdr) /\ blk \in PlainOf(hdr) /\ IsUsed(hdr, blk)
  BY <1>1, FrameFacts
<1>3. PICK n : n = NextBlock(hdr, blk) /\ n = next
  BY DEF next
<1>4. /\ n \in PlainOf(hdr) /\ n # blk /\ ~IsUsed(hdr, n) /\ n \in SmallOf(hdr) /\ Unowned(n)
  BY <1>1, <1>2, <1>3, Neighbours
<1>5. hdr' = Merged(SetUsed(hdr, n), blk) /\ blocks' = Unlisted(n)
  BY <1>3 DEF MergeNext
<1>6. /\ Heap(hdr, blocks)' /\ DOMAIN hdr' = DOMAIN hdr \ {n}
      /\ SameSize(hdr', hdr, DOMAIN hdr \ {blk, n}) /\ SamePrev(hdr', hdr, DOMAIN hdr \ PlainOf(hdr))
      /\ PlainOf(hdr') = PlainOf(hdr) \ {n} /\ blk \in SmallOf(hdr') /\ IsUsed(hdr', blk)
  <2>1. n \in {blk, n} /\ (\A a \in {blk, n} \ {n} : IsUsed(hdr, a))
    BY <1>2
  <2> QED BY <1>2, <1>3, <1>4, <1>5, <2>1, MergeTwo
<1> QED
  BY <1>1, <1>2, <1>3, <1>4, <1>6, MergedInv

LEMMA FreePageInv == ASSUME BInv, FreePage PROVE BInv'
<1>1. /\ pc = "frame" /\ ~IsBig(hdr, blk) /\ prev = NULL /\ hdr[next].size = 1
      /\ Pm!Release(PageOf(blk)) /\ hdr' = Drop(hdr, {blk, next}) /\ Freed /\ blocks' = blocks
  BY DEF FreePage, Frame, LastOfPage
<1>2. /\ Sound /\ Lives /\ Accounted /\ Running /\ (\A x : InHand(x) => x = blk) /\ req = None /\ call = Idle
      /\ Unowned(blk) /\ blk \in SmallOf(hdr) /\ blk \in PlainOf(hdr) /\ IsUsed(hdr, blk)
  BY <1>1, FrameFacts
<1>3. PICK t : t = NextBlock(hdr, blk) /\ t = next
  BY DEF next
<1>4. /\ Heap(hdr, blocks) /\ Typed(hdr) /\ Tiling(hdr) /\ hdr[blk].prev = NULL /\ hdr[t].size = 1
      /\ hdr' = Drop(hdr, {blk, t}) /\ live' = live
  BY <1>1, <1>2, <1>3 DEF Sound, Heap, prev, Freed
<1>5. t \in PlainOf(hdr) /\ t # blk
  BY <1>2, <1>3, Neighbours
<1>6. Unowned(t)
  <2>1. ASSUME t \in SmallOf(hdr) PROVE FALSE
    <3>1. Cap(hdr, t) >= 8 /\ hdr[t].size \in Nat /\ Cap(hdr, t) = hdr[t].size - (hdr[t].size % 4)
      BY <1>4, <2>1, SmallFacts DEF Cap
    <3> QED BY <1>4, <3>1
  <2> QED BY <1>2, <1>5, <2>1, OwnerKind
<1>7. /\ Heap(hdr', blocks) /\ PlainOf(hdr') = PlainOf(hdr) \ {blk, t}
      /\ DOMAIN hdr' = DOMAIN hdr \ {blk, t} /\ Same(hdr', hdr, DOMAIN hdr')
      /\ \A a \in PlainOf(hdr) \ {blk, t} : PageAt(a) # PageAt(blk)
  <2>1. Heap(hdr', blocks) /\ Dropped(hdr', hdr, blk, t)
    BY <1>2, <1>3, <1>4, DropHeap
  <2> QED BY <2>1 DEF Dropped
<1>8. PICK c \in held : c = <<0, PageAt(blk)>> /\ c = PageOf(blk)
  BY <1>2 DEF Sound, Housed, PageOf, PageAt
<1>9. Store' /\ held' = held \ {c} /\ req' = req
  BY <1>1, <1>2, <1>8, ReleaseStore DEF Sound
<1>10. Kept({blk, t})
  <2>1. /\ SameSize(hdr', hdr, DOMAIN hdr \ {blk, t})
        /\ SamePrev(hdr', hdr, DOMAIN hdr \ PlainOf(hdr))
    BY <1>2, <1>5, <1>7 DEF Same, SameSize, SamePrev
  <2>2. \A a \in DOMAIN hdr' : a \in DOMAIN hdr \ {blk, t} \/ a \in PlainOf(hdr')
    BY <1>7
  <2>3. \A a \in {blk, t} : Unowned(a)
    BY <1>2, <1>6
  <2>4. {blk, t} \subseteq PlainOf(hdr) /\ DOMAIN hdr \ {blk, t} \subseteq DOMAIN hdr'
    BY <1>2, <1>5, <1>7
  <2>5. \A b \in held \ held' : b[1] = 0
    BY <1>8, <1>9
  <2>6. Heap(hdr, blocks)'
    BY <1>1, <1>7
  <2> QED BY <1>1, <1>2, <1>4, <2>1, <2>2, <2>3, <2>4, <2>5, <2>6, KeptSmall
<1>11. Bigs' /\ Aliases' /\ Lives'
  BY <1>2, <1>10, KeptBigs, KeptAliases, KeptLives
<1>12. Housed'
  <2>1. ASSUME NEW a \in PlainOf(hdr') PROVE <<0, PageAt(a)>> \in held'
    <3>1. a \in PlainOf(hdr) /\ PageAt(a) # PageAt(blk)
      BY <1>7
    <3>2. <<0, PageAt(a)>> \in held
      BY <1>2, <3>1 DEF Sound, Housed
    <3> QED BY <1>8, <1>9, <3>1, <3>2
  <2> QED BY <2>1 DEF Housed
<1>13. Accounted'
  <2>1. Handed({blk, t})
    BY <1>2, <1>7 DEF Handed
  <2>2. PageAt(t) = PageAt(blk)
    BY <1>2, <1>3, <1>4 DEF Tiling
  <2>3. \A a \in {blk, t} : ~IsBig(hdr, a) /\ <<0, PageAt(a)>> \notin held'
    BY <1>2, <1>5, <1>8, <1>9, <2>2 DEF PlainOf
  <2>4. \A a \in DOMAIN hdr' : a \in DOMAIN hdr /\ a \notin {blk, t}
    BY <1>7
  <2>5. Refilled({blk, t})
    BY <2>3, <2>4 DEF Refilled
  <2>6. IsFiniteSet(held')
    BY <1>2, <1>9, FS_RemoveElement DEF Accounted
  <2>7. Filled(c)
    BY <1>2, <1>8 DEF Filled
  <2>8. held' \ held = {} /\ held \ held' \subseteq {c}
    BY <1>9
  <2> QED BY <1>2, <1>10, <2>1, <2>5, <2>6, <2>7, <2>8, KeptAccounted
<1> QED
  BY <1>1, <1>2, <1>7, <1>9, <1>11, <1>12, <1>13, FreedInv DEF Sound

\* A block of pages is held for one big block.
LEMMA OneRun ==
  ASSUME Store, NEW a, NEW b \in held, NEW c \in held, Address(b) = a, Address(c) = a
  PROVE  b = c
<1>1. b \in Block /\ c \in Block
  BY StoreType
<1>2. PageAt(a) \in Pages(b) /\ PageAt(a) \in Pages(c)
  BY <1>1, RunType
<1> QED
  BY <1>2, StoreType

\* The header of a big block or an alias is forgotten.
Forgets(g, h, a) ==
  DOMAIN g = DOMAIN h \ {a} /\ PlainOf(g) = PlainOf(h) /\ Same(g, h, DOMAIN g)

LEMMA ForgetHeap ==
  ASSUME NEW h, NEW l, Heap(h, l), NEW a, a \notin PlainOf(h), NEW g, g = Drop(h, {a})
  PROVE  Heap(g, l) /\ Forgets(g, h, a)
<1>1. g = [x \in DOMAIN h \ {a} |-> h[x]]
  BY DEF Drop
<1>2. DOMAIN g = DOMAIN h \ {a} /\ \A x \in DOMAIN g : g[x] = h[x]
  BY <1>1
<1>3. PlainOf(g) = PlainOf(h)
  BY <1>2 DEF PlainOf, IsBig, IsAlias
<1>4. Same(g, h, PlainOf(h)) /\ Same(g, h, DOMAIN g)
  BY <1>2 DEF PlainOf, Same
<1>5. Typed(g)
  <2>1. /\ h \in [DOMAIN h -> [prev : Nat \cup {Junk}, size : 0..(WORD - 1)]]
        /\ \A x \in DOMAIN h :
             /\ x \in Nat /\ x % 8 = 0
             /\ h[x].size = 4 \/ h[x].size % 8 \in {0, 1, 3}
    BY DEF Heap, Typed
  <2>2. \A x \in DOMAIN g : h[x] \in [prev : Nat \cup {Junk}, size : 0..(WORD - 1)]
    BY <1>2, <2>1
  <2>3. g \in [DOMAIN g -> [prev : Nat \cup {Junk}, size : 0..(WORD - 1)]]
    BY <1>1, <1>2, <2>2
  <2>4. \A x \in DOMAIN g : /\ x \in Nat /\ x % 8 = 0
                            /\ g[x].size = 4 \/ g[x].size % 8 \in {0, 1, 3}
    BY <1>2, <2>1
  <2> QED BY <2>3, <2>4 DEF Typed
<1>6. Heap(g, l)
  BY <1>3, <1>4, <1>5, SameHeap
<1> QED
  BY <1>2, <1>3, <1>4, <1>6 DEF Forgets

LEMMA FreeBigInv == ASSUME BInv, FreeBig PROVE BInv'
<1>1. /\ pc = "frame" /\ IsBig(hdr, blk) /\ hdr' = Drop(hdr, {blk}) /\ Freed /\ blocks' = blocks
  BY DEF FreeBig
<1>2. PICK b \in BigBlocks : Pm!Release(b)
  BY DEF FreeBig
<1>3. b \in held /\ Address(b) = blk
  BY DEF BigBlocks
<1>4. /\ Sound /\ Lives /\ Accounted /\ Running /\ (\A x : InHand(x) => x = blk) /\ req = None /\ call = Idle
      /\ blk \in DOMAIN hdr /\ ~IsAlias(hdr, blk) /\ Unowned(blk) /\ Owner(blk) = blk
  BY <1>1, FrameFacts
<1>5. /\ Store /\ Housed /\ Bigs /\ Typed(hdr) /\ Heap(hdr, blocks) /\ b \in Block
  BY <1>3, <1>4, StoreType DEF Sound, Heap
<1>6. blk # NULL
  <2>1. PageAt(blk) \in Known /\ Known \subseteq Nat \ {0}
    BY <1>3, <1>5, RunType, StoreType
  <2>2. PageAt(NULL) = 0
    <3>1. PAGE_SIZE \in Nat \ {0} /\ NULL = 0 /\ 0 = 0 * PAGE_SIZE
      BY Sized
    <3> QED BY <3>1, DivUnique DEF PageAt
  <2> QED BY <2>1, <2>2
<1>7. b[1] # 0 /\ Run(blk, b)
  <2>1. PICK c \in held : Run(blk, c)
    BY <1>1, <1>4, <1>5, <1>6 DEF Bigs
  <2>2. c[1] # 0 /\ Address(c) = blk
    BY <2>1 DEF Run
  <2>3. b = c
    BY <1>3, <1>5, <2>2, OneRun
  <2> QED BY <2>1, <2>2, <2>3
<1>8. Store' /\ held' = held \ {b} /\ req' = req
  BY <1>2, <1>3, <1>5, ReleaseStore
<1>9. Heap(hdr', blocks) /\ Forgets(hdr', hdr, blk)
  <2>1. blk \notin PlainOf(hdr)
    BY <1>1 DEF PlainOf
  <2> QED BY <1>1, <1>5, <2>1, ForgetHeap
<1>10. /\ DOMAIN hdr' = DOMAIN hdr \ {blk} /\ PlainOf(hdr') = PlainOf(hdr)
       /\ \A a \in DOMAIN hdr' : hdr'[a] = hdr[a]
  BY <1>9 DEF Forgets, Same
<1>11. Kept({blk})
  <2>1. \A a \in DOMAIN hdr \ {blk} : a \in DOMAIN hdr' /\ hdr'[a] = hdr[a]
    BY <1>10
  <2>2. \A a \in DOMAIN hdr' : a \in DOMAIN hdr /\ a \notin {blk}
    BY <1>10
  <2>3. \A c \in held \ held' : c[1] = 0 \/ Address(c) \in {blk}
    BY <1>3, <1>8
  <2>4. live' = live
    BY <1>1 DEF Freed
  <2>5. NULL \in DOMAIN hdr => NULL \in DOMAIN hdr'
    BY <1>6, <1>10
  <2>6. NULL \in DOMAIN hdr' => IsBig(hdr', NULL)
    BY <1>5, <1>10 DEF Bigs, IsBig
  <2>7. Owner(blk) # NULL /\ Unowned(Owner(blk))
    BY <1>4, <1>6
  <2> QED BY <1>4, <2>1, <2>2, <2>3, <2>4, <2>5, <2>6, <2>7 DEF Kept
<1>12. Bigs' /\ Aliases' /\ Lives'
  BY <1>4, <1>11, KeptBigs, KeptAliases, KeptLives
<1>13. Housed'
  <2>1. ASSUME NEW a \in PlainOf(hdr') PROVE <<0, PageAt(a)>> \in held'
    <3>1. <<0, PageAt(a)>> \in held
      BY <1>5, <1>10 DEF Housed
    <3> QED BY <1>7, <1>8, <3>1
  <2> QED BY <2>1 DEF Housed
<1>14. Accounted'
  <2>1. Handed({blk})
    BY <1>4, <1>10 DEF Handed
  <2>2. ASSUME NEW c \in held \cap held' PROVE ~Run(blk, c)
    <3>1. c # b
      BY <1>8
    <3>2. Address(c) # blk
      BY <1>3, <1>5, <3>1, OneRun
    <3> QED BY <3>2 DEF Run
  <2>3. blk \notin SmallOf(hdr)
    BY <1>1 DEF SmallOf, PlainOf
  <2>4. \A a \in DOMAIN hdr' : a \in DOMAIN hdr /\ a \notin {blk}
    BY <1>10
  <2>5. Refilled({blk})
    BY <2>2, <2>3, <2>4 DEF Refilled
  <2>6. IsFiniteSet(held')
    BY <1>4, <1>8, FS_RemoveElement DEF Accounted
  <2>7. Filled(b)
    BY <1>1, <1>4, <1>6, <1>7 DEF Filled
  <2>8. held' \ held = {} /\ held \ held' \subseteq {b}
    BY <1>8
  <2> QED BY <1>4, <1>11, <2>1, <2>5, <2>6, <2>7, <2>8, KeptAccounted
<1> QED
  BY <1>1, <1>4, <1>8, <1>9, <1>12, <1>13, <1>14, FreedInv DEF Sound

LEMMA EnterAliasInv == ASSUME BInv, EnterAlias PROVE BInv'
<1>1. PICK r : r = hdr[blk].prev
  OBVIOUS
<1>2. /\ pc = "free" /\ IsAlias(hdr, blk) /\ blk' = r
      /\ hdr' = IF r \in {blk, NULL} THEN hdr ELSE Drop(hdr, {blk})
      /\ pc' = IF r \in DOMAIN hdr THEN "frame" ELSE "wild"
      /\ free' = free /\ held' = held /\ req' = req /\ blocks' = blocks /\ live' = live /\ call' = call
  BY <1>1 DEF EnterAlias, pages
<1>3. /\ Sound /\ Lives /\ Accounted /\ req = None /\ call = Idle /\ blk \in DOMAIN hdr /\ Unowned(Owner(blk))
  BY <1>2 DEF BInv, Control, Freeing
<1>4. Owner(blk) = r
  BY <1>1, <1>2 DEF Owner
<1>5. /\ Typed(hdr) /\ Heap(hdr, blocks) /\ Store /\ Housed /\ Bigs /\ Aliases
  BY <1>3 DEF Sound, Heap
<1>6. r \in DOMAIN hdr /\ IsBig(hdr, r) /\ ~IsAlias(hdr, r) /\ r # blk
  <2>1. r \in DOMAIN hdr /\ IsBig(hdr, r)
    BY <1>1, <1>2, <1>3, <1>5 DEF Aliases
  <2> QED BY <1>2, <1>5, <2>1, Kind
<1>7. pc' = "frame"
  BY <1>2, <1>6
<1>8. CASE r = NULL
  <2>1. hdr' = hdr
    BY <1>2, <1>8
  <2>2. req' \in Level \cup {None}
    BY <1>2, <1>3
  <2>3. Sound' /\ Lives'
    BY <1>1, <1>2, <1>3, <1>8, <2>1, <2>2, StillSound DEF Still
  <2>4. Freeing'
    <3>1. r \in DOMAIN hdr' /\ ~IsAlias(hdr', r) /\ IsBig(hdr', r)
      BY <1>6, <2>1
    <3>2. Owner(blk)' = NULL
      BY <1>2, <1>8, <3>1 DEF Owner
    <3>3. Unowned(Owner(blk))'
      BY <3>2 DEF Unowned
    <3> QED BY <1>2, <3>1, <3>3 DEF Freeing, PlainOf
  <2>5. Control'
    BY <1>2, <1>3, <1>6, <1>7, <2>1, <2>4 DEF Control, InMalloc
  <2>6. Accounted'
    <3>1. Owner(blk)' = r
      BY <1>2, <1>6, <2>1 DEF Owner
    <3>2. Running /\ \A x : InHand(x) => InHand(x)'
      BY <1>2, <1>4, <1>7, <3>1 DEF Running, InHand
    <3> QED BY <1>2, <1>3, <2>1, <3>2, StillAccounted
  <2> QED BY <2>3, <2>5, <2>6 DEF BInv
<1>9. CASE r # NULL
  <2>1. hdr' = Drop(hdr, {blk}) /\ blk \notin PlainOf(hdr)
    BY <1>2, <1>6, <1>9 DEF PlainOf
  <2>2. Heap(hdr', blocks) /\ Forgets(hdr', hdr, blk)
    BY <1>5, <2>1, ForgetHeap
  <2>3. /\ DOMAIN hdr' = DOMAIN hdr \ {blk} /\ PlainOf(hdr') = PlainOf(hdr)
        /\ \A a \in DOMAIN hdr' : hdr'[a] = hdr[a]
    BY <2>2 DEF Forgets, Same
  <2>4. blk # NULL
    BY <1>2, <1>3, <1>5, Kind DEF Bigs
  <2>5. Kept({blk})
    <3>1. \A a \in DOMAIN hdr \ {blk} : a \in DOMAIN hdr' /\ hdr'[a] = hdr[a]
      BY <2>3
    <3>2. \A a \in DOMAIN hdr' : a \in DOMAIN hdr /\ a \notin {blk}
      BY <2>3
    <3>3. held \ held' = {}
      BY <1>2
    <3>4. NULL \in DOMAIN hdr => NULL \in DOMAIN hdr'
      BY <2>3, <2>4
    <3>5. NULL \in DOMAIN hdr' => IsBig(hdr', NULL)
      BY <1>5, <2>3 DEF Bigs, IsBig
    <3>6. Owner(blk) # NULL /\ Unowned(Owner(blk))
      BY <1>3, <1>4, <1>9
    <3> QED BY <1>2, <3>1, <3>2, <3>3, <3>4, <3>5, <3>6 DEF Kept
  <2>6. Bigs' /\ Aliases' /\ Lives' /\ Unowned(r)'
    BY <1>3, <1>4, <2>5, KeptBigs, KeptAliases, KeptLives, KeptUnowned
  <2>7. Store' /\ Housed'
    <3>1. Store'
      BY <1>2, <1>5, StoreType, AskStore
    <3> QED BY <1>2, <1>5, <2>3, <3>1 DEF Housed
  <2>8. r \in DOMAIN hdr' /\ ~IsAlias(hdr', r) /\ r \notin PlainOf(hdr')
    <3>1. r \in DOMAIN hdr' /\ ~IsAlias(hdr', r)
      BY <1>6, <2>3 DEF IsAlias
    <3>2. r \notin PlainOf(hdr')
      BY <1>6, <2>3 DEF PlainOf
    <3> QED BY <3>1, <3>2
  <2>9. Freeing'
    <3>1. Owner(blk)' = r
      BY <1>2, <2>8 DEF Owner
    <3>2. Unowned(Owner(blk))'
      BY <2>6, <3>1 DEF Unowned
    <3> QED BY <1>2, <2>8, <3>2 DEF Freeing
  <2>10. Control'
    BY <1>2, <1>3, <1>7, <2>8, <2>9 DEF Control, InMalloc
  <2>11. Accounted'
    <3>1. Owner(blk)' = r
      BY <1>2, <2>8 DEF Owner
    <3>2. Running /\ \A x : InHand(x) => x = r /\ InHand(x)'
      BY <1>2, <1>4, <1>7, <3>1 DEF Running, InHand
    <3>3. \A x \in DOMAIN hdr' : x \in DOMAIN hdr /\ x \notin {blk}
      BY <2>3
    <3>4. Handed({blk})
      BY <3>2, <3>3 DEF Handed
    <3>5. ~IsBig(hdr, blk) /\ blk \notin SmallOf(hdr)
      BY <1>2, <1>3, <1>5, Kind DEF SmallOf, PlainOf
    <3>6. Refilled({blk})
      BY <3>3, <3>5 DEF Refilled
    <3>7. IsFiniteSet(held') /\ held' \ held = {} /\ held \ held' = {}
      BY <1>2, <1>3 DEF Accounted
    <3> QED BY <1>3, <2>5, <3>2, <3>4, <3>6, <3>7, KeptAccounted
  <2> QED BY <1>2, <2>2, <2>6, <2>7, <2>10, <2>11 DEF BInv, Sound
<1> QED
  BY <1>8, <1>9

-----------------------------------------------------------------------------
(* Pointers come and go                                                    *)

Pointer(n) ==
  /\ n \in [addr : Nat, need : Nat] /\ n.addr - HEADER \in DOMAIN hdr
  /\ Fits(Owner(n.addr - HEADER), n.addr, n.need)

\* The memory stays, but for an alias a of the block o.
Grows(a, o) ==
  /\ \A x \in DOMAIN hdr : x \in DOMAIN hdr' /\ hdr'[x] = hdr[x]
  /\ \A x \in DOMAIN hdr' \ DOMAIN hdr :
       /\ x = a /\ IsAlias(hdr', a) /\ hdr'[a].prev = o /\ o \in DOMAIN hdr /\ IsBig(hdr, o)
       /\ o = NULL => a # NULL /\ PageAt(a) \notin Known
       /\ o # NULL =>
            /\ a > o
            /\ \E b \in held : Run(o, b) /\ Covers(b, a)
            /\ \E p \in live' : p.addr = a + HEADER
  /\ PlainOf(hdr') = PlainOf(hdr)
  /\ held' = held

\* Callers lose the pointers of G, one of which is freed, and get those of N.
Changes(G, N) ==
  /\ live' = (live \ G) \cup N
  /\ \A g \in G : pc' = "free" /\ blk' = g.addr - HEADER

\* The block w is that of the new pointer.
Given(N, w) ==
  /\ Unowned(w)
  /\ \A n \in N : Pointer(n)' /\ Owner(n.addr - HEADER)' = w
  /\ \A m, n \in N : m = n

SameOwners == \A p \in live : Owner(p.addr - HEADER)' = Owner(p.addr - HEADER)

LEMMA GrownSame ==
  ASSUME NEW a, NEW o, Grows(a, o), NEW x \in DOMAIN hdr
  PROVE  /\ x \in DOMAIN hdr' /\ hdr'[x] = hdr[x]
         /\ IsAlias(hdr', x) <=> IsAlias(hdr, x)
         /\ IsBig(hdr', x) <=> IsBig(hdr, x)
         /\ Owner(x)' = Owner(x)
         /\ \A b \in held : Run(x, b) => b \in held' /\ Run(x, b)'
         /\ \A d, n : Fits(x, d, n) => Fits(x, d, n)'
<1>1. x \in DOMAIN hdr' /\ hdr'[x] = hdr[x] /\ held' = held
  BY DEF Grows
<1>2. /\ IsAlias(hdr', x) <=> IsAlias(hdr, x)
      /\ IsBig(hdr', x) <=> IsBig(hdr, x)
      /\ IsUsed(hdr', x) <=> IsUsed(hdr, x)
      /\ Cap(hdr', x) = Cap(hdr, x)
  BY <1>1 DEF IsAlias, IsBig, IsUsed, Cap
<1>3. x \in SmallOf(hdr) => x \in SmallOf(hdr')
  BY <1>1, <1>2 DEF SmallOf, PlainOf
<1>4. Owner(x)' = Owner(x)
  BY <1>1, <1>2 DEF Owner
<1>5. ASSUME NEW b \in held, Run(x, b) PROVE b \in held' /\ Run(x, b)'
  BY <1>1, <1>5 DEF Run
<1>6. ASSUME NEW d, NEW n, Fits(x, d, n) PROVE Fits(x, d, n)'
  BY <1>1, <1>2, <1>3, <1>5, <1>6 DEF Fits
<1> QED
  BY <1>1, <1>2, <1>4, <1>5, <1>6

LEMMA PointersSound ==
  ASSUME Sound, Lives, Heap(hdr, blocks)', NEW a, NEW o, Grows(a, o), free' = free, req' = req,
         pc # "free", NEW G, NEW N, Changes(G, N)
  PROVE  Sound'
<1>1. Store /\ Housed /\ Bigs /\ Aliases /\ Typed(hdr) /\ held' = held /\ PlainOf(hdr') = PlainOf(hdr)
  BY DEF Sound, Heap, Grows
<1>2. Store' /\ Housed'
  <2>1. Store'
    BY <1>1, StoreType, AskStore
  <2> QED BY <1>1, <2>1 DEF Housed
<1>3. Bigs'
  <2>1. \A x \in DOMAIN hdr' \ DOMAIN hdr : x = a /\ IsAlias(hdr', a) /\ (o = NULL => a # NULL)
    BY DEF Grows
  <2>2. Typed(hdr')
    BY DEF Heap
  <2>3. ASSUME NEW x \in DOMAIN hdr', IsBig(hdr', x) PROVE x \in DOMAIN hdr
    BY <2>1, <2>2, <2>3, Kind
  <2>4. NULL \in DOMAIN hdr' => IsBig(hdr', NULL)
    <3>1. ASSUME NULL \in DOMAIN hdr', NULL \notin DOMAIN hdr PROVE FALSE
      <4>1. a = NULL /\ o # NULL /\ a > o /\ o \in DOMAIN hdr
        BY <3>1, <2>1 DEF Grows
      <4>2. o \in Nat /\ NULL = 0
        BY <1>1, <4>1, Kind, Sized
      <4> QED BY <4>1, <4>2
    <3> QED BY <1>1, <3>1, GrownSame DEF Bigs
  <2>5. ASSUME NEW x \in DOMAIN hdr', IsBig(hdr', x), x # NULL
        PROVE  \E b \in held' : Run(x, b)'
    <3>1. x \in DOMAIN hdr /\ IsBig(hdr, x)
      BY <2>3, <2>5, GrownSame
    <3>2. PICK b \in held : Run(x, b)
      BY <1>1, <2>5, <3>1 DEF Bigs
    <3> QED BY <3>1, <3>2, GrownSame
  <2> QED BY <2>4, <2>5 DEF Bigs
<1>4. ASSUME NEW x \in DOMAIN hdr', IsAlias(hdr', x)
      PROVE  /\ hdr'[x].prev \in DOMAIN hdr' /\ IsBig(hdr', hdr'[x].prev)
             /\ hdr'[x].prev = NULL => x # NULL /\ PageAt(x) \notin Known
             /\ hdr'[x].prev # NULL =>
                  /\ x > hdr'[x].prev
                  /\ \E b \in held' : Run(hdr[x].prev, b)' /\ Covers(b, x)
                  /\ (\E p \in live' : p.addr = x + HEADER) \/ (pc' = "free" /\ blk' = x)
  <2>0. PICK r : r = hdr'[x].prev
    OBVIOUS
  <2>1. /\ r \in DOMAIN hdr /\ IsBig(hdr, r)
        /\ r = NULL => x # NULL /\ PageAt(x) \notin Known
        /\ r # NULL =>
             /\ x > r
             /\ \E b \in held : Run(r, b) /\ Covers(b, x)
             /\ (\E p \in live' : p.addr = x + HEADER) \/ (pc' = "free" /\ blk' = x)
    <3>1. CASE x \in DOMAIN hdr
      <4>1. IsAlias(hdr, x) /\ r = hdr[x].prev
        BY <1>4, <2>0, <3>1, GrownSame
      <4>2. /\ r \in DOMAIN hdr /\ IsBig(hdr, r)
            /\ r = NULL => x # NULL /\ PageAt(x) \notin Known
            /\ r # NULL =>
                 /\ x > r
                 /\ \E b \in held : Run(r, b) /\ Covers(b, x)
                 /\ \E p \in live : p.addr = x + HEADER
        BY <1>1, <3>1, <4>1 DEF Aliases
      <4>3. ASSUME NEW p \in live, p.addr = x + HEADER
            PROVE  (\E q \in live' : q.addr = x + HEADER) \/ (pc' = "free" /\ blk' = x)
        <5>0. live' = (live \ G) \cup N /\ \A g \in G : pc' = "free" /\ blk' = g.addr - HEADER
          BY DEF Changes
        <5>1. CASE p \in G
          <6>1. x \in Nat /\ HEADER = 8
            BY <1>1, <3>1, Kind, Sized
          <6>2. p.addr - HEADER = x
            BY <4>3, <6>1
          <6> QED BY <5>0, <5>1, <6>2
        <5>2. CASE p \notin G
          BY <4>3, <5>0, <5>2
        <5> QED BY <5>1, <5>2
      <4> QED BY <4>2, <4>3
    <3>2. CASE x \notin DOMAIN hdr
      BY <2>0, <3>2 DEF Grows
    <3> QED BY <3>1, <3>2
  <2>2. r \in DOMAIN hdr' /\ IsBig(hdr', r)
    BY <2>1, GrownSame
  <2>3. ASSUME NEW b \in held, Run(r, b) PROVE b \in held' /\ Run(hdr[x].prev, b)'
    <3>1. b \in held' /\ Run(r, b)'
      BY <2>1, <2>3, GrownSame
    <3>2. hdr[x].prev' = r
      BY <2>0
    <3> QED BY <3>1, <3>2 DEF Run
  <2> QED BY <2>0, <2>1, <2>2, <2>3
<1>5. Aliases'
  BY <1>4 DEF Aliases
<1> QED
  BY <1>2, <1>3, <1>5 DEF Sound

LEMMA PointersLives ==
  ASSUME Sound, Lives, NEW a, NEW o, Grows(a, o), NEW G, NEW N, Changes(G, N),
         NEW w, Given(N, w)
  PROVE  Lives' /\ SameOwners
<1>0. /\ live' = (live \ G) \cup N /\ Unowned(w)
      /\ \A n \in N : Pointer(n)' /\ Owner(n.addr - HEADER)' = w
      /\ \A m, n \in N : m = n
  BY DEF Changes, Given
<1>1. ASSUME NEW p \in live
      PROVE  Pointer(p)' /\ Owner(p.addr - HEADER)' = Owner(p.addr - HEADER)
  <2>0. PICK c, u : c = p.addr - HEADER /\ u = Owner(c)
    OBVIOUS
  <2>1. p \in [addr : Nat, need : Nat] /\ c \in DOMAIN hdr /\ Fits(u, p.addr, p.need)
    BY <2>0 DEF Lives
  <2>2. u \in DOMAIN hdr
    BY <2>1 DEF Fits
  <2>3. c \in DOMAIN hdr' /\ Owner(c)' = u /\ Fits(u, p.addr, p.need)'
    BY <2>0, <2>1, <2>2, GrownSame
  <2> QED BY <2>0, <2>1, <2>3 DEF Pointer
<1>2. \A p \in live' : Pointer(p)'
  BY <1>0, <1>1
<1>3. ASSUME NEW p \in live', NEW q \in live', p # q
      PROVE  \/ Owner(p.addr - HEADER)' # Owner(q.addr - HEADER)'
             \/ Owner(p.addr - HEADER)' = NULL
  <2>1. CASE p \in live /\ q \in live
    <3>1. \/ Owner(p.addr - HEADER) # Owner(q.addr - HEADER)
          \/ Owner(p.addr - HEADER) = NULL
      BY <1>3, <2>1 DEF Lives
    <3> QED BY <1>1, <2>1, <3>1
  <2>2. CASE p \in live /\ q \in N
    <3>1. w = NULL \/ Owner(p.addr - HEADER) # w
      BY <1>0, <2>2 DEF Unowned
    <3> QED BY <1>0, <1>1, <2>2, <3>1
  <2>3. CASE p \in N /\ q \in live
    <3>1. w = NULL \/ Owner(q.addr - HEADER) # w
      BY <1>0, <2>3 DEF Unowned
    <3> QED BY <1>0, <1>1, <2>3, <3>1
  <2>4. CASE p \in N /\ q \in N
    BY <1>0, <1>3, <2>4
  <2> QED BY <1>0, <2>1, <2>2, <2>3, <2>4
<1>4. Lives'
  BY <1>2, <1>3 DEF Lives, Pointer
<1> QED
  BY <1>1, <1>4 DEF SameOwners

\* What was in hand is a caller's, and what was a caller's is in hand.
LEMMA GrownAccounted ==
  ASSUME Sound, Accounted, Running, Heap(hdr, blocks)', NEW a, NEW o, Grows(a, o),
         NEW G, NEW N, Changes(G, N), NEW w, Given(N, w), SameOwners,
         \A x : InHand(x) => x = w /\ N # {}
  PROVE  Accounted'
<1>1. /\ held' = held /\ PlainOf(hdr') = PlainOf(hdr)
      /\ \A x \in DOMAIN hdr' \ DOMAIN hdr : IsAlias(hdr', x)
  BY DEF Grows
<1>2. SmallOf(hdr') = SmallOf(hdr) /\ SmallOf(hdr) \subseteq DOMAIN hdr
  BY <1>1 DEF SmallOf, PlainOf
<1>3. ASSUME NEW x \in DOMAIN hdr', IsBig(hdr', x) PROVE x \in DOMAIN hdr
  BY <1>1, <1>3, Kind DEF Heap
<1>4. ASSUME NEW x, InUse(x)' PROVE x \in DOMAIN hdr /\ InUse(x) /\ x # NULL
  <2>1. x \in DOMAIN hdr
    BY <1>2, <1>3, <1>4 DEF InUse
  <2>2. (IsBig(hdr', x) <=> IsBig(hdr, x)) /\ (IsUsed(hdr', x) <=> IsUsed(hdr, x))
    BY <2>1 DEF Grows, IsBig, IsUsed
  <2>3. InUse(x)
    BY <1>2, <1>4, <2>1, <2>2 DEF InUse
  <2>4. x # NULL
    BY <2>3 DEF InUse, Sound, Heap, Tiling, SmallOf
  <2> QED BY <2>1, <2>3, <2>4
<1>5. NoneLost'
  <2> SUFFICES ASSUME NEW x \in DOMAIN hdr', InUse(x)' PROVE InHand(x)' \/ ~Unowned(x)'
    BY DEF NoneLost
  <2>1. x \in DOMAIN hdr /\ InUse(x) /\ x # NULL
    BY <1>4
  <2>2. live' = (live \ G) \cup N /\ \A g \in G : pc' = "free" /\ blk' = g.addr - HEADER
    BY DEF Changes
  <2>3. CASE InHand(x)
    <3>1. PICK n \in N : Owner(n.addr - HEADER)' = x
      BY <2>3 DEF Given
    <3> QED BY <2>1, <2>2, <3>1 DEF Unowned
  <2>4. CASE ~Unowned(x)
    <3>1. PICK q \in live : Owner(q.addr - HEADER) = x
      BY <2>4 DEF Unowned
    <3>2. PICK c : c = q.addr - HEADER
      OBVIOUS
    <3>3. Owner(c)' = x
      BY <3>1, <3>2 DEF SameOwners
    <3>4. CASE q \in G
      <4>1. pc' = "free" /\ blk' = c
        BY <2>2, <3>2, <3>4
      <4>2. Owner(blk)' = x
        BY <3>3, <4>1 DEF Owner
      <4> QED BY <4>1, <4>2 DEF InHand
    <3>5. CASE q \notin G
      <4>1. q \in live'
        BY <2>2, <3>5
      <4> QED BY <2>1, <3>2, <3>3, <4>1 DEF Unowned
    <3> QED BY <3>4, <3>5
  <2> QED BY <2>1, <2>3, <2>4 DEF Accounted, NoneLost
<1>6. ASSUME NEW b \in held PROVE Filled(b)' <=> Filled(b)
  <2>1. ASSUME NEW x \in DOMAIN hdr, IsBig(hdr, x), Run(x, b)
        PROVE  x \in DOMAIN hdr' /\ IsBig(hdr', x) /\ Run(x, b)'
    BY <2>1, GrownSame
  <2>2. ASSUME NEW x \in DOMAIN hdr', IsBig(hdr', x), Run(x, b)'
        PROVE  x \in DOMAIN hdr /\ IsBig(hdr, x) /\ Run(x, b)
    <3>1. x \in DOMAIN hdr
      BY <1>3, <2>2
    <3>2. IsBig(hdr, x) /\ hdr'[x] = hdr[x]
      BY <2>2, <3>1, GrownSame
    <3> QED BY <1>1, <2>2, <3>1, <3>2 DEF Run
  <2> QED BY <1>2, <2>1, <2>2 DEF Filled
<1>7. OneOwn'
  BY <1>1, <1>6 DEF OneOwn, Accounted
<1> QED
  BY <1>1, <1>5, <1>7 DEF Accounted

\* What was a caller's is freed.
LEMMA PointerFreed ==
  ASSUME Sound, Lives, hdr' = hdr, held' = held, NEW p \in live, blk' = p.addr - HEADER,
         \A q \in live' : \/ Owner(q.addr - HEADER)' # Owner(p.addr - HEADER)
                          \/ Owner(p.addr - HEADER) = NULL
  PROVE  Freeing'
<1>0. PICK c, u : c = p.addr - HEADER /\ u = Owner(c)
  OBVIOUS
<1>1. c \in DOMAIN hdr /\ Fits(u, p.addr, p.need)
  BY <1>0 DEF Lives
<1>2. Owner(c)' = u
  BY <1>0 DEF Owner
<1>3. Unowned(u)'
  BY <1>0 DEF Unowned
<1>4. Unowned(Owner(blk))'
  <2>1. Owner(blk)' = u
    BY <1>0, <1>2 DEF Owner
  <2> QED BY <1>3, <2>1 DEF Unowned
<1>5. c \in PlainOf(hdr) => c \in SmallOf(hdr) /\ IsUsed(hdr, c)
  <2>1. ASSUME c \in PlainOf(hdr) PROVE u = c /\ c # NULL /\ ~IsBig(hdr, c)
    BY <1>0, <2>1 DEF Owner, PlainOf, Sound, Heap, Tiling
  <2> QED BY <1>1, <2>1 DEF Fits
<1> QED
  BY <1>0, <1>1, <1>4, <1>5 DEF Freeing

LEMMA SameGrows ==
  ASSUME hdr' = hdr, held' = held, blocks' = blocks, Sound
  PROVE  Grows(NULL, NULL) /\ Heap(hdr, blocks)'
  BY DEF Grows, PlainOf, IsBig, IsAlias, Sound

LEMMA FreeCallInv == ASSUME BInv, NEW p \in live, FreeCall(p) PROVE BInv'
<1>1. /\ hdr' = hdr /\ blocks' = blocks /\ held' = held /\ free' = free /\ req' = req /\ call' = call
      /\ pc = "idle" /\ pc' = "free" /\ live' = live \ {p} /\ blk' = p.addr - HEADER
  BY DEF FreeCall, pages, heap
<1>2. Sound /\ Lives /\ Accounted /\ req = None /\ call = Idle
  BY <1>1 DEF BInv, Control
<1>3. Grows(NULL, NULL) /\ Heap(hdr, blocks)'
  BY <1>1, <1>2, SameGrows
<1>4. Changes({p}, {})
  BY <1>1 DEF Changes
<1>g. Given({}, NULL)
  BY DEF Given, Unowned
<1>5. Sound'
  BY <1>1, <1>2, <1>3, <1>4, PointersSound
<1>6. Lives' /\ SameOwners
  BY <1>2, <1>3, <1>4, <1>g, PointersLives
<1>7. Freeing'
  <2>1. \A q \in live' : \/ Owner(q.addr - HEADER)' # Owner(p.addr - HEADER)
                         \/ Owner(p.addr - HEADER) = NULL
    BY <1>1, <1>2, <1>6 DEF Lives, SameOwners
  <2> QED BY <1>1, <1>2, <2>1, PointerFreed
<1>8. Control'
  BY <1>1, <1>2, <1>7 DEF Control, InMalloc
<1>9. Accounted'
  <2>1. Running /\ \A x : ~InHand(x)
    BY <1>1 DEF Running, InHand
  <2> QED BY <1>2, <1>3, <1>4, <1>6, <1>g, <2>1, GrownAccounted
<1> QED
  BY <1>5, <1>6, <1>8, <1>9 DEF BInv

\* What allocator_malloc returned becomes a pointer.
LEMMA FoundPointer ==
  ASSUME BInv, pc = "return", blk # None, NEW n, n = [addr |-> blk + HEADER, need |-> call.need],
         call.need = call.size
  PROVE  Pointer(n) /\ Owner(n.addr - HEADER) = blk /\ Unowned(blk)
<1>1. Answering /\ Serving
  BY DEF BInv, Control, InMalloc
<1>2. blk \in DOMAIN hdr /\ ~IsAlias(hdr, blk) /\ Fits(blk, blk + HEADER, call.need) /\ Unowned(blk)
  BY <1>1 DEF Answering, Fits
<1>3. blk \in Nat /\ HEADER = 8 /\ call.need \in Nat
  BY <1>1, <1>2, Kind, Sized DEF BInv, Sound, Heap, Serving
<1>4. n.addr = blk + HEADER /\ n.need = call.need /\ n.addr - HEADER = blk /\ n.addr \in Nat
      /\ n \in [addr : Nat, need : Nat]
  BY <1>3
<1>5. Owner(blk) = blk
  BY <1>2 DEF Owner
<1> QED
  BY <1>2, <1>4, <1>5 DEF Pointer

LEMMA ReturnPointerInv == ASSUME BInv, ReturnPointer PROVE BInv'
<1>1. PICK n, w : n = [addr |-> blk + HEADER, need |-> call.need] /\ w = blk
  OBVIOUS
<1>2. /\ hdr' = hdr /\ blocks' = blocks /\ held' = held /\ free' = free /\ req' = req
      /\ call' = Idle /\ blk' = None /\ pc = "return" /\ pc' = "idle" /\ blk # None
      /\ call.op = "malloc" /\ Changes({}, {n})
  BY <1>1 DEF ReturnPointer, Answer, pages, heap, Changes
<1>3. Sound /\ Lives /\ Accounted /\ req = None /\ Serving
  BY <1>2 DEF BInv, Control, InMalloc
<1>4. call.need = call.size
  BY <1>2, <1>3 DEF Serving
<1>5. Pointer(n) /\ Owner(n.addr - HEADER) = w /\ Unowned(w)
  BY <1>1, <1>2, <1>4, FoundPointer
<1>6. Grows(NULL, NULL) /\ Heap(hdr, blocks)'
  BY <1>2, <1>3, SameGrows
<1>7. Sound'
  BY <1>2, <1>3, <1>6, PointersSound
<1>8. Given({n}, w) /\ Owner(n.addr - HEADER)' = w
  <2>1. Pointer(n)'
    BY <1>2, <1>5 DEF Pointer, Owner, IsAlias, Fits, IsBig, Run, SmallOf, PlainOf, IsUsed, Cap
  <2>2. Owner(n.addr - HEADER)' = w
    BY <1>2, <1>5 DEF Owner, IsAlias
  <2> QED BY <1>5, <2>1, <2>2 DEF Given
<1>9. Lives' /\ SameOwners
  BY <1>2, <1>3, <1>6, <1>8, PointersLives
<1>10. Control'
  BY <1>2, <1>3 DEF Control, InMalloc
<1>11. Accounted'
  <2>1. Running /\ \A x : InHand(x) => x = w
    BY <1>1, <1>2 DEF Running, InHand
  <2>2. {n} # {}
    OBVIOUS
  <2> QED BY <1>2, <1>3, <1>6, <1>8, <1>9, <2>1, <2>2, GrownAccounted
<1> QED
  BY <1>7, <1>9, <1>10, <1>11 DEF BInv

LEMMA ReturnReallocInv == ASSUME BInv, ReturnRealloc PROVE BInv'
<1>1. PICK n, w, G : /\ n = [addr |-> blk + HEADER, need |-> call.need] /\ w = blk
                     /\ G = {q \in live : q.addr = call.old}
  OBVIOUS
<1>2. /\ hdr' = hdr /\ blocks' = blocks /\ held' = held /\ free' = free /\ req' = req
      /\ call' = Idle /\ blk' = call.old - HEADER /\ pc = "return" /\ pc' = "free" /\ blk # None
      /\ call.op = "realloc" /\ live' = (live \ G) \cup {n}
  BY <1>1 DEF ReturnRealloc, pages, heap
<1>c. Changes(G, {n})
  BY <1>1, <1>2 DEF Changes
<1>3. Sound /\ Lives /\ Accounted /\ req = None /\ Serving
  BY <1>2 DEF BInv, Control, InMalloc
<1>4. call.need = call.size
  BY <1>2, <1>3 DEF Serving
<1>5. Pointer(n) /\ Owner(n.addr - HEADER) = w /\ Unowned(w)
  BY <1>1, <1>2, <1>4, FoundPointer
<1>6. Grows(NULL, NULL) /\ Heap(hdr, blocks)'
  BY <1>2, <1>3, SameGrows
<1>7. Sound'
  BY <1>2, <1>3, <1>6, <1>c, PointersSound
<1>8. Given({n}, w) /\ Owner(n.addr - HEADER)' = w
  <2>1. Pointer(n)'
    BY <1>2, <1>5 DEF Pointer, Owner, IsAlias, Fits, IsBig, Run, SmallOf, PlainOf, IsUsed, Cap
  <2>2. Owner(n.addr - HEADER)' = w
    BY <1>2, <1>5 DEF Owner, IsAlias
  <2> QED BY <1>5, <2>1, <2>2 DEF Given
<1>9. Lives' /\ SameOwners
  BY <1>3, <1>6, <1>8, <1>c, PointersLives
<1>10. PICK p \in live : p.addr = call.old
  BY <1>2, <1>3 DEF Serving
<1>11. Freeing'
  <2>1. ASSUME NEW q \in live'
        PROVE  \/ Owner(q.addr - HEADER)' # Owner(p.addr - HEADER)
               \/ Owner(p.addr - HEADER) = NULL
    <3>1. CASE q \in live /\ q \notin G
      <4>1. q # p
        BY <1>1, <1>10, <3>1
      <4> QED BY <1>3, <1>9, <3>1, <4>1 DEF Lives, SameOwners
    <3>2. CASE q = n
      <4>1. w = NULL \/ Owner(p.addr - HEADER) # w
        BY <1>5 DEF Unowned
      <4> QED BY <1>8, <3>2, <4>1
    <3> QED BY <1>2, <3>1, <3>2
  <2> QED BY <1>2, <1>3, <1>10, <2>1, PointerFreed
<1>12. Control'
  BY <1>2, <1>3, <1>11 DEF Control, InMalloc
<1>13. Accounted'
  <2>1. Running /\ \A x : InHand(x) => x = w
    BY <1>1, <1>2 DEF Running, InHand
  <2>2. {n} # {}
    OBVIOUS
  <2> QED BY <1>3, <1>6, <1>8, <1>9, <1>c, <2>1, <2>2, GrownAccounted
<1> QED
  BY <1>7, <1>9, <1>12, <1>13 DEF BInv

\* Where aligned_alloc puts the pointer: o is the block, g the alignment.
LEMMA AlignedPlace ==
  ASSUME NEW i \in Nat, NEW k \in Nat \ {0}, NEW o \in Nat, o = i * PAGE_SIZE,
         NEW g \in Nat, g = k * PAGE_SIZE, NEW x, x = AlignTo(o + HEADER, g)
  PROVE  /\ x \in Nat /\ x % 8 = 0 /\ o + PAGE_SIZE <= x /\ x <= o + g
         /\ o = 0 => x = g
<1>1. PICK p \in Nat : p = PAGE_SIZE /\ p % 8 = 0 /\ p >= 32
  BY Constants
<1>2. g \in Nat \ {0} /\ g >= p
  <2>1. k * p >= p
    BY <1>1, MulGrows
  <2> QED BY <1>1, <2>1
<1>3. PICK m \in Nat : m = o + 7 + g
  OBVIOUS
<1>4. PICK y \in Nat, r \in 0..(g - 1) : y = m \div g /\ m = y * g + r
  <2>1. m \div g \in Nat /\ m % g \in 0..(g - 1) /\ m = (m \div g) * g + (m % g)
    BY <1>2, DivMod
  <2> QED BY <2>1, Zenon
<1>5. x = y * g
  <2>1. o + HEADER + g - 1 = m
    BY <1>2, <1>3, Sized
  <2> QED BY <1>4, <2>1 DEF AlignTo
<1>6. PICK j \in Nat : j = y * k
  OBVIOUS
<1>7. x = j * p /\ x \in Nat
  <2>1. x = y * (k * p)
    BY <1>1, <1>5
  <2> QED BY <1>1, <1>6, <2>1
<1>8. x >= o + 8 /\ x <= o + 7 + g
  <2>1. m = x + r
    BY <1>4, <1>5
  <2> QED BY <1>2, <1>3, <1>4, <1>7, <2>1
<1>9. o + p <= x
  <2>1. i < j
    <3>1. ASSUME j < i PROVE FALSE
      <4>1. j * p + p <= i * p
        BY <1>1, <3>1, MulMono
      <4> QED BY <1>1, <1>7, <1>8, <4>1
    <3>2. ASSUME j = i PROVE FALSE
      BY <1>1, <1>7, <1>8, <3>2
    <3> QED BY <3>1, <3>2
  <2>2. i * p + p <= j * p
    BY <1>1, <2>1, MulMono
  <2> QED BY <1>1, <1>7, <2>2
<1>10. x <= o + g
  <2>1. PICK h \in Nat : h = i + k
    OBVIOUS
  <2>2. h * p = o + g
    BY <1>1, <2>1
  <2>3. CASE h < j
    <3>1. h * p + p <= j * p
      BY <1>1, <2>3, MulMono
    <3> QED BY <1>1, <1>2, <1>7, <1>8, <2>2, <3>1
  <2>4. CASE j < h
    <3>1. j * p + p <= h * p
      BY <1>1, <2>4, MulMono
    <3> QED BY <1>1, <1>2, <1>7, <2>2, <3>1
  <2>5. CASE h = j
    BY <1>1, <1>2, <1>7, <2>2, <2>5
  <2> QED BY <2>3, <2>4, <2>5
<1>11. o = 0 => x = g
  <2>1. ASSUME o = 0 PROVE y = 1
    <3>1. m = 1 * g + 7 /\ 7 \in 0..(g - 1)
      BY <1>1, <1>2, <1>3, <2>1
    <3> QED BY <1>2, <1>4, <3>1, OneQuotient
  <2> QED BY <1>2, <1>5, <2>1
<1>12. x % 8 = 0
  <2>1. PICK q \in Nat : p = q * 8
    BY <1>1, ModZero
  <2>2. PICK u \in Nat : u = j * q
    OBVIOUS
  <2>3. x = u * 8
    BY <1>7, <2>1, <2>2
  <2> QED BY <1>7, <2>3
<1> QED
  BY <1>1, <1>7, <1>9, <1>10, <1>11, <1>12

\* aligned_alloc's answer x lies in the block, and the header that it fakes
\* before x, at a, is nobody's.
LEMMA AlignedAnswer ==
  ASSUME BInv, pc = "return", blk # None, call.op = "aligned",
         NEW x, x = AlignedRet, NEW a, a = x - HEADER, NEW o, o = blk
  PROVE  /\ x \in Nat /\ a \in Nat /\ a % 8 = 0 /\ a + HEADER = x
         /\ o \in DOMAIN hdr /\ IsBig(hdr, o) /\ Unowned(o) /\ Fits(o, x, call.need)
         /\ o = NULL => a # NULL /\ PageAt(a) \notin Known
         /\ o # NULL => a > o /\ \E b \in held : Run(o, b) /\ Covers(b, a)
         /\ a \notin DOMAIN hdr \/ (o = NULL /\ hdr[a].prev = o /\ hdr[a].size = 4)
<1>1. Sound /\ Lives /\ Serving /\ Answering
  BY DEF BInv, Control, InMalloc
<1>2. Store /\ Bigs /\ Aliases /\ Typed(hdr)
  BY <1>1 DEF Sound, Heap
<1>3. PICK g \in Nat \ {0}, m \in Nat :
        /\ g = call.align /\ g % PAGE_SIZE = 0 /\ m = call.need
        /\ call.size = m + g - 8 /\ g \div PAGE_SIZE - 1 \notin Known
  BY <1>1, Sized DEF Serving
<1>4. PICK p \in Nat \ {0} : p = PAGE_SIZE /\ p >= 32 /\ p % 8 = 0
  BY Constants
<1>5. PICK k \in Nat \ {0} : k = g \div PAGE_SIZE /\ g = k * PAGE_SIZE
  <2>0. g % p = 0
    BY <1>3, <1>4
  <2>3. g \div p \in Nat /\ g = (g \div p) * p
    BY <2>0, ModZero
  <2>1. PICK q \in Nat : q = g \div p /\ g = q * p
    BY <2>3, Zenon
  <2>2. q # 0
    BY <1>3, <1>4, <2>1
  <2> QED BY <1>4, <2>1, <2>2
<1>6. g >= p
  BY <1>4, <1>5, MulGrows
<1>7. call.size > MAX_SIZE
  BY <1>3, <1>4, <1>6, Sized
<1>8. o \in DOMAIN hdr /\ IsBig(hdr, o) /\ Unowned(o) /\ o \in Nat /\ ~IsAlias(hdr, o)
      /\ Fits(o, o + HEADER, call.size) /\ o \notin SmallOf(hdr)
  BY <1>1, <1>2, <1>7, Kind DEF Answering, Fits, SmallOf, PlainOf
<1>9. x = AlignTo(o + HEADER, g)
  BY <1>3 DEF AlignedRet
<1>10. HEADER = 8 /\ NULL = 0
  BY Sized
<1>11. CASE o = NULL
  <2>1. x \in Nat /\ x % 8 = 0 /\ x = g
    <3>1. 0 \in Nat /\ o = 0 /\ o = 0 * PAGE_SIZE
      BY <1>4, <1>10, <1>11
    <3> QED BY <1>5, <1>9, <3>1, AlignedPlace
  <2>2. a \in Nat /\ a % 8 = 0 /\ a = g - 8 /\ a # 0 /\ a + 8 = x
    BY <1>4, <1>6, <1>10, <2>1
  <2>3. PageAt(a) = k - 1
    <3>1. PICK i \in Nat : i = k - 1
      OBVIOUS
    <3>2. g = i * p + p /\ p - 8 \in 0..(p - 1)
      BY <1>4, <1>5, <3>1
    <3>3. a = i * p + (p - 8)
      BY <1>4, <2>2, <3>2
    <3>4. PICK r \in 0..(p - 1) : a = i * p + r
      BY <3>2, <3>3
    <3>5. a \div p = i
      BY <2>2, <3>4, OneQuotient
    <3> QED BY <1>4, <3>1, <3>5 DEF PageAt
  <2>4. PageAt(a) \notin Known
    BY <1>3, <1>5, <2>3
  <2>5. Fits(o, x, call.need)
    BY <1>3, <1>8, <1>11, <2>1 DEF Fits
  <2>6. ASSUME a \in DOMAIN hdr PROVE hdr[a].prev = NULL /\ hdr[a].size = 4
    <3>1. PageAt(a) \in Nat
      BY <1>1, <2>6, Homes
    <3>2. \A b \in held : Pages(b) \subseteq Known
      BY <1>2, StoreType
    <3>3. <<0, PageAt(a)>> \notin held
      BY <2>4, <3>1, <3>2, PageBlock
    <3>4. IsAlias(hdr, a) /\ hdr[a].prev = NULL
      BY <1>1, <1>10, <2>2, <2>4, <2>6, <3>2, <3>3, Homes
    <3> QED BY <1>2, <2>6, <3>4, Kind
  <2> QED BY <1>8, <1>10, <1>11, <2>1, <2>2, <2>4, <2>5, <2>6
<1>12. CASE o # NULL
  <2>1. PICK b \in held : Run(o, b) /\ o + BLOCK_T + call.size <= EndOf(b)
    BY <1>1, <1>7, <1>12 DEF Answering
  <2>2. b \in Block /\ b[1] # 0 /\ Address(b) = o /\ Start(b) \in Nat
    BY <1>2, <2>1, StoreType, RunType DEF Run
  <2>3. o = Start(b) * PAGE_SIZE
    BY <2>2 DEF Address
  <2>4. x \in Nat /\ x % 8 = 0 /\ o + p <= x /\ x <= o + g
    <3>1. PICK i \in Nat : o = i * PAGE_SIZE
      BY <2>2, <2>3
    <3>2. x \in Nat /\ x % 8 = 0 /\ o + PAGE_SIZE <= x /\ x <= o + g
      BY <1>5, <1>8, <1>9, <3>1, AlignedPlace
    <3> QED BY <1>4, <3>2
  <2>5. a \in Nat /\ a % 8 = 0 /\ a > o /\ a + 8 = x
    BY <1>4, <1>8, <1>10, <2>4
  <2>6. PICK e \in Nat : e = EndOf(b) /\ o + 16 + call.size <= e
    BY <2>1, <2>2, RunType, Constants
  <2>7. x + m <= e /\ a < e /\ x < e
    BY <1>3, <1>8, <2>4, <2>5, <2>6
  <2>8. PageAt(a) \in Pages(b) /\ Covers(b, a)
    <3>1. Address(b) <= a /\ a < EndOf(b) /\ Address(b) <= x /\ x < EndOf(b)
      BY <1>8, <2>2, <2>4, <2>5, <2>6, <2>7
    <3>2. PageAt(a) \in Pages(b)
      BY <2>2, <2>5, <3>1, InRun
    <3>3. PageAt(x) \in Pages(b)
      BY <2>2, <2>4, <3>1, InRun
    <3>4. a + HEADER = x
      BY <1>10, <2>5
    <3> QED BY <3>2, <3>3, <3>4 DEF Covers
  <2>9. Fits(o, x, call.need)
    <3>1. o + HEADER <= x
      BY <1>4, <1>8, <1>10, <2>4
    <3>2. x + call.need <= (Start(b) + Width[b[1]]) * PAGE_SIZE
      BY <1>3, <2>6, <2>7 DEF EndOf
    <3> QED BY <1>3, <1>8, <2>1, <2>4, <3>1, <3>2 DEF Fits
  <2>10. a \notin DOMAIN hdr
    <3>1. SUFFICES ASSUME a \in DOMAIN hdr PROVE FALSE
      OBVIOUS
    <3>2. PageAt(a) \in Known /\ \A c \in held : PageAt(a) \in Pages(c) => c = b
      BY <1>2, <2>8, StoreType
    <3>3. CASE <<0, PageAt(a)>> \in held
      <4>1. PageAt(a) \in Nat
        BY <1>1, <3>1, Homes
      <4>2. <<0, PageAt(a)>> = b
        BY <3>2, <3>3, <4>1, PageBlock
      <4> QED BY <2>2, <4>2
    <3>4. ASSUME NEW c \in held, PageAt(a) \in Pages(c), Run(a, c) PROVE FALSE
      BY <2>2, <2>5, <3>2, <3>4, <1>8 DEF Run
    <3>5. ASSUME NEW c \in held, PageAt(a) \in Pages(c), IsAlias(hdr, a), hdr[a].prev # NULL,
                 Run(hdr[a].prev, c)
          PROVE  FALSE
      <4>1. hdr[a].prev = o
        BY <2>2, <3>2, <3>5 DEF Run
      <4>2. PICK q \in live : q.addr = a + HEADER
        BY <1>2, <3>1, <3>5 DEF Aliases
      <4>3. q.addr - HEADER = a
        BY <1>10, <2>5, <4>2
      <4>4. Owner(q.addr - HEADER) = o
        BY <3>5, <4>1, <4>3 DEF Owner
      <4> QED BY <1>8, <1>12, <4>4 DEF Unowned
    <3> QED BY <1>1, <3>1, <3>2, <3>3, <3>4, <3>5, Homes
  <2> QED BY <1>8, <1>10, <1>12, <2>1, <2>4, <2>5, <2>8, <2>9, <2>10
<1> QED
  BY <1>11, <1>12

LEMMA ReturnAlignedInv == ASSUME BInv, ReturnAligned PROVE BInv'
<1>1. PICK x, a, o, w, n : /\ x = AlignedRet /\ a = x - HEADER /\ o = blk /\ w = call.need
                           /\ n = [addr |-> AlignedRet, need |-> w]
  OBVIOUS
<1>2. /\ hdr' = Put(hdr, a, o, 4) /\ blocks' = blocks /\ held' = held /\ free' = free /\ req' = req
      /\ call' = Idle /\ blk' = None /\ pc = "return" /\ pc' = "idle" /\ blk # None
      /\ call.op = "aligned" /\ live' = live \cup {n}
  BY <1>1 DEF ReturnAligned, Answer, pages
<1>3. Sound /\ Lives /\ Accounted /\ req = None /\ Serving
  BY <1>2 DEF BInv, Control, InMalloc
<1>4. /\ x \in Nat /\ a \in Nat /\ a % 8 = 0 /\ a + HEADER = x
      /\ o \in DOMAIN hdr /\ IsBig(hdr, o) /\ Unowned(o) /\ Fits(o, x, call.need)
      /\ o = NULL => a # NULL /\ PageAt(a) \notin Known
      /\ o # NULL => a > o /\ \E b \in held : Run(o, b) /\ Covers(b, a)
      /\ a \notin DOMAIN hdr \/ (o = NULL /\ hdr[a].prev = o /\ hdr[a].size = 4)
  BY <1>1, <1>2, AlignedAnswer
<1>5. Heap(hdr, blocks) /\ Typed(hdr)
  BY <1>3 DEF Sound, Heap
<1>6. a \notin PlainOf(hdr) /\ o \in Nat
  BY <1>4, <1>5, Kind DEF PlainOf
<1>7. /\ Heap(hdr', blocks) /\ DOMAIN hdr' = DOMAIN hdr \cup {a}
      /\ hdr'[a].prev = o /\ hdr'[a].size = 4
      /\ Same(hdr', hdr, DOMAIN hdr \ {a})
      /\ PlainOf(hdr') = PlainOf(hdr) /\ IsAlias(hdr', a)
  <2>1. PICK s \in 0..(WORD - 1) : s = 4
    BY Sized
  <2>2. PutIn(hdr', hdr, a, o, s)
    BY <1>2, <1>4, <1>6, <2>1 DEF PutIn
  <2>3. Heap(hdr', blocks) /\ Same(hdr', hdr, DOMAIN hdr \ {a}) /\ Puts(hdr', hdr, a, o, s)
    BY <1>5, <2>2, PutHeap
  <2> QED BY <2>1, <2>3 DEF Puts
<1>8. \A y \in DOMAIN hdr : y \in DOMAIN hdr' /\ hdr'[y] = hdr[y]
  <2>1. ASSUME a \in DOMAIN hdr PROVE hdr'[a] = hdr[a]
    <3>1. hdr[a] \in [prev : Nat \cup {Junk}, size : 0..(WORD - 1)]
      BY <1>5, <2>1 DEF Typed
    <3>2. hdr'[a] \in [prev : Nat \cup {Junk}, size : 0..(WORD - 1)]
      <4>1. Typed(hdr')
        BY <1>7 DEF Heap
      <4> QED BY <1>7, <4>1 DEF Typed
    <3>3. hdr'[a].prev = hdr[a].prev /\ hdr'[a].size = hdr[a].size
      BY <1>4, <1>7, <2>1
    <3> QED BY <3>1, <3>2, <3>3
  <2> QED BY <1>7, <2>1 DEF Same
<1>9. n.addr = x /\ n.need = w /\ n \in live' /\ n.addr - HEADER = a /\ w \in Nat
  BY <1>1, <1>2, <1>3 DEF Serving
<1>10. Grows(a, o)
  <2>1. \E p \in live' : p.addr = a + HEADER
    BY <1>4, <1>9
  <2>2. \A y \in DOMAIN hdr' \ DOMAIN hdr : y = a
    BY <1>7
  <2> QED BY <1>2, <1>4, <1>7, <1>8, <2>1, <2>2 DEF Grows
<1>11. Changes({}, {n})
  BY <1>2 DEF Changes
<1>12. Heap(hdr, blocks)'
  BY <1>2, <1>7
<1>13. Sound'
  BY <1>2, <1>3, <1>10, <1>11, <1>12, PointersSound
<1>14. Given({n}, o)
  <2>1. Owner(a)' = o
    BY <1>7 DEF Owner
  <2>2. Fits(o, x, w)'
    BY <1>1, <1>4, <1>10, GrownSame
  <2>3. n \in [addr : Nat, need : Nat]
    BY <1>1, <1>4, <1>9
  <2>4. Pointer(n)'
    BY <1>7, <1>9, <2>1, <2>2, <2>3 DEF Pointer
  <2>5. Owner(n.addr - HEADER)' = o
    BY <1>9, <2>1
  <2> QED BY <1>4, <2>4, <2>5 DEF Given
<1>15. Lives' /\ SameOwners
  BY <1>3, <1>10, <1>11, <1>14, PointersLives
<1>16. Control'
  BY <1>2, <1>3 DEF Control, InMalloc
<1>17. Accounted'
  <2>1. Running /\ \A y : InHand(y) => y = o
    BY <1>1, <1>2 DEF Running, InHand
  <2>2. {n} # {}
    OBVIOUS
  <2> QED BY <1>3, <1>10, <1>11, <1>12, <1>14, <1>15, <2>1, <2>2, GrownAccounted
<1> QED
  BY <1>13, <1>15, <1>16, <1>17 DEF BInv

-----------------------------------------------------------------------------
(* The invariant                                                           *)

LEMMA InitInv == Init => BInv
<1> SUFFICES ASSUME Init PROVE BInv
  OBVIOUS
<1>1. /\ free \in Memories /\ held = {} /\ req = GetPagePow(4 + ARR_LEN * 8)
      /\ DOMAIN hdr = {} /\ blocks = [c \in Class |-> {}] /\ live = {}
      /\ pc = "create" /\ call = Idle
  BY DEF Init
<1>2. req \in Level /\ req # None
  <2>1. 4 + ARR_LEN * 8 \in Nat
    BY Constants
  <2>2. req \in Level
    BY <1>1, <2>1, PagePow
  <2> QED BY <2>2, LevelType, NoneAssumption
<1>3. hdr = [a \in {} |-> NULL]
  BY DEF Init
<1>4. Typed(hdr)
  BY <1>1, <1>3 DEF Typed
<1>5. Tiling(hdr) /\ Lists(hdr, blocks) /\ Merging(hdr)
  BY <1>1 DEF Tiling, Lists, Merging, SmallOf, PlainOf
<1>6. Store
  <2>1. Pm!TypeOK
    BY <1>1, <1>2, PmIs DEF Pm!TypeOK
  <2> QED BY <1>1, <2>1 DEF Store
<1>7. Housed /\ Bigs /\ Aliases /\ Lives
  BY <1>1 DEF Housed, Bigs, Aliases, Lives, PlainOf
<1>8. Control
  BY <1>1, <1>2 DEF Control, InMalloc
<1>9. Accounted
  BY <1>1, FS_EmptySet DEF Accounted, Running
<1> QED
  BY <1>4, <1>5, <1>6, <1>7, <1>8, <1>9 DEF BInv, Sound, Heap

LEMMA StutterInv == ASSUME BInv, UNCHANGED vars PROVE BInv'
<1>1. /\ free' = free /\ held' = held /\ req' = req /\ hdr' = hdr /\ blocks' = blocks
      /\ live' = live /\ pc' = pc /\ call' = call /\ blk' = blk
  BY DEF vars, pages, heap
<1>2. Sound /\ Lives /\ Control /\ Accounted
  BY DEF BInv
<1>3. Store' /\ Heap(hdr, blocks)' /\ Housed'
  <2>1. Store'
    BY <1>1, <1>2, StoreType, AskStore DEF Sound
  <2> QED BY <1>1, <1>2, <2>1 DEF Sound, Housed
<1>4. \A a, b : Run(a, b) => Run(a, b)'
  BY <1>1 DEF Run
<1>5. Bigs' /\ Aliases'
  BY <1>1, <1>2, <1>4 DEF Sound, Bigs, Aliases
<1>6. \A a : Owner(a)' = Owner(a)
  BY <1>1 DEF Owner
<1>7. \A o, d, n : Fits(o, d, n) => Fits(o, d, n)'
  BY <1>1, <1>4 DEF Fits
<1>8. Lives' /\ \A o : Unowned(o) => Unowned(o)'
  BY <1>1, <1>2, <1>6, <1>7 DEF Lives, Unowned
<1>9. Wanted' = Wanted /\ InMalloc' = InMalloc /\ (Serving => Serving')
  BY <1>1 DEF Wanted, InMalloc, Serving
<1>10. Freeing => Freeing'
  <2>1. PICK o : o = Owner(blk)
    OBVIOUS
  <2>2. Owner(blk)' = o
    BY <1>1, <2>1 DEF Owner
  <2>3. Unowned(o) => Unowned(Owner(blk))'
    BY <1>8, <2>2 DEF Unowned
  <2> QED BY <1>1, <2>1, <2>3 DEF Freeing
<1>11. Answering => Answering'
  <2>1. PICK o, d, n : o = blk /\ d = blk + HEADER /\ n = call.size
    OBVIOUS
  <2>2. o = blk' /\ d = (blk + HEADER)' /\ n = call.size'
    BY <1>1, <2>1
  <2>3. Fits(blk, blk + HEADER, call.size) => Fits(o, d, n)'
    BY <1>7, <2>1
  <2>4. Fits(blk, blk + HEADER, call.size) => Fits(blk, blk + HEADER, call.size)'
    BY <2>2, <2>3 DEF Fits
  <2>5. Unowned(blk) => Unowned(blk)'
    BY <1>1, <1>8 DEF Unowned
  <2>6. /\ IsAlias(hdr, blk) <=> IsAlias(hdr, blk)'
        /\ IsBig(hdr, blk) <=> IsBig(hdr, blk)'
        /\ blk \in SmallOf(hdr) <=> (blk \in SmallOf(hdr))'
    BY <1>1
  <2>7. (\E b \in held : Run(blk, b) /\ blk + BLOCK_T + call.size <= EndOf(b))
          => (\E b \in held : Run(blk, b) /\ blk + BLOCK_T + call.size <= EndOf(b))'
    BY <1>1 DEF Run
  <2> QED BY <1>1, <2>4, <2>5, <2>6, <2>7 DEF Answering
<1>12. Control'
  BY <1>1, <1>2, <1>9, <1>10, <1>11 DEF Control
<1>13. Accounted'
  <2>1. Running' => Running /\ \A o : InHand(o) => InHand(o)'
    BY <1>1 DEF Running, InHand, Owner
  <2> QED BY <1>1, <1>2, <2>1, StillAccounted
<1> QED
  BY <1>3, <1>5, <1>8, <1>12, <1>13 DEF BInv, Sound

LEMMA StepInv == BInv /\ [Next]_vars => BInv'
<1> SUFFICES ASSUME BInv, [Next]_vars PROVE BInv'
  OBVIOUS
<1>1. ASSUME NEW n \in Sizes, MallocCall(n) PROVE BInv'
  <2>1. n \in Asked
    BY DEF Asked
  <2> QED BY <1>1, <2>1, MallocCallInv
<1>2. ASSUME NEW c \in Counts, CallocCall(c) PROVE BInv'
  BY <1>2, CallocCallInv
<1>3. ASSUME NEW p \in live, NEW n \in Sizes, ReallocCall(p, n) PROVE BInv'
  BY <1>3, ReallocCallInv
<1>4. ASSUME NEW c \in Alignments, AlignedCall(c) PROVE BInv'
  BY <1>4, AlignedCallInv
<1>5. ASSUME NEW p \in live, FreeCall(p) PROVE BInv'
  BY <1>5, FreeCallInv
<1>6. CASE CreateStep
  BY <1>6, CreateInv, AskingInv DEF CreateStep
<1>7. CASE MallocStep
  <2>1. CASE MallocExact
    <3>1. Small /\ Take(Id)
      BY <2>1 DEF MallocExact
    <3>2. Id \in Class /\ Id >= Id
      <4>1. Id \in Class
        BY <3>1, SmallRequest
      <4> QED BY <4>1, Constants
    <3> QED BY <3>1, <3>2, TakeInv
  <2>2. CASE MallocUpgrade
    <3>1. Small /\ Take(Id + 1) /\ Id + 1 \in Class
      BY <2>2 DEF MallocUpgrade
    <3>2. Id + 1 >= Id
      <4>1. Id \in Class
        BY <3>1, SmallRequest
      <4> QED BY <4>1, Constants
    <3> QED BY <3>1, <3>2, TakeInv
  <2> QED
    BY <1>7, <2>1, <2>2, AskingInv, BigGrantInv, BigRefuseInv, MallocSplitInv, PageGrantInv
    DEF MallocStep
<1>8. CASE ReturnStep
  BY <1>8, AskingInv, ReturnPointerInv, ReturnAlignedInv, ReturnReallocInv DEF ReturnStep
<1>9. CASE FreeStep
  BY <1>9, AskingInv, EnterAliasInv, FreeBigInv, FreePageInv, MergePrevInv, MergeNextInv,
     FreeBlockInv DEF FreeStep
<1>10. CASE UNCHANGED vars
  BY <1>10, StutterInv
<1> QED
  BY <1>1, <1>2, <1>3, <1>4, <1>5, <1>6, <1>7, <1>8, <1>9, <1>10 DEF Next

\* What every step of every call keeps
THEOREM Invariance == Spec => []BInv
<1>1. Init => BInv
  BY InitInv
<1>2. BInv /\ [Next]_vars => BInv'
  BY StepInv
<1> QED
  BY <1>1, <1>2, PTL DEF Spec

-----------------------------------------------------------------------------
(* What follows of the small blocks                                        *)

\* The memory that blockalloc.c's functions leave is well formed: headers
\* are aligned, a page's blocks tile it and point back to each other, and the
\* lists hold exactly the free blocks, each in the class of its size.
THEOREM IntactCorrect == Spec => []Intact
<1>1. BInv => Intact
  <2> SUFFICES ASSUME BInv PROVE Intact
    OBVIOUS
  <2>1. /\ Typed(hdr) /\ Tiling(hdr) /\ Lists(hdr, blocks) /\ Store /\ Lives /\ Control
    BY DEF BInv, Sound, Heap
  <2>2. Plain = PlainOf(hdr) /\ SmallBlocks = SmallOf(hdr)
    BY DEF Plain, PlainOf, SmallBlocks, SmallOf
  <2>3. TypeOK
    <3>1. \A h \in DOMAIN hdr : h % BLOCK_SIZE = 0 /\ hdr[h].size \in 0..(WORD - 1)
      BY <2>1, Sized DEF Typed
    <3>2. blocks \in [Class -> SUBSET DOMAIN hdr]
      BY <2>1 DEF Lists, SmallOf, PlainOf
    <3>3. \A p \in live : p.addr - HEADER \in DOMAIN hdr /\ p.need \in Nat
      BY <2>1 DEF Lives
    <3> QED BY <2>1, <3>1, <3>2, <3>3 DEF TypeOK, Store, Control
  <2>4. Tiled
    BY <2>1, <2>2 DEF Tiled, Tiling
  <2>5. FreeListed
    BY <2>1, <2>2 DEF FreeListed, Lists
  <2> QED BY <2>3, <2>4, <2>5 DEF Intact
<1> QED
  BY <1>1, Invariance, PTL

\* Between calls no two free blocks are neighbours, and no free block fills
\* its page: allocator_free has merged them and given the page back.
THEOREM CompactCorrect == Spec => []Compact
<1>1. BInv => Compact
  <2>1. SmallBlocks = SmallOf(hdr)
    BY DEF Plain, PlainOf, SmallBlocks, SmallOf
  <2> QED BY <2>1 DEF BInv, Sound, Heap, Merging, Compact
<1> QED
  BY <1>1, Invariance, PTL

-----------------------------------------------------------------------------
(* Nothing leaks                                                           *)

\* A page of small blocks has one that is used.
LEMMA UsedInPage ==
  ASSUME Sound, NEW a \in SmallOf(hdr)
  PROVE  \E c \in SmallOf(hdr) : IsUsed(hdr, c) /\ PageAt(c) = PageAt(a)
<1>1. Typed(hdr) /\ Tiling(hdr) /\ Merging(hdr)
  BY DEF Sound, Heap
<1>2. CASE IsUsed(hdr, a)
  BY <1>2
<1>3. CASE ~IsUsed(hdr, a)
  <2>1. PICK n : n = NextBlock(hdr, a)
    OBVIOUS
  <2>2. /\ n \in PlainOf(hdr) /\ PageAt(n) = PageAt(a) /\ IsUsed(hdr, n)
        /\ hdr[n].size # 1 \/ hdr[a].prev # NULL
    BY <1>1, <1>3, <2>1 DEF Tiling, Merging
  <2>3. CASE hdr[n].size # 1
    <3>1. n \in SmallOf(hdr)
      BY <1>1, <2>2, <2>3 DEF Tiling, SmallOf
    <3> QED BY <2>2, <3>1
  <2>4. CASE hdr[a].prev # NULL
    <3>1. PICK c : c = hdr[a].prev
      OBVIOUS
    <3>2. a \in PlainOf(hdr)
      BY DEF SmallOf
    <3>3. c \in SmallOf(hdr) /\ NextBlock(hdr, c) = a
      BY <1>1, <2>4, <3>1, <3>2 DEF Tiling
    <3>4. PageAt(c) = PageAt(a)
      BY <1>1, <3>3 DEF Tiling
    <3>5. IsUsed(hdr, c)
      BY <1>1, <1>3, <3>3 DEF Merging
    <3> QED BY <3>3, <3>4, <3>5
  <2> QED BY <2>2, <2>3, <2>4
<1> QED
  BY <1>2, <1>3

\* The block of pages o is in
HomeOf(b, o) ==
  \/ o \in SmallOf(hdr) /\ b = <<0, PageAt(o)>>
  \/ o \in DOMAIN hdr /\ IsBig(hdr, o) /\ o # NULL /\ Run(o, b)

\* A pointer lies in the pages of its block, at its start if it is small.
LEMMA PointerHome ==
  ASSUME Sound, Lives, NULL \notin DOMAIN hdr, NEW p \in live, NEW o, o = Owner(p.addr - HEADER)
  PROVE  /\ \E b \in held : PageAt(p.addr) \in Pages(b) /\ HomeOf(b, o)
         /\ o \in SmallOf(hdr) => o + HEADER <= p.addr /\ p.addr < NextBlock(hdr, o)
<1>1. Typed(hdr) /\ Tiling(hdr) /\ Store /\ Housed /\ Aliases /\ HEADER = 8
  BY Sized DEF Sound, Heap
<1>2. p.addr \in Nat /\ p.addr - HEADER \in DOMAIN hdr /\ Fits(o, p.addr, p.need)
  BY DEF Lives
<1>3. o \in DOMAIN hdr /\ o # NULL
  BY <1>2 DEF Fits
<1>4. CASE o \in SmallOf(hdr) /\ p.addr = o + HEADER
  <2>1. /\ o \in PlainOf(hdr) /\ o \in Nat /\ NextBlock(hdr, o) = o + 8 + Cap(hdr, o)
        /\ Cap(hdr, o) \in Nat /\ Cap(hdr, o) >= 8
    BY <1>1, <1>4, SmallFacts
  <2>2. PICK n \in Nat : n = NextBlock(hdr, o) /\ o <= p.addr /\ p.addr < n
    <3>1. NextBlock(hdr, o) \in Nat /\ o <= p.addr /\ p.addr < NextBlock(hdr, o)
      BY <1>1, <1>4, <2>1
    <3> QED BY <3>1, Zenon
  <2>3. PageAt(n) = PageAt(o)
    BY <1>1, <1>4, <2>2 DEF Tiling
  <2>4. p.addr <= n
    BY <1>2, <2>2
  <2>5. PageAt(o) <= PageAt(p.addr) /\ PageAt(p.addr) <= PageAt(n)
    BY <1>2, <2>1, <2>2, <2>4, PageMono
  <2>6. PageAt(o) \in Nat /\ PageAt(p.addr) \in Nat
    BY <1>2, <2>1, PageBounds
  <2>7. PageAt(p.addr) = PageAt(o)
    BY <2>3, <2>5, <2>6
  <2>8. PICK b \in held : b = <<0, PageAt(o)>>
    BY <1>1, <2>1 DEF Housed
  <2>9. PageAt(p.addr) \in Pages(b)
    BY <2>6, <2>7, <2>8, PageBlock
  <2>10. o + HEADER <= p.addr
    BY <1>1, <1>4, <2>1
  <2> QED BY <1>4, <2>2, <2>8, <2>9, <2>10 DEF HomeOf
<1>5. CASE o \notin SmallOf(hdr)
  <2>1. PICK b \in held : Run(o, b)
    BY <1>2, <1>3, <1>5 DEF Fits
  <2>2. IsBig(hdr, o)
    BY <1>2, <1>3, <1>5 DEF Fits
  <2>3. PICK c : c = p.addr - HEADER
    OBVIOUS
  <2>4. c \in DOMAIN hdr /\ c \in Nat /\ c + HEADER = p.addr /\ o = Owner(c)
    BY <1>1, <1>2, <2>3, Kind
  <2>5. b \in Block /\ Address(b) = o
    BY <1>1, <2>1, StoreType DEF Run
  <2>6. CASE IsAlias(hdr, c)
    <3>1. o = hdr[c].prev
      BY <2>4, <2>6 DEF Owner
    <3>2. PICK d \in held : Run(o, d) /\ Covers(d, c)
      BY <1>1, <1>3, <2>4, <2>6, <3>1 DEF Aliases
    <3> QED BY <1>3, <1>5, <2>2, <2>4, <3>2 DEF Covers, HomeOf
  <2>7. CASE ~IsAlias(hdr, c)
    <3>1. o = c
      BY <2>4, <2>7 DEF Owner
    <3>2. PICK e \in Nat, w \in Nat : e = EndOf(b) /\ w = PAGE_SIZE /\ w >= 32 /\ o + w <= e
      BY <2>5, RunType, Sized
    <3>3. Address(b) <= p.addr /\ p.addr < EndOf(b)
      BY <1>1, <2>4, <2>5, <3>1, <3>2
    <3>4. PageAt(p.addr) \in Pages(b)
      BY <1>2, <2>5, <3>3, InRun
    <3> QED BY <1>3, <1>5, <2>1, <2>2, <3>4 DEF HomeOf
  <2> QED BY <2>6, <2>7
<1> QED
  <2>1. o \in SmallOf(hdr) => p.addr = o + HEADER
    BY <1>2, <1>3 DEF Fits, SmallOf, PlainOf
  <2> QED BY <1>4, <1>5, <2>1

\* A block has one home.
LEMMA OneHome ==
  ASSUME Sound, NEW o, NEW b \in held, NEW c \in held, HomeOf(b, o), HomeOf(c, o)
  PROVE  b = c
<1>1. CASE o \in SmallOf(hdr)
  BY <1>1 DEF HomeOf, SmallOf, PlainOf
<1>2. CASE o \notin SmallOf(hdr)
  <2>1. Address(b) = o /\ Address(c) = o
    BY <1>2 DEF HomeOf, Run
  <2> QED BY <2>1, OneRun DEF Sound
<1> QED
  BY <1>1, <1>2

\* Between calls of malloc and free, every used block is some caller's, and a
\* caller's pointer lies in every block of pages that the allocator holds but
\* one, its own: allocator_free loses nothing, whatever it merges or gives back,
\* as long as no big request was refused (that leaves a header at NULL).
THEOREM NothingLeaksCorrect == Spec => []NothingLeaks
<1>1. BInv => NothingLeaks
  <2> SUFFICES ASSUME BInv, pc = "idle", NULL \notin DOMAIN hdr
               PROVE  /\ \A h \in SmallBlocks : IsUsed(hdr, h) =>
                           \E p \in live : h + HEADER <= p.addr /\ p.addr < NextBlock(hdr, h)
                      /\ Cardinality({b \in held : \E p \in live : p.addr \div PAGE_SIZE \in Pages(b)})
                           = Cardinality(held) - 1
    BY DEF NothingLeaks
  <2>1. Sound /\ Lives /\ Accounted /\ NoneLost /\ OneOwn /\ IsFiniteSet(held)
    BY DEF BInv, Accounted, Running
  <2>2. SmallBlocks = SmallOf(hdr)
    BY DEF Plain, PlainOf, SmallBlocks, SmallOf
  <2>3. ASSUME NEW a \in DOMAIN hdr, InUse(a)
        PROVE  \E p \in live : Owner(p.addr - HEADER) = a
    BY <2>1, <2>3 DEF NoneLost, InHand, Unowned
  <2>4. ASSUME NEW h \in SmallOf(hdr), IsUsed(hdr, h)
        PROVE  \E p \in live : /\ Owner(p.addr - HEADER) = h
                               /\ h + HEADER <= p.addr /\ p.addr < NextBlock(hdr, h)
    <3>1. h \in DOMAIN hdr /\ InUse(h)
      BY <2>4 DEF InUse, SmallOf, PlainOf
    <3>2. PICK p \in live : Owner(p.addr - HEADER) = h
      BY <2>3, <3>1
    <3> QED BY <2>1, <3>2, PointerHome
  <2> DEFINE Taken(b) == \E p \in live : PageAt(p.addr) \in Pages(b)
  <2>5. ASSUME NEW b \in held, Filled(b) PROVE Taken(b)
    <3>1. PICK o \in DOMAIN hdr : InUse(o) /\ HomeOf(b, o)
      <4>1. CASE \E a \in SmallOf(hdr) : b = <<0, PageAt(a)>>
        <5>1. PICK c \in SmallOf(hdr) : IsUsed(hdr, c) /\ b = <<0, PageAt(c)>>
          BY <2>1, <4>1, UsedInPage
        <5> QED BY <5>1 DEF InUse, HomeOf, SmallOf, PlainOf
      <4>2. CASE \E a \in DOMAIN hdr : IsBig(hdr, a) /\ a # NULL /\ Run(a, b)
        BY <4>2 DEF InUse, HomeOf
      <4> QED BY <2>5, <4>1, <4>2 DEF Filled
    <3>2. PICK p \in live : Owner(p.addr - HEADER) = o
      BY <2>3, <3>1
    <3>3. PICK c \in held : PageAt(p.addr) \in Pages(c) /\ HomeOf(c, o)
      BY <2>1, <3>2, PointerHome
    <3>4. b = c
      BY <2>1, <3>1, <3>3, OneHome
    <3> QED BY <3>3, <3>4
  <2>6. ASSUME NEW b \in held, NEW p \in live, PageAt(p.addr) \in Pages(b) PROVE Filled(b)
    <3>1. PICK o : o = Owner(p.addr - HEADER)
      OBVIOUS
    <3>2. PICK c \in held : PageAt(p.addr) \in Pages(c) /\ HomeOf(c, o)
      BY <2>1, <3>1, PointerHome
    <3>3. b = c
      BY <2>1, <2>6, <3>2, StoreType DEF Sound
    <3> QED BY <3>2, <3>3 DEF HomeOf, Filled
  <2>7. PICK own \in held : \A b \in held : Filled(b) <=> b # own
    BY <2>1 DEF OneOwn
  <2>8. {b \in held : \E p \in live : p.addr \div PAGE_SIZE \in Pages(b)} = held \ {own}
    <3>1. \A b \in held : Taken(b) <=> b # own
      BY <2>5, <2>6, <2>7
    <3> QED BY <3>1 DEF PageAt
  <2>9. Cardinality(held \ {own}) = Cardinality(held) - 1
    BY <2>1, FS_RemoveElement
  <2> QED BY <2>2, <2>4, <2>8, <2>9
<1> QED
  BY <1>1, Invariance, PTL

-----------------------------------------------------------------------------
(* What callers hold is apart                                              *)

\* The bytes from addr on lie behind the header o and before e, within the
\* block of pages b: a small block's end is the next header, a big block's
\* the end of its pages.
Within(o, addr, need, b, e) ==
  /\ o \in DOMAIN hdr /\ b \in held /\ e \in Nat
  /\ addr \in Nat /\ need \in Nat
  /\ Address(b) <= o /\ o + 8 <= addr /\ addr + need <= e /\ e <= EndOf(b)
  /\ \/ o \in SmallOf(hdr) /\ e = NextBlock(hdr, o) /\ b = <<0, PageAt(o)>>
     \/ b[1] # 0 /\ Run(o, b)

LEMMA Inside ==
  ASSUME Sound, NEW o, NEW addr, NEW need, Fits(o, addr, need), o # NULL
  PROVE  \E b \in held, e \in Nat : Within(o, addr, need, b, e)
<1>1. /\ Typed(hdr) /\ Tiling(hdr) /\ Store /\ Housed
      /\ o \in DOMAIN hdr /\ o \in Nat /\ need \in Nat /\ addr \in Nat /\ HEADER = 8
  BY Kind, Sized DEF Sound, Heap, Fits
<1>2. CASE o \in SmallOf(hdr) /\ addr = o + HEADER /\ need <= Cap(hdr, o)
  <2>1. PICK e : e = NextBlock(hdr, o) /\ e = o + 8 + Cap(hdr, o) /\ Cap(hdr, o) \in Nat
                 /\ o \in PlainOf(hdr) /\ e \in PlainOf(hdr) /\ e \in Nat
    BY <1>1, <1>2, SmallFacts
  <2>2. PageAt(e) = PageAt(o)
    BY <1>1, <1>2, <2>1 DEF Tiling
  <2>3. PageAt(o) \in Nat
    BY <1>1, PageBounds
  <2>4. PICK b \in held : b = <<0, PageAt(o)>>
    BY <1>1, <2>1 DEF Housed
  <2>5. b \in Block /\ PageAt(o) \in Pages(b) /\ PageAt(e) \in Pages(b)
    BY <2>2, <2>3, <2>4, PageBlock
  <2>6. Address(b) <= o /\ e < EndOf(b)
    BY <1>1, <2>1, <2>5, InRun
  <2>7. e <= EndOf(b)
    BY <2>1, <2>5, <2>6, RunType
  <2>8. o + 8 <= addr /\ addr + need <= e
    BY <1>1, <1>2, <2>1
  <2> QED BY <1>1, <1>2, <2>1, <2>4, <2>6, <2>7, <2>8 DEF Within
<1>3. CASE /\ o + HEADER <= addr
           /\ \E b \in held : Run(o, b) /\ addr + need <= (Start(b) + Width[b[1]]) * PAGE_SIZE
  <2>1. PICK b \in held : Run(o, b) /\ addr + need <= EndOf(b)
    BY <1>3 DEF EndOf
  <2>2. b \in Block /\ b[1] # 0 /\ Address(b) = o /\ EndOf(b) \in Nat
    BY <1>1, <2>1, StoreType, RunType DEF Run
  <2>3. o + 8 <= addr /\ Address(b) <= o /\ EndOf(b) <= EndOf(b)
    BY <1>1, <1>3, <2>2
  <2> QED BY <1>1, <2>1, <2>2, <2>3 DEF Within
<1> QED
  BY <1>2, <1>3 DEF Fits

\* Two blocks do not overlap.
LEMMA BlocksApart ==
  ASSUME Sound, NEW o, NEW d, NEW n, NEW b, NEW e, Within(o, d, n, b, e),
         NEW u, NEW c, NEW m, NEW a, NEW f, Within(u, c, m, a, f), o # u
  PROVE  d + n <= c \/ c + m <= d
<1>1. /\ b \in held /\ a \in held /\ o \in DOMAIN hdr /\ u \in DOMAIN hdr
      /\ e \in Nat /\ f \in Nat /\ d \in Nat /\ n \in Nat /\ c \in Nat /\ m \in Nat
      /\ Address(b) <= o /\ o + 8 <= d /\ d + n <= e /\ e <= EndOf(b)
      /\ Address(a) <= u /\ u + 8 <= c /\ c + m <= f /\ f <= EndOf(a)
  BY DEF Within
<1>2. /\ Typed(hdr) /\ Tiling(hdr) /\ Store /\ o \in Nat /\ u \in Nat
      /\ b \in Block /\ a \in Block
  BY <1>1, Kind, StoreType DEF Sound, Heap
<1>3. /\ EndOf(b) \in Nat /\ Address(b) \in Nat /\ EndOf(a) \in Nat /\ Address(a) \in Nat
  BY <1>2, RunType
<1>4. CASE b # a
  <2>1. EndOf(b) <= Address(a) \/ EndOf(a) <= Address(b)
    BY <1>1, <1>2, <1>4, StoreType, RunsApart
  <2> QED BY <1>1, <1>2, <1>3, <2>1
<1>5. CASE b = a
  <2>1. \/ o \in SmallOf(hdr) /\ e = NextBlock(hdr, o) /\ b[1] = 0
        \/ b[1] # 0 /\ Address(b) = o
    BY DEF Within, Run
  <2>2. \/ u \in SmallOf(hdr) /\ f = NextBlock(hdr, u) /\ a[1] = 0
        \/ a[1] # 0 /\ Address(a) = u
    BY DEF Within, Run
  <2>3. o \in SmallOf(hdr) /\ e = NextBlock(hdr, o) /\ u \in SmallOf(hdr) /\ f = NextBlock(hdr, u)
    BY <1>5, <2>1, <2>2
  <2>4. o \in PlainOf(hdr) /\ u \in PlainOf(hdr)
    BY <2>3 DEF SmallOf
  <2>5. (o < u => e <= u) /\ (u < o => f <= o)
    BY <1>2, <2>3, <2>4 DEF Tiling
  <2> QED BY <1>1, <1>2, <2>5
<1> QED
  BY <1>4, <1>5

\* A multiple of 8 that lies below another is below it by 8.
LEMMA Eighth ==
  ASSUME NEW a \in Nat, NEW b \in Nat, a % 8 = 0, b % 8 = 0, a < b
  PROVE  a + 8 <= b
  OBVIOUS

\* No header lies in a pointer's bytes: an alias in its block is its own.
LEMMA HeaderApart ==
  ASSUME BInv, NULL \notin DOMAIN hdr, NEW p \in live, NEW o, o = Owner(p.addr - HEADER), o # NULL,
         NEW b, NEW e, Within(o, p.addr, p.need, b, e), NEW h \in DOMAIN hdr
  PROVE  p.addr + p.need <= h \/ h + HEADER <= p.addr
<1>1. PICK d, n : d = p.addr /\ n = p.need
  OBVIOUS
<1>2. /\ b \in held /\ o \in DOMAIN hdr /\ e \in Nat /\ d \in Nat /\ n \in Nat
      /\ Address(b) <= o /\ o + 8 <= d /\ d + n <= e /\ e <= EndOf(b)
      /\ \/ o \in SmallOf(hdr) /\ e = NextBlock(hdr, o) /\ b = <<0, PageAt(o)>>
         \/ b[1] # 0 /\ Run(o, b)
  BY <1>1 DEF Within
<1>3. /\ Sound /\ Lives /\ Typed(hdr) /\ Tiling(hdr) /\ Store /\ Aliases /\ HEADER = 8
      /\ o \in Nat /\ o % 8 = 0 /\ h \in Nat /\ h % 8 = 0 /\ b \in Block
  BY <1>2, Kind, StoreType, Sized DEF BInv, Sound, Heap
<1>4. /\ EndOf(b) \in Nat /\ Address(b) \in Nat /\ Address(b) % 8 = 0
  BY <1>3, RunType
<1>5. \A c \in held : c \in Block /\ EndOf(c) \in Nat /\ Address(c) \in Nat /\ EndOf(c) % 8 = 0
  <2>1. \A c \in held : c \in Block
    BY <1>3, StoreType
  <2>2. ASSUME NEW c \in held PROVE EndOf(c) \in Nat /\ EndOf(c) % 8 = 0
    <3>1. /\ EndOf(c) \in Nat /\ Start(c) \in Nat /\ Width[c[1]] \in Nat
          /\ EndOf(c) = (Start(c) + Width[c[1]]) * PAGE_SIZE
      BY <2>1, RunType DEF EndOf
    <3>2. PICK q \in Nat : PAGE_SIZE = q * 8
      BY Constants, ModZero
    <3>3. PICK s \in Nat : s = Start(c) + Width[c[1]]
      BY <3>1
    <3>4. PICK y \in Nat : y = s * q
      BY <3>2, <3>3
    <3>5. EndOf(c) = y * 8
      BY <3>1, <3>2, <3>3, <3>4
    <3> QED BY <3>1, <3>5
  <2> QED BY <2>1, <2>2, RunType
<1>6. ASSUME NEW c \in held, c # b, PageAt(h) \in Pages(c)
      PROVE  d + n <= h \/ h + 8 <= d
  <2>1. EndOf(b) <= Address(c) \/ EndOf(c) <= Address(b)
    BY <1>2, <1>3, <1>5, <1>6, StoreType, RunsApart
  <2>2. Address(c) <= h /\ h < EndOf(c)
    BY <1>3, <1>5, <1>6, InRun
  <2>3. h + 8 <= EndOf(c)
    BY <1>3, <1>5, <2>2, Eighth
  <2> QED BY <1>2, <1>3, <1>4, <1>5, <2>1, <2>2, <2>3
<1>7. CASE h \in PlainOf(hdr) /\ <<0, PageAt(h)>> \in held
  <2>1. PICK c \in held : c = <<0, PageAt(h)>>
    BY <1>7
  <2>2. PageAt(h) \in Pages(c)
    BY <1>3, <2>1, PageBounds, PageBlock
  <2>3. CASE o \in SmallOf(hdr) /\ e = NextBlock(hdr, o)
    <3>1. o < h => e <= h
      BY <1>3, <1>7, <2>3 DEF Tiling
    <3>2. h < o => h + 8 <= o
      BY <1>3, Eighth
    <3> QED BY <1>1, <1>2, <1>3, <3>1, <3>2
  <2>4. CASE b[1] # 0
    <3>1. c # b
      BY <2>1, <2>4
    <3> QED BY <1>1, <1>3, <1>6, <2>2, <3>1
  <2> QED BY <1>2, <2>3, <2>4
<1>8. ASSUME NEW c \in held, c[1] # 0, PageAt(h) \in Pages(c),
             \/ IsBig(hdr, h) /\ ~IsAlias(hdr, h) /\ h # NULL /\ Run(h, c)
             \/ /\ IsAlias(hdr, h) /\ hdr[h].prev # NULL
                /\ IsBig(hdr, hdr[h].prev) /\ Run(hdr[h].prev, c)
      PROVE  d + n <= h \/ h + 8 <= d
  <2>1. CASE c # b
    BY <1>6, <1>8, <2>1
  <2>2. CASE c = b
    <3>1. Run(o, b) /\ Address(b) = o
      BY <1>2, <1>8, <2>2 DEF Run
    <3>2. CASE Run(h, c)
      BY <1>2, <1>3, <2>2, <3>1, <3>2 DEF Run
    <3>3. CASE IsAlias(hdr, h) /\ hdr[h].prev # NULL /\ Run(hdr[h].prev, c)
      <4>1. hdr[h].prev = o /\ Owner(h) = o
        BY <2>2, <3>1, <3>3 DEF Run, Owner
      <4>2. CASE \E q \in live : q.addr = h + HEADER
        <5>1. PICK q \in live : q.addr = h + HEADER
          BY <4>2
        <5>2. q.addr - HEADER = h
          BY <1>3, <5>1
        <5>3. q = p
          BY <1>3, <4>1, <5>2 DEF Lives
        <5> QED BY <1>1, <1>2, <1>3, <5>1, <5>3
      <4>3. CASE pc = "free" /\ blk = h
        <5>1. Unowned(o)
          BY <4>1, <4>3 DEF BInv, Control, Freeing
        <5> QED BY <5>1 DEF Unowned
      <4> QED BY <1>3, <3>3, <4>2, <4>3 DEF Aliases
    <3> QED BY <1>8, <3>2, <3>3
  <2> QED BY <2>1, <2>2
<1>9. ~(PageAt(h) \notin Known /\ ((IsBig(hdr, h) /\ h = NULL) \/ (IsAlias(hdr, h) /\ hdr[h].prev = NULL)))
  BY <1>3 DEF Aliases
<1> QED
  BY <1>1, <1>3, <1>7, <1>8, <1>9, Homes

\* What a caller was given lies in pages that the page manager handed out,
\* and neither another caller's bytes nor a header lies in it.
THEOREM LiveApartCorrect == Spec => []LiveApart
<1>1. ASSUME BInv, NULL \notin DOMAIN hdr, NEW p \in live
      PROVE  /\ \A a \in p.addr .. (p.addr + p.need - 1) : Owned(a)
             /\ \A q \in live : p # q =>
                  p.addr + p.need <= q.addr \/ q.addr + q.need <= p.addr
             /\ \A h \in DOMAIN hdr : p.addr + p.need <= h \/ h + HEADER <= p.addr
  <2>1. Sound /\ Lives /\ Store
    BY <1>1 DEF BInv, Sound
  <2>2. ASSUME NEW q \in live
        PROVE  /\ Owner(q.addr - HEADER) # NULL
               /\ \E b \in held, e \in Nat : Within(Owner(q.addr - HEADER), q.addr, q.need, b, e)
    <3>1. Fits(Owner(q.addr - HEADER), q.addr, q.need)
      BY <2>1 DEF Lives
    <3>2. Owner(q.addr - HEADER) # NULL
      BY <1>1, <3>1 DEF Fits
    <3> QED BY <2>1, <3>1, <3>2, Inside
  <2>3. PICK o : o = Owner(p.addr - HEADER) /\ o # NULL
    BY <2>2
  <2>4. PICK b \in held, e \in Nat : Within(o, p.addr, p.need, b, e)
    BY <2>2, <2>3
  <2>5. ASSUME NEW a \in p.addr .. (p.addr + p.need - 1) PROVE Owned(a)
    <3>1. /\ p.addr \in Nat /\ p.need \in Nat /\ Address(b) <= o /\ o + 8 <= p.addr
          /\ p.addr + p.need <= e /\ e <= EndOf(b) /\ o \in DOMAIN hdr
      BY <2>4 DEF Within
    <3>2. b \in Block /\ o \in Nat
      BY <2>1, <3>1, StoreType, Kind DEF Sound, Heap
    <3>3. EndOf(b) \in Nat /\ Address(b) \in Nat
      BY <3>2, RunType
    <3>4. a \in Nat /\ Address(b) <= a /\ a < EndOf(b)
      BY <3>1, <3>2, <3>3
    <3>5. PageAt(a) \in Pages(b)
      BY <3>2, <3>4, InRun
    <3> QED BY <3>5 DEF Owned, PageAt
  <2>6. ASSUME NEW q \in live, p # q
        PROVE  p.addr + p.need <= q.addr \/ q.addr + q.need <= p.addr
    <3>1. PICK u : u = Owner(q.addr - HEADER) /\ u # o
      BY <2>1, <2>3, <2>6 DEF Lives
    <3>2. PICK c \in held, f \in Nat : Within(u, q.addr, q.need, c, f)
      BY <2>2, <3>1
    <3> QED BY <2>1, <2>4, <3>1, <3>2, BlocksApart
  <2>7. \A h \in DOMAIN hdr : p.addr + p.need <= h \/ h + HEADER <= p.addr
    BY <1>1, <2>3, <2>4, HeaderApart
  <2> QED BY <2>5, <2>6, <2>7
<1>2. BInv => LiveApart
  BY <1>1 DEF LiveApart
<1> QED
  BY <1>2, Invariance, PTL

\* A big block's size with its flags asks for as many pages as malloc asked for.
\* It fails only for a size that fills its pages to the last three bytes
\* (blockalloc.c:107, :180).
LevelsAgree ==
  \A n \in Asked : n > MAX_SIZE =>
    GetPagePow(BLOCK_T + (n - (n % 4) + 3)) = GetPagePow(BLOCK_T + n)

\* What free finds behind a header is what malloc put there.
LEMMA NotAstray ==
  ASSUME BInv, LevelsAgree, pc = "frame", blk # NULL
  PROVE  ~Astray
<1>1. /\ Sound /\ Lives /\ Freeing /\ blk \in DOMAIN hdr /\ ~IsAlias(hdr, blk)
      /\ Bigs
  BY DEF BInv, Control, Freeing, Sound
<1>2. CASE IsBig(hdr, blk)
  <2>1. PICK b \in held : Run(blk, b)
    BY <1>1, <1>2 DEF Bigs
  <2>2. PICK n \in Asked :
          /\ n > MAX_SIZE /\ hdr[blk].size = n - (n % 4) + 3
          /\ b[1] = GetPagePow(BLOCK_T + n)
    BY <2>1 DEF Run
  <2>3. b[1] = GetPagePow(BLOCK_T + hdr[blk].size) /\ Address(b) = blk
    BY <2>1, <2>2 DEF LevelsAgree, Run
  <2>4. b \in BigBlocks
    BY <2>3 DEF BigBlocks
  <2> QED BY <1>2, <2>4 DEF Astray
<1>3. CASE ~IsBig(hdr, blk)
  <2>1. blk \in SmallOf(hdr)
    BY <1>1, <1>3 DEF Freeing, PlainOf
  <2>2. PICK n, p : n = NextBlock(hdr, blk) /\ p = hdr[blk].prev
    OBVIOUS
  <2>3. /\ n \in DOMAIN hdr /\ (~IsUsed(hdr, n) => n \in SmallOf(hdr))
        /\ p # NULL => p \in PlainOf(hdr)
    BY <1>1, <2>1, <2>2, Neighbours
  <2>4. p \in DOMAIN hdr \cup {NULL}
    BY <2>3 DEF PlainOf
  <2>5. ~IsUsed(hdr, n) => NextBlock(hdr, n) \in DOMAIN hdr
    <3>1. HAVE ~IsUsed(hdr, n)
    <3>2. Tiling(hdr) /\ n \in SmallOf(hdr)
      BY <1>1, <2>3, <3>1 DEF Sound, Heap
    <3>3. NextBlock(hdr, n) \in PlainOf(hdr)
      BY <3>2 DEF Tiling
    <3> QED BY <3>3 DEF PlainOf
  <2>6. Chained
    BY <2>2, <2>3, <2>4, <2>5 DEF Chained, next, prev
  <2> QED BY <1>3, <2>6 DEF Astray
<1> QED BY <1>2, <1>3

\* free takes nothing for a header that is none and gives no page back that is
\* not the allocator's, unless the page manager refused the block it is given.
THEOREM NeverAstrayCorrect == LevelsAgree => (Spec => NeverAstray)
<1>1. ASSUME BInv, LevelsAgree, [Next]_vars, pc' = "wild", pc \in {"free", "frame"}
      PROVE  blk = NULL
  <2>1. CASE pc = "free"
    <3>1. EnterAlias
      BY <1>1, <2>1 DEF Next, CreateStep, MallocStep, ReturnStep, FreeStep, vars,
        MallocCall, CallocCall, ReallocCall, AlignedCall, Called, FreeCall, Create, CreateFails,
        MallocBig, BigGrant, BigRefuse, MallocExact, MallocUpgrade, MallocOverrun, MallocSplit,
        MallocPage, PageGrant, PageRefuse, Small, ReturnNull, ReturnPointer, ReturnAligned,
        ReturnRealloc, Enter, FreeBig, FreeWild, FreePage, MergePrev, MergeNext, FreeBlock, Frame
    <3>2. blk \in DOMAIN hdr /\ IsAlias(hdr, blk) /\ Aliases
      BY <1>1, <2>1, <3>1 DEF EnterAlias, BInv, Control, Freeing, Sound
    <3>3. hdr[blk].prev \in DOMAIN hdr
      BY <3>2 DEF Aliases
    <3>4. pc' = "frame"
      BY <3>1, <3>3 DEF EnterAlias
    <3> QED BY <1>1, <3>4
  <2>2. CASE pc = "frame"
    <3>1. Astray
      BY <1>1, <2>2 DEF Next, CreateStep, MallocStep, ReturnStep, FreeStep, vars,
        MallocCall, CallocCall, ReallocCall, AlignedCall, Called, FreeCall, Create, CreateFails,
        MallocBig, BigGrant, BigRefuse, MallocExact, MallocUpgrade, MallocOverrun, MallocSplit,
        MallocPage, PageGrant, PageRefuse, Small, ReturnNull, ReturnPointer, ReturnAligned,
        ReturnRealloc, Enter, EnterAlias, FreeBig, FreeWild, FreePage, MergePrev, MergeNext,
        FreeBlock, Frame, Freed
    <3> QED BY <1>1, <2>2, <3>1, NotAstray
  <2> QED BY <1>1, <2>1, <2>2
<1>2. BInv /\ LevelsAgree /\ [Next]_vars => [pc' = "wild" /\ pc \in {"free", "frame"} => blk = NULL]_vars
  BY <1>1
<1>3. SUFFICES ASSUME LevelsAgree PROVE Spec => NeverAstray
  OBVIOUS
<1>4. BInv /\ [Next]_vars => [pc' = "wild" /\ pc \in {"free", "frame"} => blk = NULL]_vars
  BY <1>2, <1>3
<1> QED
  BY <1>4, Invariance, PTL DEF Spec, NeverAstray

=============================================================================
