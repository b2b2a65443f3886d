----------------------------- MODULE BlockAlloc -----------------------------
(***************************************************************************)
(* libs/mem-alloc/blockalloc.c and its wrapper libs/c-stdlib/malloc.c:     *)
(* malloc, calloc, realloc, aligned_alloc and free on top of the page      *)
(* manager, which is here the PageStore that PageMan implements.           *)
(*                                                                         *)
(* Addresses are bytes.  A block is named by the address of its header,    *)
(* block_t's two words prev and size; hdr is the memory seen through       *)
(* block_t, defined where the code has put a header and not yet merged it  *)
(* or given its page away.  The two low bits of size mark a used (1) and a *)
(* big (2) block, and a size of 4 the header that aligned_alloc fakes in   *)
(* front of an aligned address.  A call is a sequence of steps that pc     *)
(* follows: the page manager is asked and answers, and every recursive     *)
(* call of allocator_free is a step.  Where the code would follow or write *)
(* a word that no header holds, pc becomes "wild" and nothing is known of  *)
(* the memory from there on.                                               *)
(***************************************************************************)
EXTENDS BuddyBlocks, FiniteSetsExt

CONSTANTS
  PAGE_SIZE,    \* bytes of a page
  Memories,     \* the sets of pages the page manager may start with; page 0,
                \* where NULL points, is in none
  WORD,         \* 2 ^ the bits of a size_t
  Sizes,        \* what callers ask malloc and realloc for
  Counts,       \* what they ask calloc for, pairs <<nmemb, size>>
  Alignments,   \* what they ask aligned_alloc for, pairs <<alignment, size>>
  MaxLive,      \* bound: allocations alive at a time
  None

VARIABLES
  free, held, req,  \* the page manager (PageStore)
  hdr,              \* header address -> [prev, size]
  blocks,           \* allocator_t.blocks: per class, the free blocks
  live,             \* what callers hold: [addr, need]
  pc,
  call,             \* the arguments of the call being served
  blk               \* the block it has found, or is freeing

Pm == INSTANCE PageStore WITH Grants <- Memories

pages == <<free, held, req>>
heap == <<hdr, blocks>>
vars == <<pages, heap, live, pc, call, blk>>

NULL == 0
Junk == -1                                  \* a word no header was written to
HEADER == 8                                 \* offsetof(block_t, list)
BLOCK_T == 16                               \* sizeof(block_t)
BLOCK_SIZE == 8                             \* sizeof(size_t) * 2
MAX_SIZE == PAGE_SIZE - BLOCK_SIZE * 2
ARR_LEN == MAX_SIZE \div BLOCK_SIZE
Class == 0..(ARR_LEN - 1)

ASSUME MemoryAssumption == \A m \in Memories : m \subseteq Nat \ {0}

ASSUME PageSizeAssumption ==
  PAGE_SIZE \in Nat /\ PAGE_SIZE % BLOCK_SIZE = 0 /\ PAGE_SIZE >= 4 * BLOCK_SIZE

ASSUME RequestAssumption ==
  /\ WORD \in Nat /\ WORD % 8 = 0 /\ WORD >= PAGE_SIZE
  /\ Sizes \subseteq 0..(WORD - 1)
  /\ Counts \subseteq (0..(WORD - 1)) \X (0..(WORD - 1))
  /\ Alignments \subseteq (1..(WORD - 1)) \X (0..(WORD - 1))

ASSUME NoneAssumption == None \notin Nat

-----------------------------------------------------------------------------
(* Sizes *)

AlignTo(val, alignment) == ((val + alignment - 1) \div alignment) * alignment

\* The level of the smallest block of pages that holds size bytes.  A level
\* above the manager's is refused like TOTAL_LEVEL.
GetPagePow(size) ==
  LET pageNum == AlignTo(size, PAGE_SIZE) \div PAGE_SIZE
  IN  Min({l \in Level : Width[l] >= pageNum} \cup {TOTAL_LEVEL})

\* Mutant: sizes are rounded down.
RoundedDown(size) ==
  IF size < BLOCK_SIZE THEN BLOCK_SIZE ELSE (size \div BLOCK_SIZE) * BLOCK_SIZE

Rounded(size) == IF size < BLOCK_SIZE THEN BLOCK_SIZE ELSE AlignTo(size, BLOCK_SIZE)
ClassOf(size) == size \div BLOCK_SIZE - 1

IsPowerOf2(n) == \E k \in 0..30 : n = 2 ^ k

\* What allocator_malloc is asked for
Asked ==
  Sizes \cup {(c[1] * c[2]) % WORD : c \in Counts}
    \cup {IF c[1] <= BLOCK_SIZE THEN c[2] ELSE (c[2] + c[1] - BLOCK_SIZE) % WORD :
            c \in {d \in Alignments : IsPowerOf2(d[1])}}

\* The requests that the code serves right.  A block and a rest of no bytes may
\* not fill a page (l.200), bit 2 of a big size is read as a flag (l.107), a
\* product or a sum may be cut to its width (that of getPagePow too), and
\* aligned_alloc overwrites the header of a block that is aligned already
\* (l.243), which a block of a page or more never is; nor may what it writes
\* for a refused block lie in a page.
ASSUME ServedAssumption ==
  /\ \A n \in Asked :
       /\ n <= MAX_SIZE => Rounded(n) # MAX_SIZE - BLOCK_SIZE
       /\ n > MAX_SIZE => n % 8 < 4 /\ n + 3 + BLOCK_T + PAGE_SIZE <= WORD
  /\ \A c \in Counts : c[1] * c[2] < WORD
  /\ \A c \in Alignments : IsPowerOf2(c[1]) /\ c[1] > BLOCK_SIZE =>
       /\ c[1] % PAGE_SIZE = 0 /\ c[1] + c[2] < WORD
       /\ \A m \in Memories : c[1] \div PAGE_SIZE - 1 \notin m

(* Headers: operators on the memory h, for the code writes several in turn *)

Put(h, a, prev, size) ==
  [x \in DOMAIN h \cup {a} |-> IF x = a THEN [prev |-> prev, size |-> size] ELSE h[x]]
Drop(h, S) == [x \in DOMAIN h \ S |-> h[x]]
Cap(h, b) == h[b].size - (h[b].size % 4)                       \* size & ~3
NextBlock(h, b) == b + HEADER + Cap(h, b)
IsUsed(h, b) == h[b].size % 2 = 1
IsBig(h, b) == (h[b].size \div 2) % 2 = 1
IsAlias(h, b) == (h[b].size \div 4) % 2 = 1
SetUsed(h, b) == [h EXCEPT ![b].size = @ - (@ % 2) + 1]        \* size |= 1

\* mergeBlock, of two used blocks
Merged(h, first) ==
  LET second == NextBlock(h, first)
      third == NextBlock(h, second)
  IN  Drop([h EXCEPT ![first].size = @ + h[second].size + HEADER - 1,
                     ![third].prev = first], {second})

\* Mutant: the block behind keeps pointing to the first.
SplitOffStale(h, first, size) ==
  LET third == NextBlock(h, first)
      second == first + HEADER + size
  IN  Put(Put(h, first, h[first].prev, size + 1),
          second, first, third - (second + HEADER) + 1)

\* splitBlock: the first block keeps size bytes
SplitOff(h, first, size) ==
  LET third == NextBlock(h, first)
      second == first + HEADER + size
  IN  Put(Put([h EXCEPT ![third].prev = second], first, h[first].prev, size + 1),
          second, first, third - (second + HEADER) + 1)

\* Mutant: the used bit stays.
MarkFreeStillUsed(h, b) ==
  /\ hdr' = h
  /\ blocks' = [blocks EXCEPT ![ClassOf(h[b].size)] = @ \cup {b}]

\* markFree: list_addFirst, and the bit of a used block is cleared
MarkFree(h, b) ==
  /\ hdr' = [h EXCEPT ![b].size = @ - (@ % 2)]
  /\ blocks' = [blocks EXCEPT ![ClassOf(h[b].size)] = @ \cup {b}]

\* Mutant: the block stays in its list.
UnlistNothing(b) == blocks

\* list_remove
Unlisted(b) == [c \in Class |-> blocks[c] \ {b}]

PageOf(b) == <<0, b \div PAGE_SIZE>>
Address(b) == Start(b) * PAGE_SIZE

-----------------------------------------------------------------------------
Idle == [op |-> "none", need |-> 0, size |-> 0, old |-> NULL, align |-> 0]

\* allocator_create has asked the manager for a page.
Init ==
  /\ free \in Memories /\ held = {}
  /\ req = GetPagePow(4 + ARR_LEN * 8)
  /\ hdr = [a \in {} |-> NULL]
  /\ blocks = [c \in Class |-> {}]
  /\ live = {}
  /\ pc = "create"
  /\ call = Idle
  /\ blk = None

Create ==
  /\ pc = "create"
  /\ \E b \in Pm!Available(req) : Pm!Grant(b)
  /\ pc' = "idle"
  /\ UNCHANGED <<heap, live, call, blk>>

\* assert(allocator)
CreateFails ==
  /\ pc = "create"
  /\ Pm!Refuse
  /\ pc' = "halted"
  /\ UNCHANGED <<heap, live, call, blk>>

(* Calls *)

Called(c) ==
  /\ pc = "idle" /\ Cardinality(live) < MaxLive
  /\ call' = c
  /\ pc' = "malloc"
  /\ UNCHANGED <<pages, heap, live, blk>>

MallocCall(n) ==
  Called([Idle EXCEPT !.op = "malloc", !.need = n, !.size = n])

\* nmemb * size is a size_t
CallocCall(c) ==
  Called([Idle EXCEPT !.op = "malloc", !.need = c[1] * c[2], !.size = (c[1] * c[2]) % WORD])

\* The old size is read, for the length of the copy.
ReallocCall(p, n) ==
  Called([Idle EXCEPT !.op = "realloc", !.need = n, !.size = n, !.old = p.addr])

\* An alignment that is no power of 2 is answered with NULL.
AlignedCall(c) ==
  \/ /\ IsPowerOf2(c[1]) /\ c[1] <= BLOCK_SIZE
     /\ MallocCall(c[2])
  \/ /\ IsPowerOf2(c[1]) /\ c[1] > BLOCK_SIZE
     /\ Called([Idle EXCEPT !.op = "aligned", !.need = c[2], !.align = c[1],
                            !.size = (c[2] + c[1] - BLOCK_SIZE) % WORD])
  \/ /\ ~IsPowerOf2(c[1])
     /\ pc = "idle"
     /\ blk' = None /\ pc' = "return"
     /\ UNCHANGED <<pages, heap, live, call>>

FreeCall(p) ==
  /\ pc = "idle"
  /\ live' = live \ {p}
  /\ blk' = p.addr - HEADER
  /\ pc' = "free"
  /\ UNCHANGED <<pages, heap, call>>

(* allocator_malloc *)

Found(b) == blk' = b /\ pc' = "return" /\ UNCHANGED <<live, call>>

Small == pc = "malloc" /\ call.size <= MAX_SIZE
Wanted == Rounded(call.size)
Id == ClassOf(Wanted)

MallocBig ==
  /\ pc = "malloc" /\ call.size > MAX_SIZE
  /\ Pm!Request(GetPagePow(BLOCK_T + call.size))
  /\ pc' = "big"
  /\ UNCHANGED <<heap, live, call, blk>>

\* size | 3: the header's other word is what the page happens to hold
BigHeader(b) == Put(hdr, b, Junk, call.size - (call.size % 4) + 3)

BigGrant ==
  /\ pc = "big"
  /\ \E b \in Pm!Available(req) :
       /\ Pm!Grant(b)
       /\ hdr' = BigHeader(Address(b))
       /\ Found(Address(b))
  /\ UNCHANGED blocks

\* The answer is used unseen: the header goes to address 0.
BigRefuse ==
  /\ pc = "big"
  /\ Pm!Refuse
  /\ hdr' = BigHeader(NULL)
  /\ Found(NULL)
  /\ UNCHANGED blocks

Take(c) ==
  \E b \in blocks[c] :
    /\ hdr' = SetUsed(hdr, b)
    /\ blocks' = Unlisted(b)
    /\ Found(b)
    /\ UNCHANGED pages

MallocExact == Small /\ Take(Id)

\* The next class is taken whole.
MallocUpgrade ==
  /\ Small /\ blocks[Id] = {}
  /\ Id + 1 \in Class
  /\ Take(Id + 1)

\* For the largest class, the next is past the end of the array.
MallocOverrun ==
  /\ Small /\ blocks[Id] = {}
  /\ Id + 1 \notin Class
  /\ pc' = "wild"
  /\ UNCHANGED <<pages, heap, live, call, blk>>

Larger == {c \in Class : c >= Id + 2 /\ blocks[c] # {}}

MallocSplit ==
  /\ Small /\ Id + 1 \in Class /\ blocks[Id] = {} /\ blocks[Id + 1] = {}
  /\ Larger # {}
  /\ \E b \in blocks[Min(Larger)] :
       LET h == SplitOff(SetUsed(hdr, b), b, Wanted)
           rest == b + HEADER + Wanted
       IN  /\ hdr' = [h EXCEPT ![rest].size = @ - (@ % 2)]
           /\ blocks' = [Unlisted(b) EXCEPT ![ClassOf(h[rest].size)] = @ \cup {rest}]
           /\ Found(b)
  /\ UNCHANGED pages

MallocPage ==
  /\ Small /\ Id + 1 \in Class /\ blocks[Id] = {} /\ blocks[Id + 1] = {}
  /\ Larger = {}
  /\ Pm!Request(0)
  /\ pc' = "page"
  /\ UNCHANGED <<heap, live, call, blk>>

\* A fresh page holds the block, the rest and the protector at the end.
RestSize == PAGE_SIZE - (Wanted + HEADER + HEADER) - HEADER

Fresh(page) ==
  LET rest == page + HEADER + Wanted
      end == rest + HEADER + RestSize
  IN  Put(Put(Put(hdr, page, NULL, Wanted + 1), rest, page, RestSize), end, rest, 1)

PageGrant ==
  /\ pc = "page"
  /\ \E b \in Pm!Available(req) :
       /\ Pm!Grant(b)
       /\ MarkFree(Fresh(Address(b)), Address(b) + HEADER + Wanted)
       /\ IF ClassOf(RestSize) \in Class
            THEN Found(Address(b))
            ELSE pc' = "wild" /\ UNCHANGED <<live, call, blk>>

\* Mutant: ask again until there is a page.
PageRefuseRetries ==
  /\ pc = "page"
  /\ Pm!Refuse
  /\ pc' = "malloc"
  /\ UNCHANGED <<heap, live, call, blk>>

PageRefuse ==
  /\ pc = "page"
  /\ Pm!Refuse
  /\ Found(None)
  /\ UNCHANGED heap

(* What the caller's function does with the answer *)

\* assert(ret): NULL stops the machine.
ReturnNull ==
  /\ pc = "return" /\ blk = None
  /\ pc' = "halted"
  /\ UNCHANGED <<pages, heap, live, call, blk>>

Answer(addr) ==
  /\ live' = live \cup {[addr |-> addr, need |-> call.need]}
  /\ call' = Idle /\ blk' = None
  /\ pc' = "idle"

ReturnPointer ==
  /\ pc = "return" /\ blk # None /\ call.op = "malloc"
  /\ Answer(blk + HEADER)
  /\ UNCHANGED <<pages, heap>>

\* Mutant: aligned downwards.
AlignedRetBelow == ((blk + HEADER) \div call.align) * call.align

AlignedRet == AlignTo(blk + HEADER, call.align)

ReturnAligned ==
  /\ pc = "return" /\ blk # None /\ call.op = "aligned"
  /\ hdr' = Put(hdr, AlignedRet - HEADER, blk, 4)
  /\ Answer(AlignedRet)
  /\ UNCHANGED <<pages, blocks>>

\* Mutant: the old block is never freed.
ReturnReallocLeaks ==
  /\ pc = "return" /\ blk # None /\ call.op = "realloc"
  /\ live' = {p \in live : p.addr # call.old}
               \cup {[addr |-> blk + HEADER, need |-> call.need]}
  /\ blk' = None
  /\ call' = Idle
  /\ pc' = "idle"
  /\ UNCHANGED <<pages, heap>>

\* The block is copied, and the old one goes to allocator_free.
ReturnRealloc ==
  /\ pc = "return" /\ blk # None /\ call.op = "realloc"
  /\ live' = {p \in live : p.addr # call.old}
               \cup {[addr |-> blk + HEADER, need |-> call.need]}
  /\ blk' = call.old - HEADER
  /\ call' = Idle
  /\ pc' = "free"
  /\ UNCHANGED <<pages, heap>>

(* allocator_free: "free" is its entry, "frame" the place where it has found
   the block *)

Enter ==
  /\ pc = "free" /\ ~IsAlias(hdr, blk)
  /\ pc' = "frame"
  /\ UNCHANGED <<pages, heap, live, call, blk>>

\* The alias is forgotten, unless it has taken the place of the block's header
\* or belongs to all the blocks that were refused.
EnterAlias ==
  /\ pc = "free" /\ IsAlias(hdr, blk)
  /\ LET real == hdr[blk].prev
     IN  /\ blk' = real
         /\ hdr' = IF real \in {blk, NULL} THEN hdr ELSE Drop(hdr, {blk})
         /\ pc' = IF real \in DOMAIN hdr THEN "frame" ELSE "wild"
  /\ UNCHANGED <<pages, blocks, live, call>>

Freed == pc' = "idle" /\ blk' = None /\ UNCHANGED <<live, call>>

\* Mutant: the header's own bytes are forgotten.
BigBlocksShort ==
  {b \in held : b[1] = GetPagePow(hdr[blk].size) /\ Address(b) = blk}

\* The blocks of pages that pageman_free is told to take back: one, if the
\* allocator holds a block of that size there.
BigBlocks ==
  {b \in held : b[1] = GetPagePow(BLOCK_T + hdr[blk].size) /\ Address(b) = blk}

FreeBig ==
  /\ pc = "frame" /\ IsBig(hdr, blk)
  /\ \E b \in BigBlocks : Pm!Release(b)
  /\ hdr' = Drop(hdr, {blk})
  /\ Freed
  /\ UNCHANGED blocks

prev == hdr[blk].prev
next == NextBlock(hdr, blk)

\* The neighbours that the code reads, and writes when it merges, are headers.
Chained ==
  /\ next \in DOMAIN hdr /\ prev \in DOMAIN hdr \cup {NULL}
  /\ ~IsUsed(hdr, next) => NextBlock(hdr, next) \in DOMAIN hdr

Frame == pc = "frame" /\ ~IsBig(hdr, blk) /\ Chained
\* Mutant: the protector is looked for by a size of 0.
LastOfPageZero == prev = NULL /\ hdr[next].size = 0

LastOfPage == prev = NULL /\ hdr[next].size = 1
PrevFree == prev # NULL /\ ~IsUsed(hdr, prev)

\* The code takes what lies there for a header, or has the manager take back
\* pages that are not the allocator's.
Astray == IF IsBig(hdr, blk) THEN BigBlocks = {} ELSE ~Chained

FreeWild ==
  /\ pc = "frame" /\ Astray
  /\ pc' = "wild"
  /\ UNCHANGED <<pages, heap, live, call, blk>>

FreePage ==
  /\ Frame /\ LastOfPage
  /\ Pm!Release(PageOf(blk))
  /\ hdr' = Drop(hdr, {blk, next})
  /\ Freed
  /\ UNCHANGED blocks

MergePrev ==
  /\ Frame /\ ~LastOfPage /\ PrevFree
  /\ hdr' = Merged(SetUsed(hdr, prev), prev)
  /\ blocks' = Unlisted(prev)
  /\ blk' = prev
  /\ pc' = "free"
  /\ UNCHANGED <<pages, live, call>>

MergeNext ==
  /\ Frame /\ ~LastOfPage /\ ~PrevFree /\ ~IsUsed(hdr, next)
  /\ hdr' = Merged(SetUsed(hdr, next), blk)
  /\ blocks' = Unlisted(next)
  /\ pc' = "free"
  /\ UNCHANGED <<pages, live, call, blk>>

\* Mutant: the next block is not looked at.
FreeBlockEarly ==
  /\ Frame /\ ~LastOfPage /\ ~PrevFree
  /\ MarkFree(hdr, blk)
  /\ Freed
  /\ UNCHANGED pages

FreeBlock ==
  /\ Frame /\ ~LastOfPage /\ ~PrevFree /\ IsUsed(hdr, next)
  /\ MarkFree(hdr, blk)
  /\ Freed
  /\ UNCHANGED pages

-----------------------------------------------------------------------------
CreateStep == Create \/ CreateFails
MallocStep ==
  \/ MallocBig \/ BigGrant \/ BigRefuse
  \/ MallocExact \/ MallocUpgrade \/ MallocOverrun \/ MallocSplit
  \/ MallocPage \/ PageGrant \/ PageRefuse
ReturnStep == ReturnNull \/ ReturnPointer \/ ReturnAligned \/ ReturnRealloc
FreeStep ==
  \/ Enter \/ EnterAlias \/ FreeBig \/ FreeWild
  \/ FreePage \/ MergePrev \/ MergeNext \/ FreeBlock

Next ==
  \/ \E n \in Sizes : MallocCall(n)
  \/ \E c \in Counts : CallocCall(c)
  \/ \E p \in live, n \in Sizes : ReallocCall(p, n)
  \/ \E c \in Alignments : AlignedCall(c)
  \/ \E p \in live : FreeCall(p)
  \/ CreateStep \/ MallocStep \/ ReturnStep \/ FreeStep

Spec == Init /\ [][Next]_vars

\* A call that was made runs on: the boot loader has one thread.
FairSpec == Spec /\ WF_vars(CreateStep \/ MallocStep \/ ReturnStep \/ FreeStep)

-----------------------------------------------------------------------------
(* Properties.  Small blocks are those of the pages that fresh pages were cut
   into; the header of a big block starts a block of pages, the header that
   aligned_alloc fakes lies inside another block, the protector ends a page. *)

Plain == {h \in DOMAIN hdr : ~IsBig(hdr, h) /\ ~IsAlias(hdr, h)}
Protector(h) == (h + HEADER) % PAGE_SIZE = 0
SmallBlocks == {h \in Plain : ~Protector(h)}

Owned(a) == \E b \in held : a \div PAGE_SIZE \in Pages(b)

TypeOK ==
  /\ Pm!TypeOK
  /\ \A h \in DOMAIN hdr : h % BLOCK_SIZE = 0 /\ hdr[h].size \in 0..(WORD - 1)
  /\ blocks \in [Class -> SUBSET DOMAIN hdr]
  /\ \A p \in live : p.addr - HEADER \in DOMAIN hdr /\ p.need \in Nat
  /\ pc \in {"create", "idle", "malloc", "big", "page", "return", "free", "frame",
             "wild", "halted"}

\* What a caller was given lies in pages the manager handed out, apart from
\* what every other caller was given and from every header, as long as no big
\* request was refused.
LiveApart ==
  NULL \in DOMAIN hdr \/
  \A p \in live :
    /\ \A a \in p.addr .. (p.addr + p.need - 1) : Owned(a)
    /\ \A q \in live : p # q =>
         p.addr + p.need <= q.addr \/ q.addr + q.need <= p.addr
    /\ \A h \in DOMAIN hdr : p.addr + p.need <= h \/ h + HEADER <= p.addr

\* The blocks of a page tile it: each one's end is a header that points back
\* to it, from the page's start, where prev is NULL, to its protector.
Tiled ==
  /\ \A h \in SmallBlocks :
       /\ Cap(hdr, h) >= BLOCK_SIZE
       /\ NextBlock(hdr, h) \in Plain
       /\ hdr[NextBlock(hdr, h)].prev = h
       /\ hdr[h].prev = NULL <=> h % PAGE_SIZE = 0
  /\ \A h \in Plain : hdr[h].prev # NULL =>
       hdr[h].prev \in SmallBlocks /\ NextBlock(hdr, hdr[h].prev) = h
  /\ \A h \in Plain : Protector(h) => hdr[h].size = 1

\* The lists hold the free blocks, each in the class of its size.
FreeListed ==
  \A h \in SmallBlocks, c \in Class :
    h \in blocks[c] <=> ~IsUsed(hdr, h) /\ ClassOf(hdr[h].size) = c

\* The memory is well formed at every step of every call.
Intact == TypeOK /\ Tiled /\ FreeListed

\* Between calls no two free blocks are neighbours, and no page lies whole
\* and free in the lists: what could go back to the manager went back.
Compact ==
  pc = "idle" => \A h \in SmallBlocks : ~IsUsed(hdr, h) =>
    /\ hdr[NextBlock(hdr, h)].size # 1 \/ hdr[h].prev # NULL
    /\ IsUsed(hdr, NextBlock(hdr, h))

\* Between calls every used block is some caller's, and every page the
\* allocator holds, its own first one aside, has such a block.
NothingLeaks ==
  pc = "idle" /\ NULL \notin DOMAIN hdr =>
    /\ \A h \in SmallBlocks : IsUsed(hdr, h) =>
         \E p \in live : h + HEADER <= p.addr /\ p.addr < NextBlock(hdr, h)
    /\ Cardinality({b \in held : \E p \in live : p.addr \div PAGE_SIZE \in Pages(b)})
         = Cardinality(held) - 1

\* free never takes for a header what is none, and never gives pages back that
\* are not the allocator's, unless it is called with what malloc returned when
\* the page manager refused a big block.
NeverAstray ==
  [][pc' = "wild" /\ pc \in {"free", "frame"} => blk = NULL]_vars

\* "PAGE_SIZE<<size is spare" (pageman_free): the pages that free gives back
\* for a big block are those that malloc got for it.
BigFreedWhole == pc = "frame" /\ IsBig(hdr, blk) => BigBlocks # {}

\* Every call returns.
CallReturns == pc \notin {"idle", "halted"} ~> pc \in {"idle", "halted"}

=============================================================================
