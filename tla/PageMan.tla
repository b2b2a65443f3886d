------------------------------ MODULE PageMan ------------------------------
(***************************************************************************)
(* libs/mem-alloc/pageman.c: the buddy allocator that owns the machine's   *)
(* memory.  The code recurses (pageman_free frees the merged super block,  *)
(* pageman_alloc asks for a super block and slices it); here every call    *)
(* frame is a step, pc is the place in the code and resume the place a     *)
(* pageman_free returns to.  Addresses are counted from the manager's base *)
(* (bootmgr/main.c passes NULL), the linked lists are sets: the code takes *)
(* their first element, the model any, so what is shown does not depend on *)
(* the order of the lists.                                                 *)
(***************************************************************************)
EXTENDS BuddyBlocks, FiniteSetsExt

CONSTANTS
  PAGE_SIZE,    \* bytes of a page
  Limit,        \* pages the bitmaps must cover (pageman_create's limit)
  FirstAval,    \* address of the first memory given to the manager, in bytes
  FirstSize,    \* its size, in pages
  Regions,      \* the later calls of pageman_freeBlock: [addr, size] in bytes
  None          \* NULL, and "no block"

VARIABLES
  lists,        \* per level below TOTAL_LEVEL, indices of the listed blocks
  bitmaps,      \* per level, the offsets whose bit is set
  spare,        \* pageman_t.spare, in pages
  held,         \* blocks that callers got and have not given back
  donated,      \* regions handed to the manager so far
  pc, resume,   \* control
  drop,         \* the block pageman_free is called with
  hand,         \* the block pageman_alloc is bringing down to its caller
  want,         \* the level a caller asked for, or None
  at,           \* pageman_alloc's level of search; pageman_freeBlock's i
  off, rem      \* pageman_freeBlock's off and size, in pages

mem == <<lists, bitmaps, spare>>
loop == <<off, rem>>
vars == <<lists, bitmaps, spare, held, donated, pc, resume, drop, hand, want,
          at, off, rem>>

-----------------------------------------------------------------------------
(* Sizes: how much of the first memory the manager keeps for itself.       *)

AlignTo(val, alignment) == ((val + alignment - 1) \div alignment) * alignment

\* Mutant: the index of the last bit, not plus one.
LevelBytesShort(l) == AlignTo((Limit - 1) \div (2 * Width[l]), 8) \div 8

\* Bytes of the bitmap of level l: its last bit is that of the last page.
LevelBytes(l) == AlignTo((Limit - 1) \div (2 * Width[l]) + 1, 8) \div 8

\* sizeof(pageman_t) on the 32-bit target: bitmaps, lists and three words
SizeofPageman == TOTAL_LEVEL * 4 + TOTAL_LEVEL * 8 + 12

PageCost ==
  AlignTo(SizeofPageman + MapThenSumSet(LevelBytes, 0..(TOTAL_LEVEL - 1)),
          PAGE_SIZE) \div PAGE_SIZE

First == [addr |-> FirstAval + PageCost * PAGE_SIZE,
          size |-> (FirstSize - PageCost) * PAGE_SIZE]

AllRegions == Regions \cup {First}

\* pageman_freeBlock aligns the address up and the size down.
FirstPage(r) == AlignTo(r.addr, PAGE_SIZE) \div PAGE_SIZE
NumPages(r) == r.size \div PAGE_SIZE
RegionPages(r) == FirstPage(r) .. (FirstPage(r) + NumPages(r) - 1)

ASSUME SizeAssumption ==
  /\ PAGE_SIZE \in Nat \ {0}
  /\ Limit \in Nat
  /\ FirstAval \in Nat /\ FirstSize \in Nat
  /\ Regions \subseteq [addr : Nat, size : Nat]
  /\ None \notin Nat /\ None \notin Block

\* assert(pageCost <= firstSize)
ASSUME FirstSizeAssumption == PageCost \in Nat /\ PageCost <= FirstSize

\* The memory map lists no page twice.
ASSUME RegionAssumption ==
  \A r, s \in AllRegions : r # s => RegionPages(r) \cap RegionPages(s) = {}

-----------------------------------------------------------------------------
BlocksIn(f) == UNION {{l} \X f[l] : l \in 0..(TOTAL_LEVEL - 1)}
Listed == BlocksIn(lists)
Carried == {drop, hand} \ {None}
Blocks == Listed \cup held \cup Carried
Rest == off .. (off + rem - 1)
\* bitmap_switch
Switch(b) ==
  bitmaps' = [bitmaps EXCEPT ![b[1]] =
                IF Offset(b) \in @ THEN @ \ {Offset(b)} ELSE @ \cup {Offset(b)}]

Unlist(b) ==
  /\ lists' = [lists EXCEPT ![b[1]] = @ \ {b[2]}]
  /\ spare' = spare - Width[b[1]]

-----------------------------------------------------------------------------
(* pageman_create leaves its own structure at the front of the first       *)
(* memory and calls pageman_freeBlock on what follows.                     *)
Init ==
  /\ lists = [l \in 0..(TOTAL_LEVEL - 1) |-> {}]
  /\ bitmaps = [l \in 0..(TOTAL_LEVEL - 1) |-> {}]
  /\ spare = 0
  /\ held = {}
  /\ donated = {First}
  /\ pc = "up" /\ resume = "idle"
  /\ drop = None /\ hand = None /\ want = None
  /\ at = 0
  /\ off = FirstPage(First) /\ rem = NumPages(First)

(* pageman_freeBlock *)

FreeBlockCall(r) ==
  /\ pc = "idle" /\ r \notin donated
  /\ donated' = donated \cup {r}
  /\ off' = FirstPage(r) /\ rem' = NumPages(r)
  /\ at' = 0 /\ pc' = "up"
  /\ UNCHANGED <<mem, held, resume, drop, hand, want>>

\* Mutant: off stays behind.
FreeSliceInPlace(back) ==
  /\ drop' = <<at, off \div Width[at]>>
  /\ rem' = rem - Width[at]
  /\ pc' = "free" /\ resume' = back
  /\ UNCHANGED <<mem, held, donated, hand, want, off>>

\* pageman_free(base + off, at), then off and size move past the block.
FreeSlice(back) ==
  /\ drop' = <<at, off \div Width[at]>>
  /\ off' = off + Width[at] /\ rem' = rem - Width[at]
  /\ pc' = "free" /\ resume' = back
  /\ UNCHANGED <<mem, held, donated, hand, want>>

\* Mutants: one of the two conditions is forgotten.
UpFitsAnySize == (off \div Width[at]) % 2 = 1
UpFitsUnaligned == rem >= Width[at]

\* The address has the bit of this size, and the memory reaches that far.
UpFits == (off \div Width[at]) % 2 = 1 /\ rem >= Width[at]

UpFree ==
  /\ pc = "up" /\ at <= TOTAL_LEVEL /\ UpFits
  /\ at' = at + 1
  /\ FreeSlice("up")

UpSkip ==
  /\ pc = "up" /\ at <= TOTAL_LEVEL /\ ~UpFits
  /\ at' = at + 1
  /\ UNCHANGED <<mem, held, donated, pc, resume, drop, hand, want, loop>>

UpDone ==
  /\ pc = "up" /\ at > TOTAL_LEVEL
  /\ pc' = "huge"
  /\ UNCHANGED <<mem, held, donated, resume, drop, hand, want, at, loop>>

\* The loop variable is one past the last list pointer the structure could
\* overlay: list_addFirst writes into the bitmaps.  Nothing is known after.
HugeFree ==
  /\ pc = "huge" /\ rem >= Width[TOTAL_LEVEL]
  /\ pc' = "wild"
  /\ UNCHANGED <<mem, held, donated, resume, drop, hand, want, at, loop>>

HugeDone ==
  /\ pc = "huge" /\ rem < Width[TOTAL_LEVEL]
  /\ pc' = "down" /\ at' = TOTAL_LEVEL - 1
  /\ UNCHANGED <<mem, held, donated, resume, drop, hand, want, loop>>

DownFree ==
  /\ pc = "down" /\ at >= 0 /\ rem >= Width[at]
  /\ at' = at - 1
  /\ FreeSlice("down")

DownSkip ==
  /\ pc = "down" /\ at >= 0 /\ rem < Width[at]
  /\ at' = at - 1
  /\ UNCHANGED <<mem, held, donated, pc, resume, drop, hand, want, loop>>

DownDone ==
  /\ pc = "down" /\ at < 0
  /\ pc' = "idle" /\ at' = 0 /\ off' = 0
  /\ UNCHANGED <<mem, held, donated, resume, drop, hand, want, rem>>

(* pageman_free *)

\* A caller gives back a block it got, with the level it asked for.
FreeCall(b) ==
  /\ pc = "idle" /\ b \in held
  /\ held' = held \ {b}
  /\ drop' = b
  /\ pc' = "free" /\ resume' = "idle"
  /\ UNCHANGED <<mem, donated, hand, want, at, loop>>

\* Mutant: the largest blocks do not merge, as if size + 1 had to be listed.
BuddyIsFreeShort ==
  drop[1] < TOTAL_LEVEL - 1 /\ Offset(drop) \in bitmaps[drop[1]]

\* bitmap_switch finds the bit set: the buddy is listed, so take it off its
\* list and free the two as one.
BuddyIsFree == drop[1] < TOTAL_LEVEL /\ Offset(drop) \in bitmaps[drop[1]]

Merge ==
  /\ pc = "free" /\ BuddyIsFree
  /\ Switch(drop)
  /\ Unlist(Buddy(drop))
  /\ drop' = Super(drop)
  /\ UNCHANGED <<held, donated, pc, resume, hand, want, at, loop>>

Insert ==
  /\ pc = "free" /\ drop[1] < TOTAL_LEVEL /\ ~BuddyIsFree
  /\ Switch(drop)
  /\ lists' = [lists EXCEPT ![drop[1]] = @ \cup {drop[2]}]
  /\ spare' = spare + Width[drop[1]]
  /\ drop' = None
  /\ pc' = resume /\ resume' = "idle"
  /\ UNCHANGED <<held, donated, hand, want, at, loop>>

\* A block of level TOTAL_LEVEL has no list: lists + TOTAL_LEVEL lies over
\* base and limit, and list_addFirst stores through the number of pages as if
\* it were a pointer, then puts the block's address in its place.
InsertPastLists ==
  /\ pc = "free" /\ drop[1] >= TOTAL_LEVEL
  /\ pc' = "wild"
  /\ UNCHANGED <<mem, held, donated, resume, drop, hand, want, at, loop>>

(* pageman_alloc *)

AllocCall(size) ==
  /\ pc = "idle"
  /\ want' = size /\ at' = size
  /\ pc' = "search"
  /\ UNCHANGED <<mem, held, donated, resume, drop, hand, loop>>

\* Mutant: the same level is asked again.
SearchSame ==
  /\ pc = "search" /\ at < TOTAL_LEVEL /\ lists[at] = {}
  /\ UNCHANGED vars

SearchUp ==
  /\ pc = "search" /\ at < TOTAL_LEVEL /\ lists[at] = {}
  /\ at' = at + 1
  /\ UNCHANGED <<mem, held, donated, pc, resume, drop, hand, want, loop>>

\* Mutant: the last level is never asked.
SearchFailEarly ==
  /\ pc = "search" /\ at >= TOTAL_LEVEL - 1
  /\ want' = None /\ at' = 0
  /\ pc' = "idle"
  /\ UNCHANGED <<mem, held, donated, resume, drop, hand, loop>>

\* NULL travels down the whole recursion.
SearchFail ==
  /\ pc = "search" /\ at >= TOTAL_LEVEL
  /\ want' = None /\ at' = 0
  /\ pc' = "idle"
  /\ UNCHANGED <<mem, held, donated, resume, drop, hand, loop>>

TakeFirst ==
  /\ pc = "search" /\ at < TOTAL_LEVEL
  /\ \E i \in lists[at] :
       /\ hand' = <<at, i>>
       /\ Unlist(<<at, i>>)
       /\ Switch(<<at, i>>)
  /\ pc' = "unwind"
  /\ UNCHANGED <<held, donated, resume, drop, want, at, loop>>

\* One frame returns to the next lower level, which keeps the lower half
\* and frees the upper one.
Slice ==
  /\ pc = "unwind" /\ hand[1] > want
  /\ hand' = <<hand[1] - 1, 2 * hand[2]>>
  /\ drop' = Buddy(hand')
  /\ pc' = "free" /\ resume' = "unwind"
  /\ UNCHANGED <<mem, held, donated, want, at, loop>>

AllocReturn ==
  /\ pc = "unwind" /\ hand[1] = want
  /\ held' = held \cup {hand}
  /\ hand' = None /\ want' = None /\ at' = 0
  /\ pc' = "idle"
  /\ UNCHANGED <<mem, donated, resume, drop, loop>>

-----------------------------------------------------------------------------
FreeBlockStep ==
  UpFree \/ UpSkip \/ UpDone \/ HugeFree \/ HugeDone \/ DownFree \/ DownSkip \/ DownDone
FreeStep == Merge \/ Insert \/ InsertPastLists
AllocStep == SearchUp \/ SearchFail \/ TakeFirst \/ Slice \/ AllocReturn

Next ==
  \/ \E r \in Regions : FreeBlockCall(r)
  \/ \E b \in held : FreeCall(b)
  \/ \E size \in Level : AllocCall(size)
  \/ FreeBlockStep
  \/ FreeStep
  \/ AllocStep

Spec == Init /\ [][Next]_vars

\* A call that was made runs on: the boot loader has one thread.
FairSpec == Spec /\ WF_vars(FreeBlockStep \/ FreeStep \/ AllocStep)

-----------------------------------------------------------------------------
(* Properties *)

\* Every variable keeps its range, and control its shape.
TypeOK ==
  /\ lists \in [0..(TOTAL_LEVEL - 1) -> SUBSET Nat]
  /\ bitmaps \in [0..(TOTAL_LEVEL - 1) -> SUBSET Nat]
  /\ spare \in Int
  /\ held \subseteq Block
  /\ donated \subseteq AllRegions
  /\ pc \in {"idle", "up", "huge", "down", "free", "search", "unwind", "wild"}
  /\ resume \in {"idle", "up", "down", "unwind"}
  /\ drop \in Block \cup {None}
  /\ hand \in Block \cup {None}
  /\ want \in Level \cup {None}
  /\ at \in -1..(TOTAL_LEVEL + 1)
  /\ off \in Nat /\ rem \in Nat

\* The one bit two buddies share is set exactly while one of them, and not
\* both, is listed: the only thing pageman_free knows of a buddy.
BitmapMatchesLists ==
  \A l \in 0..(TOTAL_LEVEL - 1) :
    \A o \in bitmaps[l] \cup {i \div 2 : i \in lists[l]} :
      (o \in bitmaps[l]) <=> ~((2 * o \in lists[l]) <=> (2 * o + 1 \in lists[l]))

\* No two blocks that are listed, held by callers or on their way between
\* the two share a page.
NoOverlap ==
  /\ \A b, c \in Blocks : b # c => Pages(b) \cap Pages(c) = {}
  /\ PagesOf(Blocks) \cap Rest = {}
  /\ Listed \cap held = {} /\ Carried \cap (Listed \cup held) = {}
  /\ drop # None => drop # hand

\* Two listed buddies never stay apart: what could be one block is one.
Coalesced ==
  \A b \in Listed : Buddy(b) \notin Listed

\* pageman_spare is the number of listed pages, in every state of a call.
SpareCounts == spare = Cardinality(PagesOf(Listed))

\* Between calls, every page ever given to the manager is listed or held.
NothingLost ==
  pc = "idle" =>
    PagesOf(Listed) \cup PagesOf(held) = UNION {RegionPages(r) : r \in donated}

\* No bit outside the bytes pageman_create set aside for a level is touched.
BitmapInBounds ==
  \A l \in 0..(TOTAL_LEVEL - 1) : \A o \in bitmaps[l] : o < 8 * LevelBytes(l)

\* The pageman_free that pageman_alloc calls on the upper half of a sliced
\* block never merges: it would take back the block being handed out.
SliceNeverMerges ==
  pc = "free" /\ resume = "unwind" => ~BuddyIsFree

\* The pages that were donated and that no caller holds, and the whole blocks
\* of level TOTAL_LEVEL among them (a gigabyte each, where a page has 4096
\* bytes).
FreePages == (UNION {RegionPages(r) : r \in donated}) \ PagesOf(held)
WholeTops ==
  {i \in {p \div Width[TOTAL_LEVEL] : p \in FreePages} :
     Pages(<<TOTAL_LEVEL, i>>) \subseteq FreePages}

\* The manager writes outside its structure exactly when a whole aligned
\* block of level TOTAL_LEVEL is free, however it came to be (by merging over
\* regions and recursive calls, or inside one region): a stray write implies
\* that there is one, and no call that returned left one.
AstrayAtTop ==
  /\ pc = "wild" => WholeTops # {}
  /\ pc = "idle" => WholeTops = {}

(* The strengthening that makes the safety properties inductive.           *)

\* What each control point knows of the locals that are live there.
Control ==
  /\ pc = "free" => drop # None
  /\ drop # None => pc \in {"free", "wild"}
  /\ (hand # None) <=> (pc = "unwind" \/ resume = "unwind")
  /\ resume # "idle" => pc \in {"free", "wild"}
  /\ (want # None) <=> (pc \in {"search", "unwind"} \/ resume = "unwind")
  /\ want # None \/ pc = "idle" \/ (pc = "free" /\ resume = "idle") => rem = 0
  /\ hand # None => want <= hand[1] /\ hand[1] < TOTAL_LEVEL
  /\ pc = "search" => /\ want <= at /\ at <= TOTAL_LEVEL
                      /\ \A l \in want..(at - 1) : lists[l] = {}

Aligned(l) == off % Width[l] = 0

\* The loops of pageman_freeBlock: off is aligned to every size that still
\* fits into rem, first for the sizes from at upwards, then for all.
Loops ==
  /\ pc = "up" \/ resume = "up" =>
       /\ at >= 0
       /\ \E l \in Level : Aligned(l) /\ (rem < Width[l] \/ l >= at \/ l = TOTAL_LEVEL)
  /\ pc = "huge" => \E l \in Level : Aligned(l) /\ (rem < Width[l] \/ l = TOTAL_LEVEL)
  /\ pc = "down" \/ resume = "down" =>
       /\ at < TOTAL_LEVEL /\ rem < Width[at + 1]
       /\ \E l \in Level : Aligned(l) /\ rem < Width[l]

\* At every moment the memory donated is what is listed, held, on its way
\* between the two, or still in pageman_freeBlock's hands.
Conserved ==
  PagesOf(Blocks) \cup Rest = UNION {RegionPages(r) : r \in donated}

\* What pageman_alloc frees while it unwinds is the buddy of what it keeps.
Slicing == resume = "unwind" => drop = Buddy(hand)

IInv ==
  /\ TypeOK /\ Control /\ Loops /\ Slicing
  /\ NoOverlap /\ Conserved
  /\ BitmapMatchesLists /\ Coalesced
  /\ SpareCounts

\* Every call returns.
CallReturns == pc # "idle" ~> pc = "idle"

\* Refinement: what pageman.c does is what PageStore promises.
Store == INSTANCE PageStore WITH
  Grants <- {RegionPages(r) : r \in AllRegions},
  free   <- PagesOf(Listed \cup Carried) \cup Rest,
  req    <- want

Implements == Store!Spec

\* Every page has its bit in the bitmaps: main, which counts the pages below
\* the last 32-bit address, may count one too few, and then an odd number
\* (ManagerCovered in Boot).
RegionsCovered ==
  \A r \in AllRegions : \A p \in RegionPages(r) : p \div 2 <= (Limit - 1) \div 2
=============================================================================
