--------------------------- MODULE PageManProofs ---------------------------
(***************************************************************************)
(* PageMan keeps its invariant and implements PageStore, for every memory  *)
(* map, every number of levels and every page size.                        *)
(***************************************************************************)
EXTENDS PageMan, BuddyProofs

-----------------------------------------------------------------------------
(* Constants *)

\* Every region that reaches the manager is a run of pages.
LEMMA RegionType ==
  ASSUME NEW r \in AllRegions
  PROVE  FirstPage(r) \in Nat /\ NumPages(r) \in Nat
<1>1. r.addr \in Nat /\ r.size \in Nat
  <2>1. CASE r \in Regions
    BY <2>1, SizeAssumption
  <2>2. CASE r = First
    <3>1. PageCost * PAGE_SIZE \in Nat
      BY SizeAssumption, FirstSizeAssumption
    <3>2. FirstSize - PageCost \in Nat
      BY SizeAssumption, FirstSizeAssumption
    <3>3. (FirstSize - PageCost) * PAGE_SIZE \in Nat
      BY <3>2, SizeAssumption
    <3> QED BY <2>2, <3>1, <3>3, SizeAssumption DEF First
  <2> QED BY <2>1, <2>2 DEF AllRegions
<1> DEFINE v == r.addr + PAGE_SIZE - 1
<1>2. v \in Nat /\ PAGE_SIZE \in Nat \ {0}
  BY <1>1, SizeAssumption
<1>3. FirstPage(r) = ((v \div PAGE_SIZE) * PAGE_SIZE) \div PAGE_SIZE
  BY DEF FirstPage, AlignTo
<1> HIDE DEF v
<1>4. v \div PAGE_SIZE \in Nat
  BY <1>2, DivMod
<1>5. (v \div PAGE_SIZE) * PAGE_SIZE \in Nat
  BY <1>2, <1>4
<1>6. ((v \div PAGE_SIZE) * PAGE_SIZE) \div PAGE_SIZE \in Nat
  BY <1>2, <1>5, DivMod
<1> QED BY <1>1, <1>2, <1>3, <1>6, DivMod DEF NumPages

\* None is neither a level nor a block, and a block is a pair.
LEMMA NoneType ==
  /\ None \notin Level /\ None \notin Block
  /\ \A b \in Block : b[1] \in Level /\ b[2] \in Nat /\ b = <<b[1], b[2]>>
<1>1. None \notin Level
  BY SizeAssumption, LevelType
<1>2. \A b \in Block : b[1] \in Level /\ b[2] \in Nat /\ b = <<b[1], b[2]>>
  BY DEF Block
<1> QED BY <1>1, <1>2, SizeAssumption

-----------------------------------------------------------------------------
(* Types, control and the loops of pageman_freeBlock                       *)

Shape == TypeOK /\ Control /\ Loops

\* The initial state is well formed.
LEMMA InitShape == Init => Shape
<1> SUFFICES ASSUME Init PROVE Shape
  OBVIOUS
<1>1. FirstPage(First) \in Nat /\ NumPages(First) \in Nat
  BY RegionType DEF AllRegions
<1>2. 0 \in Level /\ TOTAL_LEVEL \in Nat \ {0}
  BY LevelAssumption DEF Level
<1>3. TypeOK
  BY <1>1, <1>2 DEF Init, TypeOK, AllRegions
<1>4. Control
  BY DEF Init, Control
<1>5. off % Width[0] = 0
  <2>1. off \in Nat /\ Width[0] = 1
    BY <1>1, WidthAssumption DEF Init
  <2> QED BY <2>1
<1>6. Loops
  BY <1>2, <1>5 DEF Init, Loops, Aligned
<1> QED BY <1>3, <1>4, <1>6 DEF Shape

\* The slice that pageman_freeBlock cuts off is a block.
LEMMA SliceType ==
  ASSUME Shape, pc \in {"up", "down"}, at \in Level, rem >= Width[at]
  PROVE  /\ Aligned(at)
         /\ <<at, off \div Width[at]>> \in Block
         /\ Pages(<<at, off \div Width[at]>>) = off..(off + Width[at] - 1)
         /\ off + Width[at] \in Nat /\ rem - Width[at] \in Nat
<1>1. off \in Nat /\ rem \in Nat /\ Width[at] \in Nat \ {0}
  BY WidthType DEF Shape, TypeOK
<1>2. PICK l \in Level : Aligned(l) /\ (rem < Width[l] \/ l >= at)
  BY LevelType DEF Shape, Loops
<1>3. at <= l
  <2> SUFFICES ASSUME ~(at <= l) PROVE FALSE
    OBVIOUS
  <2>1. l \in 0..at
    <3>1. l \in Nat /\ at \in Nat
      BY LevelType
    <3> QED BY <3>1
  <2>2. Width[l] <= Width[at] /\ Width[l] \in Nat
    BY <2>1, WidthMono, WidthType
  <2> QED BY <1>1, <1>2, <2>2, LevelType
<1>4. at \in 0..l
  BY <1>3, LevelType
<1>5. Aligned(at)
  BY <1>1, <1>2, <1>4, AlignedBelow DEF Aligned
<1> QED BY <1>1, <1>5, AlignedBlock DEF Aligned

\* The loops keep off aligned to what still fits.
LEMMA LoopStep ==
  ASSUME Shape, FreeBlockStep
  PROVE  TypeOK' /\ Control' /\ Loops'
<1> USE DEF Shape
<1>0. /\ \A l \in Level : Width[l] \in Nat \ {0}
      /\ TOTAL_LEVEL \in Level /\ TOTAL_LEVEL \in Nat \ {0}
  BY WidthType, LevelAssumption DEF Level
<1>1. ASSUME UpFree PROVE TypeOK' /\ Control' /\ Loops'
  <2>1. at \in Level /\ rem >= Width[at] /\ (off \div Width[at]) % 2 = 1
    BY <1>1 DEF UpFree, UpFits, TypeOK, Loops, Level
  <2>2. /\ Aligned(at) /\ <<at, off \div Width[at]>> \in Block
        /\ off + Width[at] \in Nat /\ rem - Width[at] \in Nat
    BY <1>1, <2>1, SliceType DEF UpFree
  <2>3. TypeOK'
    <3>1. /\ drop' \in Block /\ off' \in Nat /\ rem' \in Nat /\ at' \in -1..(TOTAL_LEVEL + 1)
          /\ pc' = "free" /\ resume' = "up"
      BY <1>1, <2>1, <2>2, LevelType DEF UpFree, FreeSlice
    <3>2. UNCHANGED <<lists, bitmaps, spare, held, donated, hand, want>>
      BY <1>1 DEF UpFree, FreeSlice, mem
    <3> QED BY <3>1, <3>2 DEF TypeOK
  <2>4. Control'
    BY <1>1, <2>2, NoneType DEF UpFree, FreeSlice, Control, mem
  <2>5. \E l \in Level : off' % Width[l] = 0 /\ (l >= at + 1 \/ l = TOTAL_LEVEL)
    <3>1. off \in Nat /\ off' = off + Width[at]
      BY <1>1 DEF UpFree, FreeSlice, TypeOK
    <3>2. CASE at < TOTAL_LEVEL
      <4>1. off' % Width[at + 1] = 0 /\ at + 1 \in Level /\ at + 1 \in Nat
        BY <2>1, <2>2, <3>1, <3>2, AlignedNext, LevelType DEF Aligned
      <4> QED BY <4>1
    <3>3. CASE at = TOTAL_LEVEL
      <4>1. off' % Width[at] = 0
        BY <2>1, <2>2, <3>1, AlignedNext DEF Aligned
      <4> QED BY <2>1, <3>3, <4>1
    <3> QED BY <2>1, <3>2, <3>3, LevelType
  <2>6. Loops'
    BY <1>1, <2>1, <2>5, LevelType DEF UpFree, FreeSlice, Loops, Aligned
  <2> QED BY <2>3, <2>4, <2>6
<1>2. ASSUME UpSkip PROVE TypeOK' /\ Control' /\ Loops'
  <2>1. at \in Level /\ (rem < Width[at] \/ (off \div Width[at]) % 2 # 1)
    BY <1>0, <1>2 DEF UpSkip, UpFits, TypeOK, Loops, Level
  <2>2. TypeOK' /\ Control'
    BY <1>2, <2>1, LevelType DEF UpSkip, TypeOK, Control, mem, loop
  <2>3. off' = off /\ rem' = rem /\ off \in Nat /\ rem \in Nat
    BY <1>2 DEF UpSkip, loop, TypeOK
  <2>4. PICK l \in Level : Aligned(l) /\ (rem < Width[l] \/ l >= at \/ l = TOTAL_LEVEL)
    BY <1>2 DEF UpSkip, Loops
  <2>5. \E k \in Level : Aligned(k)' /\ (rem < Width[k] \/ k >= at + 1 \/ k = TOTAL_LEVEL)
    <3>1. CASE rem < Width[l] \/ l >= at + 1 \/ l = TOTAL_LEVEL
      BY <2>3, <2>4, <3>1 DEF Aligned
    <3>2. CASE l = at /\ at < TOTAL_LEVEL
      <4>1. CASE rem < Width[at]
        BY <2>3, <2>4, <3>2, <4>1 DEF Aligned
      <4>2. CASE (off \div Width[at]) % 2 # 1
        <5>1. off % Width[at + 1] = 0 /\ at + 1 \in Level /\ at + 1 \in Nat
          BY <2>1, <2>3, <2>4, <3>2, <4>2, AlignedNext, LevelType DEF Aligned
        <5> QED BY <2>3, <5>1 DEF Aligned
      <4> QED BY <2>1, <4>1, <4>2
    <3> QED BY <2>1, <2>4, <3>1, <3>2, LevelType
  <2>6. pc' = "up" /\ at' = at + 1 /\ at' >= 0 /\ resume' # "down"
    BY <1>2, <2>1, LevelType DEF UpSkip, Control
  <2>7. \E k \in Level : Aligned(k)' /\ (rem' < Width[k] \/ k >= at' \/ k = TOTAL_LEVEL)
    BY <2>3, <2>5, <2>6
  <2>8. Loops'
    BY <2>6, <2>7 DEF Loops
  <2> QED BY <2>2, <2>8
<1>3. ASSUME UpDone PROVE TypeOK' /\ Control' /\ Loops'
  <2>1. at = TOTAL_LEVEL + 1
    BY <1>0, <1>3 DEF UpDone, TypeOK
  <2>2. \E l \in Level : Aligned(l) /\ (rem < Width[l] \/ l = TOTAL_LEVEL)
    BY <1>0, <1>3, <2>1, LevelType DEF UpDone, Loops
  <2>3. Loops'
    BY <1>3, <2>2 DEF UpDone, Loops, loop, Aligned, Control
  <2> QED BY <1>3, <2>3 DEF UpDone, TypeOK, Control, mem, loop
<1>4. ASSUME HugeFree PROVE TypeOK' /\ Control' /\ Loops'
  BY <1>4 DEF HugeFree, TypeOK, Control, Loops, mem, loop
<1>5. ASSUME HugeDone PROVE TypeOK' /\ Control' /\ Loops'
  <2>1. PICK l \in Level : Aligned(l) /\ (rem < Width[l] \/ l = TOTAL_LEVEL)
    BY <1>5 DEF HugeDone, Loops
  <2>2. rem < Width[l] /\ rem < Width[(TOTAL_LEVEL - 1) + 1]
    BY <1>0, <1>5, <2>1 DEF HugeDone
  <2>3. off' = off /\ rem' = rem /\ at' = TOTAL_LEVEL - 1 /\ pc' = "down" /\ resume' = resume
    BY <1>5 DEF HugeDone, loop
  <2>4. Loops'
    BY <1>0, <1>5, <2>1, <2>2, <2>3 DEF Loops, Aligned, HugeDone, Control
  <2> QED BY <1>0, <1>5, <2>4 DEF HugeDone, TypeOK, Control, mem, loop
<1>6. ASSUME DownFree PROVE TypeOK' /\ Control' /\ Loops'
  <2>1. at \in Level /\ rem >= Width[at] /\ at < TOTAL_LEVEL /\ rem < Width[at + 1]
    BY <1>0, <1>6 DEF DownFree, TypeOK, Loops, Level
  <2>2. /\ Aligned(at) /\ <<at, off \div Width[at]>> \in Block
        /\ off + Width[at] \in Nat /\ rem - Width[at] \in Nat
    BY <1>6, <2>1, SliceType DEF DownFree
  <2>3. TypeOK'
    <3>1. /\ drop' \in Block /\ off' \in Nat /\ rem' \in Nat /\ at' \in -1..(TOTAL_LEVEL + 1)
          /\ pc' = "free" /\ resume' = "down"
      BY <1>6, <2>1, <2>2, LevelType DEF DownFree, FreeSlice
    <3>2. UNCHANGED <<lists, bitmaps, spare, held, donated, hand, want>>
      BY <1>6 DEF DownFree, FreeSlice, mem
    <3> QED BY <3>1, <3>2 DEF TypeOK
  <2>4. Control'
    BY <1>6, <2>2, NoneType DEF DownFree, FreeSlice, Control, mem
  <2>5. /\ off' = off + Width[at] /\ rem' = rem - Width[at] /\ at' = at - 1
        /\ off \in Nat /\ rem \in Nat
    BY <1>6 DEF DownFree, FreeSlice, TypeOK
  <2>6. Width[at + 1] = 2 * Width[at]
    BY <2>1, WidthAssumption, LevelType
  <2>7. rem' < Width[at] /\ (at - 1) + 1 = at
    BY <1>0, <2>1, <2>5, <2>6, LevelType
  <2>8. off' % Width[at] = 0
    BY <2>1, <2>2, <2>5, AlignedNext DEF Aligned
  <2>9. Loops'
    BY <1>6, <2>1, <2>5, <2>7, <2>8, LevelType DEF DownFree, FreeSlice, Loops, Aligned
  <2> QED BY <2>3, <2>4, <2>9
<1>7. ASSUME DownSkip PROVE TypeOK' /\ Control' /\ Loops'
  <2>1. at \in Level /\ at < TOTAL_LEVEL /\ rem < Width[at]
    BY <1>0, <1>7 DEF DownSkip, TypeOK, Loops, Level
  <2>2. (at - 1) + 1 = at /\ at - 1 < TOTAL_LEVEL
    BY <2>1, LevelType
  <2>3. Loops'
    BY <1>7, <2>1, <2>2 DEF DownSkip, Loops, Aligned, loop, Control
  <2> QED BY <1>7, <2>1, <2>3, LevelType DEF DownSkip, TypeOK, Control, mem, loop
<1>8. ASSUME DownDone PROVE TypeOK' /\ Control' /\ Loops'
  <2>1. at = -1 /\ rem < Width[at + 1]
    BY <1>8 DEF DownDone, TypeOK, Loops
  <2>2. rem = 0
    BY <2>1, WidthAssumption DEF TypeOK
  <2> QED BY <1>0, <1>8, <2>2 DEF DownDone, TypeOK, Control, Loops, mem
<1> QED BY <1>1, <1>2, <1>3, <1>4, <1>5, <1>6, <1>7, <1>8 DEF FreeBlockStep

\* bitmap_switch and list_remove keep the manager's memory well typed.
LEMMA MemType ==
  ASSUME TypeOK, NEW b \in Block, b[1] < TOTAL_LEVEL
  PROVE  /\ Switch(b) => bitmaps' \in [0..(TOTAL_LEVEL - 1) -> SUBSET Nat]
         /\ Unlist(b) => lists' \in [0..(TOTAL_LEVEL - 1) -> SUBSET Nat] /\ spare' \in Int
<1>1. b[1] \in 0..(TOTAL_LEVEL - 1) /\ Width[b[1]] \in Nat \ {0} /\ Offset(b) \in Nat
  BY NoneType, LevelType, WidthType, BuddyFacts
<1>2. ASSUME Switch(b) PROVE bitmaps' \in [0..(TOTAL_LEVEL - 1) -> SUBSET Nat]
  BY <1>1, <1>2 DEF Switch, TypeOK
<1>3. ASSUME Unlist(b) PROVE lists' \in [0..(TOTAL_LEVEL - 1) -> SUBSET Nat] /\ spare' \in Int
  BY <1>1, <1>3 DEF Unlist, TypeOK
<1> QED BY <1>2, <1>3

\* Calls and returns keep the shape too.
LEMMA ShapeStep == Shape /\ [Next]_vars => Shape'
<1> SUFFICES ASSUME Shape, [Next]_vars PROVE TypeOK' /\ Control' /\ Loops'
  BY DEF Shape
<1> USE DEF Shape
<1>1. ASSUME NEW r \in Regions, FreeBlockCall(r) PROVE TypeOK' /\ Control' /\ Loops'
  <2>1. FirstPage(r) \in Nat /\ NumPages(r) \in Nat /\ r \in AllRegions
    BY RegionType DEF AllRegions
  <2>2. FirstPage(r) % Width[0] = 0 /\ 0 \in Level
    BY <2>1, WidthAssumption, LevelType DEF Level
  <2>3. Loops'
    BY <1>1, <2>2, LevelType DEF FreeBlockCall, Loops, Aligned, Control
  <2> QED BY <1>1, <2>1, <2>3, LevelType DEF FreeBlockCall, TypeOK, Control, mem
<1>2. ASSUME NEW b \in held, FreeCall(b) PROVE TypeOK' /\ Control' /\ Loops'
  BY <1>2, NoneType DEF FreeCall, TypeOK, Control, Loops, mem, loop
<1>3. ASSUME NEW size \in Level, AllocCall(size) PROVE TypeOK' /\ Control' /\ Loops'
  BY <1>3, NoneType, LevelType DEF AllocCall, TypeOK, Control, Loops, mem, loop
<1>4. ASSUME FreeBlockStep PROVE TypeOK' /\ Control' /\ Loops'
  BY <1>4, LoopStep
<1>5. ASSUME Merge PROVE TypeOK' /\ Control' /\ Loops'
  <2>1. drop \in Block /\ drop[1] < TOTAL_LEVEL /\ drop[1] \in 0..(TOTAL_LEVEL - 1)
    BY <1>5, NoneType, LevelType DEF Merge, BuddyIsFree, Control, TypeOK
  <2>2. /\ Super(drop) \in Block /\ Offset(drop) \in Nat
        /\ Buddy(drop) \in Block /\ Buddy(drop)[1] = drop[1]
    BY <2>1, BuddyFacts
  <2>3. TypeOK'
    <3>1. lists' \in [0..(TOTAL_LEVEL - 1) -> SUBSET Nat] /\ spare' \in Int
      BY <1>5, <2>1, <2>2, MemType DEF Merge
    <3>2. bitmaps' \in [0..(TOTAL_LEVEL - 1) -> SUBSET Nat]
      BY <1>5, <2>1, MemType DEF Merge
    <3> QED BY <1>5, <2>2, <3>1, <3>2 DEF Merge, TypeOK, loop
  <2>4. Control'
    BY <1>5, <2>2, NoneType DEF Merge, Control, loop
  <2>5. Loops'
    BY <1>5 DEF Merge, Loops, Aligned, loop
  <2> QED BY <2>3, <2>4, <2>5
<1>6. ASSUME Insert PROVE TypeOK' /\ Control' /\ Loops'
  <2>1. drop \in Block /\ drop[1] \in Level /\ drop[2] \in Nat
    BY <1>6, NoneType DEF Insert, Control, TypeOK
  <2>2. bitmaps' \in [0..(TOTAL_LEVEL - 1) -> SUBSET Nat]
    BY <1>6, <2>1, MemType DEF Insert
  <2>3. TypeOK'
    <3>1. lists' \in [0..(TOTAL_LEVEL - 1) -> SUBSET Nat]
      BY <1>6, <2>1, LevelType DEF Insert, TypeOK
    <3>2. spare' \in Int
      BY <1>6, <2>1, WidthType DEF Insert, TypeOK
    <3> QED BY <1>6, <2>2, <3>1, <3>2 DEF Insert, TypeOK, loop
  <2>4. Control'
    BY <1>6 DEF Insert, Control, TypeOK, loop
  <2>5. Loops'
    BY <1>6 DEF Insert, Loops, Aligned, loop, TypeOK
  <2> QED BY <2>3, <2>4, <2>5
<1>7. ASSUME SearchUp PROVE TypeOK' /\ Control' /\ Loops'
  <2>1. want \in Level /\ want <= at /\ at < TOTAL_LEVEL /\ at \in Int
    BY <1>7 DEF SearchUp, Control, TypeOK
  <2>2. \A l \in want..((at + 1) - 1) : l \in want..(at - 1) \/ l = at
    BY <2>1, LevelType
  <2>3. want <= at + 1 /\ at + 1 <= TOTAL_LEVEL
    BY <2>1, LevelType
  <2>4. \A l \in want..((at + 1) - 1) : lists[l] = {}
    BY <1>7, <2>2 DEF SearchUp, Control
  <2>5. Control'
    BY <1>7, <2>3, <2>4 DEF SearchUp, Control, mem, loop
  <2> QED BY <1>7, <2>1, <2>5, LevelType DEF SearchUp, TypeOK, Loops, Control, mem, loop
<1>8. ASSUME SearchFail PROVE TypeOK' /\ Control' /\ Loops'
  BY <1>8, LevelType DEF SearchFail, TypeOK, Control, Loops, mem, loop
<1>9. ASSUME TakeFirst PROVE TypeOK' /\ Control' /\ Loops'
  <2>1. want \in Level /\ want <= at /\ at < TOTAL_LEVEL /\ at \in Level
    <3>1. want \in Level /\ want <= at /\ at < TOTAL_LEVEL /\ at \in Int
      BY <1>9 DEF TakeFirst, Control, TypeOK
    <3>2. want \in Nat
      BY <3>1, LevelType
    <3> QED BY <3>1, <3>2, LevelType DEF Level
  <2>2. PICK i \in lists[at] : hand' = <<at, i>> /\ Unlist(<<at, i>>) /\ Switch(<<at, i>>)
    BY <1>9 DEF TakeFirst
  <2>3. <<at, i>> \in Block /\ Offset(<<at, i>>) \in Nat
    <3>1. <<at, i>> \in Block
      BY <2>1, LevelType DEF TypeOK, Block
    <3> QED BY <2>1, <3>1, BuddyFacts
  <2>4. TypeOK'
    <3>1. lists' \in [0..(TOTAL_LEVEL - 1) -> SUBSET Nat] /\ spare' \in Int
      BY <2>1, <2>2, <2>3, MemType
    <3>2. bitmaps' \in [0..(TOTAL_LEVEL - 1) -> SUBSET Nat]
      BY <2>1, <2>2, <2>3, MemType
    <3> QED BY <1>9, <2>2, <2>3, <3>1, <3>2 DEF TakeFirst, TypeOK, loop
  <2>5. Control'
    BY <1>9, <2>1, <2>2, <2>3, NoneType DEF TakeFirst, Control, loop
  <2> QED BY <1>9, <2>4, <2>5 DEF TakeFirst, Loops, Control, loop
<1>10. ASSUME Slice PROVE TypeOK' /\ Control' /\ Loops'
  <2>1. /\ hand \in Block /\ want \in Level /\ hand[1] > want
        /\ hand[1] \in Level /\ hand[2] \in Nat /\ hand[1] < TOTAL_LEVEL
    BY <1>10, NoneType DEF Slice, Control, TypeOK
  <2>2. hand[1] - 1 \in Level /\ 2 * hand[2] \in Nat /\ want <= hand[1] - 1
        /\ hand[1] - 1 < TOTAL_LEVEL
    BY <2>1, LevelType DEF Level
  <2>3. hand' \in Block /\ hand' = <<hand[1] - 1, 2 * hand[2]>>
    BY <1>10, <2>2 DEF Slice, Block
  <2>4. drop' \in Block
    <3>1. hand'[1] < TOTAL_LEVEL
      BY <2>2, <2>3
    <3> QED BY <1>10, <2>3, <3>1, BuddyFacts DEF Slice
  <2>5. TypeOK'
    BY <1>10, <2>3, <2>4 DEF Slice, TypeOK, mem, loop
  <2>6. Control'
    BY <1>10, <2>1, <2>2, <2>3, <2>4, NoneType DEF Slice, Control, mem, loop
  <2> QED BY <1>10, <2>5, <2>6 DEF Slice, Loops, Control, loop
<1>11. ASSUME AllocReturn PROVE TypeOK' /\ Control' /\ Loops'
  <2>1. hand \in Block
    BY <1>11 DEF AllocReturn, Control, TypeOK
  <2> QED BY <1>11, <2>1, LevelType DEF AllocReturn, TypeOK, Control, Loops, mem, loop
<1>12. ASSUME InsertPastLists PROVE TypeOK' /\ Control' /\ Loops'
  BY <1>12 DEF InsertPastLists, TypeOK, Control, Loops, Aligned, mem, loop
<1>13. ASSUME UNCHANGED vars PROVE TypeOK' /\ Control' /\ Loops'
  BY <1>13 DEF vars, TypeOK, Control, Loops, Aligned
<1> QED BY <1>1, <1>2, <1>3, <1>4, <1>5, <1>6, <1>7, <1>8, <1>9, <1>10, <1>11, <1>12, <1>13
        DEF Next, FreeStep, AllocStep

\* Every reachable state is well typed.
THEOREM TypeCorrect == Spec => []TypeOK
<1>1. Spec => []Shape
  BY InitShape, ShapeStep, PTL DEF Spec
<1>2. Shape => TypeOK
  BY DEF Shape
<1> QED BY <1>1, <1>2, PTL

-----------------------------------------------------------------------------
(* Sets of blocks *)

Separate(bs) == \A b, c \in bs : b # c => Pages(b) \cap Pages(c) = {}

\* The blocks of a family of lists.
LEMMA BlocksInDef ==
  ASSUME NEW f \in [0..(TOTAL_LEVEL - 1) -> SUBSET Nat]
  PROVE  /\ BlocksIn(f) \subseteq Block
         /\ \A c \in Block :
              c \in BlocksIn(f) <=> c[1] < TOTAL_LEVEL /\ c[2] \in f[c[1]]
<1>1. \A l : l \in 0..(TOTAL_LEVEL - 1) <=> l \in Level /\ l < TOTAL_LEVEL
  BY LevelType DEF Level
<1> QED BY <1>1 DEF BlocksIn, Block

\* What one element less, or more, in one list does to them.
LEMMA BlocksInFacts ==
  ASSUME NEW f \in [0..(TOTAL_LEVEL - 1) -> SUBSET Nat], NEW b \in Block, b[1] < TOTAL_LEVEL
  PROVE  /\ BlocksIn([f EXCEPT ![b[1]] = @ \ {b[2]}]) = BlocksIn(f) \ {b}
         /\ BlocksIn([f EXCEPT ![b[1]] = @ \cup {b[2]}]) = BlocksIn(f) \cup {b}
<1>1. b[1] \in 0..(TOTAL_LEVEL - 1) /\ b[2] \in Nat
  BY NoneType, LevelType
<1>2. \A c \in Block : /\ c = b <=> c[1] = b[1] /\ c[2] = b[2]
                       /\ c[1] < TOTAL_LEVEL => c[1] \in 0..(TOTAL_LEVEL - 1)
  BY NoneType, LevelType
<1>3. ASSUME NEW g \in [0..(TOTAL_LEVEL - 1) -> SUBSET Nat], g = [f EXCEPT ![b[1]] = @ \ {b[2]}]
      PROVE  BlocksIn(g) = BlocksIn(f) \ {b}
  <2>1. \A c \in Block : c[1] < TOTAL_LEVEL =>
          (c[2] \in g[c[1]] <=> c[2] \in f[c[1]] /\ c # b)
    BY <1>1, <1>2, <1>3
  <2> QED BY <2>1, BlocksInDef
<1>4. ASSUME NEW g \in [0..(TOTAL_LEVEL - 1) -> SUBSET Nat], g = [f EXCEPT ![b[1]] = @ \cup {b[2]}]
      PROVE  BlocksIn(g) = BlocksIn(f) \cup {b}
  <2>1. \A c \in Block : c[1] < TOTAL_LEVEL =>
          (c[2] \in g[c[1]] <=> c[2] \in f[c[1]] \/ c = b)
    BY <1>1, <1>2, <1>4
  <2>2. ASSUME NEW c PROVE c \in BlocksIn(g) <=> c \in BlocksIn(f) \cup {b}
    BY <2>1, BlocksInDef
  <2> QED BY <2>2
<1>5. /\ [f EXCEPT ![b[1]] = @ \ {b[2]}] \in [0..(TOTAL_LEVEL - 1) -> SUBSET Nat]
      /\ [f EXCEPT ![b[1]] = @ \cup {b[2]}] \in [0..(TOTAL_LEVEL - 1) -> SUBSET Nat]
  BY <1>1
<1> QED BY <1>3, <1>4, <1>5

\* Two blocks of a separate set become the one block they halve.
LEMMA MergeBlocks ==
  ASSUME NEW bs \in SUBSET Block, Separate(bs), NEW x \in bs, NEW y \in bs,
         NEW s \in Block, Pages(s) = Pages(x) \cup Pages(y), s # x, s # y
  PROVE  /\ Separate((bs \ {x, y}) \cup {s})
         /\ PagesOf((bs \ {x, y}) \cup {s}) = PagesOf(bs)
         /\ s \notin bs
<1>1. s \notin bs
  BY PagesType DEF Separate
<1> QED BY <1>1 DEF Separate, PagesOf

\* One block of a separate set becomes its two halves.
LEMMA SplitBlock ==
  ASSUME NEW bs \in SUBSET Block, Separate(bs), NEW s \in bs,
         NEW x \in Block, NEW y \in Block, x # s, y # s,
         Pages(s) = Pages(x) \cup Pages(y), Pages(x) \cap Pages(y) = {}
  PROVE  /\ Separate((bs \ {s}) \cup {x, y})
         /\ PagesOf((bs \ {s}) \cup {x, y}) = PagesOf(bs)
         /\ x \notin bs /\ y \notin bs /\ x # y
<1>1. x \notin bs /\ y \notin bs /\ x # y
  BY PagesType DEF Separate
<1> QED BY <1>1 DEF Separate, PagesOf

\* An interval cut in two.
LEMMA IntervalSplit ==
  ASSUME NEW a \in Nat, NEW w \in Nat, NEW n \in Nat, w <= n
  PROVE  /\ a..(a + n - 1) = (a..(a + w - 1)) \cup ((a + w)..(a + n - 1))
         /\ (a..(a + w - 1)) \cap ((a + w)..(a + n - 1)) = {}
  OBVIOUS

\* A block outside a separate set joins it.
LEMMA AddBlock ==
  ASSUME NEW bs \in SUBSET Block, Separate(bs), NEW x \in Block,
         Pages(x) \cap PagesOf(bs) = {}
  PROVE  /\ Separate(bs \cup {x})
         /\ PagesOf(bs \cup {x}) = PagesOf(bs) \cup Pages(x)
         /\ x \notin bs
<1>1. x \notin bs
  BY PagesType DEF PagesOf
<1> QED BY <1>1 DEF Separate, PagesOf

-----------------------------------------------------------------------------
(* Who owns which page *)

Tiles == Separate(Blocks) /\ PagesOf(Blocks) \cap Rest = {} /\ Conserved

Kinds ==
  /\ Listed \cap held = {} /\ Carried \cap (Listed \cup held) = {}
  /\ drop # None => drop # hand

Bits ==
  \A l \in 0..(TOTAL_LEVEL - 1), o \in Nat :
    (o \in bitmaps[l]) <=> ~((2 * o \in lists[l]) <=> (2 * o + 1 \in lists[l]))

Whole == Tiles /\ Kinds /\ Bits /\ Coalesced

\* An offset with neither its bit nor a block is not worth a check.
LEMMA BitsEquiv == TypeOK => (Bits <=> BitmapMatchesLists)
<1> SUFFICES ASSUME TypeOK PROVE Bits <=> BitmapMatchesLists
  OBVIOUS
<1>1. Bits => BitmapMatchesLists
  <2>1. \A l \in 0..(TOTAL_LEVEL - 1) : bitmaps[l] \subseteq Nat /\ lists[l] \subseteq Nat
    BY LevelType DEF TypeOK, Level
  <2>2. \A i \in Nat : i \div 2 \in Nat
    OBVIOUS
  <2> QED BY <2>1, <2>2 DEF Bits, BitmapMatchesLists
<1>2. ASSUME BitmapMatchesLists, NEW l \in 0..(TOTAL_LEVEL - 1), NEW o \in Nat,
             o \notin bitmaps[l]
      PROVE  (2 * o \in lists[l]) <=> (2 * o + 1 \in lists[l])
  <2>1. (2 * o) \div 2 = o /\ (2 * o + 1) \div 2 = o
    OBVIOUS
  <2> QED BY <1>2, <2>1 DEF BitmapMatchesLists
<1> QED BY <1>1, <1>2 DEF Bits, BitmapMatchesLists

\* What is listed, held or carried is a block.
LEMMA BlocksType ==
  ASSUME TypeOK
  PROVE  /\ Blocks \subseteq Block /\ Listed \subseteq Block
         /\ \A c \in Block : c \in Listed <=> c[1] < TOTAL_LEVEL /\ c[2] \in lists[c[1]]
<1>3. /\ BlocksIn(lists) \subseteq Block
      /\ \A c \in Block : c \in BlocksIn(lists) <=> c[1] < TOTAL_LEVEL /\ c[2] \in lists[c[1]]
  BY BlocksInDef DEF TypeOK
<1> QED BY <1>3 DEF Blocks, Listed, Carried, TypeOK

\* The bit of a block tells whether exactly one of it and its buddy is listed.
LEMMA BitFact ==
  ASSUME TypeOK, Bits, NEW b \in Block, b[1] < TOTAL_LEVEL
  PROVE  Offset(b) \in bitmaps[b[1]] <=> ~(b \in Listed <=> Buddy(b) \in Listed)
<1>1. b[1] \in 0..(TOTAL_LEVEL - 1)
  BY NoneType, LevelType
<1>2. /\ Buddy(b) \in Block /\ Buddy(b)[1] = b[1] /\ Offset(b) \in Nat
      /\ {b[2], Buddy(b)[2]} = {2 * Offset(b), 2 * Offset(b) + 1}
  BY BuddyFacts
<1>3. /\ b \in Listed <=> b[2] \in lists[b[1]]
      /\ Buddy(b) \in Listed <=> Buddy(b)[2] \in lists[b[1]]
  BY <1>2, BlocksType
<1>4. \/ b[2] = 2 * Offset(b) /\ Buddy(b)[2] = 2 * Offset(b) + 1
      \/ b[2] = 2 * Offset(b) + 1 /\ Buddy(b)[2] = 2 * Offset(b)
  BY <1>2
<1> QED BY <1>1, <1>2, <1>3, <1>4 DEF Bits

\* Toggling the bit of a block while it, or its buddy, changes between
\* listed and not listed keeps the bits right.
LEMMA BitsStep ==
  ASSUME TypeOK, Bits, NEW b \in Block, b[1] < TOTAL_LEVEL, NEW c \in {b, Buddy(b)},
         Switch(b), lists' \in [0..(TOTAL_LEVEL - 1) -> SUBSET Nat],
         \/ c \in Listed /\ lists' = [lists EXCEPT ![c[1]] = @ \ {c[2]}]
         \/ c \notin Listed /\ lists' = [lists EXCEPT ![c[1]] = @ \cup {c[2]}]
  PROVE  Bits'
<1>1. b[1] \in 0..(TOTAL_LEVEL - 1) /\ b[1] \in Level /\ b[2] \in Nat
  BY NoneType, LevelType
<1>2. /\ Buddy(b) \in Block /\ Buddy(b)[1] = b[1] /\ Offset(b) \in Nat
      /\ {b[2], Buddy(b)[2]} = {2 * Offset(b), 2 * Offset(b) + 1}
  BY BuddyFacts
<1>3. c \in Block /\ c[1] = b[1] /\ c[2] \in {2 * Offset(b), 2 * Offset(b) + 1}
  BY <1>2
<1>4. c \in Listed <=> c[2] \in lists[b[1]]
  BY <1>3, BlocksType
<1>5. SUFFICES ASSUME NEW l \in 0..(TOTAL_LEVEL - 1), NEW o \in Nat
      PROVE (o \in bitmaps'[l]) <=> ~((2 * o \in lists'[l]) <=> (2 * o + 1 \in lists'[l]))
  BY DEF Bits
<1>6. (o \in bitmaps[l]) <=> ~((2 * o \in lists[l]) <=> (2 * o + 1 \in lists[l]))
  BY DEF Bits
<1>7. l \in Level
  BY LevelType DEF Level
<1>8. CASE l # b[1]
  BY <1>1, <1>3, <1>6, <1>7, <1>8 DEF Switch, TypeOK
<1>9. CASE l = b[1] /\ o # Offset(b)
  <2>1. c[2] # 2 * o /\ c[2] # 2 * o + 1
    BY <1>2, <1>3, <1>9
  <2>2. 2 * o \in lists'[l] <=> 2 * o \in lists[l]
    BY <1>3, <1>7, <1>9, <2>1 DEF TypeOK
  <2>3. 2 * o + 1 \in lists'[l] <=> 2 * o + 1 \in lists[l]
    BY <1>3, <1>7, <1>9, <2>1 DEF TypeOK
  <2>4. o \in bitmaps'[l] <=> o \in bitmaps[l]
    BY <1>1, <1>9 DEF Switch, TypeOK
  <2> QED BY <1>6, <2>2, <2>3, <2>4
<1>10. CASE l = b[1] /\ o = Offset(b)
  <2>1. o \in bitmaps'[l] <=> o \notin bitmaps[l]
    BY <1>1, <1>10 DEF Switch, TypeOK
  <2>2. c[2] \in lists'[l] <=> c[2] \notin lists[l]
    BY <1>3, <1>4, <1>7, <1>10 DEF TypeOK
  <2>3. CASE c[2] = 2 * o
    <3>1. 2 * o + 1 \in lists'[l] <=> 2 * o + 1 \in lists[l]
      BY <1>3, <1>7, <1>10, <2>3 DEF TypeOK
    <3> QED BY <1>6, <2>1, <2>2, <2>3, <3>1
  <2>4. CASE c[2] = 2 * o + 1
    <3>1. 2 * o \in lists'[l] <=> 2 * o \in lists[l]
      BY <1>3, <1>7, <1>10, <2>4 DEF TypeOK
    <3> QED BY <1>6, <2>1, <2>2, <2>4, <3>1
  <2> QED BY <1>3, <1>10, <2>3, <2>4
<1> QED BY <1>8, <1>9, <1>10

\* At first the manager has nothing but the rest of the first memory.
LEMMA InitWhole == Init => Whole
<1> SUFFICES ASSUME Init PROVE Whole
  OBVIOUS
<1>1. Blocks = {} /\ Listed = {} /\ Carried = {}
  BY DEF Init, Blocks, Listed, BlocksIn, Carried
<1>2. Rest = RegionPages(First) /\ donated = {First}
  BY DEF Init, Rest, RegionPages
<1>3. Tiles
  BY <1>1, <1>2 DEF Tiles, Separate, PagesOf, Conserved
<1>4. Kinds
  BY <1>1 DEF Kinds, Init
<1>5. Bits
  BY LevelType DEF Bits, Init, Level
<1>6. Coalesced
  BY <1>1 DEF Coalesced
<1> QED BY <1>3, <1>4, <1>5, <1>6 DEF Whole

\* A step that moves no block and no page.
LEMMA QuietStep ==
  ASSUME Whole, UNCHANGED <<lists, bitmaps, held, donated, drop, hand>>, Rest' = Rest
  PROVE  Whole'
<1>1. Listed' = Listed /\ Carried' = Carried /\ Blocks' = Blocks
  BY DEF Listed, BlocksIn, Carried, Blocks
<1>2. Tiles'
  BY <1>1 DEF Whole, Tiles, Separate, PagesOf, Conserved
<1>3. Kinds'
  BY <1>1 DEF Whole, Kinds
<1>4. Bits'
  BY DEF Whole, Bits
<1>5. Coalesced'
  BY <1>1 DEF Whole, Coalesced
<1> QED BY <1>2, <1>3, <1>4, <1>5 DEF Whole

\* A step that hands blocks on and leaves the lists alone.
LEMMA HandOver ==
  ASSUME Whole, UNCHANGED <<lists, bitmaps, donated>>, Rest' = Rest, Blocks' = Blocks, Kinds'
  PROVE  Whole'
<1>1. Listed' = Listed
  BY DEF Listed, BlocksIn
<1>2. Tiles'
  BY DEF Whole, Tiles, Separate, PagesOf, Conserved
<1>3. Bits'
  BY DEF Whole, Bits
<1>4. Coalesced'
  BY <1>1 DEF Whole, Coalesced
<1> QED BY <1>2, <1>3, <1>4 DEF Whole

\* pageman_freeBlock frees a slice of what is left of its memory.
LEMMA SliceWhole ==
  ASSUME Shape, Whole, pc \in {"up", "down"}, at \in Level, rem >= Width[at],
         NEW back, FreeSlice(back)
  PROVE  Whole'
<1> DEFINE x == <<at, off \div Width[at]>>
<1>1. /\ x \in Block /\ Pages(x) = off..(off + Width[at] - 1)
      /\ off \in Nat /\ rem \in Nat /\ Width[at] \in Nat \ {0}
  BY SliceType, WidthType DEF Shape, TypeOK
<1>2. drop = None /\ hand = None
  BY DEF Shape, Control
<1>3. /\ off' = off + Width[at] /\ rem' = rem - Width[at]
      /\ drop' = x /\ hand' = hand
      /\ UNCHANGED <<lists, bitmaps, held, donated>>
  BY DEF FreeSlice, mem
<1> HIDE DEF x
<1>4. Rest = Pages(x) \cup Rest' /\ Pages(x) \cap Rest' = {}
  <2> DEFINE w == Width[at]
  <2>1. w \in Nat \ {0} /\ rem >= w /\ Pages(x) = off..(off + w - 1)
    BY <1>1
  <2>2. Rest' = (off + w)..((off + w) + (rem - w) - 1)
    BY <1>3 DEF Rest
  <2> HIDE DEF w
  <2>3. (off + w) + (rem - w) - 1 = off + rem - 1
    BY <1>1, <2>1
  <2>4. Rest' = (off + w)..(off + rem - 1) /\ Rest = off..(off + rem - 1)
    BY <2>2, <2>3 DEF Rest
  <2> QED BY <1>1, <2>1, <2>4, IntervalSplit
<1>5. Carried = {} /\ Carried' = {x} /\ Listed' = Listed
  BY <1>1, <1>2, <1>3, NoneType DEF Carried, Listed, BlocksIn
<1>6. Blocks' = Blocks \cup {x}
  BY <1>3, <1>5 DEF Blocks
<1>7. Blocks \in SUBSET Block /\ Separate(Blocks) /\ Pages(x) \cap PagesOf(Blocks) = {}
  BY <1>4, BlocksType DEF Shape, Whole, Tiles
<1>8. /\ Separate(Blocks \cup {x}) /\ x \notin Blocks
      /\ PagesOf(Blocks \cup {x}) = PagesOf(Blocks) \cup Pages(x)
  <2> HIDE DEF Shape, Whole
  <2> QED BY <1>1, <1>7, AddBlock
<1>9. Tiles'
  <2>1. Separate(Blocks') /\ PagesOf(Blocks') \cap Rest' = {}
    BY <1>4, <1>6, <1>8 DEF Whole, Tiles
  <2>2. PagesOf(Blocks') \cup Rest' = PagesOf(Blocks) \cup Rest
    BY <1>4, <1>6, <1>8
  <2>3. Conserved'
    BY <2>2, <1>3 DEF Whole, Tiles, Conserved, PagesOf
  <2> QED BY <2>1, <2>3 DEF Tiles, Separate, PagesOf
<1>10. Kinds'
  <2>1. Carried' \cap (Listed' \cup held') = {}
    BY <1>3, <1>5, <1>8 DEF Blocks
  <2>2. Listed' \cap held' = {} /\ drop' # hand'
    BY <1>1, <1>2, <1>3, <1>5, NoneType DEF Whole, Kinds
  <2> QED BY <2>1, <2>2 DEF Kinds
<1>11. Bits' /\ Coalesced'
  BY <1>3, <1>5 DEF Whole, Bits, Coalesced
<1> QED BY <1>9, <1>10, <1>11 DEF Whole

\* A new region lies apart from everything the manager already has.
LEMMA DonateWhole ==
  ASSUME Shape, Whole, NEW r \in Regions, FreeBlockCall(r)
  PROVE  Whole'
<1>1. /\ r \notin donated /\ donated' = donated \cup {r} /\ r \in AllRegions
      /\ UNCHANGED <<lists, bitmaps, held, drop, hand>>
      /\ off' = FirstPage(r) /\ rem' = NumPages(r)
  BY DEF FreeBlockCall, mem, AllRegions
<1>2. Rest' = RegionPages(r)
  BY <1>1 DEF Rest, RegionPages
<1>3. Rest = {}
  BY DEF FreeBlockCall, Shape, Control, TypeOK, Rest
<1>4. Listed' = Listed /\ Carried' = Carried /\ Blocks' = Blocks
  BY <1>1 DEF Listed, BlocksIn, Carried, Blocks
<1>5. PagesOf(Blocks) = UNION {RegionPages(s) : s \in donated}
  BY <1>3 DEF Whole, Tiles, Conserved
<1>6. \A s \in donated : RegionPages(s) \cap RegionPages(r) = {}
  BY <1>1, RegionAssumption DEF Shape, TypeOK
<1>7. PagesOf(Blocks) \cap RegionPages(r) = {}
  BY <1>5, <1>6
<1>8. UNION {RegionPages(s) : s \in donated'} =
        (UNION {RegionPages(s) : s \in donated}) \cup RegionPages(r)
  BY <1>1
<1>9. PagesOf(Blocks)' = PagesOf(Blocks) /\ Separate(Blocks)' = Separate(Blocks)
  BY <1>4 DEF PagesOf, Separate
<1>10. Conserved'
  BY <1>2, <1>5, <1>8, <1>9 DEF Conserved
<1>11. Tiles'
  BY <1>2, <1>7, <1>9, <1>10 DEF Whole, Tiles
<1>12. Kinds' /\ Bits' /\ Coalesced'
  BY <1>1, <1>4 DEF Whole, Kinds, Bits, Coalesced
<1> QED BY <1>11, <1>12 DEF Whole

\* pageman_free finds the buddy listed, and it is: two blocks of the manager
\* become one.
LEMMA MergeFacts ==
  ASSUME Shape, Whole, Merge
  PROVE  LET y == Buddy(drop)  s == Super(drop)
         IN  /\ drop \in Block /\ drop[1] < TOTAL_LEVEL /\ drop # None /\ drop # hand
             /\ y \in Block /\ y[1] = drop[1] /\ y # drop /\ Width[y[1]] \in Nat
             /\ s \in Block /\ s # drop /\ s # y /\ s # None
             /\ Pages(s) = Pages(drop) \cup Pages(y)
             /\ drop \in Carried /\ drop \notin Listed /\ drop \notin held
             /\ y \in Listed /\ y \notin Carried /\ y \notin held
             /\ Switch(drop) /\ lists' = [lists EXCEPT ![y[1]] = @ \ {y[2]}]
             /\ drop' = s /\ spare' = spare - Width[y[1]]
             /\ UNCHANGED <<held, donated, hand, want, off, rem>>
             /\ Listed' = Listed \ {y} /\ Carried' = (Carried \ {drop}) \cup {s}
<1> DEFINE y == Buddy(drop)  s == Super(drop)
<1>1. drop \in Block /\ drop[1] < TOTAL_LEVEL /\ drop # None
  BY NoneType DEF Merge, BuddyIsFree, Shape, Control, TypeOK
<1>2. /\ y \in Block /\ y[1] = drop[1] /\ y # drop
      /\ s \in Block /\ s[1] = drop[1] + 1 /\ Pages(s) = Pages(drop) \cup Pages(y)
  BY <1>1, BuddyFacts
<1>3. s # drop /\ s # y /\ Width[y[1]] \in Nat
  BY <1>1, <1>2, NoneType, LevelType, WidthType
<1>4. drop \in Carried /\ drop \notin Listed /\ drop \notin held
  BY <1>1 DEF Carried, Whole, Kinds
<1>5. y \in Listed
  <2>1. Offset(drop) \in bitmaps[drop[1]]
    BY DEF Merge, BuddyIsFree
  <2> QED BY <1>1, <1>4, <2>1, BitFact DEF Shape, Whole
<1> HIDE DEF y, s
<1>6. /\ lists' = [lists EXCEPT ![y[1]] = @ \ {y[2]}]
      /\ Switch(drop) /\ drop' = s /\ spare' = spare - Width[y[1]]
      /\ UNCHANGED <<held, donated, hand, want, off, rem>>
  BY DEF Merge, Unlist, loop, y, s
<1>7. Listed' = Listed \ {y}
  BY <1>1, <1>2, <1>6, BlocksInFacts DEF Listed, Shape, TypeOK
<1>8. y \notin Carried /\ y \notin held
  BY <1>5 DEF Whole, Kinds
<1>9. s # None /\ drop # hand
  BY <1>1, <1>2, NoneType DEF Whole, Kinds
<1>10. Carried' = (Carried \ {drop}) \cup {s}
  BY <1>1, <1>6, <1>8, <1>9 DEF Carried
<1> QED BY <1>1, <1>2, <1>3, <1>4, <1>5, <1>6, <1>7, <1>8, <1>9, <1>10 DEF y, s

\* The invariant outlives the merge.
LEMMA MergeWhole ==
  ASSUME Shape, Whole, Merge
  PROVE  Whole'
<1> DEFINE y == Buddy(drop)  s == Super(drop)
<1>1. /\ drop \in Block /\ drop[1] < TOTAL_LEVEL /\ drop # None /\ drop # hand
      /\ y \in Block /\ y \in {drop, Buddy(drop)}
      /\ s \in Block /\ s # drop /\ s # y /\ s # None
      /\ Pages(s) = Pages(drop) \cup Pages(y)
      /\ drop \in Carried /\ drop \notin Listed /\ drop \notin held
      /\ y \in Listed /\ y \notin Carried /\ y \notin held
      /\ Switch(drop) /\ lists' = [lists EXCEPT ![y[1]] = @ \ {y[2]}]
      /\ drop' = s
      /\ UNCHANGED <<held, donated, hand, off, rem>>
      /\ Listed' = Listed \ {y} /\ Carried' = (Carried \ {drop}) \cup {s}
  BY MergeFacts
<1> HIDE DEF y, s
<1>8. Blocks \in SUBSET Block /\ Separate(Blocks) /\ drop \in Blocks /\ y \in Blocks
  BY <1>1, BlocksType DEF Shape, Whole, Tiles, Blocks
<1>9. /\ Separate((Blocks \ {drop, y}) \cup {s}) /\ s \notin Blocks
      /\ PagesOf((Blocks \ {drop, y}) \cup {s}) = PagesOf(Blocks)
  <2> HIDE DEF Shape, Whole
  <2> QED BY <1>1, <1>8, MergeBlocks
<1>11. Blocks' = (Blocks \ {drop, y}) \cup {s}
  BY <1>1 DEF Blocks
<1>12. Tiles'
  <2>1. Rest' = Rest
    BY <1>1 DEF Rest
  <2>2. Conserved'
    BY <1>1, <1>9, <1>11, <2>1 DEF Whole, Tiles, Conserved, PagesOf
  <2>3. Separate(Blocks') /\ PagesOf(Blocks') \cap Rest' = {}
    BY <1>9, <1>11, <2>1 DEF Whole, Tiles
  <2> QED BY <2>2, <2>3 DEF Tiles, Separate, PagesOf
<1>13. Kinds'
  <2>1. s \notin Listed /\ s \notin held /\ s \notin Carried
    BY <1>9 DEF Blocks
  <2>2. s # hand
    BY <1>1, <2>1, NoneType DEF Carried
  <2> QED BY <1>1, <2>1, <2>2 DEF Whole, Kinds
<1>14. Bits'
  <2>1. lists' \in [0..(TOTAL_LEVEL - 1) -> SUBSET Nat]
    BY <1>1, NoneType DEF Shape, TypeOK
  <2> QED BY <1>1, <2>1, BitsStep DEF Shape, Whole
<1>15. Coalesced'
  BY <1>1 DEF Whole, Coalesced
<1> QED BY <1>12, <1>13, <1>14, <1>15 DEF Whole

\* pageman_free lists a block whose buddy is not listed.
LEMMA InsertWhole ==
  ASSUME Shape, Whole, Insert
  PROVE  Whole'
<1>1. drop \in Block /\ drop # None /\ drop[1] < TOTAL_LEVEL
  BY NoneType DEF Insert, Shape, Control, TypeOK
<1>2. drop \in Carried /\ drop \notin Listed /\ drop \notin held /\ drop # hand
  BY <1>1 DEF Carried, Whole, Kinds
<1>3. /\ lists' = [lists EXCEPT ![drop[1]] = @ \cup {drop[2]}]
      /\ drop' = None
      /\ UNCHANGED <<held, donated, hand, off, rem>>
  BY DEF Insert, loop
<1>4. Listed' = Listed \cup {drop}
  BY <1>1, <1>3, BlocksInFacts DEF Listed, Shape, TypeOK
<1>5. Carried' = Carried \ {drop}
  BY <1>2, <1>3 DEF Carried
<1>6. Blocks' = Blocks
  BY <1>2, <1>3, <1>4, <1>5 DEF Blocks
<1>7. Tiles'
  <2>1. Rest' = Rest
    BY <1>3 DEF Rest
  <2> QED BY <1>3, <1>6, <2>1 DEF Whole, Tiles, Separate, PagesOf, Conserved
<1>8. Kinds'
  BY <1>2, <1>3, <1>4, <1>5 DEF Whole, Kinds
<1>9. Buddy(drop) \in Block /\ Buddy(drop)[1] = drop[1] /\ Buddy(drop) # drop
  BY <1>1, BuddyFacts
<1>10. Buddy(drop) \notin Listed
  BY <1>1, <1>2, BitFact DEF Insert, BuddyIsFree, Shape, Whole
<1>11. Bits'
  <2>1. lists' \in [0..(TOTAL_LEVEL - 1) -> SUBSET Nat]
    BY <1>1, <1>3, NoneType, LevelType DEF Shape, TypeOK
  <2>2. Switch(drop)
    BY DEF Insert
  <2> QED BY <1>1, <1>2, <1>3, <2>1, <2>2, BitsStep DEF Shape, Whole
<1>12. \A b \in Block : Buddy(b) = drop => b = Buddy(drop)
  BY BuddyTwice
<1>13. Coalesced'
  BY <1>4, <1>9, <1>10, <1>12, BlocksType DEF Shape, Whole, Coalesced
<1> QED BY <1>7, <1>8, <1>11, <1>13 DEF Whole

\* pageman_alloc takes a block off its list.
LEMMA TakeWhole ==
  ASSUME Shape, Whole, TakeFirst
  PROVE  Whole'
<1>1. PICK i \in lists[at] : hand' = <<at, i>> /\ Unlist(<<at, i>>) /\ Switch(<<at, i>>)
  BY DEF TakeFirst
<1> DEFINE b == <<at, i>>
<1>2. at \in Level /\ at < TOTAL_LEVEL
  <2>1. want \in Level /\ want <= at /\ at < TOTAL_LEVEL /\ at \in Int
    BY DEF TakeFirst, Shape, Control, TypeOK
  <2> QED BY <2>1, LevelType DEF Level
<1>3. b \in Block /\ b[1] = at /\ b[2] = i
  BY <1>2, LevelType DEF Block, Shape, TypeOK
<1>4. b \in Listed
  BY <1>2, <1>3, BlocksType DEF Shape
<1>5. drop = None /\ hand = None
  BY DEF TakeFirst, Shape, Control
<1> HIDE DEF b
<1>6. /\ hand' = b /\ Switch(b)
      /\ lists' = [lists EXCEPT ![b[1]] = @ \ {b[2]}]
      /\ UNCHANGED <<held, donated, drop, off, rem>>
  BY <1>1, <1>3 DEF TakeFirst, Unlist, loop, b
<1>7. Listed' = Listed \ {b}
  BY <1>2, <1>3, <1>6, BlocksInFacts DEF Listed, Shape, TypeOK
<1>8. Carried = {} /\ Carried' = {b}
  BY <1>3, <1>5, <1>6, NoneType DEF Carried
<1>9. Blocks' = Blocks
  BY <1>4, <1>6, <1>7, <1>8 DEF Blocks
<1>10. Tiles'
  <2>1. Rest' = Rest
    BY <1>6 DEF Rest
  <2> QED BY <1>6, <1>9, <2>1 DEF Whole, Tiles, Separate, PagesOf, Conserved
<1>11. Kinds'
  BY <1>4, <1>5, <1>6, <1>7, <1>8 DEF Whole, Kinds
<1>12. Bits'
  <2>1. lists' \in [0..(TOTAL_LEVEL - 1) -> SUBSET Nat]
    BY <1>3, <1>6, NoneType DEF Shape, TypeOK
  <2> QED BY <1>2, <1>3, <1>4, <1>6, <2>1, BitsStep DEF Shape, Whole
<1>13. Coalesced'
  BY <1>7 DEF Whole, Coalesced
<1> QED BY <1>10, <1>11, <1>12, <1>13 DEF Whole

\* pageman_alloc cuts the block it brings down in two.
LEMMA CutWhole ==
  ASSUME Shape, Whole, Slice
  PROVE  Whole'
<1> DEFINE x == <<hand[1] - 1, 2 * hand[2]>>  y == Buddy(x)
<1>1. /\ hand \in Block /\ hand # None /\ drop = None
      /\ hand[1] - 1 \in Level /\ hand[1] - 1 < TOTAL_LEVEL
      /\ hand[1] \in Nat /\ hand[2] \in Nat
  <2>1. hand \in Block /\ hand # None /\ drop = None /\ want \in Level /\ hand[1] > want
        /\ hand[1] < TOTAL_LEVEL
    BY NoneType DEF Slice, Shape, Control, TypeOK
  <2> QED BY <2>1, NoneType, LevelType DEF Level
<1>2. x \in Block /\ x[1] = hand[1] - 1 /\ x[2] = 2 * hand[2]
  BY <1>1 DEF Block
<1>3. Super(x) = hand
  <2>1. (2 * hand[2]) \div 2 = hand[2] /\ (hand[1] - 1) + 1 = hand[1]
    BY <1>1
  <2> QED BY <1>1, <1>2, <2>1, NoneType DEF Super
<1>4. hand' = x /\ drop' = y /\ UNCHANGED <<lists, bitmaps, held, donated, off, rem>>
  BY DEF Slice, mem, loop
<1> HIDE DEF x
<1>5. /\ y \in Block /\ y[1] = x[1] /\ y # x
      /\ Pages(hand) = Pages(x) \cup Pages(y) /\ Pages(x) \cap Pages(y) = {}
  BY <1>1, <1>2, <1>3, BuddyFacts
<1> HIDE DEF y
<1>6. x # hand /\ y # hand
  BY <1>1, <1>2, <1>5
<1>7. Carried = {hand} /\ Carried' = {x, y}
  BY <1>1, <1>2, <1>4, <1>5, NoneType DEF Carried
<1>8. hand \notin Listed /\ hand \notin held
  BY <1>7 DEF Whole, Kinds
<1>9. Listed' = Listed
  BY <1>4 DEF Listed, BlocksIn
<1>10. Blocks' = (Blocks \ {hand}) \cup {x, y}
  BY <1>4, <1>7, <1>8, <1>9 DEF Blocks
<1>11. Blocks \in SUBSET Block /\ Separate(Blocks) /\ hand \in Blocks
  BY <1>7, BlocksType DEF Shape, Whole, Tiles, Blocks
<1>12. /\ Separate((Blocks \ {hand}) \cup {x, y})
       /\ PagesOf((Blocks \ {hand}) \cup {x, y}) = PagesOf(Blocks)
       /\ x \notin Blocks /\ y \notin Blocks
  <2> HIDE DEF Shape, Whole
  <2> QED BY <1>2, <1>5, <1>6, <1>11, SplitBlock
<1>13. Tiles'
  <2>1. Rest' = Rest
    BY <1>4 DEF Rest
  <2>2. Conserved'
    BY <1>4, <1>10, <1>12, <2>1 DEF Whole, Tiles, Conserved, PagesOf
  <2>3. Separate(Blocks') /\ PagesOf(Blocks') \cap Rest' = {}
    BY <1>10, <1>12, <2>1 DEF Whole, Tiles
  <2> QED BY <2>2, <2>3 DEF Tiles, Separate, PagesOf
<1>14. Kinds'
  BY <1>4, <1>5, <1>7, <1>9, <1>12 DEF Whole, Kinds, Blocks
<1>15. Bits' /\ Coalesced'
  BY <1>4, <1>9 DEF Whole, Bits, Coalesced
<1> QED BY <1>13, <1>14, <1>15 DEF Whole

\* Every step keeps the blocks whole.
LEMMA WholeStep == Shape /\ Whole /\ [Next]_vars => Whole'
<1> SUFFICES ASSUME Shape, Whole, [Next]_vars PROVE Whole'
  OBVIOUS
<1>1. ASSUME NEW r \in Regions, FreeBlockCall(r) PROVE Whole'
  BY <1>1, DonateWhole
<1>2. ASSUME NEW b \in held, FreeCall(b) PROVE Whole'
  <2>1. /\ drop = None /\ hand = None /\ b \in Block
        /\ held' = held \ {b} /\ drop' = b
        /\ UNCHANGED <<lists, bitmaps, donated, hand, off, rem>>
    BY <1>2 DEF FreeCall, Shape, Control, TypeOK, mem, loop
  <2>2. Listed' = Listed /\ Carried = {} /\ Carried' = {b} /\ Rest' = Rest
    BY <2>1, NoneType DEF Listed, BlocksIn, Carried, Rest
  <2>3. Blocks' = Blocks
    BY <2>1, <2>2 DEF Blocks
  <2>4. Kinds'
    BY <2>1, <2>2, NoneType DEF Whole, Kinds
  <2> QED BY <2>1, <2>2, <2>3, <2>4, HandOver
<1>3. ASSUME UpFree PROVE Whole'
  <2>1. at \in Level /\ rem >= Width[at] /\ pc = "up" /\ FreeSlice("up")
    BY <1>3, LevelType DEF UpFree, UpFits, Shape, TypeOK, Loops, Level
  <2> QED BY <2>1, SliceWhole
<1>4. ASSUME DownFree PROVE Whole'
  <2>1. at \in Level /\ rem >= Width[at] /\ pc = "down" /\ FreeSlice("down")
    BY <1>4, LevelType DEF DownFree, Shape, TypeOK, Loops, Level
  <2> QED BY <2>1, SliceWhole
<1>5. ASSUME DownDone PROVE Whole'
  <2>1. rem = 0 /\ rem' = 0 /\ off' = 0 /\ off \in Nat
    <3>1. at + 1 = 0 /\ rem < Width[at + 1] /\ rem \in Nat /\ off \in Nat
      BY <1>5 DEF DownDone, Shape, TypeOK, Loops
    <3> QED BY <1>5, <3>1, WidthAssumption DEF DownDone
  <2>2. Rest' = Rest
    BY <2>1 DEF Rest
  <2> QED BY <1>5, <2>2, QuietStep DEF DownDone, mem
<1>6. ASSUME \/ UpSkip \/ UpDone \/ HugeFree \/ HugeDone \/ DownSkip
             \/ InsertPastLists \/ \E size \in Level : AllocCall(size)
             \/ SearchUp \/ SearchFail \/ UNCHANGED vars
      PROVE  Whole'
  <2>1. UNCHANGED <<lists, bitmaps, held, donated, drop, hand, off, rem>>
    BY <1>6 DEF UpSkip, UpDone, HugeFree, HugeDone, DownSkip, InsertPastLists, AllocCall,
                SearchUp, SearchFail, vars, mem, loop
  <2>2. Rest' = Rest
    BY <2>1 DEF Rest
  <2> QED BY <2>1, <2>2, QuietStep
<1>7. ASSUME Merge PROVE Whole'
  BY <1>7, MergeWhole
<1>8. ASSUME Insert PROVE Whole'
  BY <1>8, InsertWhole
<1>9. ASSUME TakeFirst PROVE Whole'
  BY <1>9, TakeWhole
<1>10. ASSUME Slice PROVE Whole'
  BY <1>10, CutWhole
<1>11. ASSUME AllocReturn PROVE Whole'
  <2>1. /\ drop = None /\ hand # None /\ hand \in Block
        /\ held' = held \cup {hand} /\ hand' = None
        /\ UNCHANGED <<lists, bitmaps, donated, drop, off, rem>>
    BY <1>11 DEF AllocReturn, Shape, Control, TypeOK, mem, loop
  <2>2. Listed' = Listed /\ Carried = {hand} /\ Carried' = {} /\ Rest' = Rest
    BY <2>1 DEF Listed, BlocksIn, Carried, Rest
  <2>3. Blocks' = Blocks
    BY <2>1, <2>2 DEF Blocks
  <2>4. Kinds'
    BY <2>1, <2>2 DEF Whole, Kinds
  <2> QED BY <2>1, <2>2, <2>3, <2>4, HandOver
<1> QED BY <1>1, <1>2, <1>3, <1>4, <1>5, <1>6, <1>7, <1>8, <1>9, <1>10, <1>11
        DEF Next, FreeBlockStep, FreeStep, AllocStep

-----------------------------------------------------------------------------
(* The spare count *)

Counted == IsFiniteSet(PagesOf(Listed)) /\ SpareCounts

\* Nothing is listed at first.
LEMMA InitCounted == Init => Counted
<1> SUFFICES ASSUME Init PROVE Counted
  OBVIOUS
<1>1. PagesOf(Listed) = {} /\ spare = 0
  BY DEF Init, Listed, BlocksIn, PagesOf
<1> QED BY <1>1, FS_EmptySet DEF Counted, SpareCounts

\* A block leaves the lists.
LEMMA CountLess ==
  ASSUME Shape, Whole, Counted, NEW b \in Listed,
         Listed' = Listed \ {b}, spare' = spare - Width[b[1]]
  PROVE  Counted'
<1>1. b \in Block
  BY BlocksType DEF Shape
<1>2. (Listed \ {b}) \cup {b} = Listed
  OBVIOUS
<1>3. Pages(b) \cap PagesOf(Listed \ {b}) = {}
  BY DEF Whole, Tiles, Separate, Blocks, PagesOf
<1> DEFINE n == Cardinality(PagesOf(Listed \ {b}))  w == Width[b[1]]
<1>4. /\ IsFiniteSet(PagesOf(Listed \ {b})) /\ n \in Nat /\ w \in Nat
      /\ Cardinality(PagesOf(Listed)) = n + w
  BY <1>1, <1>2, <1>3, NoneType, WidthType, CountBlock DEF Counted
<1> HIDE DEF n, w
<1>5. spare = n + w
  BY <1>4 DEF Counted, SpareCounts
<1>6. spare' = n
  BY <1>4, <1>5 DEF w
<1>7. PagesOf(Listed)' = PagesOf(Listed \ {b})
  BY DEF PagesOf
<1> QED BY <1>4, <1>6, <1>7 DEF Counted, SpareCounts, n

\* A block joins them.
LEMMA CountMore ==
  ASSUME Counted, NEW b \in Block, Pages(b) \cap PagesOf(Listed) = {},
         Listed' = Listed \cup {b}, spare' = spare + Width[b[1]]
  PROVE  Counted'
<1>1. /\ IsFiniteSet(PagesOf(Listed \cup {b}))
      /\ Cardinality(PagesOf(Listed \cup {b})) = spare'
  BY CountBlock DEF Counted, SpareCounts
<1>2. PagesOf(Listed)' = PagesOf(Listed \cup {b})
  BY DEF PagesOf
<1> QED BY <1>1, <1>2 DEF Counted, SpareCounts

\* spare follows the lists through every step.
LEMMA CountStep == Shape /\ Whole /\ Counted /\ [Next]_vars => Counted'
<1> SUFFICES ASSUME Shape, Whole, Counted, [Next]_vars PROVE Counted'
  OBVIOUS
<1>1. ASSUME UNCHANGED <<lists, spare>> PROVE Counted'
  BY <1>1 DEF Counted, SpareCounts, Listed, BlocksIn, PagesOf
<1>2. ASSUME Merge PROVE Counted'
  BY <1>2, MergeFacts, CountLess
<1>3. ASSUME Insert PROVE Counted'
  <2>1. drop \in Block /\ drop # None /\ drop[1] < TOTAL_LEVEL
    BY <1>3, NoneType DEF Insert, Shape, Control, TypeOK
  <2>2. lists' = [lists EXCEPT ![drop[1]] = @ \cup {drop[2]}] /\ spare' = spare + Width[drop[1]]
    BY <1>3 DEF Insert
  <2>3. Listed' = Listed \cup {drop}
    BY <2>1, <2>2, BlocksInFacts DEF Listed, Shape, TypeOK
  <2>4. drop \in Blocks /\ drop \notin Listed
    BY <2>1 DEF Carried, Blocks, Whole, Kinds
  <2>5. Pages(drop) \cap PagesOf(Listed) = {}
    BY <2>4 DEF Whole, Tiles, Separate, Blocks, PagesOf
  <2> QED BY <2>1, <2>2, <2>3, <2>5, CountMore
<1>4. ASSUME TakeFirst PROVE Counted'
  <2>1. PICK i \in lists[at] : Unlist(<<at, i>>)
    BY <1>4 DEF TakeFirst
  <2>2. want \in Level /\ want <= at /\ at < TOTAL_LEVEL /\ at \in Int
    BY <1>4 DEF TakeFirst, Shape, Control, TypeOK
  <2>3. <<at, i>> \in Block
    BY <2>2, LevelType DEF Block, Level, Shape, TypeOK
  <2> DEFINE b == <<at, i>>
  <2>4. b \in Block /\ b \in Listed /\ b[1] < TOTAL_LEVEL
    BY <2>2, <2>3, BlocksType DEF Shape
  <2> HIDE DEF b
  <2>5. lists' = [lists EXCEPT ![b[1]] = @ \ {b[2]}] /\ spare' = spare - Width[b[1]]
    BY <2>1 DEF Unlist, b
  <2>6. Listed' = Listed \ {b}
    BY <2>4, <2>5, BlocksInFacts DEF Listed, Shape, TypeOK
  <2> QED BY <2>4, <2>5, <2>6, CountLess
<1>5. \/ Merge \/ Insert \/ TakeFirst \/ UNCHANGED <<lists, spare>>
  BY DEF Next, FreeBlockStep, FreeStep, AllocStep, FreeBlockCall, FreeCall, AllocCall,
         UpFree, UpSkip, UpDone, HugeFree, HugeDone, DownFree, DownSkip, DownDone, FreeSlice,
         InsertPastLists, SearchUp, SearchFail, Slice, AllocReturn, vars, mem
<1> QED BY <1>1, <1>2, <1>3, <1>4, <1>5

-----------------------------------------------------------------------------
(* The invariant *)

Full == Shape /\ Whole /\ Slicing /\ Counted

\* The block kept and the block freed while unwinding stay buddies, because
\* the free never merges.
LEMMA NoMergeWhileSlicing ==
  ASSUME Shape, Whole, Slicing, pc = "free", resume = "unwind"
  PROVE  ~BuddyIsFree
<1> SUFFICES ASSUME BuddyIsFree PROVE FALSE
  OBVIOUS
<1>1. /\ hand \in Block /\ hand # None /\ drop = Buddy(hand)
      /\ drop \in Block /\ drop # None /\ drop[1] < TOTAL_LEVEL
  BY NoneType DEF Shape, Control, TypeOK, Slicing, BuddyIsFree
<1>2. drop \in Carried /\ hand \in Carried
  BY <1>1 DEF Carried
<1>3. drop \notin Listed /\ hand \notin Listed
  BY <1>2 DEF Whole, Kinds
<1>4. Buddy(drop) = hand
  BY <1>1, BuddyTwice
<1> QED BY <1>1, <1>3, <1>4, BitFact DEF BuddyIsFree, Shape, Whole

\* ... so every step keeps them buddies.
LEMMA SlicingStep == Shape /\ Whole /\ Slicing /\ [Next]_vars => Slicing'
<1> SUFFICES ASSUME Shape, Whole, Slicing, [Next]_vars, resume' = "unwind"
             PROVE  drop' = Buddy(hand)'
  BY DEF Slicing
<1>1. CASE Slice
  BY <1>1 DEF Slice, Buddy
<1>2. CASE Merge
  <2>1. pc = "free" /\ resume = "unwind" /\ BuddyIsFree
    BY <1>2 DEF Merge
  <2> QED BY <2>1, NoMergeWhileSlicing
<1>3. CASE UNCHANGED <<resume, drop, hand>>
  BY <1>3 DEF Slicing, Buddy
<1>4. resume # "idle" => pc \in {"free", "wild"}
  BY DEF Shape, Control
<1>5. \/ Slice \/ Merge \/ UNCHANGED <<resume, drop, hand>>
  BY <1>4 DEF Next, FreeBlockStep, FreeStep, AllocStep, FreeBlockCall, FreeCall, AllocCall,
         UpFree, UpSkip, UpDone, HugeFree, HugeDone, DownFree, DownSkip, DownDone, FreeSlice,
         Insert, InsertPastLists, SearchUp, SearchFail, TakeFirst, AllocReturn, vars
<1> QED BY <1>1, <1>2, <1>3, <1>5

\* The invariant holds in every reachable state.
LEMMA FullInvariant == Spec => []Full
<1>1. Init => Full
  BY InitShape, InitWhole, InitCounted DEF Full, Init, Slicing
<1>2. Full /\ [Next]_vars => Full'
  BY ShapeStep, WholeStep, SlicingStep, CountStep DEF Full
<1> QED BY <1>1, <1>2, PTL DEF Spec

\* PageMan's named invariants are parts of it.
LEMMA FullParts ==
  ASSUME Full
  PROVE  /\ TypeOK /\ Control /\ Loops /\ Slicing
         /\ NoOverlap /\ Conserved /\ BitmapMatchesLists /\ Coalesced /\ SpareCounts
<1>1. NoOverlap
  BY DEF Full, Whole, Tiles, Kinds, Separate, NoOverlap
<1>2. BitmapMatchesLists
  BY BitsEquiv DEF Full, Shape, Whole
<1> QED BY <1>1, <1>2 DEF Full, Shape, Whole, Tiles, Counted

\* The strengthening that the runs check on small memories holds for all.
THEOREM InvariantCorrect == Spec => []IInv
<1>1. Full => IInv
  BY FullParts DEF IInv
<1> QED BY <1>1, FullInvariant, PTL

\* No page ever belongs to two blocks, wherever the blocks are.
THEOREM NoOverlapCorrect == Spec => []NoOverlap
<1>1. Full => NoOverlap
  BY FullParts
<1> QED BY <1>1, FullInvariant, PTL

\* A bit is set exactly while one of the two buddies is listed.
THEOREM BitmapCorrect == Spec => []BitmapMatchesLists
<1>1. Full => BitmapMatchesLists
  BY FullParts
<1> QED BY <1>1, FullInvariant, PTL

\* Free buddies are always merged.
THEOREM CoalescedCorrect == Spec => []Coalesced
<1>1. Full => Coalesced
  BY FullParts
<1> QED BY <1>1, FullInvariant, PTL

\* pageman_spare tells the number of listed pages.
THEOREM SpareCorrect == Spec => []SpareCounts
<1>1. Full => SpareCounts
  BY FullParts
<1> QED BY <1>1, FullInvariant, PTL

\* Between calls every page given to the manager is listed or held.
THEOREM NothingLostCorrect == Spec => []NothingLost
<1>1. Full => NothingLost
  <2> SUFFICES ASSUME Full, pc = "idle"
               PROVE  PagesOf(Listed) \cup PagesOf(held) = UNION {RegionPages(r) : r \in donated}
    BY DEF NothingLost
  <2>1. Carried = {} /\ rem = 0 /\ off \in Nat
    BY FullParts DEF Control, TypeOK, Carried
  <2>2. Rest = {} /\ Blocks = Listed \cup held
    BY <2>1 DEF Rest, Blocks
  <2> QED BY <2>2, FullParts DEF Conserved, PagesOf
<1> QED BY <1>1, FullInvariant, PTL

-----------------------------------------------------------------------------
(* The bounds of the bitmaps *)

\* A level's bytes hold the bits up to that of the last page.
LEMMA BytesHold ==
  ASSUME NEW l \in 0..(TOTAL_LEVEL - 1), NEW o \in Nat, Limit - 1 \in Nat,
         o <= (Limit - 1) \div (2 * Width[l])
  PROVE  o < 8 * LevelBytes(l)
<1> DEFINE x == (Limit - 1) \div (2 * Width[l])
<1>1. x \in Nat
  <2>1. 2 * Width[l] \in Nat \ {0}
    BY LevelType, WidthAssumption
  <2> HIDE DEF x
  <2> QED BY <2>1, DivMod DEF x
<1> HIDE DEF x
<1> DEFINE d == (x + 1 + 8 - 1) \div 8
<1>2. d \in Nat /\ x < d * 8
  BY <1>1
<1> HIDE DEF d
<1>3. (d * 8) \div 8 = d
  BY <1>2, DivUnique
<1>4. LevelBytes(l) = d
  BY <1>3 DEF LevelBytes, AlignTo, d, x
<1> QED BY <1>1, <1>2, <1>4 DEF x

\* The bit of a page's block is not above the bit of the last page.
LEMMA BitOfPage ==
  ASSUME NEW w \in Nat \ {0}, NEW o \in Nat, NEW p \in Nat, NEW q \in Nat,
         o * (2 * w) <= p, p \div 2 <= q \div 2
  PROVE  o <= q \div (2 * w)
<1>1. PICK k \in Nat : k = o * w
  OBVIOUS
<1>2. o * (2 * w) = 2 * k
  BY <1>1, SMT
<1>3. k <= p \div 2
  BY <1>2
<1>4. 2 * k <= q
  BY <1>3
<1>5. 2 * w \in Nat \ {0} /\ 2 * k \in Nat
  OBVIOUS
<1>6. (2 * k) \div (2 * w) = o
  BY <1>2, <1>5, DivUnique
<1>7. (2 * k) \div (2 * w) <= q \div (2 * w)
  BY <1>4, <1>5, DivMono
<1> QED BY <1>6, <1>7

\* bitmap_switch stays in the bytes that pageman_create set aside, on every
\* level: a bit is only ever set for a listed block, and that lies in memory.
THEOREM BitmapInBoundsCorrect == RegionsCovered => (Spec => []BitmapInBounds)
<1>1. ASSUME Full, RegionsCovered, NEW l \in 0..(TOTAL_LEVEL - 1), NEW o \in bitmaps[l]
      PROVE  o < 8 * LevelBytes(l)
  <2>1. TypeOK /\ BitmapMatchesLists /\ Conserved
    BY <1>1, FullParts
  <2>2. l \in Level /\ Width[l] \in Nat \ {0} /\ o \in Nat
    BY <2>1, LevelType, WidthAssumption DEF TypeOK
  <2>3. PICK i \in lists[l] : i = 2 * o \/ i = 2 * o + 1
    BY <2>1 DEF BitmapMatchesLists
  <2>4. i \in Nat /\ <<l, i>> \in Listed
    <3>1. lists[l] \subseteq Nat
      BY <2>1, <2>2 DEF TypeOK
    <3> QED BY <2>2, <2>3, <3>1 DEF Listed, BlocksIn
  <2>5. PICK p \in Nat : p = i * Width[l]
    BY <2>2, <2>4
  <2>6. p \in Pages(<<l, i>>)
    BY <2>2, <2>4, <2>5 DEF Pages, Start
  <2>7. PICK r \in AllRegions : p \in RegionPages(r)
    <3>1. p \in PagesOf(Blocks)
      BY <2>4, <2>6 DEF PagesOf, Blocks
    <3>2. p \in UNION {RegionPages(r) : r \in donated}
      BY <2>1, <3>1 DEF Conserved
    <3>3. donated \subseteq AllRegions
      BY <2>1 DEF TypeOK
    <3> QED BY <3>2, <3>3
  <2>8. p \div 2 <= (Limit - 1) \div 2
    BY <1>1, <2>7 DEF RegionsCovered
  <2>9. Limit - 1 \in Nat
    BY <2>5, <2>8, SizeAssumption
  <2>10. o * (2 * Width[l]) <= p
    <3>1. PICK k \in Nat : k = o * Width[l]
      BY <2>2
    <3>2. o * (2 * Width[l]) = 2 * k /\ (2 * o) * Width[l] = 2 * k
          /\ (2 * o + 1) * Width[l] = 2 * k + Width[l]
      BY <2>2, <3>1, SMT
    <3> QED BY <2>2, <2>3, <2>5, <3>1, <3>2
  <2>11. o <= (Limit - 1) \div (2 * Width[l])
    BY <2>2, <2>5, <2>8, <2>9, <2>10, BitOfPage
  <2> QED BY <2>2, <2>9, <2>11, BytesHold
<1>2. SUFFICES ASSUME RegionsCovered PROVE Spec => []BitmapInBounds
  OBVIOUS
<1>3. Full => BitmapInBounds
  BY <1>1, <1>2 DEF BitmapInBounds
<1> QED BY <1>3, FullInvariant, PTL

\* The free inside an allocation never takes back what is handed out.
THEOREM SliceNeverMergesCorrect == Spec => []SliceNeverMerges
<1>1. Full => SliceNeverMerges
  BY NoMergeWhileSlicing DEF Full, SliceNeverMerges
<1> QED BY <1>1, FullInvariant, PTL

-----------------------------------------------------------------------------
(* Refusals *)

\* A free aligned run lies inside one listed block of its level or above:
\* smaller listed blocks that filled it would have merged.
LEMMA Covered ==
  ASSUME TypeOK, Coalesced
  PROVE  \A k \in Level, i \in Nat :
           Pages(<<k, i>>) \subseteq PagesOf(Listed) =>
             \E b \in Listed : b[1] >= k /\ Pages(<<k, i>>) \subseteq Pages(b)
<1> DEFINE S == {k \in Nat : k \in Level => \A i \in Nat :
                   Pages(<<k, i>>) \subseteq PagesOf(Listed) =>
                     \E b \in Listed : b[1] >= k /\ Pages(<<k, i>>) \subseteq Pages(b)}
<1>1. \A b \in Listed : b \in Block /\ b[1] \in Level /\ b[1] \in Nat
  BY BlocksType, NoneType, LevelType
<1>2. 0 \in S
  <2> SUFFICES ASSUME NEW i \in Nat, Pages(<<0, i>>) \subseteq PagesOf(Listed)
               PROVE  \E b \in Listed : b[1] >= 0 /\ Pages(<<0, i>>) \subseteq Pages(b)
    OBVIOUS
  <2>1. <<0, i>> \in Block /\ Start(<<0, i>>) \in Pages(<<0, i>>)
    BY LevelType, PagesType DEF Block, Level
  <2>2. PICK b \in Listed : Start(<<0, i>>) \in Pages(b)
    BY <2>1 DEF PagesOf
  <2>3. b \in Block /\ b[1] >= 0
    BY <1>1
  <2>4. Pages(<<0, i>>) \subseteq Pages(b)
    BY <2>1, <2>2, <2>3, Nested
  <2> QED BY <2>3, <2>4
<1>3. ASSUME NEW k \in S PROVE k + 1 \in S
  <2> SUFFICES ASSUME k + 1 \in Level, NEW i \in Nat,
                      Pages(<<k + 1, i>>) \subseteq PagesOf(Listed)
               PROVE  \E b \in Listed : b[1] >= k + 1 /\ Pages(<<k + 1, i>>) \subseteq Pages(b)
    OBVIOUS
  <2> DEFINE s == <<k + 1, i>>  x == <<k, 2 * i>>  y == Buddy(x)
  <2>1. k \in Level /\ k < TOTAL_LEVEL /\ k \in Nat
    BY LevelType DEF Level
  <2>2. s \in Block /\ x \in Block /\ Super(x) = s
    <3>1. (2 * i) \div 2 = i /\ 2 * i \in Nat
      OBVIOUS
    <3> QED BY <2>1, <3>1 DEF Block, Super
  <2>3. /\ y \in Block /\ y[1] = k /\ x[1] = k /\ s[1] = k + 1
        /\ Pages(s) = Pages(x) \cup Pages(y)
    BY <2>1, <2>2, BuddyFacts
  <2>4. y = <<k, y[2]>> /\ y[2] \in Nat
    BY <2>3, NoneType
  <2>5. PICK b \in Listed : b[1] >= k /\ Pages(x) \subseteq Pages(b)
    BY <2>1, <2>3
  <2>6. PICK c \in Listed : c[1] >= k /\ Pages(y) \subseteq Pages(c)
    <3> HIDE DEF y
    <3>1. Pages(<<k, y[2]>>) \subseteq PagesOf(Listed)
      BY <2>3, <2>4
    <3> QED BY <2>1, <2>4, <3>1
  <2> HIDE DEF s, x, y
  <2>7. Start(x) \in Pages(x) /\ Start(y) \in Pages(y)
    BY <2>2, <2>3, PagesType
  <2>8. ASSUME b[1] >= k + 1 PROVE Pages(s) \subseteq Pages(b)
    <3>1. Start(x) \in Pages(s) \cap Pages(b) /\ s[1] <= b[1] /\ b \in Block
      BY <1>1, <2>1, <2>3, <2>5, <2>7, <2>8
    <3> QED BY <2>2, <3>1, Nested
  <2>9. ASSUME c[1] >= k + 1 PROVE Pages(s) \subseteq Pages(c)
    <3>1. Start(y) \in Pages(s) \cap Pages(c) /\ s[1] <= c[1] /\ c \in Block
      BY <1>1, <2>1, <2>3, <2>6, <2>7, <2>9
    <3> QED BY <2>2, <3>1, Nested
  <2>10. ~(b[1] = k /\ c[1] = k)
    <3> SUFFICES ASSUME b[1] = k, c[1] = k PROVE FALSE
      OBVIOUS
    <3>1. b = x
      BY <1>1, <2>2, <2>3, <2>5, <2>7, SameLevel
    <3>2. c = y
      BY <1>1, <2>3, <2>6, <2>7, SameLevel
    <3> QED BY <2>1, <2>3, <3>1, <3>2 DEF Coalesced, y
  <2>11. b[1] >= k + 1 \/ c[1] >= k + 1
    BY <1>1, <2>1, <2>5, <2>6, <2>10
  <2> QED BY <2>8, <2>9, <2>11 DEF s
<1>4. S = Nat
  <2>1. S \in SUBSET Nat
    OBVIOUS
  <2> HIDE DEF S
  <2> QED BY <1>2, <1>3, <2>1, SetInduction
<1> QED BY <1>4, LevelType

-----------------------------------------------------------------------------
(* The pages the manager owns *)

Given == UNION {RegionPages(r) : r \in donated}
Pool == PagesOf(Listed \cup Carried) \cup Rest
OwnsTheRest == Pool = Given \ PagesOf(held) /\ PagesOf(held) \subseteq Given

\* The manager owns what it was given and callers do not hold.
LEMMA PoolIs == Full => OwnsTheRest
<1> SUFFICES ASSUME Full PROVE OwnsTheRest
  OBVIOUS
<1>1. PagesOf(Blocks) = PagesOf(Listed \cup Carried) \cup PagesOf(held)
  BY DEF Blocks, PagesOf
<1>2. PagesOf(Listed \cup Carried) \cap PagesOf(held) = {}
  <2>1. \A b \in Listed \cup Carried : b \in Blocks /\ b \notin held
    BY DEF Full, Whole, Kinds, Blocks
  <2>2. \A c \in held : c \in Blocks
    BY DEF Blocks
  <2>3. \A b \in Listed \cup Carried, c \in held : Pages(b) \cap Pages(c) = {}
    BY <2>1, <2>2 DEF Full, Whole, Tiles, Separate
  <2> QED BY <2>3 DEF PagesOf
<1>3. PagesOf(Blocks) \cap Rest = {} /\ PagesOf(Blocks) \cup Rest = Given
  BY DEF Full, Whole, Tiles, Conserved, Given
<1> QED BY <1>1, <1>2, <1>3 DEF Pool, OwnsTheRest

-----------------------------------------------------------------------------
(* The write past the lists *)

TopInPool == \E i \in Nat : Pages(<<TOTAL_LEVEL, i>>) \subseteq Pool

\* A whole top block of the pool is one of the free pages.
LEMMA TopIsFree ==
  ASSUME Full, TopInPool
  PROVE  WholeTops # {}
<1>1. FreePages = Pool
  BY PoolIs DEF OwnsTheRest, Given, FreePages
<1>2. PICK i \in Nat : Pages(<<TOTAL_LEVEL, i>>) \subseteq FreePages
  BY <1>1 DEF TopInPool
<1> DEFINE w == Width[TOTAL_LEVEL]  p == i * w
<1>3. <<TOTAL_LEVEL, i>> \in Block /\ w \in Nat \ {0}
  BY LevelType, WidthType DEF Block
<1>4. p = Start(<<TOTAL_LEVEL, i>>) /\ p \in FreePages /\ p \in Nat
  BY <1>2, <1>3, PagesType DEF Start
<1> HIDE DEF p
<1>5. p \div w = i
  BY <1>3, DivUnique DEF p
<1> QED BY <1>2, <1>4, <1>5 DEF WholeTops

\* The two steps that write past the lists have such a block in hand.
LEMMA TopStep ==
  ASSUME Full, pc = "wild" => TopInPool, [Next]_vars, pc' = "wild"
  PROVE  TopInPool'
<1>1. CASE HugeFree
  <2> DEFINE w == Width[TOTAL_LEVEL]  i == off \div w
  <2>1. pc = "huge" /\ rem >= w /\ off \in Nat /\ rem \in Nat /\ w \in Nat \ {0}
    BY <1>1, LevelType, WidthType DEF HugeFree, Full, Shape, TypeOK
  <2>2. PICK l \in Level : Aligned(l) /\ (rem < Width[l] \/ l = TOTAL_LEVEL)
    BY <2>1 DEF Full, Shape, Loops
  <2>3. Width[l] \in Nat /\ Width[l] <= w
    BY LevelType, WidthType, WidthMono DEF Level
  <2>4. off % w = 0
    BY <2>1, <2>2, <2>3 DEF Aligned
  <2>5. i \in Nat /\ Pages(<<TOTAL_LEVEL, i>>) = off..(off + w - 1)
    <3>1. <<TOTAL_LEVEL, i>> \in Block /\ Pages(<<TOTAL_LEVEL, i>>) = off..(off + w - 1)
      BY <2>1, <2>4, LevelType, AlignedBlock
    <3>2. i \in Nat
      BY <2>1, DivMod
    <3> QED BY <3>1, <3>2
  <2> HIDE DEF i, w
  <2>6. Pages(<<TOTAL_LEVEL, i>>) \subseteq Pool
    BY <2>1, <2>5 DEF Pool, Rest
  <2>7. Pool' = Pool
    BY <1>1 DEF HugeFree, mem, loop, Pool, Carried, Rest, Listed, BlocksIn, PagesOf
  <2> QED BY <2>5, <2>6, <2>7 DEF TopInPool
<1>2. CASE InsertPastLists
  <2>1. drop \in Block /\ drop # None /\ drop[1] >= TOTAL_LEVEL
    BY <1>2, NoneType DEF InsertPastLists, Full, Shape, Control, TypeOK
  <2>2. drop = <<TOTAL_LEVEL, drop[2]>> /\ drop[2] \in Nat
    BY <2>1, NoneType, LevelType
  <2>3. Pages(drop) \subseteq Pool
    BY <2>1 DEF Pool, PagesOf, Carried
  <2>4. Pool' = Pool
    BY <1>2 DEF InsertPastLists, mem, loop, Pool, Carried, Rest, Listed, BlocksIn, PagesOf
  <2> QED BY <2>2, <2>3, <2>4 DEF TopInPool
<1>3. CASE UNCHANGED vars
  <2>1. TopInPool
    BY <1>3 DEF vars
  <2>2. Pool' = Pool
    BY <1>3 DEF vars, Pool, Carried, Rest, Listed, BlocksIn, PagesOf
  <2> QED BY <2>1, <2>2 DEF TopInPool
<1>4. HugeFree \/ InsertPastLists \/ UNCHANGED vars
  <2>1. resume # "wild"
    BY DEF Full, Shape, TypeOK
  <2> QED BY <2>1 DEF Next, FreeBlockStep, FreeStep, AllocStep, FreeBlockCall, FreeCall,
             AllocCall, UpFree, UpSkip, UpDone, HugeDone, DownFree, DownSkip, DownDone,
             FreeSlice, Merge, Insert, SearchUp, SearchFail, TakeFirst, Slice, AllocReturn
<1> QED BY <1>1, <1>2, <1>3, <1>4

\* A call that returned left no whole top block free: it would have been
\* merged, and the merge does not return.
LEMMA NoTopIdle ==
  ASSUME Full, pc = "idle"
  PROVE  WholeTops = {}
<1>1. Carried = {} /\ rem = 0 /\ off \in Nat
  BY FullParts DEF Control, TypeOK, Carried
<1>2. Pool = PagesOf(Listed)
  <2>1. Rest = {} /\ Listed \cup Carried = Listed
    BY <1>1 DEF Rest
  <2> QED BY <2>1 DEF Pool
<1>3. FreePages = PagesOf(Listed)
  BY <1>2, PoolIs DEF OwnsTheRest, Given, FreePages
<1>4. \A b \in Listed : b \in Block /\ b[1] \in Level /\ b[1] < TOTAL_LEVEL
  BY BlocksType, NoneType DEF Full, Shape
<1> SUFFICES ASSUME NEW p \in FreePages,
                    Pages(<<TOTAL_LEVEL, p \div Width[TOTAL_LEVEL]>>) \subseteq FreePages
             PROVE  FALSE
  BY DEF WholeTops
<1>5. p \div Width[TOTAL_LEVEL] \in Nat /\ TOTAL_LEVEL \in Level
  <2>1. p \in Nat
    BY <1>3, <1>4, PagesType DEF PagesOf
  <2> QED BY <2>1, LevelType, WidthType, DivMod
<1>6. PICK b \in Listed : b[1] >= TOTAL_LEVEL
  BY <1>3, <1>5, Covered DEF Full, Shape, Whole
<1>7. b[1] \in Nat /\ b[1] < TOTAL_LEVEL /\ TOTAL_LEVEL \in Nat
  BY <1>4, LevelType
<1> QED BY <1>6, <1>7

\* The manager writes past its lists only with a whole block of level
\* TOTAL_LEVEL free, and returns from no call that left one free.
THEOREM AstrayAtTopCorrect == Spec => []AstrayAtTop
<1> DEFINE Wild == pc = "wild" => TopInPool
<1>1. Init => Wild
  BY DEF Init
<1>2. Full /\ Wild /\ [Next]_vars => Wild'
  BY TopStep
<1>3. Full /\ Wild => AstrayAtTop
  BY TopIsFree, NoTopIdle DEF AstrayAtTop
<1> HIDE DEF Wild
<1> QED BY <1>1, <1>2, <1>3, FullInvariant, PTL DEF Spec

-----------------------------------------------------------------------------
(* PageMan implements PageStore                                            *)

\* PageStore's pages and blocks are PageMan's.
LEMMA StoreDefs ==
  /\ \A b : Store!Pages(b) = Pages(b)
  /\ \A bs : Store!PagesOf(bs) = PagesOf(bs)
  /\ Store!Level = Level
  BY DEF Store!Pages, Store!Start, Store!PagesOf, Store!Level, Pages, Start, PagesOf, Level

\* A new region enters the pool.
LEMMA DonateStep ==
  ASSUME Full, Full', NEW r \in Regions, FreeBlockCall(r)
  PROVE  Store!Next
<1> DEFINE g == RegionPages(r)
<1>1. /\ g \in {RegionPages(s) : s \in AllRegions} /\ r \in AllRegions
      /\ held' = held /\ want' = want /\ donated' = donated \cup {r} /\ r \notin donated
  BY DEF FreeBlockCall, mem, AllRegions
<1>2. want = None
  BY DEF FreeBlockCall, Full, Shape, Control
<1>3. Given' = Given \cup g
  BY <1>1 DEF Given, RegionPages
<1>4. g \cap Given = {}
  BY <1>1, RegionAssumption DEF Given, Full, Shape, TypeOK
<1> HIDE DEF g
<1>5. Pool' = Pool \cup g /\ g \cap (Pool \cup PagesOf(held)) = {}
  <2>1. OwnsTheRest /\ OwnsTheRest'
    BY PoolIs, PTL
  <2>2. PagesOf(held)' = PagesOf(held)
    BY <1>1 DEF PagesOf
  <2> QED BY <1>3, <1>4, <2>1, <2>2 DEF OwnsTheRest
<1>6. Store!Donate(g)
  BY <1>1, <1>2, <1>5, StoreDefs DEF Store!Donate, Store!Owned, Pool
<1> QED BY <1>1, <1>6 DEF Store!Next

\* A caller gives a block back.
LEMMA ReleaseStep ==
  ASSUME Full, Full', NEW b \in held, FreeCall(b)
  PROVE  Store!Next
<1>1. held' = held \ {b} /\ donated' = donated /\ want' = want /\ want = None
  BY DEF FreeCall, Full, Shape, Control
<1>2. Given' = Given
  BY <1>1 DEF Given, RegionPages
<1>3. PagesOf(held)' = PagesOf(held) \ Pages(b)
  <2>1. \A c \in held : c # b => Pages(c) \cap Pages(b) = {}
    BY DEF Full, Whole, Tiles, Separate, Blocks
  <2>2. PagesOf(held \ {b}) = PagesOf(held) \ Pages(b)
    BY <2>1 DEF PagesOf
  <2>3. PagesOf(held)' = PagesOf(held')
    BY DEF PagesOf
  <2> QED BY <1>1, <2>2, <2>3
<1>4. Pages(b) \subseteq PagesOf(held)
  BY DEF PagesOf
<1>5. OwnsTheRest /\ OwnsTheRest'
  BY PoolIs, PTL
<1>6. Pool' = Pool \cup Pages(b)
  BY <1>2, <1>3, <1>4, <1>5 DEF OwnsTheRest
<1>7. Store!Release(b)
  BY <1>1, <1>6, StoreDefs DEF Store!Release, Pool
<1> QED BY <1>7 DEF Store!Next

\* A caller gets a block: an aligned run of the pool.
LEMMA GrantStep ==
  ASSUME Full, Full', AllocReturn
  PROVE  Store!Next
<1>1. /\ held' = held \cup {hand} /\ donated' = donated
      /\ want # None /\ want' = None /\ hand[1] = want
      /\ hand \in Block /\ want < TOTAL_LEVEL /\ want \in Level
  BY NoneType DEF AllocReturn, Full, Shape, Control, TypeOK
<1>2. Given' = Given
  BY <1>1 DEF Given, RegionPages
<1>3. PagesOf(held)' = PagesOf(held) \cup Pages(hand)
  <2>1. PagesOf(held)' = PagesOf(held')
    BY DEF PagesOf
  <2> QED BY <1>1, <2>1 DEF PagesOf
<1>4. Pages(hand) \subseteq Pool
  BY <1>1, NoneType DEF Pool, PagesOf, Carried
<1>5. OwnsTheRest /\ OwnsTheRest'
  BY PoolIs, PTL
<1>6. Pool' = Pool \ Pages(hand)
  BY <1>2, <1>3, <1>5 DEF OwnsTheRest
<1>7. hand \in Store!Available(want)
  <2> DEFINE p == Start(hand)  w == Width[want]
  <2>1. p \in Pages(hand) /\ p \in Nat /\ w \in Nat \ {0} /\ hand[2] \in Nat
        /\ p = hand[2] * w /\ hand = <<want, hand[2]>>
    BY <1>1, PagesType, WidthType, NoneType DEF Start
  <2> HIDE DEF p, w
  <2>2. p \div w = hand[2]
    BY <2>1, DivUnique
  <2>3. hand = <<want, p \div Width[want]>>
    BY <2>1, <2>2 DEF w
  <2>4. p \in Pool
    BY <1>4, <2>1
  <2> QED BY <1>4, <2>3, <2>4, StoreDefs DEF Store!Available, Pool
<1>8. Store!Grant(hand)
  BY <1>1, <1>6, <1>7, StoreDefs DEF Store!Grant, Pool
<1> QED BY <1>1, <1>7, <1>8 DEF Store!Next

\* A request is refused only when the pool holds no run that would serve it.
LEMMA RefuseStep ==
  ASSUME Full, SearchFail
  PROVE  Store!Next
<1>1. /\ want \in Level /\ want # None /\ want' = None /\ held' = held /\ donated' = donated
      /\ drop = None /\ hand = None /\ rem = 0 /\ off \in Nat
      /\ at = TOTAL_LEVEL /\ \A l \in want..(at - 1) : lists[l] = {}
      /\ UNCHANGED <<lists, drop, hand, off, rem>>
  BY NoneType, LevelType DEF SearchFail, Full, Shape, Control, TypeOK, mem, loop
<1>2. Carried = {} /\ Rest = {} /\ Pool = PagesOf(Listed)
  <2>1. Carried = {}
    BY <1>1 DEF Carried
  <2>2. Rest = {}
    BY <1>1 DEF Rest
  <2>3. Listed \cup Carried = Listed
    BY <2>1
  <2> QED BY <2>1, <2>2, <2>3 DEF Pool
<1>3. Pool' = Pool
  BY <1>1 DEF Pool, Carried, Rest, Listed, BlocksIn, PagesOf
<1>4. \A b \in Listed : b \in Block /\ b[1] \in Level /\ b[2] \in Nat
                        /\ b = <<b[1], b[2]>> /\ b[2] \in lists[b[1]]
                        /\ b[1] < TOTAL_LEVEL
  BY BlocksType, NoneType DEF Full, Shape
<1>5. \A b \in Listed : ~(b[1] >= want)
  <2> SUFFICES ASSUME NEW b \in Listed, b[1] >= want PROVE FALSE
    OBVIOUS
  <2>1. b[1] \in want..(at - 1)
    BY <1>1, <1>4, LevelType
  <2> QED BY <1>1, <1>4, <2>1
<1>6. Store!Available(want) = {}
  <2> SUFFICES ASSUME NEW p \in Pool, Pages(<<want, p \div Width[want]>>) \subseteq Pool
               PROVE  FALSE
    BY StoreDefs DEF Store!Available, Pool
  <2>1. p \div Width[want] \in Nat
    <3>1. p \in Nat
      BY <1>2, <1>4, PagesType DEF PagesOf
    <3> QED BY <1>1, <3>1, WidthType, DivMod
  <2>2. \E b \in Listed : b[1] >= want
    BY <1>1, <1>2, <2>1, Covered DEF Full, Shape, Whole
  <2> QED BY <1>1, <1>4, <1>5, <2>2, LevelType
<1>7. Store!Refuse
  BY <1>1, <1>3, <1>6 DEF Store!Refuse, Pool
<1> QED BY <1>7 DEF Store!Next

\* Every other step moves pages inside the pool.
LEMMA InsideStep ==
  ASSUME Full, Full', UNCHANGED <<held, donated, want>>
  PROVE  UNCHANGED Store!vars
<1>1. OwnsTheRest /\ OwnsTheRest'
  BY PoolIs, PTL
<1>2. Given' = Given /\ PagesOf(held)' = PagesOf(held)
  BY DEF Given, RegionPages, PagesOf
<1>3. Pool' = Pool
  BY <1>1, <1>2 DEF OwnsTheRest
<1> QED BY <1>3 DEF Store!vars, Pool

\* Each step of the code is a step of the promise, or none.
LEMMA StoreStep == Full /\ Full' /\ [Next]_vars => [Store!Next]_Store!vars
<1> SUFFICES ASSUME Full, Full', [Next]_vars PROVE [Store!Next]_Store!vars
  OBVIOUS
<1>1. ASSUME NEW r \in Regions, FreeBlockCall(r) PROVE Store!Next
  BY <1>1, DonateStep
<1>2. ASSUME NEW b \in held, FreeCall(b) PROVE Store!Next
  BY <1>2, ReleaseStep
<1>3. ASSUME NEW size \in Level, AllocCall(size) PROVE Store!Next
  <2>1. want = None /\ want' = size /\ held' = held
        /\ UNCHANGED <<lists, drop, hand, off, rem>>
    BY <1>3 DEF AllocCall, Full, Shape, Control, mem, loop
  <2>2. Pool' = Pool
    BY <2>1 DEF Pool, Carried, Rest, Listed, BlocksIn, PagesOf
  <2>3. Store!Request(size)
    BY <2>1, <2>2 DEF Store!Request, Pool
  <2> QED BY <2>3, StoreDefs DEF Store!Next
<1>4. CASE SearchFail
  BY <1>4, RefuseStep
<1>5. CASE AllocReturn
  BY <1>5, GrantStep
<1>6. CASE UNCHANGED <<held, donated, want>>
  BY <1>6, InsideStep
<1>7. FreeBlockStep \/ FreeStep \/ SearchUp \/ TakeFirst \/ Slice \/ UNCHANGED vars
        => UNCHANGED <<held, donated, want>>
  BY DEF FreeBlockStep, FreeStep, UpFree, UpSkip, UpDone, HugeFree, HugeDone, DownFree,
         DownSkip, DownDone, FreeSlice, Merge, Insert, InsertPastLists, SearchUp, TakeFirst, Slice, vars
<1> QED BY <1>1, <1>2, <1>3, <1>4, <1>5, <1>6, <1>7 DEF Next, AllocStep

\* The manager starts with the rest of the first memory.
LEMMA StoreInit == Init => Store!Init
<1> SUFFICES ASSUME Init PROVE Store!Init
  OBVIOUS
<1>1. Listed = {} /\ Carried = {} /\ Rest = RegionPages(First)
  BY DEF Init, Listed, BlocksIn, Carried, Rest, RegionPages
<1>2. Pool = RegionPages(First) /\ First \in AllRegions
  BY <1>1 DEF Pool, PagesOf, AllRegions
<1> QED BY <1>2 DEF Init, Store!Init, Pool

\* pageman.c keeps PageStore's promise: a block is granted only from pages
\* that are free, and refused only when no free run would serve.
THEOREM Implementation == Spec => Implements
<1>1. Full /\ Full' /\ [Next]_vars => [Store!Next]_Store!vars
  BY StoreStep
<1> QED BY <1>1, StoreInit, FullInvariant, PTL DEF Spec, Implements, Store!Spec

=============================================================================
