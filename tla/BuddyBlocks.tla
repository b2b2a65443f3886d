---------------------------- MODULE BuddyBlocks ----------------------------
(***************************************************************************)
(* The address arithmetic of libs/mem-alloc/pageman.c.                     *)
(*                                                                         *)
(* A block is a pair <<level, index>>: it starts index * Width[level]      *)
(* pages after the manager's base and is Width[level] = 2^level pages      *)
(* long, so that a block is aligned to its own size by construction, as    *)
(* every address pageman_free gets must be.  Width is a parameter only     *)
(* because the provers know no exponentiation; WidthAssumption pins it     *)
(* down.                                                                   *)
(***************************************************************************)
EXTENDS Integers, FiniteSets

CONSTANTS
  TOTAL_LEVEL,  \* the levels a manager serves are 0 .. TOTAL_LEVEL - 1
  Width         \* pages of a block of each level (PAGE_SIZE << level)

ASSUME LevelAssumption == TOTAL_LEVEL \in Nat \ {0}

ASSUME WidthAssumption ==
  /\ Width \in [0..TOTAL_LEVEL -> Nat \ {0}]
  /\ Width[0] = 1
  /\ \A l \in 0..(TOTAL_LEVEL - 1) : Width[l + 1] = 2 * Width[l]

Level == 0..TOTAL_LEVEL
Block == Level \X Nat

Start(b) == b[2] * Width[b[1]]
Pages(b) == Start(b) .. (Start(b) + Width[b[1]] - 1)
PagesOf(bs) == UNION {Pages(b) : b \in bs}

\* Mutant: the shift is one short, so that buddies have a bit each.
OffsetOfBlock(b) == b[2]

\* getOffset: the bit that a block shares with its buddy
Offset(b) == b[2] \div 2

\* getBuddy: flip the bit of the block's own size in its address
Buddy(b) == <<b[1], IF b[2] % 2 = 0 THEN b[2] + 1 ELSE b[2] - 1>>

\* getSuper: clear that bit; the result is read one level up
Super(b) == <<b[1] + 1, b[2] \div 2>>

=============================================================================
