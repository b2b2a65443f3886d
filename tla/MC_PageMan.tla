---------------------------- MODULE MC_PageMan ----------------------------
(***************************************************************************)
(* Small memories for PageMan: three levels (blocks of 1, 2 and 4 pages),  *)
(* pages of 4096 bytes.  The manager keeps page 8 for itself and frees     *)
(* pages 9 to 12; the second region is pages 13 to 17, so that buddies     *)
(* come from different regions, both an upper and a lower half arrive      *)
(* first, and page 16 has the ninth bit of the bitmap of level 0.          *)
(***************************************************************************)
EXTENDS PageMan

MCWidth == [l \in 0..TOTAL_LEVEL |-> 2 ^ l]

SecondRegion == {[addr |-> 13 * PAGE_SIZE, size |-> 5 * PAGE_SIZE]}

\* With two levels, a block of 4 pages has level TOTAL_LEVEL.  The manager
\* keeps page 0 and frees pages 1 to 6.  Pages 7 to 9 complete the block of
\* pages 4 to 7, if callers hold none of it at that time.  Pages 12 to 15 are
\* such a block, found by the loop upwards (the address has the bit of that
\* size); pages 16 to 20 hold one whose address does not have it.
LargeRegions ==
  {[addr |-> 7 * PAGE_SIZE, size |-> 3 * PAGE_SIZE],
   [addr |-> 12 * PAGE_SIZE, size |-> 4 * PAGE_SIZE],
   [addr |-> 16 * PAGE_SIZE, size |-> 5 * PAGE_SIZE]}

=============================================================================
