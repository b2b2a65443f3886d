--------------------------- MODULE MC_BlockAlloc ---------------------------
(***************************************************************************)
(* Small heaps for BlockAlloc: pages of 80 bytes, of which a page's blocks *)
(* and their headers share 72.                                             *)
(***************************************************************************)
EXTENDS BlockAlloc

MCWidth == [l \in 0..TOTAL_LEVEL |-> 2 ^ l]

\* Nothing at all, and three pages: one for the allocator, two for blocks.
SmallMemories == {{}, 1..3}

\* Wherever the allocator's own page and a page of small blocks lie, two
\* blocks of two pages are left.
BigMemories == {1..7}

\* And memory that runs out
BigOrScarce == BigMemories \cup {1..3}

NoRequests == {}
SmallCounts == {<<2, 6>>}

\* Aligned to a page, aligned anyway, and no alignment at all.
Aligned == {<<64, 24>>, <<8, 16>>, <<24, 8>>}

=============================================================================
