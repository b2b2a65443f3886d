SPECIFICATION FairSpec
CONSTANTS
  TOTAL_LEVEL = 2
  Width <- MCWidth
  PAGE_SIZE = 80
  Memories <- SmallMemories
  WORD = 256
  Sizes = {0, 32}
  Counts <- SmallCounts
  Alignments <- NoRequests
  MaxLive = 3
  None = None
INVARIANTS
  LiveApart
  Intact
  Compact
  NothingLeaks
PROPERTY
  CallReturns
CHECK_DEADLOCK FALSE
