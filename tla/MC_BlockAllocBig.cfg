SPECIFICATION Spec
CONSTANTS
  TOTAL_LEVEL = 2
  Width <- MCWidth
  PAGE_SIZE = 64
  Memories <- BigOrScarce
  WORD = 256
  Sizes = {8, 24, 48, 56}
  Counts <- NoRequests
  Alignments <- Aligned
  MaxLive = 2
  None = None
INVARIANTS
  Intact
  LiveApart
  NothingLeaks
PROPERTY
  NeverAstray
CHECK_DEADLOCK FALSE
