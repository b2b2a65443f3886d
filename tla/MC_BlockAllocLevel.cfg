SPECIFICATION Spec
CONSTANTS
  TOTAL_LEVEL = 2
  Width <- MCWidth
  PAGE_SIZE = 64
  Memories <- BigMemories
  WORD = 256
  Sizes = {8, 112}
  Counts <- NoRequests
  Alignments <- NoRequests
  MaxLive = 2
  None = None
INVARIANT
  BigFreedWhole
CHECK_DEADLOCK FALSE
