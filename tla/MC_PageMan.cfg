SPECIFICATION FairSpec
CONSTANTS
  TOTAL_LEVEL = 3
  Width <- MCWidth
  PAGE_SIZE = 4096
  Limit = 18
  FirstAval = 32768
  FirstSize = 5
  Regions <- SecondRegion
  None = None
INVARIANTS
  NoOverlap
  Coalesced
  BitmapInBounds
PROPERTIES
  Implements
  CallReturns
