SPECIFICATION Spec
CONSTANTS
  TOTAL_LEVEL = 2
  Width <- MCWidth
  PAGE_SIZE = 4096
  Limit = 21
  FirstAval = 0
  FirstSize = 7
  Regions <- LargeRegions
  None = None
INVARIANTS
  IInv
  AstrayAtTop
CHECK_DEADLOCK FALSE
