SPECIFICATION FairSpec
CONSTANTS
  a = a
  b = b
  Name <- MCName
  Empty = Empty
  None = None
  Paths <- MCPaths
  Disc <- MCDisc
  Long = {}
  RootExtent = 20
  DIR_ALLOC = 1
  DIR_STEP = 2
  MaxNodes = 5
  MaxMounts = 2
  MaxIndex = 1
INVARIANTS
  PathsKeep
  Intact
PROPERTY
  CallReturns
CHECK_DEADLOCK FALSE
