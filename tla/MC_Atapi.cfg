SPECIFICATION FairSpec
CONSTANTS
  SECTOR = 2
  WORD = 8
  Sectors = 3
  Wirings <- MCWirings
  Fallible = TRUE
  Requests <- MCRequests
  Files <- MCFiles
  MaxSize = 4
  None = None
INVARIANTS
  Intact
  DriveFound
  ReadExact
PROPERTY
  CallReturns
CHECK_DEADLOCK FALSE
