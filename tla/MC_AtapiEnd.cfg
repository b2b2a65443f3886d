SPECIFICATION Spec
CONSTANTS
  SECTOR = 2
  WORD = 8
  Sectors = 3
  Wirings <- MCWirings
  Fallible = FALSE
  Requests <- NonEmpty
  Files <- NoFiles
  MaxSize = 4
  None = None
INVARIANT ReadNeverHalts
CHECK_DEADLOCK FALSE
