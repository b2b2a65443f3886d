SPECIFICATION FairBootSpec
CONSTANTS
  dev = dev
  cdrom = cdrom
  media = media
  boot = boot
  saki = saki
  bootmgr = bootmgr
  js_ske = js_ske
  Name <- MCName
  Empty = Empty
  None = None
  Paths <- MCPaths
  Disc <- MCDisc
  Long = {24}
  RootExtent = 20
  DIR_ALLOC = 1
  DIR_STEP = 2
  MaxNodes = 15
  MaxMounts = 5
  MaxIndex = 2
  MemoryMaps <- MCMemoryMaps
  PAGE_SIZE = 2
  ADDRESSES = 32
  LOW = 4
  AVAIL_MEM_START = 8
  PageCost = 1
  Images <- MCImages
  Exports <- MCExports
  CONTENT = 10
  HEAP = {20, 21, 22, 23}
  MAX_SIZE = 1
  ADDRESS_SPACE = 32
  SHN_UNDEF = 0
  SHN_ABS = 65521
  SHN_COMMON = 65522
  Astray = Astray
INVARIANTS
  LinkedRight
  EntersMain
  ManagerCovered
  BootPathsKeep
PROPERTY
  Boots
CHECK_DEADLOCK FALSE
