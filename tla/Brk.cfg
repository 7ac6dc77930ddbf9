SPECIFICATION Spec
CONSTANTS
  PAGESIZE = 2
  WORD = 64
  BRK_BASE = 4
  MMAP_START = 10
  MMAP_SIZE = 6
  USER_END = 16
  OtherPages <- MCOther
  MEMORY = 8
  Addrs <- MCAddrs
  AllocMayFail = TRUE
  MaxBlocks = 3
INVARIANTS TypeOK HeapMapped
PROPERTIES HeapKept
CHECK_DEADLOCK FALSE
