SPECIFICATION Spec
CONSTANTS
  PAGESIZE = 2
  WORD = 64
  MMAP_START = 8
  MMAP_SIZE = 8
  MEMORY = 32
  Addrs <- MCAddrs
  Lengths <- MCLengths
  HintClass = "fit"
  AllocMayFail = TRUE
  Arch = "arm64"
  MaxBlocks = 3
INVARIANTS TypeOK VmasDisjoint FreeDisjoint FreeUnmapped
PROPERTIES NoClobber
CHECK_DEADLOCK FALSE
