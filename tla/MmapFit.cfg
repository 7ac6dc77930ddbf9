SPECIFICATION Spec
CONSTANTS
  PAGESIZE = 2
  WORD = 64
  MMAP_START = 8
  MMAP_SIZE = 10
  MEMORY = 32
  Addrs <- MCAddrs
  Lengths <- MCLengths
  HintClass = "fit"
  AllocMayFail = FALSE
  Arch = "amd64"
  MaxBlocks = 4
INVARIANTS NothingLost PagesMatchVmas TlbCoherent
CHECK_DEADLOCK FALSE
