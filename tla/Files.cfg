SPECIFICATION Spec
CONSTANTS
  Paths <- MCPaths
  Existing <- MCExisting
  dirs <- MCDirs
  fdMax = 6
  MaxSize = 2
  NUM_FILE = 5
  BUFSIZ = 1
  Booted = 1
  MaxIo = 1
  Fds <- OpenedFds
  Modes <- Acc
  OpenFlags <- PlainOrCreat
  FdopenMayFail = TRUE
INVARIANTS TypeOK FdsBacked
PROPERTIES FailedOpenKeepsSlots PositionRestored PositionsIndependent
CHECK_DEADLOCK FALSE
