SPECIFICATION CSpec
CONSTANTS
  Paths <- MCPaths
  Existing <- MCExisting
  dirs <- MCDirs
  fdMax = 5
  MaxSize = 2
INVARIANTS CTypeOK NeverReused
PROPERTIES ErrFailKeepsTable
CHECK_DEADLOCK FALSE
