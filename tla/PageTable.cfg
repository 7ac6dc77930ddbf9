SPECIFICATION Spec
CONSTANTS
  Archs = {"amd64", "arm64"}
  LEVEL_MAX = 2
  Fan = 2
  Bases = {1}
  Lengths = {1, 3, 4}
  Rooms = {0, 1, 5}
  HeapEnd = 3
  FailSpan = "leaf"
  MaxCalls = 4
INVARIANTS TypeOK TablesFormTree
PROPERTY ImplementsFlatMap
CHECK_DEADLOCK FALSE
