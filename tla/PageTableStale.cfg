SPECIFICATION Spec
CONSTANTS
  Archs = {"amd64"}
  LEVEL_MAX = 2
  Fan = 2
  Bases = {1}
  Lengths = {1, 2}
  Rooms = {0, 1, 5}
  HeapEnd = 2
  FailSpan = "any"
  MaxCalls = 4
PROPERTY MunmapOnlyItsRange
CHECK_DEADLOCK FALSE
