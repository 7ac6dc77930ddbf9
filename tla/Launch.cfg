SPECIFICATION Spec
CONSTANTS
  MaxCpus = 2
  Nent = 3
  ramBase = 524288
  kernSpace = 16
  ptrSize = 2
  kernBase = 10000000
  kernTextBase = 15000000
  Commands <- MCCommands
  HostTables <- MCHostTables
  HighHalves = {0, 1}
  CellsPerPage = 2
  Window = 40
  MaxFd = 9
INVARIANTS
  TypeOK
  OrderRespected
  HandlesValid
  StartedReady
  RegionsDisjoint
  GuestGetsArgs
  KernelIntact
