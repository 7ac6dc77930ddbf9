\* Both machines; on amd64 signals come only after the line is unmasked.
SPECIFICATION Spec
CONSTANTS
  Archs = {"amd64", "arm64"}
  EarlySignals = {"arm64"}
  trace = TRUE
  MaxSignals = 3
INVARIANTS TypeOK LineHasInterrupt
PROPERTIES SignalEndsGuest
CHECK_DEADLOCK FALSE
