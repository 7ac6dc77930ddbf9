\* amd64 with signals before interrupts_init has unmasked the line.
SPECIFICATION Spec
CONSTANTS
  Archs = {"amd64"}
  EarlySignals = {"amd64"}
  trace = FALSE
  MaxSignals = 2
PROPERTIES SignalEndsGuest
CHECK_DEADLOCK FALSE
