SPECIFICATION Spec
CONSTANTS
  Primary = {w}
  Secondaries = {}
  TakeOver = TRUE
  Base = 10
  MaxPort = 12
  MaxProcs = 4
  MaxEvents = 1
  MaxFaults = 1
INVARIANTS OneChild
CHECK_DEADLOCK FALSE
