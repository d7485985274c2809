SPECIFICATION Spec
CONSTANTS
  Primary = {w}
  Secondaries = {s}
  TakeOver = FALSE
  Base = 10
  MaxPort = 13
  MaxProcs = 4
  MaxEvents = 2
  MaxFaults = 1
INVARIANTS LeaseExclusive
CHECK_DEADLOCK FALSE
