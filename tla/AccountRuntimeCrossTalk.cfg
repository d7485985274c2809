SPECIFICATION Spec
CONSTANTS
  Primary = {}
  Secondaries = {s, t}
  TakeOver = FALSE
  Base = 10
  MaxPort = 14
  MaxProcs = 3
  MaxEvents = 3
  MaxFaults = 0
INVARIANTS NoCrossTalk
CHECK_DEADLOCK FALSE
