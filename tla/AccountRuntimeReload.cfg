SPECIFICATION Spec
CONSTANTS
  Primary = {w}
  Secondaries = {}
  TakeOver = FALSE
  Base = 10
  MaxPort = 12
  MaxProcs = 4
  MaxEvents = 1
  MaxFaults = 0
INVARIANTS LoopSurvivesReload
CHECK_DEADLOCK FALSE
