SPECIFICATION FairSpec
CONSTANTS
  Primary = {}
  Secondaries = {s}
  TakeOver = FALSE
  Base = 10
  MaxPort = 13
  MaxProcs = 4
  MaxEvents = 2
  MaxFaults = 1
INVARIANTS TypeOK OneChild NothingLeft
PROPERTIES OperationsReturn Recovers
CHECK_DEADLOCK FALSE
