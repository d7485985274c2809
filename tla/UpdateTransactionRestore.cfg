SPECIFICATION Spec
CONSTANTS
  Accounts = {a}
  Versions = {1, 2}
  MaxEvents = 2
  MaxFaults = 1
PROPERTY StoppedBeforeRestore
CHECK_DEADLOCK FALSE
