SPECIFICATION FairSpec
CONSTANTS
  Accounts = {a, b}
  a = a
  b = b
  Versions = {1, 2}
  MaxEvents = 4
  MaxFaults = 3
INVARIANTS TypeOK GoodVersionKept LockHeldThroughout NotResurrected
PROPERTIES RecoveryIsHonest OutcomeIsReal Settles
CHECK_DEADLOCK FALSE
