SPECIFICATION Spec
CONSTANTS
  UrlWidth = 4
  Jobs <- MCJobs
  Limit = 5
  MaxFaults = 2
  Halfway = FALSE
INVARIANTS TypeOK ExactWhenCalm
PROPERTIES KeepsPromise PauseWaits
CHECK_DEADLOCK FALSE
