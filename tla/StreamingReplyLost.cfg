SPECIFICATION Spec
CONSTANTS
  UrlWidth = 4
  Jobs <- MCJobs
  Limit = 5
  MaxFaults = 1
  Halfway = TRUE
INVARIANT NothingLost
CHECK_DEADLOCK FALSE
