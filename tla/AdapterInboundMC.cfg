SPECIFICATION Spec
CONSTANTS
  Lids = {11, 12, 13, 14}
  Pns = {1, 2, 3}
  Owner <- MCOwner
  SelfPn = 3
  SelfLid = 13
  NameOf <- MCNames
  Jobs <- MCJobs
  Reloaded <- MCReloaded
  Ttl = 1
  Capacity = 2
  MaxTime = 2
  MaxBreaks = 1
  MaxReloads = 1
INVARIANTS AdmittedIffListed WokenByCall ChainKeepsMessage JournalAnswers
CHECK_DEADLOCK FALSE
CONSTRAINT Timely
