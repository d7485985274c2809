SPECIFICATION FairSpec
CONSTANTS
  Users = {u}
  Listed = {u}
  Mails <- MCMails
  MaxMail = 3
  Debounce = 3
  MaxTasks = 2
  MaxBatch = 2
  MaxRepeats = 1
  MaxEvents = 1
INVARIANTS TypeOK NoDuplicate OnlyCurrent AlbumIsBurst
PROPERTIES EveryMessageSettles
CHECK_DEADLOCK FALSE
