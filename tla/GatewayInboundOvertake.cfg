SPECIFICATION Spec
CONSTANTS
  Users = {u}
  Listed = {u}
  Mails <- MCMails
  MaxMail = 3
  Debounce = 3
  MaxTasks = 2
  MaxBatch = 2
  MaxRepeats = 0
  MaxEvents = 0
INVARIANT AlbumNeverOvertakes
CHECK_DEADLOCK FALSE
