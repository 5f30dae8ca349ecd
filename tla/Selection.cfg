SPECIFICATION HistorySpec
CONSTANTS
  Threads = {t1, t2, t3, t4, t5}
  Bad = Bad
  NoThread = NoThread
  Here = {t1, t2, t3}
  Internal = {t2, t4}
  Requests <- MCRequests
  Limit = 2
  MaxRounds = 2
  VersionValid = TRUE
  IsTty = TRUE
  MaxChanges = 2
INVARIANTS
  NumbersMeanRows
PROPERTIES
  ListingIsPrefix
  BindingFollows
CHECK_DEADLOCK FALSE
