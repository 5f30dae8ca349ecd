SPECIFICATION FairSpec
CONSTANTS
  Callers = {main}
  Owner = main
  Kinds = {"turn", "quota"}
  PendingCap = 1
  EachQueueCap = 1
  QueueCap <- MCQueueCap
  BacklogCap = 1
  MaxCalls = 1
  MaxLines = 3
  MaxStarts = 1
  SurvivorPossible = FALSE
INVARIANTS
  EventsInOrder
  NothingLostSilently
PROPERTIES
  FailureReleasesCallers
  CloseTerminates
CHECK_DEADLOCK FALSE
