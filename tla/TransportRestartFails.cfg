SPECIFICATION Spec
CONSTANTS
  Callers = {main}
  Owner = main
  Kinds = {"turn"}
  PendingCap = 1
  EachQueueCap = 1
  QueueCap <- MCQueueCap
  BacklogCap = 1
  MaxCalls = 1
  MaxLines = 2
  MaxStarts = 2
  SurvivorPossible = FALSE
INVARIANT RestartRecovers
CHECK_DEADLOCK FALSE
