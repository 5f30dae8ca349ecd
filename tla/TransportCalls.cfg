SPECIFICATION Spec
CONSTANTS
  Callers = {main, other}
  Owner = main
  Kinds = {"turn"}
  PendingCap = 2
  EachQueueCap = 1
  QueueCap <- MCQueueCap
  BacklogCap = 1
  MaxCalls = 2
  MaxLines = 1
  MaxStarts = 2
  SurvivorPossible = TRUE
INVARIANTS
  PendingIsInFlight
  NoWaiterStranded
  AnswerIsOwn
PROPERTIES
  ImplementsRpc
CHECK_DEADLOCK FALSE
