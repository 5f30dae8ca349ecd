SPECIFICATION FairSpec
CONSTANTS
  Work = {1, 2}
  WorkCap = 1
  Idle = 2
  Hard = 3
  Grace = 1
  Cancel = 2
  RpcTime = 1
  HumanTime = 3
  MaxPrompts = 1
  HostTime = 1
  MaxLines = 2
  MaxInterrupts = 2
  SurvivorPossible = TRUE
INVARIANTS
  CompletionWins
  WorkingIsNotIdle
  OnlyWorkOutlastsIdle
  HumanTimeIsFree
  
PROPERTY
  TurnEnds
CHECK_DEADLOCK FALSE
