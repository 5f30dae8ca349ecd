SPECIFICATION FairSpec
CONSTANTS
  p1 = p1
  p2 = p2
  Procs = {p1}
  FlushBytes = 2
  MaxResponse = 2
  MaxCompleted = 1
  MaxLogical = 2
  PendingFlushes = 1
  Fresh = FALSE
  MaxTurns = 2
  MaxBytes = 3
  MaxCrashes = 1
  MaxClears = 1
INVARIANTS
  StoredIsPrefix
PROPERTY
  SinkLetsGo
