SPECIFICATION Spec
CONSTANTS
  p1 = p1
  p2 = p2
  Procs = {p1, p2}
  FlushBytes = 1
  MaxResponse = 1
  MaxCompleted = 2
  MaxLogical = 1
  PendingFlushes = 1
  Fresh = FALSE
  MaxTurns = 2
  MaxBytes = 2
  MaxCrashes = 0
  MaxClears = 1
SYMMETRY MCProcs
INVARIANTS
  RowsAddUp
  RetentionBounded
PROPERTIES
  StoredStaysPut
