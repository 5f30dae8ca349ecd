SPECIFICATION Spec
CONSTANTS
  Threads = {"t1", "t2"}
  Roots = {"r1", "r2"}
  Requests <- MCRequests
  MaxPrompts = 2
  IdentityCap = 2
  GrantCap = 2
  MaxTurns = 2
  MaxArrivals = 3
  MaxInterrupts = 1
INVARIANTS
  AcceptIsUsers
  GrantsAreCurrent
  DecisionsStick
CHECK_DEADLOCK FALSE
