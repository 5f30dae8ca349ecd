\* Two processes and two new threads beside one of another repository.
SPECIFICATION Spec
CONSTANTS
  p1 = p1
  p2 = p2
  t0 = t0
  t1 = t1
  t2 = t2
  b1 = b1
  b2 = b2
  Procs = {p1, p2}
  Threads = {t0, t1, t2}
  Outside = {t0}
  Branches = {b1, b2}
  NoThread = NoThread
  NoRow = NoRow
  MaxAttempts = 2
  MaxPrompts = 2
  MaxEvents = 1
SYMMETRY Symmetry
INVARIANTS
  FollowsChoice
  TurnAtHome
  TurnsAccurate
CHECK_DEADLOCK FALSE
