SPECIFICATION RunSpec
CONSTANTS
  Platforms = {"win32", "posix"}
  Pipes <- MCPipes
  PipeCap = 1
  MaxWrites = 2
  MaxBytes = 1
INVARIANTS
  VerifiedMeansReleased
  OutputAccounted
PROPERTIES
  NeverStuckOnOutput
  CallReturns
CHECK_DEADLOCK FALSE
