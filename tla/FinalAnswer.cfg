SPECIFICATION Spec
CONSTANTS
  Items = {1, 2}
  Chunks = {"a", "b"}
  Texts <- MCTexts
  CandidateLists <- MCCandidateLists
  MaxCandidates = 1
  CandidateCap = 2
  PrestartCap = 1
  BufferCap = 1
  MaxAttempts = 2
  MaxEvents = 5
  Orders = {TRUE, FALSE}
INVARIANTS
  SuccessIsUndisputed
  SuccessUsesBestSource
  OrderIndependent
CHECK_DEADLOCK FALSE
