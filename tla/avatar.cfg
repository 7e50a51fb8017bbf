SPECIFICATION FairSpec
CONSTANTS
  Emails = {a, b, c}
  MAX_CACHE_COUNT = 2
  MaxScrolls = 1
INVARIANTS
  WorkerKeepsItsRequest
  NoLostRequest
PROPERTIES
  OverLimitOnlyPending
  StopReturns
  ViewSettles
