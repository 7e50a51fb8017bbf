SPECIFICATION Working
CONSTANTS
  MaxLogs = 4
  MaxEvents = 4
  MaxAsked = 2
  Count = 3
  Loaders = {l1, l2}
  Room = 0
INVARIANTS
  Flushed
  OneRequest
  LogComplete
  CacheBounded
  OrderFixed
PROPERTIES
  Answered
  StopReturns
CHECK_DEADLOCK FALSE
