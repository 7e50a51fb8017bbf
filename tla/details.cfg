SPECIFICATION FairSpec
CONSTANTS
  Ids = {c1, c2, c3}
  MAX = 2
  Absent = Absent
  MaxOpens = 2
  MaxScrolls = 2
INVARIANTS
  CacheIsDone
  NoLostRequest
  NothingStale
PROPERTIES
  StopReturns
  ViewFilled
