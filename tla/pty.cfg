SPECIFICATION FairSpec
CONSTANTS
  MaxRuns = 2
  MaxOutput = 2
  MaxInput = 3
INVARIANTS
  NoOrphan
  ExitCodeIsTrue
  InputKept
PROPERTIES
  PromiseKept
  StopReturns
