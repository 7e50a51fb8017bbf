SPECIFICATION FairSpec
CONSTANTS
  MaxRequests = 2
  MaxCommits = 1
  MaxCommands = 3
INVARIANTS
  FrontExists
  RanOnce
  
  
PROPERTIES
  StopReturns
  QuitReturns
  Answered
