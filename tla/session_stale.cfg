SPECIFICATION Spec
CONSTANTS
  a = a
  b = b
  Repos <- MCRepos
  AtStart <- MCAtStart
  MaxChanges = 1
  MaxActions = 2
  None = None
INVARIANTS
  ReopenedFresh
CHECK_DEADLOCK FALSE
