SPECIFICATION Spec
CONSTANTS
  Count = 3
  Loaders = {l1, l2}
  Room = 0
INVARIANTS
  ChildrenFirst
CHECK_DEADLOCK FALSE
