SPECIFICATION Spec
CONSTANTS
  Pins = {p1, p2, p3}
  MaxKey = 2
  NoPin = NoPin
  NoEmk = NoEmk
  Garbage = Garbage
  Faults <- SoftFaults
INVARIANTS
  SealedRecoverable
  OneMasterKey
PROPERTIES
  PromiseKept
