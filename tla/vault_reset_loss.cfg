SPECIFICATION Spec
CONSTANTS
  Pins = {p1, p2}
  MaxKey = 2
  NoPin = NoPin
  NoEmk = NoEmk
  Garbage = Garbage
  Faults <- StoreFaults
PROPERTIES
  ResetKeepsAnEmk
