SPECIFICATION Spec
CONSTANTS
  Pins = {p1, p2, p3}
  MaxKey = 2
  NoPin = NoPin
  NoEmk = NoEmk
  Garbage = Garbage
  Faults <- AllFaults
PROPERTIES
  ReplacedOnlyByStaged
  SetupKeepsMain
  DestroyLeavesNoStaging
  OldPinRevoked
