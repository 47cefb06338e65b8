\* Drops and reads overlap: samples come out of order or twice.
CONSTANTS
  RingSize = 2
  PosRange = 4
  MaxCount = 1
  MaxRead = 2
  PipeCap = 1
  DrainSize = 1
  DropRaces = TRUE
  MaxSamples = 4
SPECIFICATION Spec
INVARIANT DeliveredInOrder
CHECK_DEADLOCK FALSE
