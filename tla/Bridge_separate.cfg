\* Drops and reads kept apart: the ring delivers exactly what the device gave.
CONSTANTS
  RingSize = 3
  PosRange = 6
  MaxCount = 3
  MaxRead = 2
  PipeCap = 1
  DrainSize = 1
  DropRaces = FALSE
  MaxSamples = 7
SPECIFICATION FairSpec
INVARIANTS
  TypeOK ExactDelivery OccupancyBounded NoLostWakeup
  IInv WakeInv
PROPERTIES
  EverySampleLeaves
  ImplementsStream
CHECK_DEADLOCK FALSE
