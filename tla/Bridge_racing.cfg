\* Drops and reads overlap: what still holds.  (That no wake-up is lost then
\* is proved in BridgeProofs.)
CONSTANTS
  RingSize = 2
  PosRange = 4
  MaxCount = 2
  MaxRead = 2
  PipeCap = 2
  DrainSize = 2
  DropRaces = TRUE
  MaxSamples = 5
SPECIFICATION FairSpec
PROPERTIES
  CloseUnblocks
CHECK_DEADLOCK FALSE
