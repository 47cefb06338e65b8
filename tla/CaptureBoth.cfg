\* All outcomes of creating and starting the two taps.
SPECIFICATION FairSpec
INVARIANTS
  FilesOutliveLoops
PROPERTY
  Terminates
CHECK_DEADLOCK FALSE
