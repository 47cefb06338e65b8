\* Buffers of two frames of three bytes; files that end in the first three
\* buffers, at their end, within a frame, and later.
SPECIFICATION FairSpec
CONSTANTS
  FileSizes = {0, 2, 7, 17, 18, 19, 21, 24, 35, 36, 40}
  BufBytes = 6
  FrameBytes = 3
INVARIANTS
  PlaysWholeFile StateOutlivesCallbacks
PROPERTY
  PlaybackEnds
CHECK_DEADLOCK FALSE
