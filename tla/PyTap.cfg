\* Two threads; destroy() is called with no other thread in a method.
SPECIFICATION FairSpec
CONSTANTS
  Threads = {t1, t2}
  Audio = audio
  NoThread = none
  DestroyAlone = TRUE
INVARIANTS
  NoUseAfterFree 
PROPERTY
  CallsReturn
CHECK_DEADLOCK FALSE
