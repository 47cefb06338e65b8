\* Two goroutines, the finalizer and the audio thread; calls overlap freely.
CONSTANTS
  Goroutines = {g1, g2}
  GC = GC
SPECIFICATION FairSpec
INVARIANTS
  CallsFindTap CallbackHasBridge NoLeak IInv
PROPERTIES
  CloseReleases
  CloseReturns
  ForgottenIsReleased
CHECK_DEADLOCK FALSE
