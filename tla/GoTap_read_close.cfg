\* Close frees the bridge while a Read is inside bridge_read.
CONSTANTS
  Goroutines = {g1, g2}
  GC = GC
SPECIFICATION Spec
INVARIANT ReadCloseSafe
CHECK_DEADLOCK FALSE
