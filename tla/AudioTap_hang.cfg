\* audiotap_start of a system tap while the listener restarts the microphone.
CONSTANTS
  s = s
  m = m
  d1 = d1
  d2 = d2
  Caller = Caller
  None = None
  SysTaps = {s}
  MicTaps = {m}
  Devices = {d1, d2}
  Calls <- StartCalls
  OverlapCalls <- StartSys
  CallAnytime = FALSE
  MaxProcs = 2
  MaxFaults = 0
  MaxChanges = 1
SPECIFICATION Spec
INVARIANT NeverUnderAggregate
CHECK_DEADLOCK FALSE
