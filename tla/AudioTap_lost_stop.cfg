\* audiotap_stop during the restart of the device-change listener.
CONSTANTS
  s = s
  m = m
  d1 = d1
  d2 = d2
  Caller = Caller
  None = None
  SysTaps = {}
  MicTaps = {m}
  Devices = {d1, d2}
  Calls <- StopCalls
  OverlapCalls <- NoCalls
  CallAnytime = TRUE
  MaxProcs = 2
  MaxFaults = 0
  MaxChanges = 1
SPECIFICATION Spec
INVARIANT RunsAsAsked
CHECK_DEADLOCK FALSE
