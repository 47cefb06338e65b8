\* One caller that lets a device change be handled before its next call.
CONSTANTS
  s = s
  m = m
  d1 = d1
  d2 = d2
  Caller = Caller
  None = None
  SysTaps = {s}
  MicTaps = {m}
  Devices = {d1, d2}
  Calls <- AllCalls
  OverlapCalls <- MicCalls
  CallAnytime = FALSE
  MaxProcs = 3
  MaxFaults = 1
  MaxChanges = 2
SPECIFICATION FairSpec
INVARIANTS
  TypeOK NoOrphanIoProc RestConsistent NothingLeftBehind NeverUnderAggregate
  FollowsDefault RunsAsAsked NoUseAfterFree MicSerialized
PROPERTIES
  CallsReturn
  ChangesHandled
  ImplementsCapture
CHECK_DEADLOCK FALSE
