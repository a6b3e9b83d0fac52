CONSTANTS
  MaxOps = 2
  RingCap = 2
  ChanCap = 1
  WireCap = 1
  DoneLimit = 1
  ListLimit = 1
  PollAfter = 1
  MaxDrops = 1
  MaxRestarts = 1
  MaxFaults = 1
SPECIFICATION Spec
CHECK_DEADLOCK FALSE
 
PROPERTIES NoSilentGap
