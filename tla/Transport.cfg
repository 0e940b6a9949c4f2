SPECIFICATION Spec
CONSTANTS
  ClientBuffer = 2
  MaxFrames = 3
  MaxExits = 2
  MaxLong = 2
CHECK_DEADLOCK FALSE
INVARIANTS
  OneProxyPerCrash
  FramesInOrder
  TheLatestIsHeard
PROPERTIES
  ProxyComesBack
  StopIsFinal
