SPECIFICATION Spec
CONSTANTS
  u1 = u1
  Udid <- MCUdid
  MaxConn = 1
INVARIANT PoloFailuresEnd
CHECK_DEADLOCK FALSE
