\* Two usbmuxd numbers, a second pairing record and a lost listen stream.
SPECIFICATION CoreSpec
CONSTANTS
  Udid = {"u1"}
  MaxConn = 2
  DeviceId = {1, 2}
  MaxCandidates = 2
  MaxLosses = 1
  MaxStream = 2
  MaxWaiting = 1
CONSTRAINT QueueBound
INVARIANTS
  CoreTypeOK
PROPERTIES
  ImplementsFeed
CHECK_DEADLOCK FALSE
