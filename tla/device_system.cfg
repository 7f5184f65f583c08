\* One device, two connections of any kind.
SPECIFICATION SystemSpec
CONSTANTS
  Udid = {"u1"}
  MaxConn = 2
  DeviceId = {1}
  MaxCandidates = 1
  MaxLosses = 0
  MaxStream = 1
  RecoveryId = {}
  MaxWaiting = 1
CONSTRAINT Bounded
PROPERTIES
  ImplementsSession
CHECK_DEADLOCK FALSE
