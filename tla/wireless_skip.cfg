\* One device, one USB connection and one wireless connection.
SPECIFICATION SystemSpec
CONSTANTS
  Udid = {"u1"}
  MaxConn = 2
  DeviceId = {1}
  MaxCandidates = 1
  MaxLosses = 0
  MaxStream = 2
  RecoveryId = {}
PROPERTIES
  SkipsOnlyForUsb
CHECK_DEADLOCK FALSE
