\* One device, one USB connection and one wireless attempt.
SPECIFICATION SystemSpec
CONSTANTS
  Udid = {"u1"}
  MaxConn = 2
  DeviceId = {1}
  MaxCandidates = 1
  MaxLosses = 0
  MaxStream = 2
  RecoveryId = {}
PROPERTIES
  UpgradesLiveAttempt
CHECK_DEADLOCK FALSE
