\* One device, one USB port, three connection numbers: a USB connection and
\* wireless ones compete while a fourth start is refused by the bound.
SPECIFICATION CoreSpec
CONSTANTS
  Udid = {"u1"}
  MaxConn = 3
  DeviceId = {1}
  MaxCandidates = 1
  MaxLosses = 0
  MaxStream = 2
  MaxWaiting = 1
CONSTRAINT QueueBound
INVARIANTS
  HeartbeatOwned
  WirelessWatched
  NoStrandedHeartbeat

  
CHECK_DEADLOCK FALSE
