\* Two devices; per manager: four operations; four keys with room for three
\* entries and four bytes, the largest image alone over the limit and two of
\* the middle ones at it; four mounts and unmounts of one directory; four starts
\* of browsing; two downloads of one image.
SPECIFICATION ManagersSpec
CONSTANTS
  u1 = u1
  u2 = u2
  p1 = p1
  p2 = p2
  i1 = i1
  Udid <- MCUdid
  Path <- MCPath
  MaxOp = 4
  ImageBytes = {0, 1, 2, 5}
  Capacity = 3
  MaxBytes = 4
  MountPath = {"a"}
  MaxMountOp = 4
  Mac = {"m"}
  MaxGeneration = 5
  MaxEvent = 3
  Version = {i1}
  MaxDownload = 2
  MaxList = 3
INVARIANTS
  ManagersTypeOK
  BusyWhileWorking
  BusyClears
  BytesExact
  CacheBounded
  NoOrphanMount
  InterfaceSettles
  NoStaleDevice
  StateTruthful
  ImagesTruthful
PROPERTY InsertedStays
CHECK_DEADLOCK FALSE
