\* Two files of one device, one permit, two requests, two connections; two
\* previews, two requests of two chunks, room for one in the channel.
SPECIFICATION MCSpec
CONSTANTS
  u1 = u1
  p1 = p1
  p2 = p2
  w1 = w1
  w2 = w2
  Udid <- MCUdid
  Path <- MCPath
  MaxConn = 2
  Permits = 1
  MaxRequest = 2
  Preview <- MCPreview
  MaxMediaRequest = 2
  MaxBody = 2
  ChannelCapacity = 1
INVARIANTS
  MCTypeOK
  QueueConsistent
  OwnEntry
  DescriptorsHeld
PROPERTIES
  RequestsSettle
  
  
CHECK_DEADLOCK FALSE
