\* One device over three connections; two jobs, one of up to two items, that
\* compete for two names of each form.
SPECIFICATION MCSpec
CONSTANTS
  u1 = u1
  t1 = t1
  t2 = t2
  Udid <- MCUdid
  MaxConn = 3
  Transfer <- MCTransfer
  MaxItem <- MCMaxItem
  MaxChunk = 1
  MaxIndex = 1
INVARIANTS
  MCTypeOK
  EntryWatched
  
  CompletedMeansAll
  QuitAsks
PROPERTIES
  SilentDeviceDropped
  GalleryKeeps
  RowsEnd
CHECK_DEADLOCK FALSE
