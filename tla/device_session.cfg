\* One device with two connections, and one in recovery mode; every signal that
\* is owed is queued, and every queued one handled.
SPECIFICATION SessionFairSpec
CONSTANTS
  Udid = {"u1"}
  MaxConn = 2
  RecoveryId = {"r1"}
  NoticeLengths = {0}
  Discoveries = {0, 1}
INVARIANTS
  NoGhostRow
  RemovedStaysRemoved
  SelectionExists
  PendingNotListed
PROPERTIES
  ListedWhileRegistered
  GhostsVanish
  UsbIsListed
CHECK_DEADLOCK FALSE
