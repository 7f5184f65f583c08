\* One device: the third operation finds the second one's handle gone.
SPECIFICATION BackupSpec
CONSTANTS
  u1 = u1
  u2 = u2
  Udid = {u1}
  MaxOp = 3
INVARIANT OneAtATime
CHECK_DEADLOCK FALSE
