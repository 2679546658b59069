SPECIFICATION Spec
CONSTANTS
  a = a
  b = b
  Keys <- TwoKeys
  Frames <- Sets
  None = None
  MaxCalls = 3
  MaxCompactions = 1
  MaxIncidents = 1
  SmallDelta = 0
INVARIANTS BackupIsConsistent
CHECK_DEADLOCK FALSE
