SPECIFICATION FairSpec
CONSTANTS
  a = a
  b = b
  Keys <- TwoKeys
  Frames <- SetDelBatch
  None = None
  MaxCalls = 3
  MaxCompactions = 1
  MaxIncidents = 1
  SmallDelta = 0
INVARIANTS RecoveredIsPrefix  NeverRefused UndisturbedBackup
PROPERTIES CallsSettle
CHECK_DEADLOCK FALSE
