SPECIFICATION FairSpec
CONSTANTS
  writeA = writeA
  writeB = writeB
  anything = anything
  Nothing = Nothing
  Pending = Pending
  Calls <- ThreeCalls
  k1 = k1
  k2 = k2
  k3 = k3
  Keys <- ThreeKeys
  Messages <- FirstSeen
  Accesses <- FileAccesses
  Conflicts <- Overlaps
  PlanWrites <- PlanFile
INVARIANTS ConflictsExcluded RunsOncePerKey DuplicateSharesAnswer
PROPERTIES ProviderOrder AbortEnds BatchEnds
CHECK_DEADLOCK FALSE
