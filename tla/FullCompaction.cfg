SPECIFICATION FairSpec
CONSTANTS
  Workers = {w1, w2}
  None = None
  MaxMessages = 3
  Trigger = 2
  Block = 3
  KeepMax = 2
  HeadMax = 1
  MaxOverflowAttempts = 1
  MaxShrinks = 1
INVARIANTS OneCompaction WaitsForLive 
PROPERTIES StaleIsHarmless DoneIsJournaled TurnEnds CompactionEnds
