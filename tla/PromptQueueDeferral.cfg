\* A prompt waits for the compaction: violated, startNext calls itself.
SPECIFICATION Spec
CONSTANTS
  Prompts = {p1, p2}
  Turns = {p1, p2}
  MayJoin = {}
  Compactions = {c1}
  None = None
CHECK_DEADLOCK FALSE
INVARIANT DeferralReturns
