\* Three prompts, a turn of another sender, and a compaction, which may be
\* cancelled and unwinds later.
SPECIFICATION FairSpec
CONSTANTS
  Prompts = {p1, p2, p3}
  Turns = {p1, p2, p3, o1}
  MayJoin = {o1}
  Compactions = {c1}
  None = None
INVARIANTS OnePromptAtATime  WaitingIsServed SteeredFollowsActive
PROPERTIES SettlesOnce NoOvertaking PromptsSettle
CHECK_DEADLOCK FALSE
