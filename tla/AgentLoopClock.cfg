SPECIFICATION SpecRecorded
CONSTANTS
  p1 = p1
  p2 = p2
  n1 = n1
  s1 = s1
  g1 = g1
  c1 = c1
  c2 = c2
  w1 = w1
  NoTurn = NoTurn
  NewTurn <- Prompts2
  ActiveOrNewTurn <- Notice
  ActiveOrNextTurn <- None
  ActiveTurnOnly <- Steer
  Mergeable <- Riders
  TurnScoped <- Scoped
  Continuations <- None
  Waiters <- None
  MaxStepsPerTurn = 0
  MaxAttempts = 1
  MaxQuiescence = 1
INVARIANTS TurnOrder EndedTurnIsSettled IdleIsDone
PROPERTIES TurnClockSpec TurnQueueSpec
CHECK_DEADLOCK FALSE
