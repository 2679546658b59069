SPECIFICATION FairSpec
CONSTANTS
  p1 = p1
  p2 = p2
  n1 = n1
  s1 = s1
  g1 = g1
  c1 = c1
  c2 = c2
  w1 = w1
  NoTurn = NoTurn
  NewTurn <- Prompts1
  ActiveOrNewTurn <- Notice
  ActiveOrNextTurn <- OwnOnly
  ActiveTurnOnly <- None
  Mergeable <- Riders
  TurnScoped <- Scoped
  Continuations <- OwnOnly
  Waiters <- OneWaiter
  MaxStepsPerTurn = 2
  MaxAttempts = 2
  MaxQuiescence = 1
PROPERTIES
  TurnsEnd
  
  SettledResolves
  CancelDuringStepStands
CHECK_DEADLOCK FALSE
