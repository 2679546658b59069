SPECIFICATION Spec
CONSTANTS
  p1 = p1
  p2 = p2
  n1 = n1
  s1 = s1
  g1 = g1
  c1 = c1
  c2 = c2
  w1 = w1
  NoTurn = NoTurn
  NewTurn <- Prompts1
  ActiveOrNewTurn <- Notice
  ActiveOrNextTurn <- Hooked
  ActiveTurnOnly <- Steer
  Mergeable <- Riders
  TurnScoped <- Scoped
  Continuations <- None
  Waiters <- OneWaiter
  MaxStepsPerTurn = 0
  MaxAttempts = 2
  MaxQuiescence = 1
INVARIANTS
  MaterializedOnce
  LeaseIsQuiet
  

  
CHECK_DEADLOCK FALSE
