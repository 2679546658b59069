SPECIFICATION Spec
CONSTANT MaxTurns = 5
INVARIANTS ReplayedIdentity 
