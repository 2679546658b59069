SPECIFICATION SpecCrash
CONSTANT MaxTurns = 6
INVARIANT ReplayedIdentity
