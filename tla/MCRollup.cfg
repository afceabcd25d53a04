SPECIFICATION RollupSpec
CONSTANTS
    FlushEvery = 1
    Width1 = 2
    Width5 = 4
    Starts <- AnyPhase
    MaxLag = 1
    MaxRestarts = 1
    MaxArrivals = 2
    MaxTime = 12
INVARIANTS RollupsComplete NothingCountedTwice
CHECK_DEADLOCK FALSE
