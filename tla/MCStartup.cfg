SPECIFICATION FairSpec
CONSTANTS
    n1 = n1
    n2 = n2
    n3 = n3
    Names <- MCNames
    Openers <- MCOpeners
    MaxKeys = 2
    MaxStops = 2
    MaxPairs = 3
INVARIANTS CompleteIsComplete PairMatches OpenIsMigrated MigratesAlone
PROPERTY EventuallyServes
CHECK_DEADLOCK FALSE
