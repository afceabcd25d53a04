SPECIFICATION Spec
CONSTANTS
    r1 = r1
    r2 = r2
    alice = alice
    bob = bob
    carol = carol
    None = None
    Requests <- TwoRequests
    Names <- MCNames
    MaxUsers = 3
    MaxSessions = 2
    MaxTime = 1
    IdleTimeout = 0
    ElevationDuration = 1
SYMMETRY MCSymmetry
INVARIANTS SessionsOwned SessionsKeepOwner
