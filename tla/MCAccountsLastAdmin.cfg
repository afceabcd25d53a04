SPECIFICATION Spec
CONSTANTS
    r1 = r1
    r2 = r2
    alice = alice
    bob = bob
    carol = carol
    None = None
    Requests <- TwoRequests
    Names <- MCNames
    MaxUsers = 2
    MaxSessions = 2
    MaxTime = 0
    IdleTimeout = 2
    ElevationDuration = 1
INVARIANT AdminRemains
