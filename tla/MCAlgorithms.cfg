SPECIFICATION MCSpec
CONSTANTS
    Size = 6
    Countries = {"GB", "CN"}
    MaxRecords = 3
    FlushPeriod = 2
    BeaconingWindow = 8
    FlowsRecentWindow = 8
    MinObservations = 3
    MinInterval = 2
    MaxInterval = 4
    MaxContacts = 4
    LastInstant = 10
INVARIANTS StrictlySorted LookupIsFirstClaim Minimal BeaconIsFlagged
CHECK_DEADLOCK FALSE
