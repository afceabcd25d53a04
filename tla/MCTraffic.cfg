SPECIFICATION Spec
CONSTANTS
    LAN <- MCLAN
    Unspecified = "zero"
    Broadcast = "bcast"
    Packets <- MCPackets
    MaxPackets = 4
    Horizon = 3
    MinSent = 2
    Ratio = 5
    PortThreshold = 2
    DNSThreshold = 2
    DNSWindow = 1
    DNSRetention = 2
    Country <- MCCountry
    Watchlist <- MCWatchlist
INVARIANTS AccumExact HostTotalsExact ScanNotMissed DNSAlertsExact GeoAlertsExact
CHECK_DEADLOCK FALSE
