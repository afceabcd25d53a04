CONSTANTS
    Packets <- MCPackets
    Items <- MCItems
    Keys <- MCKeys
    IPs <- MCIPs
    QueueCap = 1
    Events <- MCEvents
    DNSItems <- MCDNSItems
    KeyOf <- MCKeyOf
    IPOf <- MCIPOf
    LocalIP <- MCLocalIP
SPECIFICATION BusySpec
INVARIANTS TypeOK ExactlyOnce FinalFlushComplete RowsOwned NoSilentLoss
PROPERTIES EverythingSettles ShutdownCompletes LedgerSpec
