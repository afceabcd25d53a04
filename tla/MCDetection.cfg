SPECIFICATION Spec
CONSTANTS
    w1 = w1
    l1 = l1
    WanPeers <- Outside
    LanPeers <- NoPeers
    FlushEvery = 1
    ScanWindow = 2
    Novelty = 4
    Learning = 2
    Cooldown <- MCCooldown
    OngoingKeys <- Outside
    MaxFaults = 1
    MaxJump = 1
    MaxContacts = 2
    MaxAlerts = 2
    MaxTime = 6
INVARIANTS NewPeersReported NewIsNotRepeated AlertsSpaced
