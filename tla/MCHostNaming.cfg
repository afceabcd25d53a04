SPECIFICATION NamingSpec
CONSTANTS
    ip1 = ip1
    mac1 = mac1
    mac2 = mac2
    name1 = name1
    name2 = name2
    IPs <- OneIP
    MACs <- MCMACs
    Names <- MCNames
    None = None
    MaxBuffered = 2
SYMMETRY MCSymmetry
INVARIANTS NamesAreOwn LastLeaseWins
PROPERTY RenamesTogether
