SPECIFICATION InstallSpec
CONSTANTS
    Batches = {b1}
    Overrides <- MCOverrides
    MaxSwitches = 2
    MaxCommands = 4
INVARIANTS NothingLost InstalledIsUsable InstalledIsSetUp
CHECK_DEADLOCK FALSE
