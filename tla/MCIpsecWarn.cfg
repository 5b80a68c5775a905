SPECIFICATION Spec
CONSTANTS
    PeerConfigs <- OwnAddresses
    MaxCycles = 3
INVARIANT BadStateIsWarn
CHECK_DEADLOCK FALSE
