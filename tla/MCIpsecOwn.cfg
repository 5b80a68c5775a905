SPECIFICATION Spec
CONSTANTS
    PeerConfigs <- OwnAddresses
    MaxCycles = 4
INVARIANTS TypeOK DownIsReal BadStateIsReported OneServicePerPeer MissingAtMostTwice
CHECK_DEADLOCK FALSE
