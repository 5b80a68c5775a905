SPECIFICATION Spec
CONSTANTS
    PeerConfigs <- SharedAddress
    MaxCycles = 3
INVARIANT StandbyIsOk
CHECK_DEADLOCK FALSE
