SPECIFICATION Spec
CONSTANTS
    Requested = {"bgp", "ipsec", "license", "ntp"}
    Modes = {"api"}
    Fragmented = TRUE
INVARIANTS RowsOfOneReply OnlyHandledCallsFallBehind
CHECK_DEADLOCK FALSE
