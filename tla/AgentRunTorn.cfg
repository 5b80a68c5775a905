SPECIFICATION Spec
CONSTANTS
    Requested = {"ipsec", "license"}
    Modes = {"api"}
    Fragmented = TRUE
INVARIANTS WholeRowsAnswer
CHECK_DEADLOCK FALSE
