SPECIFICATION Spec
CONSTANTS
    Names <- UnrelatedNames
    Endings <- SuffixChars
    MaxConns = 2
    MaxSessions = 3
    Versions = {"6", "7", "8"}
INVARIANTS TypeOK OkIsEstablished EstablishedIsOk
CHECK_DEADLOCK FALSE
