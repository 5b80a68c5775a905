SPECIFICATION Spec
CONSTANTS
    Names <- PrefixNames
    Endings <- SuffixChars
    MaxConns = 2
    MaxSessions = 2
    Versions = {"7"}
INVARIANT OkIsEstablished
CHECK_DEADLOCK FALSE
