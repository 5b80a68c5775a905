SPECIFICATION Spec
CONSTANTS
    Names <- UnrelatedNames
    Endings <- SuffixChars
    MaxConns = 2
    MaxSessions = 2
    Versions = {"7"}
INVARIANT DisabledIsWarn
CHECK_DEADLOCK FALSE
