SPECIFICATION Spec
CONSTANTS
    Modules <- TickBoxes
    Ports <- NamedPorts
    StoredRules <- NoRules
    CommandLines <- UserLines
INVARIANT CallDefaultPort
CHECK_DEADLOCK FALSE
