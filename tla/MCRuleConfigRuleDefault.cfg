SPECIFICATION Spec
CONSTANTS
    Modules <- TickBoxes
    Ports <- NamedPorts
    StoredRules <- Rules
    CommandLines <- NoLines
INVARIANT RuleDefaultPort
CHECK_DEADLOCK FALSE
