SPECIFICATION Spec
CONSTANTS
    Modules <- TickBoxes
    Ports <- NamedPorts
    StoredRules <- Rules
    CommandLines <- UserLines
INVARIANTS AgentFollowsRule MigratedIsAccepted OrderDoesNotMatter
PROPERTY MigrateOnce
CHECK_DEADLOCK FALSE
