SPECIFICATION Spec
CONSTANTS
    Replies <- AllReplies
    MayClose = TRUE
INVARIANT TypeOK
PROPERTY ImplementsChannel
CHECK_DEADLOCK FALSE
