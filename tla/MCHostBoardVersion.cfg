SPECIFICATION Spec
CONSTANTS
    Failed = Failed
    Rulesets <- BoardRulesets
    MaxCycles <- Cycles
INVARIANT OldVersionIsReported
CHECK_DEADLOCK FALSE
