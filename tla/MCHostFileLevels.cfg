SPECIFICATION Spec
CONSTANTS
    Failed = Failed
    Rulesets <- FileRulesets
    MaxCycles <- Cycles
INVARIANT NoCheckCrashes
CHECK_DEADLOCK FALSE
