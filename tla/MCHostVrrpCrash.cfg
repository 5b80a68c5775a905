SPECIFICATION Spec
CONSTANTS
    Failed = Failed
    Rulesets <- VrrpRulesets
    MaxCycles <- Cycles
INVARIANT NoCheckCrashes
CHECK_DEADLOCK FALSE
