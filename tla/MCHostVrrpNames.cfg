SPECIFICATION Spec
CONSTANTS
    Failed = Failed
    Rulesets <- VrrpRulesets
    MaxCycles <- Cycles
INVARIANT OneServicePerInstance
CHECK_DEADLOCK FALSE
