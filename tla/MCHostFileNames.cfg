SPECIFICATION Spec
CONSTANTS
    Failed = Failed
    Rulesets <- FilePairRulesets
    MaxCycles <- Cycles
INVARIANT OneServicePerFile
CHECK_DEADLOCK FALSE
