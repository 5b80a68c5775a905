SPECIFICATION Spec
CONSTANTS
    Failed = Failed
    Rulesets <- FilePairRulesets
    MaxCycles <- Cycles
INVARIANT WatchdogFileIsCrit
CHECK_DEADLOCK FALSE
