SPECIFICATION Spec
CONSTANTS
    Failed = Failed
    Rulesets <- AllRulesets
    MaxCycles <- Cycles
INVARIANTS TypeOK NeighboursJudgedByOwnRows VrrpOkIsOwnRole FilesJudgedByOwnRows
INVARIANTS StoppedFanIsReported CurrentSurvivesUnits InfoOkIsReal PoolOkIsReal
INVARIANTS UpsJudgedByOwnMonitor DownRadioIsReported ClientsCountedOnce CrashesOnlyWithoutDisabled
INVARIANT DeadPeerIsNotOk
PROPERTIES CountersCountTheirOwn NoResultStoresACounter
CHECK_DEADLOCK FALSE
