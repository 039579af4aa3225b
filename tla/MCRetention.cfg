SPECIFICATION RetentionSpec
CONSTANTS
    Nil = Nil
    q1 = q1
    q2 = q2
    k1 = k1
    k2 = k2
    f1 = f1
    f2 = f2
    t1 = t1
    WordBits = 8
    JitterDen = 2
    MaxJobs = 3
    MaxTime = 3
    Worker = {w1}
    Queue = {q1, q2}
    Key = {k1}
    Facet = {f1, f2}
    Trace = {t1}
    Result = {}
    LeaseDuration = 1
    ClockMayStepBack = FALSE
    RecoveryBatch = 1
    DefaultMaxAttempts = 1
    DefaultBackoffCap = 4
    MaxExecutionDepth = 1
    MaxChainSize = 2
    MaxFlowDepth = 2
    MaxFlowNodes = 3
    MaxFlowBulk = 2
    FairnessEnabled = TRUE
    Configs <- SweepConfigs
    JobRequests <- SweptRequests
    BulkRequests <- SweptBatches
    Forests = {}
    MergeForests = {}
    Polls <- EveryQueue
    RequestAttempts = {1}
    RateRuleChoices = {}
    IngressRuleChoices = {}
CONSTRAINT FewRejections
INVARIANTS
    DedupWindow
    ChainWindow
    AgeKeepsReplay
    NewestKept
    LineageDerived
PROPERTIES
    SweepKeepsOrder
CHECK_DEADLOCK FALSE
