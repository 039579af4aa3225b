SPECIFICATION TelemetryFairSpec
CONSTANTS
    Nil = Nil
    q1 = q1
    q2 = q2
    k1 = k1
    k2 = k2
    f1 = f1
    f2 = f2
    t1 = t1
    WordBits = 8
    JitterDen = 2
    MaxJobs = 2
    MaxTime = 5
    Worker = {w1}
    Queue = {q1}
    Key = {k1, k2}
    Facet = {}
    Trace = {}
    Result = {}
    LeaseDuration = 2
    ClockMayStepBack = FALSE
    RecoveryBatch = 1
    DefaultMaxAttempts = 1
    DefaultBackoffCap = 4
    MaxExecutionDepth = 1
    MaxChainSize = 0
    MaxFlowDepth = 2
    MaxFlowNodes = 3
    MaxFlowBulk = 2
    FairnessEnabled = FALSE
    Configs <- SlowConfigs
    JobRequests <- ProgressRequests
    BulkRequests = {}
    Forests = {}
    MergeForests = {}
    Polls <- EveryQueue
    RequestAttempts = {1, 2}
    RateRuleChoices = {}
    IngressRuleChoices = {}
INVARIANTS
    GaugesExact
PROPERTIES
    ExpiredClaimsEnd
    Reclaimed
CHECK_DEADLOCK FALSE
