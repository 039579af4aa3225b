SPECIFICATION TelemetrySpec
CONSTANTS
    Nil = Nil
    q1 = q1
    q2 = q2
    k1 = k1
    k2 = k2
    f1 = f1
    f2 = f2
    t1 = t1
    WordBits = 8
    JitterDen = 2
    MaxJobs = 4
    MaxTime = 2
    Worker = {w1}
    Queue = {q1}
    Key = {k1}
    Facet = {}
    Trace = {}
    Result = {}
    LeaseDuration = 1
    ClockMayStepBack = FALSE
    RecoveryBatch = 1
    DefaultMaxAttempts = 1
    DefaultBackoffCap = 4
    MaxExecutionDepth = 2
    MaxChainSize = 0
    MaxFlowDepth = 2
    MaxFlowNodes = 4
    MaxFlowBulk = 2
    FairnessEnabled = FALSE
    JobRequests <- ReusedKey
    BulkRequests <- ReusedBatch
    Forests <- FlowForests
    MergeForests <- FlowMerges
    Configs <- NoSweeps
    Polls <- EveryQueue
    RequestAttempts = {1, 2}
    RateRuleChoices = {}
    IngressRuleChoices = {}
INVARIANTS
    SlotsSound
    NoDuplicateWork
    GateHolds
    GaugesExact
PROPERTIES
    FailureFollowsFlags
CHECK_DEADLOCK FALSE
