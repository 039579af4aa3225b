SPECIFICATION Spec
CONSTANTS
    Nil = Nil
    q1 = q1
    q2 = q2
    k1 = k1
    k2 = k2
    f1 = f1
    f2 = f2
    t1 = t1
    WordBits = 8
    JitterDen = 2
    MaxJobs = 2
    MaxTime = 4
    Worker = {w1, w2}
    Queue = {q1}
    Key = {}
    Facet = {}
    Trace = {}
    Result = {r1}
    LeaseDuration = 2
    ClockMayStepBack = TRUE
    RecoveryBatch = 1
    DefaultMaxAttempts = 3
    DefaultBackoffCap = 4
    MaxExecutionDepth = 2
    MaxChainSize = 0
    MaxFlowDepth = 2
    MaxFlowNodes = 3
    MaxFlowBulk = 2
    FairnessEnabled = FALSE
    JobRequests <- ClaimRequests
    BulkRequests = {}
    Forests = {}
    MergeForests = {}
    Polls <- EveryQueue
    RequestAttempts = {0, 1, 2}
    RateRuleChoices = {}
    IngressRuleChoices = {}
SYMMETRY WorkerSymmetry
INVARIANTS
    TypeOK
    NoJobLost
    ClaimsExclusive
    AttemptBudget
    AcksAgree
PROPERTIES
    ClaimProtected
    OutcomeFinal
    ImplementsQueue
CHECK_DEADLOCK FALSE
