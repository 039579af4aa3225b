SPECIFICATION FairSchedulersSpec
CONSTANTS
    Nil = Nil
    q1 = q1
    f1 = f1
    WordBits = 8
    JitterDen = 2
    MaxJobs = 3
    MaxTime = 2
    Worker = {}
    Queue = {q1}
    Key = {}
    Facet = {f1}
    Trace = {}
    Result = {}
    LeaseDuration = 2
    ClockMayStepBack = FALSE
    DefaultMaxAttempts = 3
    DefaultBackoffCap = 4
    MaxExecutionDepth = 2
    MaxChainSize = 1
    SchedulerId = {1, 2, 3}
    SchedulerBatch = 2
    MaxFaults = 1
    SchedulerSpecs <- MixedSpecs
    IngressRuleChoices <- Paused
INVARIANTS
    NoBackfill
    BookkeepingAgrees
    SchedulersTypeOK
PROPERTIES
    DueIsServed
    FiresAreCurrent
