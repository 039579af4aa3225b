SPECIFICATION FairProcessSpec
CONSTANTS
    Nil = Nil
    Partial = Partial
    p1 = p1
    p2 = p2
    MaxTime = 1
    MaxCycles = 3
    Retain = 1
    MaxRow = 2
    BackfillBatch = 1
    Query = {p1, p2}
    MaxConcurrency = 1
    MaxAsked = 3
    FireBatch = 2
    Deployments <- OneFeatureEach
INVARIANTS
    ProcessTypeOK
    RecoveryPoint
    SearchExact
    CheckpointIsLast
    TempsAccounted
PROPERTIES
    ShutdownCompletes
    QueriesEnd
CHECK_DEADLOCK FALSE
