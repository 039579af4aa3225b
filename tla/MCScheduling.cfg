SPECIFICATION Spec
CONSTANTS
    WordBits = 7
    JitterDen = 4
    MaxAttempt = 10
INVARIANT RetryDelayExact
PROPERTY BackoffGrows
CHECK_DEADLOCK FALSE
