SPECIFICATION FairSpec
CONSTANTS
    N = 5
    MaxConcurrent = 4
    BatchSize = 2
    FailureThreshold = 1
    CircuitBreakerThreshold = 2
    SuccessThreshold = 2
INVARIANTS
    NoReportBlocks
    CountedMeetsOpenChannel
    NoAnswerNoEarlyEnd
PROPERTIES
    GoroutinesEnd
CHECK_DEADLOCK FALSE
