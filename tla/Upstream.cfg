SPECIFICATION Spec
CONSTANTS
    s1 = s1
    s2 = s2
    SequentialServers <- TwoServers
    Servers = 3
    ActiveTierSize = 1
    TierBatch = 1
    NoServer = NoServer
    RandomServer = {r1, r2, r3}
    Caller = {c1, c2}
    NoCaller = NoCaller
    ServerCount = 4
    DecayAt = 2
    FailureThreshold = 1
    CircuitBreakerThreshold = 2
    SuccessThreshold = 1
CHECK_DEADLOCK FALSE
INVARIANTS
    ClosedBehindCounted
    ParallelOutcome
    RandomAsksEverybody
    CountsAgree
PROPERTIES
    AllEnds
    SkipIsTemporary
    SharersAreAnswered
