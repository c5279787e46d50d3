SPECIFICATION Spec
CONSTANTS
    s1 = s1
    s2 = s2
    Servers <- TwoServers
    Query = {q1, q2}
    FailureThreshold = 1
    CircuitBreakerThreshold = 2
    SuccessThreshold = 2
    MaxFails = 3
    MaxSuccs = 2
    NoServer = NoServer
SYMMETRY QuerySymmetry
INVARIANTS
    BreakerConsistent
    NoServerLeftOut
