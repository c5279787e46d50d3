SPECIFICATION MCSpec
CONSTANTS
    q1 = q1
    q2 = q2
    None = None
    Query = {q1, q2}
    Env <- Envs
    MinTTL = 1
    MaxTTL = 2
    UserReturnTTL = 2
    FastResponseTTL = 1
    Grace = 1
    RttTTL = 1
    NegativeTTL = 1
    DefaultTTL = 1
    MsgTTL = 1
    Mode = {"nxdomain", "refuse"}
    BlockedTTL = 1
    AllowedTTL = 2
    MaxRecent = 1
    Caller = {c1, c2}
    MaxRestarts = 1
    Epochs = 2
CHECK_DEADLOCK FALSE
INVARIANTS
    AnsweredOnce
    TTLsAreHonest
    VerdictsAreRecent
    OneProcess
