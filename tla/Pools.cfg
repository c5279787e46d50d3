SPECIFICATION MCSpec
CONSTANTS
    Req = {r1, r2}
    MaxCreated = 2
    MaxConnectionsLimit = 1
    MinConnections = 1
    InitialMax = 2
    Grow = 1
    Shrink = 1
    CongestionPeriod = 1
    None = None
CHECK_DEADLOCK FALSE
INVARIANTS
    Accounted
    OwnReply
PROPERTIES
    ComesRound
    CloseEnds
