SPECIFICATION MCSpec
CONSTANTS
    Key = {k1, k2}
    Caller = {c1, c2}
    Worker = {w1, w2}
    QueueCap = 2
    MayStop = TRUE
    MaxAccept = 2
    NoKey = NoKey
    Query = {q1, q2}
    ChanCap = 2
    Dnssec = TRUE
    MayClose = TRUE
    Nobody = Nobody
CHECK_DEADLOCK FALSE
INVARIANTS
    UpkeepConsistent
PROPERTIES
    OnlyTwoWaysToHang
    TasksAreDone
