SPECIFICATION FairSpec
CONSTANTS
    Key = {k1}
    i1 = i1
    i2 = i2
    IP = {i1, i2}
    Answer <- TwoAnswers
    Job = {1, 2}
    Bg = {b1}
    Worker = {w1}
    QueueCap = 1
    SemCap = 1
    MaxClock = 1
    MayStop = TRUE
    NoEntry = NoEntry
INVARIANTS
    ClosedOnce
    SingleFlight
    HasExecutor
    SemaphoreExact
PROPERTIES
    SortEnds
