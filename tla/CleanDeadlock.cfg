SPECIFICATION FairSpec
CONSTANTS
    Query = {q1, q2}
    ChanCap = 2
    Dnssec = TRUE
    MayClose = FALSE
    Nobody = Nobody
PROPERTIES
    CleanEnds
CHECK_DEADLOCK FALSE
