SPECIFICATION Spec
CONSTANTS
    Query = {q1}
    Mode = {"refused"}
    BlockedTTL = 1
    AllowedTTL = 2
    MaxRecent = 1
    None = None
INVARIANTS
    EveryQueryIsAnswered
