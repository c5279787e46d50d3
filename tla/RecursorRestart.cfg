SPECIFICATION FairSpec
CONSTANTS
    Caller = {c1}
    MaxRestarts = 1
    Epochs = 2
    None = None
CHECK_DEADLOCK FALSE
PROPERTIES
    RestartsAfterExit
