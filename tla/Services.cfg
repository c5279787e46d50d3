SPECIFICATION Spec
CONSTANTS
    Source = {"remote", "custom"}
    Local = {"custom"}
    Configured = {"remote", "custom"}
    Builder = {u1, u2}
    Updater = {u1, u2}
    Alone = {u1}
    MaxConcurrent = 1
    MaxRetries = 2
    BadAfter = 1
    Managed = {"remote"}
    Addr = {a1, a2}
    ProbeThreshold = 2
    Client = {client}
    MaxFailures = 2
    ForgiveAfter = 3
    MaxRestarts = 1
    Epochs = 2
    None = None
CHECK_DEADLOCK FALSE
INVARIANTS
    FilesAreWhole
    OnlySilenceFails
PROPERTIES
    CallsReturn
    Forgiven
    NetworkIsNoticed
