SPECIFICATION MCSpec
CONSTANTS
    Key = {k1, k2, k3}
    Value = {v1}
    None = None
    Shard = {"s1", "s2"}
    ShardOf <- TwoShards
    Capacity = 2
    MaxDirty = 2
    FarKey = {k3}
    LRUKey = {k1, k2, k3}
    LRUValue = {v1, v2}
    LRUShard = {"s1"}
    LRUShardOf <- OneShard
    LRUCapacity = 2
    ChanCap = 2
    DirtyWrap = 2
    IndexKey = {k1, k2}
    TTL = {1, 2}
    MaxEntries = 2
    HeapChanCap = 1
    GhostBatch = 2
    CleanBatch = 1
    AncientLow = 1
    AncientMid = 0
    KeepExpired = FALSE
    MayTimeOut = TRUE
    MaxTime = 2
    MaxVer = 3
    NoEntry = NoEntry
SYMMETRY KeySymmetry
CHECK_DEADLOCK FALSE
INVARIANTS
    WellLinked
    SkipLosesNoKey
    Indexed
PROPERTIES
    IsBoundedMap
    AtomicSaves
    CountNeverExceeds
