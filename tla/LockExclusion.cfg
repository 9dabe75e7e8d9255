CONSTANTS
    t1 = t1
    t2 = t2
    None = None
    Txns = {t1, t2}
    Resources <- MCResources
    Shards = {1, 2}
    ShardIndex <- MCShardIndex
    Calls <- MCWriterCalls
    MaxCalls <- MCMaxCalls
    Threshold = 2
    HashSpace = 8
    AbortOnFailure = FALSE
SPECIFICATION LiveSpec
INVARIANTS
    Exclusion
    RangeExcludesKeys
    RefsBalanced
    KeptModes
PROPERTY
    EveryCallReturns
CHECK_DEADLOCK FALSE
