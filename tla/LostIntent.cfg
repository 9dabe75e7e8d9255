CONSTANTS
    t1 = t1
    t2 = t2
    None = None
    Txns = {t1, t2}
    Resources <- MCResources
    Shards = {1, 2}
    ShardIndex <- MCShardIndex
    Calls <- MCIndexCalls
    MaxCalls <- MCMaxCalls
    Threshold = 2
    HashSpace = 8
    AbortOnFailure = FALSE
SPECIFICATION Spec
INVARIANT
    StableSnapshotBlocksWriters
CHECK_DEADLOCK FALSE
