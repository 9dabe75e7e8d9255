CONSTANTS
    t1 = t1
    t2 = t2
    t3 = t3
    w1 = w1
    NoThread = NoThread
    Txns = {t1, t2}
    Wakers = {w1}
    Serializable = {}
    WriteSet <- MCWriteSet3
    DurableOnlyAsync = {}
    TargetBatch = 2
    BypassBudget = 1
    MaxQueueDepth = 3
    HasWal = TRUE
    FinalizeDepth = 1
    MaxUnpublished = 2
    MaxWakeTasks = 6
    Faults = {}
SPECIFICATION FairSpec
PROPERTIES
    EveryCommitCompletes
CHECK_DEADLOCK FALSE
