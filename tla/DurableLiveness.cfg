CONSTANTS
    t1 = t1
    t2 = t2
    t3 = t3
    w1 = w1
    NoThread = NoThread
    Txns = {t1, t2}
    Wakers = {}
    Serializable = {t2}
    WriteSet <- MCWriteSet3
    DurableOnlyAsync = {t2}
    TargetBatch = 2
    BypassBudget = 1
    MaxQueueDepth = 3
    HasWal = TRUE
    FinalizeDepth = 1
    MaxUnpublished = 2
    MaxWakeTasks = 0
    Faults = {"append", "rollback", "phase1", "build", "apply"}
SPECIFICATION FairSpec
PROPERTIES
    DurableCommitCompletes
CHECK_DEADLOCK FALSE
