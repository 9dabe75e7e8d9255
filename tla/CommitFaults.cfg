CONSTANTS
    t1 = t1
    t2 = t2
    t3 = t3
    w1 = w1
    NoThread = NoThread
    Txns = {t1, t2}
    Wakers = {w1}
    Serializable = {t2}
    WriteSet <- MCWriteSet3
    DurableOnlyAsync = {t2}
    TargetBatch = 2
    BypassBudget = 1
    MaxQueueDepth = 3
    HasWal = TRUE
    FinalizeDepth = 1
    MaxUnpublished = 2
    MaxWakeTasks = 1
    Faults = {"append", "rollback", "phase1", "build", "apply"}
SPECIFICATION Spec
INVARIANTS
    TypeOK
    PipelineInv
    AmbiguousSeesPoison
    AckedIsOnItsWay
PROPERTIES
    ImplementsService
CHECK_DEADLOCK FALSE
