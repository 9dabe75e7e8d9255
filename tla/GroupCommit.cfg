CONSTANTS
    t1 = t1
    t2 = t2
    t3 = t3
    w1 = w1
    NoThread = NoThread
    Txns = {t1, t2, t3}
    Wakers = {}
    Serializable = {t3}
    WriteSet <- MCWriteSet3
    DurableOnlyAsync = {t2}
    TargetBatch = 2
    BypassBudget = 1
    MaxQueueDepth = 3
    HasWal = TRUE
    FinalizeDepth = 1
    MaxUnpublished = 2
    MaxWakeTasks = 0
    Faults = {}
SPECIFICATION Spec
INVARIANTS
    SerializableSeesRegistered
    RegisteredIsPrefix
PROPERTIES
    ImplementsService
CHECK_DEADLOCK FALSE
