CONSTANTS
    t1 = t1
    t2 = t2
    t3 = t3
    x = x
    y = y
    z = z
    Txns = {t1, t2, t3}
    Items = {x, y, z}
    Reads <- MCReads
    Writes <- MCWrites
    MayCoarsen = {t1}
SPECIFICATION Spec
INVARIANTS
    WriteSkewNeedsOverlap
    ReadsFindable
CHECK_DEADLOCK FALSE
