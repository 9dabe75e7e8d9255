CONSTANTS
    t1 = t1
    t2 = t2
    t3 = t3
    x = x
    y = y
    z = z
    Txns = {t1, t2}
    Items = {x, y}
    Reads <- MCSkewReads
    Writes <- MCSkewWrites
    MayCoarsen = {}
SPECIFICATION Spec
INVARIANT Serializable
CHECK_DEADLOCK FALSE
