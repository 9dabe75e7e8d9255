CONSTANTS
    a = a
    b = b
    u = u
    v = v
    N = 2
    Recovered = 0
    Modes = {TRUE, FALSE}
    Commits = {1, 2}
    Dropped = {}
    CatalogSerial = {}
    Tablets = {a, b}
    Parts <- MCCommitParts
    Workers = {u, v}
    CanFail = {"pre", "part", "apply", "hook"}
    MaxCuts = 1
SPECIFICATION FairSpec
INVARIANTS
    CutIsExact
PROPERTIES
    ImplementsOrderedApply
    EverySubmitReturns
CHECK_DEADLOCK FALSE
