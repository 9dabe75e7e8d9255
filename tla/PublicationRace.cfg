CONSTANTS
    a = a
    b = b
    u = u
    v = v
    N = 2
    Recovered = 0
    Modes = {FALSE}
    Commits = {1}
    Dropped = {}
    CatalogSerial = {}
    Tablets = {a}
    Parts <- MCPairParts
    Workers = {u, v}
    CanFail = {}
    MaxCuts = 0
SPECIFICATION Spec
INVARIANTS
    OnlyFailuresPoison
CHECK_DEADLOCK FALSE
