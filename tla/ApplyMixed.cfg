CONSTANTS
    a = a
    b = b
    u = u
    v = v
    N = 3
    Recovered = 1
    Modes = {TRUE, FALSE}
    Commits = {1, 3}
    Dropped = {}
    CatalogSerial = {1, 3}
    Tablets = {a, b}
    Parts <- MCMixedParts
    Workers = {u, v}
    CanFail = {"part", "hook"}
    MaxCuts = 0
SPECIFICATION Spec
SYMMETRY WorkerSymmetry
INVARIANTS
    PublishedIsApplied
    TabletsInOrder
    MailboxScheduled
    OkMeansPrefixPublished
CHECK_DEADLOCK FALSE
