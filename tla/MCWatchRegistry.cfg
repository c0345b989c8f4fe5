\* Threads add and remove files while paths move and the daemon stops.
SPECIFICATION Spec
CONSTANTS
    d1 = d1
    d2 = d2
    d3 = d3
    root = root
    single = single
    Callers = {c1, c2}
    Dispatcher = dispatcher
    Files = {f1, f2}
    Dirs = {d1, d2}
    Targets = {root, single}
    Target <- TwoDirs
    MayFail = {single}
    NoEntry = noEntry
    MaxRefs = 2
    MaxGen = 2
    MaxMoves = 1
INVARIANTS
    TypeOK
    CountsAreReferences
    ReferencesOwned
    NoOrphanWatch
    WatchedUnlessRaced
SYMMETRY CallersAlike
CHECK_DEADLOCK FALSE
