\* A target that is released and at once needed again: is it watched?
SPECIFICATION Spec
CONSTANTS
    d1 = d1
    d2 = d2
    d3 = d3
    root = root
    single = single
    Callers = {c1, c2}
    Dispatcher = dispatcher
    Files = {f1, f2}
    Dirs = {d1, d2}
    Targets = {root, single}
    Target <- TwoDirs
    MayFail = {}
    NoEntry = noEntry
    MaxRefs = 2
    MaxGen = 2
    MaxMoves = 0
INVARIANT ReferencedAgainIsWatched
SYMMETRY CallersAlike
CHECK_DEADLOCK FALSE
