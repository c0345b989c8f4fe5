\* One client that comes and goes and whose queue may be full at any time,
\* two lists, one forced refresh.
SPECIFICATION Spec
CONSTANTS
    Guis = {a}
    SlowGuis = {a}
    NumLists = 2
    MaxChanges = 2
    MaxForces = 1
    CountOf <- GrowThenExchange
    Empty = empty
    Told = told
    Outdated = outdated
INVARIANTS TypeOK ClientFollows StaleIsKnown
PROPERTY Converges
CHECK_DEADLOCK FALSE
