\* Is a forced refresh answered by a notification?
SPECIFICATION Spec
CONSTANTS
    Guis = {a}
    SlowGuis = {}
    NumLists = 2
    MaxChanges = 0
    MaxForces = 1
    CountOf <- GrowThenExchange
    Empty = empty
    Told = told
    Outdated = outdated
PROPERTY RefreshAnswered
CHECK_DEADLOCK FALSE
