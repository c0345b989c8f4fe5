\* Three clicks of any kind on the container a, which take b along: stop, start
\* and stop again; stop, abort and start; and so on, each at every point of the
\* work of the others.
SPECIFICATION Spec
CONSTANTS
    a = a
    b = b
    Nodes = {a, b}
    AliveAtStart = {a, b}
    Timed = {a}
    Associated <- WithMember
    ContainersOf <- Loaded
    Selections = {{a}}
    MaxClicks = 3
    NoItem = noItem
    NoRestart = noRestart
INVARIANTS TypeOK OneAfterTheOther
PROPERTIES StartWithdrawsKill WorkEnds
CHECK_DEADLOCK FALSE
