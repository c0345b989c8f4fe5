\* The timer of a stop and the node map it looks at.
SPECIFICATION Spec
CONSTANTS
    a = a
    b = b
    Nodes = {a, b}
    AliveAtStart = {a, b}
    Timed = {a}
    Associated <- WithMember
    ContainersOf <- Loaded
    Selections = {{a}}
    MaxClicks = 3
    NoItem = noItem
    NoRestart = noRestart
PROPERTY TimerKillsOnlyRunning
CHECK_DEADLOCK FALSE
