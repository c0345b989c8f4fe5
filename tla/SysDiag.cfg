\* Two clients, one of them slow; two different sets of warnings.
SPECIFICATION DiagSpec
CONSTANTS
    Clients = {a, b}
    Slow = {b}
    Signatures = {none, low, high}
    NoWarnings = none
    Unknown = unknown
    Missed = missed
INVARIANTS ChangeSeen KnownIsState NewsOnly
PROPERTY StopEnds
CHECK_DEADLOCK FALSE
