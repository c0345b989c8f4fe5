\* Two clients, no full queue: does the next subscriber get the warnings?
SPECIFICATION DiagSpec
CONSTANTS
    Clients = {a, b}
    Slow = {}
    Signatures = {none, low}
    NoWarnings = none
    Unknown = unknown
    Missed = missed
INVARIANT NextSubscriberTold
CHECK_DEADLOCK FALSE
