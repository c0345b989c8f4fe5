\* The user opens three times and closes any time; a socket for each.
SPECIFICATION ConnSpec
CONSTANTS
    Sockets = {s1, s2, s3}
    NoSocket = null
    MaxOpens = 3
INVARIANTS NeverGivesUp AttemptsBounded CurrentMayReconnect
PROPERTY Reconnects
CHECK_DEADLOCK FALSE
