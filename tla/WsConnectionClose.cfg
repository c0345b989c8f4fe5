\* The user closes, opens and closes: is every socket closed in the end?
SPECIFICATION ConnSpec
CONSTANTS
    Sockets = {s1, s2}
    NoSocket = null
    MaxOpens = 2
INVARIANT CloseCloses
CHECK_DEADLOCK FALSE
