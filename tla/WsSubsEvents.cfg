\* Two clients, a queue that no run fills: does the last event tell the number?
SPECIFICATION Spec
CONSTANTS
    Handlers = {a, b}
    Slow = {}
    Local = daemonThread
    MaxLocal = 0
    QueueSize = 5
    NoCount = noCount
INVARIANT EventsConverge
CHECK_DEADLOCK FALSE
