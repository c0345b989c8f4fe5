\* Two clients, one of them slow, and a part of the daemon subscribe,
\* unsubscribe and go.
SPECIFICATION Spec
CONSTANTS
    Handlers = {a, b}
    Slow = {b}
    Local = daemonThread
    MaxLocal = 1
    QueueSize = 1
    NoCount = noCount
INVARIANTS LastCountRight ListenersUpToDate
CHECK_DEADLOCK FALSE
