\* One caller with two calls, a method of the daemon and one of a client: is
\* every call settled?
SPECIFICATION Spec
CONSTANTS
    Handlers = {a, b}
    Callers = {a}
    Providers = {b}
    Uris = {u, l}
    LocalUris = {l}
    CallIds = {1, 2}
    QueueSize = 2
    NoHandler = nobody
PROPERTY CallsSettle
CHECK_DEADLOCK FALSE
