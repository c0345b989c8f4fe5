\* Two callers that use the same id, two providers of one method, one of the
\* clients in both roles.
SPECIFICATION Spec
CONSTANTS
    Handlers = {a, b, c}
    Callers = {a, b}
    Providers = {b, c}
    Uris = {u}
    LocalUris = {}
    CallIds = {1}
    QueueSize = 2
    NoHandler = nobody
INVARIANTS TypeOK RepliesAwaited RoutesComplete EntriesPending GoneServesNothing
PROPERTIES WithdrawnByOwner DroppedWhileRegistering
CHECK_DEADLOCK FALSE
