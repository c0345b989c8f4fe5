\* Two sockets, one after the other, two changes of the nodes, and two requests
\* at will besides those that a connection and its events set off.
SPECIFICATION Spec
CONSTANTS
    MaxSockets = 2
    MaxChanges = 2
    MaxTasks = 2
INVARIANTS OneCallPerRequest NodesConverge
PROPERTY Settles
CHECK_DEADLOCK FALSE
