\* Two nodes, one of which may be restarted, two launch files that may contain
\* either, and any screens, in any order.
SPECIFICATION Spec
CONSTANTS
    Nodes = {a, b}
    Files = {f, g}
    Pids = {1, 2}
INVARIANT ToldIsReference
