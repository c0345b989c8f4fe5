\* Two workers and the receiving thread, two different messages: how the unlocked
\* checks interleave, and order.
SPECIFICATION Spec
CONSTANTS
    Workers = {w1, w2}
    Spin = spinThread
    MaxSize = 2
    PutPrios <- UsedPrios
    CallsClear = TRUE
    Messages = {m1, m2}
    WakeUp = wakeUp
    Nothing = nothing
INVARIANTS TypeOK OvershootBounded NoLostWakeup
PROPERTY SenderStops ImplementsBuffer
CHECK_DEADLOCK FALSE
