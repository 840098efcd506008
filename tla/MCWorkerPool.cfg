SPECIFICATION Spec
CONSTANTS
    Tasks = 2
    Workers = {w1, w2}
    Idle = Idle
INVARIANT
    SkippedMeansCanceled
CHECK_DEADLOCK FALSE
