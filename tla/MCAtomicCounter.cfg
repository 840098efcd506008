SPECIFICATION Spec
CONSTANTS
    Callers = {c1, c2}
    MaxStarts = 2
INVARIANT
    SnapshotIsPossible
CHECK_DEADLOCK FALSE
