SPECIFICATION Spec
CONSTANTS
    Callers = {p1, p2}
    Keys = {k1}
    PanicKeys = {}
    Calls = {c1, c2}
    NoCall = NoCall
PROPERTY
    LaterDoIsFresh
CHECK_DEADLOCK FALSE
