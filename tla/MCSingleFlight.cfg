SPECIFICATION FairSpec
CONSTANTS
    Callers = {p1, p2, p3}
    Keys = {k1, k2}
    PanicKeys = {k2}
    Calls = {c1, c2, c3, c4}
    NoCall = NoCall
INVARIANTS
    OneRunPerKey
    EntryIsLeaders
    JoinersReadFinalResult
PROPERTIES
    DoReturns
CHECK_DEADLOCK FALSE
