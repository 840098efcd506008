SPECIFICATION FairSpec
CONSTANTS
    Callers = {g1, g2, g3}
    Keys = {k1, k2}
    Entries = {e1, e2, e3}
    NoEntry = NoEntry
    Nobody = Nobody
INVARIANTS
    MutualExclusion
    RefsCountUsers
PROPERTY
    LockGranted
