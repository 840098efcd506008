SPECIFICATION ObjectsSpec
CONSTANTS
    Producers = {p1, p2, p3}
    Consumers = {c1, c2, c3}
    Capacity = 2
    g1 = g1
    g2 = g2
    g3 = g3
    Few <- MCFew
    Many <- MCMany
    Parties = 2
    MaxPhases = 3
    Burst = 2
    MaxTicks = 2
    Deltas = {0, 1}
    Modulus = 4
    NoReply = NoReply
    ErrClosed = ErrClosed
    Accts = {1, 2}
    Opening = 1
    Amounts = {1, 3}
    MaxStarts = 2
    Limit = 2
    Skus = {"sku"}
    Quantities = {1, 2}
    MaxInt = 3
    Nobody = Nobody
INVARIANTS
    ObjectsTypeOK
    NoLostSignal
    PermitsConserved
    PeakIsHighest
    GetReturnsLoaded
PROPERTIES
    ImplementsFifo
    ImplementsPhases
    ImplementsSharedCounter
    UpdatesAtomic
    CallsReturn
CHECK_DEADLOCK FALSE
