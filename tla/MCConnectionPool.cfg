SPECIFICATION FairSpec
CONSTANTS
    Callers = {c1, c2, c3, c4, c5}
    Size = 2
    MaxWaiters = 2
    NoConn = NoConn
INVARIANTS
    EachConnOnce
    QueuedOrHanded
    NoIdleWhileWaiting
PROPERTIES
    CanceledCallReturns
    WaiterServed
    ImplementsFifoPool
