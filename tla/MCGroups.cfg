SPECIFICATION GroupsSpec
CONSTANTS
    s = s
    a = a
    t = t
    u = u
    Pages <- MCPages
    Links <- MCLinks
    Failing <- MCFailing
    Start = s
    MaxDepths <- MCMaxDepths
    Workers = {w1, w2}
    NoJob = NoJob
    Inputs <- MCInputs
    NoValue = NoValue
    MaxSizes <- MCMaxSizes
    MaxItems = 6
    PoolTasks = 3
    Idle = Idle
    Tasks = {k1, k2, k3}
    NoTask = NoTask
    Philosophers = 3
    Rounds = 2
INVARIANTS
    GroupsTypeOK
    NoSendOnClosedJobs
    EachPageOnce
    OkIsComplete
    NothingLostInFlight
    NilMeansComplete
    EachItemOnce
    ClosedMeansAllOut
    ResultsTruthful
    FirstErrorIsCause
PROPERTIES
    BatchGoesOut
    EveryRunEnds
CHECK_DEADLOCK FALSE
