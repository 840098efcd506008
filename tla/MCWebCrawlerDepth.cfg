SPECIFICATION Spec
CONSTANTS
    s = s
    a = a
    t = t
    u = u
    Pages <- MCPages
    Links <- MCLinks
    Failing <- MCFailing
    Start = s
    MaxDepths <- MCMaxDepths
    Workers = {w1, w2}
    NoJob = NoJob
INVARIANT
    VisitsAllWithinDepth
CHECK_DEADLOCK FALSE
