SPECIFICATION Spec
CONSTANTS
    Subs = {s1, s2}
    Publishers = {p1}
    Closers = {k1}
    NoSub = NoSub
    BufferSizes <- MCBufferSizes
INVARIANT
    UnsubscribeClosesChannel
CHECK_DEADLOCK FALSE
