SPECIFICATION FairSpec
CONSTANTS
    Subs = {s1, s2}
    Publishers = {p1, p2}
    Closers = {k1, k2}
    NoSub = NoSub
    BufferSizes <- MCBufferSizes
INVARIANTS
    NoSendOnClosedChannel
    ChannelClosedOnce
    PublishSkipsOnlyClosed
    CloseLeavesNoOpenChannel
PROPERTY
    CallsReturn
CHECK_DEADLOCK FALSE
