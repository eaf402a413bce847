CONSTANTS
    S = S
    R = R
    mq_ring_size = 4
    Lens = {0, 3, 5}
    Launchers = {S, R}
    MaxMessages = 2
    MaxForeign = 1
SPECIFICATION FairSpec
INVARIANTS
    RingIntact
    ReturnedIntact
PROPERTIES NoMutualWait CallReturns
    ImplementsQueue
CHECK_DEADLOCK FALSE
