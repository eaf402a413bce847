CONSTANTS
    Procs = {p1, p2, p3}
    NULL = NULL
    Readers = {}
    MaxXid = 5
    MaxForeign = 1
SPECIFICATION FairSpec
INVARIANTS FollowerServed GroupIntact
PROPERTIES FollowerReturns
