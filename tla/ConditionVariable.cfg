CONSTANTS
    p1 = p1
    p2 = p2
    p3 = p3
    c1 = c1
    c2 = c2
    Procs = {p1, p2, p3}
    CVs = {c1, c2}
    NULL = NULL
SPECIFICATION MCSpec
INVARIANTS LinkOnce SignalNotLost BroadcastWakesAll
PROPERTY BroadcastEnds
