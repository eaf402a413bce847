CONSTANTS
    Procs = {p1, p2, p3}
    CVs = {c1}
    NULL = NULL
    MaxPhase = 2
    Latched = {p1}
SPECIFICATION BarrierFairSpec
INVARIANTS BarrierTypeOK PhaseInStep OneElected
PROPERTIES Released
\* A fixed party stops when the phase bound is reached.
CHECK_DEADLOCK FALSE
