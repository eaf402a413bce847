CONSTANTS
    Procs = {p1, p2, p3}
    NULL = NULL
    Readers = {p1, p2}
    MaxXid = 3
    MaxForeign = 0
SPECIFICATION Spec
SYMMETRY Symmetry
INVARIANTS SnapshotExact ActiveAdvertised HorizonSafe
