CONSTANTS
    b1 = b1
    b2 = b2
    b3 = b3
    Procs <- ThreeBackends
    Locks = {0}
    Uses <- WaitingUses
    VarLocks = {}
    Vals = {0}
    LW_VAL_EXCLUSIVE = 4
    MAX_SIMUL_LWLOCKS = 1
    MaxForeign = 0
SPECIFICATION Spec
SYMMETRY Symmetry
INVARIANTS TypeOK MutualExclusion WordMatchesOwners WaitListsIntact WaitersAnnounced WakeupPending
PROPERTIES ImplementsRWLock
