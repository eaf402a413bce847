CONSTANTS
    b1 = b1
    b2 = b2
    b3 = b3
    Procs <- TwoBackends
    Locks = {0}
    Uses <- ConditionalUses
    VarLocks = {0}
    Vals = {0, 1}
    LW_VAL_EXCLUSIVE = 4
    MAX_SIMUL_LWLOCKS = 1
    MaxForeign = 1
SPECIFICATION FairSpec
INVARIANTS SemaphoreBalance VarSleeperCovered
PROPERTIES NoSleepOnFreeLock VarChangeSeen
