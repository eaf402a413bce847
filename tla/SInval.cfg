CONSTANTS
    p1 = p1
    p2 = p2
    NULL = NULL
    Procs = {p1, p2}
    SendOnly = {}
    Senders = {p2}
    maxBackends = 2
    MAXNUMMESSAGES = 2
    MSGNUMWRAPAROUND = 2
    CLEANUP_MIN = 2
    CLEANUP_QUANTUM = 1
    SIG_THRESHOLD = 0
    WRITE_QUANTUM = 1
    MAXINVALMSGS = 1
    MaxSend = 2
    MaxTotal = 3
    Nested = {p1}
    MaxDepth = 2
SPECIFICATION FairSpec
INVARIANTS
    UnreadIntact
    UnreadFlagged
    ReceiveComplete
PROPERTIES
    CallsReturn
    IdleCatchesUp
    ImplementsLog
CHECK_DEADLOCK FALSE
