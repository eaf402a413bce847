------------------------------ MODULE MCLWLock ------------------------------
(* Instances of LWLock for TLC. *)
EXTENDS LWLockAbstract, TLC

CONSTANTS b1, b2, b3

TwoBackends == {b1, b2}
ThreeBackends == {b1, b2, b3}
Symmetry == Permutations(Procs)

\* A lock with waiters of all three kinds: LWLockAcquire in both modes, and
\* LWLockAcquireOrWait as on WALWriteLock.
WaitingUses == [l \in Locks |-> ({"LWLockAcquire"} \X Modes)
                                  \cup {<<"LWLockAcquireOrWait", LW_EXCLUSIVE>>}]

\* A lock that is also taken conditionally, as ProcArrayLock is.
ConditionalUses == [l \in Locks |-> ({"LWLockAcquire"} \X Modes)
                                      \cup {<<"LWLockConditionalAcquire", LW_EXCLUSIVE>>}]

\* WALWriteLock: XLogFlush uses LWLockAcquireOrWait, checkpoints LWLockAcquire.
WALWriteUses ==
    [l \in Locks |-> {"LWLockAcquire", "LWLockAcquireOrWait"} \X {LW_EXCLUSIVE}]

=============================================================================
