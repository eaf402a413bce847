------------------------------ MODULE RWLock ------------------------------
(***************************************************************************)
(* What lwlock.c promises its callers: reader-writer locks.  A backend     *)
(* becomes an owner in one atomic step, allowed only if no present owner   *)
(* conflicts, and stays one until it releases.  LWLock implements this     *)
(* specification (ImplementsRWLock, proved in LWLockProofs).               *)
(***************************************************************************)
CONSTANTS Procs, Locks, LW_EXCLUSIVE, LW_SHARED, NotHeld

VARIABLE owner     \* owner[l][p]: the mode in which p owns l, or NotHeld

Init == owner = [l \in Locks |-> [p \in Procs |-> NotHeld]]

\* An exclusive owner tolerates nobody, a shared one only shared owners.
Compatible(l, mode) ==
    \A q \in Procs : owner[l][q] = NotHeld \/ (owner[l][q] = LW_SHARED /\ mode = LW_SHARED)

Acquire(p, l, mode) ==
    /\ owner[l][p] = NotHeld
    /\ Compatible(l, mode)
    /\ owner' = [owner EXCEPT ![l] = [@ EXCEPT ![p] = mode]]

Release(p, l) ==
    /\ owner[l][p] # NotHeld
    /\ owner' = [owner EXCEPT ![l] = [@ EXCEPT ![p] = NotHeld]]

\* One owner of one lock changes.
Next == \E p \in Procs, l \in Locks :
            /\ owner'[l][p] # owner[l][p]
            /\ Release(p, l) \/ \E mode \in {LW_EXCLUSIVE, LW_SHARED} : Acquire(p, l, mode)

Spec == Init /\ [][Next]_owner
=============================================================================
