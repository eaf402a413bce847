--------------------------- MODULE LWLockAbstract ---------------------------
(* The abstract reader-writer lock that LWLock implements. *)
EXTENDS LWLock

\* The owners of every lock, as the abstract reader-writer lock has them.
owner == [l \in Locks |-> [p \in Procs |->
             IF Owns(p, l, LW_EXCLUSIVE) THEN LW_EXCLUSIVE
             ELSE IF Owns(p, l, LW_SHARED) THEN LW_SHARED ELSE NotHeld]]
RW == INSTANCE RWLock

\* Every behaviour of the lock code is one of the abstract lock: each acquisition
\* is compatible with the owners of that moment, each release is by an owner, and
\* no other step of any routine, in particular no wakeup, gives or takes a lock.
ImplementsRWLock == RW!Spec
====
