------------------------------ MODULE LWLock ------------------------------
(***************************************************************************)
(* Lightweight locks: src/backend/storage/lmgr/lwlock.c.                   *)
(*                                                                         *)
(* An LWLock is one atomic word (a holder count and three flag bits) and a *)
(* wait list.  Every atomic operation on the word, every change of a list  *)
(* made under the wait-list bit lock (LW_FLAG_LOCKED), every step of a     *)
(* waker (unlink, store to lwWaiting, signal) and every wait for the       *)
(* semaphore is a step of its own, so the model has the interleavings the  *)
(* C code has.  The step that ends a critical section contains the unlock, *)
(* and in LWLockDequeueSelf also the backend's store to its own lwWaiting, *)
(* which no other backend reads or writes once it is off all lists.        *)
(*                                                                         *)
(* Abstractions.  held_lwlocks is a function from locks to modes instead   *)
(* of an array: its order only decides which lock LWLockReleaseAll drops   *)
(* first, and here it may pick any.  A CAS loop is its successful          *)
(* iteration.  Interrupts are held off inside these routines, so an        *)
(* ereport(ERROR) can only come from the callers (action RaiseError) or    *)
(* from the "too many LWLocks taken" test.                                 *)
(***************************************************************************)
EXTENDS Integers, FiniteSets, Sequences

CONSTANTS Procs,             \* the backends (PGPROC entries)
          Locks,             \* the locks, numbered in the order callers take them
          Uses,              \* Uses[l]: the calls made on lock l, <<routine, mode>>
          VarLocks,          \* the locks that guard a variable (WAL insertion locks)
          Vals,              \* values of the variable guarded by a lock (uint64)
          LW_VAL_EXCLUSIVE,  \* 1 << 24 in the code
          MAX_SIMUL_LWLOCKS, \* 200 in the code
          MaxForeign         \* model bound: outstanding signals of other users

\* "Must be greater than MAX_BACKENDS" (lwlock.c:107).
ASSUME LWLockAssumption ==
    /\ IsFiniteSet(Procs)
    /\ Locks \subseteq Nat /\ Locks # {} /\ VarLocks \subseteq Locks /\ Vals # {}
    /\ LW_VAL_EXCLUSIVE \in Nat /\ Cardinality(Procs) < LW_VAL_EXCLUSIVE
    /\ MAX_SIMUL_LWLOCKS \in Nat
    /\ MaxForeign \in Nat

LW_EXCLUSIVE == "LW_EXCLUSIVE"
LW_SHARED == "LW_SHARED"
LW_WAIT_UNTIL_FREE == "LW_WAIT_UNTIL_FREE"
NotHeld == "none"
Modes == {LW_EXCLUSIVE, LW_SHARED}

AcquireFns == {"LWLockAcquire", "LWLockConditionalAcquire", "LWLockAcquireOrWait"}
HolderFns == {"LWLockUpdateVar", "LWLockReleaseClearVar"}
Fns == AcquireFns \cup HolderFns
           \cup {"LWLockWaitForVar", "LWLockRelease", "LWLockReleaseAll"}

\* The atomic steps a backend may be at.
PCs == {"idle", "attempt", "qLock", "qFlag", "qPush", "sleep", "retry", "dqLock", "dqBody",
        "dqRelOk", "dqSleep", "return", "vRead", "vLock", "vVal", "vRelOk",
        "releaseAll", "wLock", "wScan", "wake", "clear", "post", "uLock", "uBody", "cLock",
        "cBody", "cRelease"}

VARIABLES
    count,       \* the atomic word of a lock: its LW_LOCK_MASK bits, ...
    hasWaiters,  \* ... LW_FLAG_HAS_WAITERS, ...
    releaseOk,   \* ... LW_FLAG_RELEASE_OK ...
    listLocked,  \* ... and LW_FLAG_LOCKED, the bit lock of the wait list
    waiters,     \* the wait list, a sequence of backends
    var,         \* the variable of LWLockUpdateVar / LWLockWaitForVar
    lwWaiting,   \* PGPROC.lwWaiting
    lwWaitMode,  \* PGPROC.lwWaitMode
    sem,         \* count of PGPROC.sem
    held,        \* held_lwlocks
    pc,          \* next atomic step of a backend
    call,        \* the routine it executes and its arguments
    queued,      \* local: it has put itself on the wait list
    result,      \* local: the value to be returned
    extraWaits,  \* semaphore signals absorbed by that routine
    wakeup,      \* local list of waiters taken off a wait list; its head is
                 \* kept, unlinked, until it has been signalled
    scan,        \* strongest mode woken so far by LWLockWakeup
    foreign,     \* signals sent to sem by its other users, not yet consumed
    freed        \* history: since the first failed attempt of an
                 \* LWLockAcquireOrWait call, its lock has become free

word == <<count, hasWaiters, releaseOk, listLocked>>
shared == <<word, waiters, var, lwWaiting, lwWaitMode, sem>>
vars == <<shared, held, pc, call, queued, result, extraWaits, wakeup, scan, foreign, freed>>
----------------------------------------------------------------------------
(* The lock word *)

\* Mutant: every holder adds LW_VAL_SHARED.
LockValueShared(mode) == 1

\* LW_VAL_EXCLUSIVE or LW_VAL_SHARED, what a holder adds to the word.
LockValue(mode) == IF mode = LW_EXCLUSIVE THEN LW_VAL_EXCLUSIVE ELSE 1

\* word & LW_VAL_EXCLUSIVE
ExclusiveBit(c) == (c \div LW_VAL_EXCLUSIVE) % 2 = 1

\* (word & LW_LOCK_MASK) == 0
IsFree(c) == c % (2 * LW_VAL_EXCLUSIVE) = 0

\* Mutant: every release subtracts LW_VAL_EXCLUSIVE.
SubFetchExclusive(c, mode) == c - LW_VAL_EXCLUSIVE

\* The word LWLockRelease is left with.
SubFetch(c, mode) == c - LockValue(mode)

\* Mutant: an exclusive attempt overlooks shared holders.
LockFreeNoShared(c, mode) == ~ExclusiveBit(c)

\* lock_free of LWLockAttemptLock.
LockFree(c, mode) ==
    IF mode = LW_EXCLUSIVE THEN IsFree(c) ELSE ~ExclusiveBit(c)

\* A wait list without its i-th entry.
proclist_delete(s, i) == SubSeq(s, 1, i-1) \o SubSeq(s, i+1, Len(s))

HeldLocks(p) == {l \in Locks : held[p][l] # NotHeld}

Call(fn, l, mode, v) == [fn |-> fn, lock |-> l, mode |-> mode, val |-> v]
AnyLock == CHOOSE l \in Locks : TRUE
AnyVal == CHOOSE v \in Vals : TRUE
NoCall == Call("LWLockRelease", AnyLock, LW_SHARED, AnyVal)

\* A release or an update is complete: back to LWLockReleaseAll or the caller.
Finish(p) ==
    IF call[p].fn = "LWLockReleaseAll"
      THEN pc' = [pc EXCEPT ![p] = "releaseAll"] /\ UNCHANGED call
      ELSE pc' = [pc EXCEPT ![p] = "idle"] /\ call' = [call EXCEPT ![p] = NoCall]

Init ==
    /\ count = [l \in Locks |-> 0]
    /\ hasWaiters = [l \in Locks |-> FALSE]
    /\ releaseOk = [l \in Locks |-> TRUE]
    /\ listLocked = [l \in Locks |-> FALSE]
    /\ waiters = [l \in Locks |-> <<>>]
    /\ var = [l \in Locks |-> AnyVal]
    /\ lwWaiting = [p \in Procs |-> FALSE]
    /\ lwWaitMode = [p \in Procs |-> LW_SHARED]
    /\ sem = [p \in Procs |-> 0]
    /\ held = [p \in Procs |-> [l \in Locks |-> NotHeld]]
    /\ pc = [p \in Procs |-> "idle"]
    /\ call = [p \in Procs |-> NoCall]
    /\ queued = [p \in Procs |-> FALSE]
    /\ result = [p \in Procs |-> FALSE]
    /\ extraWaits = [p \in Procs |-> 0]
    /\ wakeup = [p \in Procs |-> <<>>]
    /\ scan = [p \in Procs |-> LW_WAIT_UNTIL_FREE]
    /\ foreign = [p \in Procs |-> 0]
    /\ freed = [p \in Procs |-> FALSE]
----------------------------------------------------------------------------
(* Entry points *)

\* Callers avoid deadlock among LWLocks by taking them in one order; a
\* conditional acquisition may be out of order since it never blocks.
InOrder(p, fn, l) ==
    fn = "LWLockConditionalAcquire" \/ \A h \in HeldLocks(p) : h < l

\* LWLockAcquire, LWLockConditionalAcquire, LWLockAcquireOrWait,
\* LWLockWaitForVar.  The acquiring routines fail when held_lwlocks is full,
\* and error recovery then calls LWLockReleaseAll.
Begin(p, fn, l, mode, v) ==
    /\ pc[p] = "idle"
    /\ held[p][l] = NotHeld
    /\ InOrder(p, fn, l)
    /\ LET full == Cardinality(HeldLocks(p)) >= MAX_SIMUL_LWLOCKS IN
       IF fn \in AcquireFns /\ full
         THEN /\ pc' = [pc EXCEPT ![p] = "releaseAll"]
              /\ call' = [call EXCEPT ![p] = Call("LWLockReleaseAll", AnyLock, LW_SHARED, AnyVal)]
         ELSE /\ pc' = [pc EXCEPT ![p] = IF fn = "LWLockWaitForVar" THEN "vRead"
                                                                    ELSE "attempt"]
              /\ call' = [call EXCEPT ![p] = Call(fn, l, mode, v)]
    /\ UNCHANGED <<shared, held, queued, result, extraWaits, wakeup, scan, foreign,
                   freed>>

\* LWLockUpdateVar and LWLockReleaseClearVar, called by the exclusive holder.
BeginHolder(p, fn, l, v) ==
    /\ pc[p] = "idle"
    /\ held[p][l] = LW_EXCLUSIVE
    /\ pc' = [pc EXCEPT ![p] = IF fn = "LWLockUpdateVar" THEN "uLock" ELSE "cLock"]
    /\ call' = [call EXCEPT ![p] = Call(fn, l, LW_SHARED, v)]
    /\ UNCHANGED <<shared, held, queued, result, extraWaits, wakeup, scan, foreign,
                   freed>>

\* ereport(ERROR) in a caller that holds locks: error recovery runs
\* LWLockReleaseAll.  (A holder of a WAL insertion lock is in a critical
\* section, where an error is a PANIC.)
RaiseError(p) ==
    /\ pc[p] = "idle"
    /\ HeldLocks(p) # {} /\ HeldLocks(p) \cap VarLocks = {}
    /\ pc' = [pc EXCEPT ![p] = "releaseAll"]
    /\ call' = [call EXCEPT ![p] = Call("LWLockReleaseAll", AnyLock, LW_SHARED, AnyVal)]
    /\ UNCHANGED <<shared, held, queued, result, extraWaits, wakeup, scan, foreign,
                   freed>>
----------------------------------------------------------------------------
(* Acquisition *)

\* LWLockAttemptLock: one successful compare-and-exchange.  The second
\* attempt of a call is made while queued.
AttemptLock(p) ==
    LET l == call[p].lock IN
    /\ pc[p] = "attempt"
    /\ IF LockFree(count[l], call[p].mode)
         THEN /\ count' = [count EXCEPT ![l] = @ + LockValue(call[p].mode)]
              /\ result' = [result EXCEPT ![p] = TRUE]
              /\ pc' = [pc EXCEPT ![p] = IF queued[p] THEN "dqLock" ELSE "return"]
              /\ UNCHANGED freed
         ELSE /\ pc' = [pc EXCEPT ![p] =
                            IF call[p].fn = "LWLockConditionalAcquire" THEN "return"
                            ELSE IF queued[p] THEN "sleep" ELSE "qLock"]
              /\ freed' = [freed EXCEPT ![p] = @ /\ queued[p]]
              /\ UNCHANGED <<count, result>>
    /\ UNCHANGED <<hasWaiters, releaseOk, listLocked, waiters, var, lwWaiting,
                   lwWaitMode, sem, held, call, queued, extraWaits, wakeup, scan,
                   foreign>>

\* The critical sections that LWLockWaitListLock opens.
Section == {<<"qLock", "qFlag">>, <<"dqLock", "dqBody">>, <<"wLock", "wScan">>,
            <<"uLock", "uBody">>, <<"cLock", "cBody">>, <<"vLock", "vVal">>}

\* LWLockWaitListLock: spin until the fetch-or finds LW_FLAG_LOCKED clear.
WaitListLock(p) ==
    LET l == call[p].lock IN
    /\ ~listLocked[l]
    /\ listLocked' = [listLocked EXCEPT ![l] = TRUE]
    /\ \E b \in PCs : <<pc[p], b>> \in Section /\ pc' = [pc EXCEPT ![p] = b]
    /\ UNCHANGED <<count, hasWaiters, releaseOk, waiters, var, lwWaiting, lwWaitMode,
                   sem, held, call, queued, result, extraWaits, wakeup, scan, foreign,
                   freed>>

\* LWLockQueueSelf: set the flag, ...
QueueSelfFlag(p) ==
    /\ pc[p] = "qFlag"
    /\ hasWaiters' = [hasWaiters EXCEPT ![call[p].lock] = TRUE]
    /\ pc' = [pc EXCEPT ![p] = "qPush"]
    /\ UNCHANGED <<count, releaseOk, listLocked, waiters, var, lwWaiting, lwWaitMode,
                   sem, held, call, queued, result, extraWaits, wakeup, scan, foreign,
                   freed>>

QueueMode(p) ==
    IF call[p].fn = "LWLockAcquire" THEN call[p].mode ELSE LW_WAIT_UNTIL_FREE

\* Mutant: sleep at once, without a second test.
AfterQueueSleep(p) == "sleep"

\* What a queued backend does next: test once more before it goes to sleep.
AfterQueue(p) == IF call[p].fn = "LWLockWaitForVar" THEN "vRelOk" ELSE "attempt"

\* ... then enter the list (LW_WAIT_UNTIL_FREE waiters at its front) and
\* LWLockWaitListUnlock.
QueueSelfPush(p) ==
    LET l == call[p].lock IN
    /\ pc[p] = "qPush"
    /\ lwWaiting' = [lwWaiting EXCEPT ![p] = TRUE]
    /\ lwWaitMode' = [lwWaitMode EXCEPT ![p] = QueueMode(p)]
    /\ waiters' = [waiters EXCEPT ![l] =
                      IF QueueMode(p) = LW_WAIT_UNTIL_FREE THEN <<p>> \o @ ELSE Append(@, p)]
    /\ listLocked' = [listLocked EXCEPT ![l] = FALSE]
    /\ queued' = [queued EXCEPT ![p] = TRUE]
    /\ pc' = [pc EXCEPT ![p] = AfterQueue(p)]
    /\ UNCHANGED <<count, hasWaiters, releaseOk, var, sem, held, call, result,
                   extraWaits, wakeup, scan, foreign, freed>>

\* The loop condition after a PGSemaphoreLock.
StillWaiting(p) == lwWaiting[p]

\* A woken backend retries (LWLockAcquire), looks again (LWLockWaitForVar) or is done.
AfterSleep(p) ==
    IF pc[p] = "sleep" /\ call[p].fn = "LWLockAcquire" THEN "retry"
    ELSE IF pc[p] = "sleep" /\ call[p].fn = "LWLockWaitForVar" THEN "vRead"
    ELSE "return"

\* One PGSemaphoreLock of a sleep loop and the test of lwWaiting after it.
\* A signal that was not ours is counted, to be given back on return.
Sleep(p) ==
    /\ pc[p] \in {"sleep", "dqSleep"}
    /\ sem[p] > 0
    /\ sem' = [sem EXCEPT ![p] = @ - 1]
    /\ IF StillWaiting(p)
         THEN /\ extraWaits' = [extraWaits EXCEPT ![p] = @ + 1]
              /\ UNCHANGED <<pc, queued>>
         ELSE /\ pc' = [pc EXCEPT ![p] = AfterSleep(p)]
              /\ queued' = [queued EXCEPT ![p] = FALSE]
              /\ UNCHANGED extraWaits
    /\ UNCHANGED <<word, waiters, var, lwWaiting, lwWaitMode, held, call, result,
                   wakeup, scan, foreign, freed>>

\* Mutant: RELEASE_OK is not set again.
RetryNoReleaseOk(p) ==
    /\ pc[p] = "retry"
    /\ pc' = [pc EXCEPT ![p] = "attempt"]
    /\ UNCHANGED <<shared, held, call, queued, result, extraWaits, wakeup, scan,
                   foreign, freed>>

\* LWLockAcquire, awake again: the next release may wake somebody up.
Retry(p) ==
    /\ pc[p] = "retry"
    /\ releaseOk' = [releaseOk EXCEPT ![call[p].lock] = TRUE]
    /\ pc' = [pc EXCEPT ![p] = "attempt"]
    /\ UNCHANGED <<count, hasWaiters, listLocked, waiters, var, lwWaiting, lwWaitMode,
                   sem, held, call, queued, result, extraWaits, wakeup, scan, foreign,
                   freed>>

\* Mutant: clear HAS_WAITERS though others wait.
FlagAfterDequeueCleared(flag, rest) == FALSE

\* LWLockDequeueSelf: HAS_WAITERS once we are off the list.
FlagAfterDequeue(flag, rest) == flag /\ rest # <<>>

\* LWLockDequeueSelf: leave the list, if still on it, ...
DequeueSelf(p) ==
    LET l == call[p].lock
        mine == {i \in DOMAIN waiters[l] : waiters[l][i] = p}
        found == mine # {}
        rest == IF found THEN proclist_delete(waiters[l], CHOOSE i \in mine : TRUE) ELSE waiters[l] IN
    /\ pc[p] = "dqBody"
    /\ waiters' = [waiters EXCEPT ![l] = rest]
    /\ hasWaiters' = [hasWaiters EXCEPT ![l] = FlagAfterDequeue(@, rest)]
    /\ listLocked' = [listLocked EXCEPT ![l] = FALSE]
    /\ lwWaiting' = [lwWaiting EXCEPT ![p] = @ /\ ~found]
    /\ queued' = [queued EXCEPT ![p] = ~found]
    /\ pc' = [pc EXCEPT ![p] = IF found THEN "return" ELSE "dqRelOk"]
    /\ UNCHANGED <<count, releaseOk, var, lwWaitMode, sem, held, call, result,
                   extraWaits, wakeup, scan, foreign, freed>>

\* ... or, when a waker has already taken us off, allow the next wakeup and
\* wait for the signal that waker will send.
DequeueSelfReleaseOk(p) ==
    /\ pc[p] = "dqRelOk"
    /\ releaseOk' = [releaseOk EXCEPT ![call[p].lock] = TRUE]
    /\ pc' = [pc EXCEPT ![p] = "dqSleep"]
    /\ UNCHANGED <<count, hasWaiters, listLocked, waiters, var, lwWaiting, lwWaitMode,
                   sem, held, call, queued, result, extraWaits, wakeup, scan, foreign,
                   freed>>

\* Mutant: absorbed signals are dropped.
GiveBackNone(p) == 0

\* Signals to give back: those absorbed while sleeping.
GiveBack(p) == extraWaits[p]

\* The end of an acquiring or waiting routine: remember the lock, give back
\* the absorbed signals.
Return(p) ==
    LET l == call[p].lock IN
    /\ pc[p] = "return"
    /\ held' = [held EXCEPT ![p][l] =
                   IF call[p].fn \in AcquireFns /\ result[p] THEN call[p].mode ELSE @]
    /\ sem' = [sem EXCEPT ![p] = @ + GiveBack(p)]
    /\ extraWaits' = [extraWaits EXCEPT ![p] = 0]
    /\ call' = [call EXCEPT ![p] = NoCall]
    /\ queued' = [queued EXCEPT ![p] = FALSE]
    /\ result' = [result EXCEPT ![p] = FALSE]
    /\ freed' = [freed EXCEPT ![p] = FALSE]
    /\ pc' = [pc EXCEPT ![p] = "idle"]
    /\ UNCHANGED <<word, waiters, var, lwWaiting, lwWaitMode, wakeup, scan, foreign>>
----------------------------------------------------------------------------
(* Release and wakeup *)

\* LWLockRelease: drop the lock from held_lwlocks and subtract from the word;
\* check_waiters is computed from the word the subtraction returned.
Release(p, l, fn) ==
    LET c == SubFetch(count[l], held[p][l])
        check_waiters == hasWaiters[l] /\ releaseOk[l] /\ IsFree(c) IN
    /\ held[p][l] # NotHeld
    /\ count' = [count EXCEPT ![l] = c]
    /\ held' = [held EXCEPT ![p][l] = NotHeld]
    /\ call' = [call EXCEPT ![p] = IF check_waiters \/ fn = "LWLockReleaseAll"
                                     THEN Call(fn, l, LW_SHARED, AnyVal) ELSE NoCall]
    /\ pc' = [pc EXCEPT ![p] = IF check_waiters THEN "wLock"
                               ELSE IF fn = "LWLockReleaseAll" THEN "releaseAll" ELSE "idle"]
    /\ freed' = [q \in Procs |-> \/ freed[q]
                                 \/ /\ IsFree(c)
                                    /\ call[q].fn = "LWLockAcquireOrWait" /\ call[q].lock = l]
    /\ UNCHANGED <<hasWaiters, releaseOk, listLocked, waiters, var, lwWaiting,
                   lwWaitMode, sem, queued, result, extraWaits, wakeup, scan, foreign>>

\* A caller's LWLockRelease; the exclusive holder of a lock with a variable calls
\* LWLockReleaseClearVar instead.
ReleaseOne(p) ==
    /\ pc[p] = "idle"
    /\ \E l \in Locks : /\ l \in VarLocks => held[p][l] = LW_SHARED
                        /\ Release(p, l, "LWLockRelease")

\* LWLockReleaseAll: one lock after the other until none is held.
ReleaseAll(p) ==
    /\ pc[p] = "releaseAll"
    /\ \/ \E l \in Locks : Release(p, l, "LWLockReleaseAll")
       \/ /\ HeldLocks(p) = {}
          /\ pc' = [pc EXCEPT ![p] = "idle"]
          /\ call' = [call EXCEPT ![p] = NoCall]
          /\ UNCHANGED <<shared, held, queued, result, extraWaits, wakeup, scan,
                         foreign, freed>>

\* The waiters LWLockWakeup would still take: once it has taken a waiter that
\* wants the lock it skips exclusive ones, and it stops after an exclusive one.
Wakeable(p, l) ==
    {i \in DOMAIN waiters[l] :
        /\ scan[p] # LW_EXCLUSIVE
        /\ scan[p] = LW_SHARED => lwWaitMode[waiters[l][i]] # LW_EXCLUSIVE}

\* LWLockWakeup, one iteration of its loop: move a waiter to the local list.
WakeupScan(p) ==
    LET l == call[p].lock IN
    /\ pc[p] = "wScan"
    /\ \E i \in Wakeable(p, l) :
         LET q == waiters[l][i] IN
         /\ \A j \in Wakeable(p, l) : i <= j
         /\ waiters' = [waiters EXCEPT ![l] = proclist_delete(@, i)]
         /\ wakeup' = [wakeup EXCEPT ![p] = Append(@, q)]
         /\ scan' = [scan EXCEPT ![p] =
                        IF lwWaitMode[q] = LW_WAIT_UNTIL_FREE THEN @ ELSE lwWaitMode[q]]
    /\ UNCHANGED <<word, var, lwWaiting, lwWaitMode, sem, held, pc, call, queued,
                   result, extraWaits, foreign, freed>>

\* LWLockWakeup, after the loop: one compare-and-exchange sets RELEASE_OK to
\* new_release_ok, clears HAS_WAITERS if nobody was found, and unlocks the list.
\* (scan, a local, goes back to its initial value.)
WakeupFlags(p) ==
    LET l == call[p].lock IN
    /\ pc[p] = "wScan"
    /\ Wakeable(p, l) = {}
    /\ releaseOk' = [releaseOk EXCEPT ![l] = (scan[p] = LW_WAIT_UNTIL_FREE)]
    /\ hasWaiters' = [hasWaiters EXCEPT ![l] = @ /\ wakeup[p] # <<>>]
    /\ listLocked' = [listLocked EXCEPT ![l] = FALSE]
    /\ scan' = [scan EXCEPT ![p] = LW_WAIT_UNTIL_FREE]
    /\ IF wakeup[p] # <<>> THEN pc' = [pc EXCEPT ![p] = "wake"] /\ UNCHANGED call
                           ELSE Finish(p)
    /\ UNCHANGED <<count, waiters, var, lwWaiting, lwWaitMode, sem, held, queued,
                   result, extraWaits, wakeup, foreign, freed>>

\* Mutant: lwWaiting is cleared first and the waiter unlinked afterwards.
WakeUnlinkLate(p) ==
    /\ pc[p] = "wake"
    /\ lwWaiting' = [lwWaiting EXCEPT ![Head(wakeup[p])] = FALSE]
    /\ pc' = [pc EXCEPT ![p] = IF lwWaiting[Head(wakeup[p])] THEN "wake" ELSE "post"]
    /\ UNCHANGED <<word, waiters, var, lwWaitMode, sem, held, call, queued, result,
                   extraWaits, wakeup, scan, foreign, freed>>

\* The wakeup loop shared by LWLockWakeup and LWLockUpdateVar: unlink the next
\* waiter, ...
WakeUnlink(p) ==
    /\ pc[p] = "wake"
    /\ pc' = [pc EXCEPT ![p] = "clear"]
    /\ UNCHANGED <<shared, held, call, queued, result, extraWaits, wakeup, scan, foreign,
                   freed>>

\* ... clear its lwWaiting, ...
WakeClear(p) ==
    /\ pc[p] = "clear"
    /\ lwWaiting' = [lwWaiting EXCEPT ![Head(wakeup[p])] = FALSE]
    /\ pc' = [pc EXCEPT ![p] = "post"]
    /\ UNCHANGED <<word, waiters, var, lwWaitMode, sem, held, call, queued, result,
                   extraWaits, wakeup, scan, foreign, freed>>

\* ... then PGSemaphoreUnlock its semaphore.
WakePost(p) ==
    /\ pc[p] = "post"
    /\ sem' = [sem EXCEPT ![Head(wakeup[p])] = @ + 1]
    /\ wakeup' = [wakeup EXCEPT ![p] = Tail(@)]
    /\ IF Len(wakeup[p]) > 1 THEN pc' = [pc EXCEPT ![p] = "wake"] /\ UNCHANGED call
                             ELSE Finish(p)
    /\ UNCHANGED <<word, waiters, var, lwWaiting, lwWaitMode, held, queued, result,
                   extraWaits, scan, foreign, freed>>
----------------------------------------------------------------------------
(* The variable of a lock *)

\* LWLockConflictsWithVar, the test of the lock word.  A waiter that is queued
\* and need not wait any more dequeues itself.
VarRead(p) ==
    /\ pc[p] = "vRead"
    /\ IF ExclusiveBit(count[call[p].lock])
         THEN pc' = [pc EXCEPT ![p] = "vLock"] /\ UNCHANGED result
         ELSE /\ result' = [result EXCEPT ![p] = TRUE]
              /\ pc' = [pc EXCEPT ![p] = IF queued[p] THEN "dqLock" ELSE "return"]
    /\ UNCHANGED <<shared, held, call, queued, extraWaits, wakeup, scan, foreign,
                   freed>>

\* LWLockConflictsWithVar, the comparison of the value under the list lock.
VarValue(p) ==
    LET l == call[p].lock IN
    /\ pc[p] = "vVal"
    /\ listLocked' = [listLocked EXCEPT ![l] = FALSE]
    /\ IF var[l] # call[p].val
         THEN pc' = [pc EXCEPT ![p] = IF queued[p] THEN "dqLock" ELSE "return"]
         ELSE pc' = [pc EXCEPT ![p] = IF queued[p] THEN "sleep" ELSE "qLock"]
    /\ UNCHANGED <<count, hasWaiters, releaseOk, waiters, var, lwWaiting, lwWaitMode,
                   sem, held, call, queued, result, extraWaits, wakeup, scan, foreign,
                   freed>>

\* LWLockWaitForVar, queued: make sure the release of the lock wakes us up.
VarReleaseOk(p) ==
    /\ pc[p] = "vRelOk"
    /\ releaseOk' = [releaseOk EXCEPT ![call[p].lock] = TRUE]
    /\ pc' = [pc EXCEPT ![p] = "vRead"]
    /\ UNCHANGED <<count, hasWaiters, listLocked, waiters, var, lwWaiting, lwWaitMode,
                   sem, held, call, queued, result, extraWaits, wakeup, scan, foreign,
                   freed>>

\* Mutant: nobody learns of a new value.
FreePrefixNone(l, n) == n = 0

\* The LW_WAIT_UNTIL_FREE waiters at the front of the list are the first n.
FreePrefix(l, n) ==
    /\ \A i \in 1..n : lwWaitMode[waiters[l][i]] = LW_WAIT_UNTIL_FREE
    /\ n < Len(waiters[l]) => lwWaitMode[waiters[l][n+1]] # LW_WAIT_UNTIL_FREE

\* LWLockUpdateVar: store the value and take off the leading waiters for it.
UpdateVar(p) ==
    LET l == call[p].lock IN
    /\ pc[p] = "uBody"
    /\ var' = [var EXCEPT ![l] = call[p].val]
    /\ listLocked' = [listLocked EXCEPT ![l] = FALSE]
    /\ \E n \in 0..Len(waiters[l]) :
         /\ FreePrefix(l, n)
         /\ wakeup' = [wakeup EXCEPT ![p] = SubSeq(waiters[l], 1, n)]
         /\ waiters' = [waiters EXCEPT ![l] = SubSeq(@, n + 1, Len(@))]
         /\ IF n > 0 THEN pc' = [pc EXCEPT ![p] = "wake"] /\ UNCHANGED call
                     ELSE Finish(p)
    /\ UNCHANGED <<count, hasWaiters, releaseOk, lwWaiting, lwWaitMode, sem, held,
                   queued, result, extraWaits, scan, foreign, freed>>

\* LWLockReleaseClearVar: reset the value, then LWLockRelease.
ClearVar(p) ==
    LET l == call[p].lock IN
    /\ pc[p] = "cBody"
    /\ var' = [var EXCEPT ![l] = call[p].val]
    /\ listLocked' = [listLocked EXCEPT ![l] = FALSE]
    /\ pc' = [pc EXCEPT ![p] = "cRelease"]
    /\ UNCHANGED <<count, hasWaiters, releaseOk, waiters, lwWaiting, lwWaitMode, sem,
                   held, call, queued, result, extraWaits, wakeup, scan, foreign,
                   freed>>

ReleaseCleared(p) ==
    /\ pc[p] = "cRelease"
    /\ Release(p, call[p].lock, "LWLockReleaseClearVar")
----------------------------------------------------------------------------
(* Other users of the semaphore: group XID clearing, clog group update *)

\* Some other code signals the backend's semaphore, ...
ForeignPost(p) ==
    /\ foreign[p] < MaxForeign
    /\ foreign' = [foreign EXCEPT ![p] = @ + 1]
    /\ sem' = [sem EXCEPT ![p] = @ + 1]
    /\ UNCHANGED <<word, waiters, var, lwWaiting, lwWaitMode, held, pc, call, queued,
                   result, extraWaits, wakeup, scan, freed>>

\* ... and the backend, outside LWLock code, consumes the signal.
ForeignTake(p) ==
    /\ pc[p] = "idle"
    /\ foreign[p] > 0 /\ sem[p] > 0
    /\ foreign' = [foreign EXCEPT ![p] = @ - 1]
    /\ sem' = [sem EXCEPT ![p] = @ - 1]
    /\ UNCHANGED <<word, waiters, var, lwWaiting, lwWaitMode, held, pc, call, queued,
                   result, extraWaits, wakeup, scan, freed>>
----------------------------------------------------------------------------
\* Steps a backend takes inside the LWLock routines.
Step(p) ==
    \/ AttemptLock(p) \/ WaitListLock(p) \/ QueueSelfFlag(p) \/ QueueSelfPush(p)
    \/ Sleep(p) \/ Retry(p) \/ DequeueSelf(p) \/ DequeueSelfReleaseOk(p) \/ Return(p)
    \/ ReleaseAll(p) \/ WakeupScan(p) \/ WakeupFlags(p)
    \/ WakeUnlink(p) \/ WakeClear(p) \/ WakePost(p)
    \/ VarRead(p) \/ VarValue(p) \/ VarReleaseOk(p)
    \/ UpdateVar(p) \/ ClearVar(p) \/ ReleaseCleared(p)

\* Calls made by the backends, and signals from elsewhere.  A variable is cleared to
\* the value it had at first (0 in WALInsertLockRelease).
Caller(p) ==
    \/ \E l \in Locks, fn \in AcquireFns, mode \in Modes :
           <<fn, mode>> \in Uses[l] /\ Begin(p, fn, l, mode, AnyVal)
    \/ \E l \in VarLocks, v \in Vals :
           \/ Begin(p, "LWLockWaitForVar", l, LW_SHARED, v)
           \/ BeginHolder(p, "LWLockUpdateVar", l, v)
    \/ \E l \in VarLocks : BeginHolder(p, "LWLockReleaseClearVar", l, AnyVal)
    \/ RaiseError(p) \/ ReleaseOne(p)
    \/ ForeignPost(p) \/ ForeignTake(p)

Next == \E p \in Procs : Step(p) \/ Caller(p)

Spec == Init /\ [][Next]_vars

\* Every backend keeps running inside these routines, which hold off interrupts.
\* Nothing is assumed about the callers: a holder need never release.
FairSpec == Spec /\ \A p \in Procs : WF_vars(Step(p))
----------------------------------------------------------------------------
(* Properties *)

\* Type invariant.
TypeOK ==
    /\ count \in [Locks -> Nat]
    /\ hasWaiters \in [Locks -> BOOLEAN]
    /\ releaseOk \in [Locks -> BOOLEAN]
    /\ listLocked \in [Locks -> BOOLEAN]
    /\ waiters \in [Locks -> Seq(Procs)]
    /\ var \in [Locks -> Vals]
    /\ lwWaiting \in [Procs -> BOOLEAN]
    /\ lwWaitMode \in [Procs -> Modes \cup {LW_WAIT_UNTIL_FREE}]
    /\ sem \in [Procs -> Nat]
    /\ held \in [Procs -> [Locks -> Modes \cup {NotHeld}]]
    /\ pc \in [Procs -> PCs]
    /\ call \in [Procs -> [fn : Fns, lock : Locks, mode : Modes, val : Vals]]
    /\ queued \in [Procs -> BOOLEAN]
    /\ result \in [Procs -> BOOLEAN]
    /\ extraWaits \in [Procs -> Nat]
    /\ wakeup \in [Procs -> Seq(Procs)]
    /\ scan \in [Procs -> Modes \cup {LW_WAIT_UNTIL_FREE}]
    /\ foreign \in [Procs -> Nat]
    /\ freed \in [Procs -> BOOLEAN]

\* p owns the lock: held_lwlocks says so, or p has won the compare-and-exchange
\* and has not returned yet.
Owns(p, l, mode) ==
    \/ held[p][l] = mode
    \/ /\ call[p].fn \in AcquireFns /\ result[p]
       /\ call[p].lock = l /\ call[p].mode = mode

Owners(l, mode) == {p \in Procs : Owns(p, l, mode)}

\* Mutual exclusion: while a backend owns a lock exclusively nobody else owns
\* it in any mode, whatever attempts, wakeups and dequeues are under way.
MutualExclusion ==
    \A l \in Locks : \A p \in Owners(l, LW_EXCLUSIVE) :
        Owners(l, LW_EXCLUSIVE) \cup Owners(l, LW_SHARED) = {p}

\* The count bits of the word are exactly the owners: no acquisition or release
\* is lost or counted twice, and shared holders never carry into the exclusive bit.
WordMatchesOwners ==
    \A l \in Locks :
        count[l] = LW_VAL_EXCLUSIVE * Cardinality(Owners(l, LW_EXCLUSIVE))
                           + Cardinality(Owners(l, LW_SHARED))

\* Positions at which p is listed: in wait lists, and in the local lists of
\* wakers until it is unlinked there.
ListedWaiting(p) == {e \in UNION {{l} \X DOMAIN waiters[l] : l \in Locks} :
                        waiters[e[1]][e[2]] = p}
PendingPosts(p) == {e \in UNION {{q} \X DOMAIN wakeup[q] : q \in Procs} :
                        wakeup[e[1]][e[2]] = p}
ListedWoken(p) == {e \in PendingPosts(p) : ~(pc[e[1]] \in {"clear", "post"} /\ e[2] = 1)}

\* A waker has unlinked p and is about to clear its lwWaiting.
BeingCleared(p) == \E e \in PendingPosts(p) : pc[e[1]] = "clear" /\ e[2] = 1

\* The wait lists stay intact.  A backend is on at most one list, once, and it is
\* on a wait list only as a queued waiter for that lock.  lwWaiting, which tells
\* it that its links are in use, is set exactly while it is on a list and until
\* the waker that has unlinked it clears it: a backend never leaves its sleep, to
\* queue itself elsewhere, while it is still linked.
WaitListsIntact ==
    \A p \in Procs :
        /\ \A e \in ListedWaiting(p) : queued[p] /\ call[p].lock = e[1]
        /\ \A d, e \in ListedWaiting(p) : d = e
        /\ \A d, e \in ListedWoken(p) : d = e
        /\ ListedWaiting(p) = {} \/ ListedWoken(p) = {}
        /\ lwWaiting[p] <=> \/ ListedWaiting(p) # {} \/ ListedWoken(p) # {}
                           \/ BeingCleared(p)

\* A nonempty wait list is announced in the word, where LWLockRelease looks.
WaitersAnnounced ==
    \A l \in Locks : waiters[l] # <<>> => hasWaiters[l]

\* A waker has taken p off a list and p has not left its sleep loop yet.
Owed(p) == IF queued[p] /\ ListedWaiting(p) = {} THEN 1 ELSE 0

\* The semaphore is shared with other subsystems, and LWLock code neither eats
\* their signals nor leaves one of its own behind: signals present, absorbed or
\* about to be sent are those of the other users plus the one p still waits for.
SemaphoreBalance ==
    \A p \in Procs :
        sem[p] + extraWaits[p] + Cardinality(PendingPosts(p)) = foreign[p] + Owed(p)

\* q is going to take another look at lock l: as the releaser that scans the
\* wait list, as a waiter that has been or is being woken, or as a backend about
\* to attempt the lock.
Attending(q, l) ==
    \/ call[q].lock = l /\ pc[q] \in {"wLock", "wScan"}
    \/ /\ call[q].fn = "LWLockAcquire" /\ call[q].lock = l
       /\ \/ pc[q] \in {"retry", "attempt"}
          \/ pc[q] = "sleep" /\ ListedWaiting(q) = {}

\* No lost wakeup, as an invariant: when the lock is free and some backend
\* sleeps on its list, another backend is attending to the lock.
WakeupPending ==
    \A l \in Locks :
        (IsFree(count[l]) /\ \E p \in Procs : pc[p] = "sleep" /\ \E i \in DOMAIN waiters[l] : waiters[l][i] = p)
            => \E q \in Procs : Attending(q, l)

\* LWLockAcquireOrWait returns false only after the lock has been released since
\* the first attempt failed: the caller may rely on the work of a past holder.
WaitedForRelease ==
    \A p \in Procs :
        (pc[p] = "return" /\ call[p].fn = "LWLockAcquireOrWait" /\ ~result[p]) => freed[p]

\* A backend never sleeps in LWLockWaitForVar on a value that has gone: if the
\* variable differs from the value it sleeps on, it is off the list, or the
\* lock is being released and the releaser will find it there.
VarSleeperCovered ==
    \A l \in Locks : \A i \in DOMAIN waiters[l] :
        LET p == waiters[l][i] IN
        (pc[p] = "sleep" /\ call[p].fn = "LWLockWaitForVar" /\ var[l] # call[p].val)
            => \E q \in Procs : call[q].lock = l /\ pc[q] \in {"cRelease", "wLock", "wScan"}

\* No lost wakeup, as a liveness property: a backend does not sleep for ever on a
\* lock that stays free.
NoSleepOnFreeLock ==
    \A p \in Procs : []<>~(pc[p] = "sleep" /\ IsFree(count[call[p].lock]))

\* A change of the variable reaches every backend that sleeps on the old value.
VarChangeSeen ==
    \A p \in Procs :
        []<>~(/\ pc[p] = "sleep" /\ call[p].fn = "LWLockWaitForVar"
              /\ var[call[p].lock] # call[p].val)
====
