------------------------------- MODULE SInval -------------------------------
(***************************************************************************)
(* Shared invalidation messages: the ring buffer of                        *)
(* storage/ipc/sinvaladt.c and the receiving loop, the catchup interrupt   *)
(* and its processing of storage/ipc/sinval.c.                             *)
(*                                                                         *)
(* SInvalWriteLock and SInvalReadLock are abstract locks (module RWLock).  *)
(* What is done while both are held, or by the holder of the write lock to *)
(* what only such holders touch, is one step; what readers and a writer do *)
(* at the same time are steps of their own.  A message is represented by   *)
(* its place in the sequence of all messages ever sent.  It counts as seen *)
(* once it is passed to invalFunction; all messages up to a reset count as *)
(* seen once SIGetDataEntries has told its caller to call resetFunction.   *)
(* Local transaction ids, kept in the same array, are left out.            *)
(***************************************************************************)
EXTENDS Integers, Sequences

CONSTANTS
    Procs, NULL,
    SendOnly,           \* the processes that never receive: the startup process
    Senders,            \* the processes that send
    maxBackends,        \* size of procState
    MAXNUMMESSAGES, MSGNUMWRAPAROUND, CLEANUP_MIN, CLEANUP_QUANTUM, SIG_THRESHOLD,
    WRITE_QUANTUM, MAXINVALMSGS,
    MaxSend,            \* bound on the messages of one call
    MaxTotal,           \* bound on the messages sent
    Nested,             \* the processes whose callbacks call the routine again
    MaxDepth            \* bound on the depth of such calls

ASSUME SInvalAssumption ==
    /\ NULL \notin Procs /\ SendOnly \subseteq Procs /\ Senders \subseteq Procs /\ Nested \subseteq Procs
    /\ maxBackends \in Nat \ {0} /\ MAXNUMMESSAGES \in Nat \ {0} /\ MaxSend \in Nat \ {0}
    /\ MSGNUMWRAPAROUND \in Nat \ {0} /\ MSGNUMWRAPAROUND % MAXNUMMESSAGES = 0
    /\ CLEANUP_MIN \in Nat \ {0} /\ CLEANUP_QUANTUM \in Nat \ {0} /\ SIG_THRESHOLD \in Nat
    /\ WRITE_QUANTUM \in 1 .. MAXNUMMESSAGES
    /\ MAXINVALMSGS \in Nat \ {0} /\ MaxTotal \in Nat /\ MaxDepth \in Nat

VARIABLES
    minMsgNum, maxMsgNum, nextThreshold, lastBackend, buffer,              \* SISeg
    procPid, nextMsgNum, resetState, signaled, hasMessages,                \* ProcState
    writeLock, readShared,     \* lock holders; SInvalReadLock is exclusive within one step only
    pc, slot,                  \* the step a process is at, MyBackendId
    left, batch,               \* SIInsertDataEntries: n, nthistime
    target,                    \* SICleanupQueue: the backend to signal
    max,                       \* SIGetDataEntries: max
    frames,                    \* the calls of ReceiveSharedInvalidMessages that are running
    messages, nummsgs,         \* its static variables: messages[nextmsg .. nummsgs - 1], nummsgs
    procsignal,                \* a PROCSIG_CATCHUP_INTERRUPT is under way
    catchupInterruptPending,
    total,     \* history: the number of messages sent
    complete,  \* history: the number of messages whose SIInsertDataEntries is past its last store
    seen,      \* history: the number of messages a process has dealt with or missed before it began
    resets     \* history: the number of times it has discarded its caches

seg == <<minMsgNum, maxMsgNum, nextThreshold, lastBackend>>
locks == <<writeLock, readShared>>
insertvars == <<left, batch>>
receivevars == <<max, frames, messages, nummsgs>>
history == <<total, complete, seen, resets>>
procstate == <<procPid, nextMsgNum, resetState, signaled, hasMessages>>
vars == <<seg, buffer, procstate, locks, pc, slot, insertvars, target, receivevars, procsignal,
          catchupInterruptPending, history>>

Slots == 1 .. maxBackends
Active(s) == procPid[s] # NULL
sendOnly(s) == procPid[s] \in SendOnly

\* The least and the greatest number of a set; the innermost call and those around it.
Min(S) == CHOOSE n \in S : \A m \in S : n <= m
Max(S) == CHOOSE n \in S : \A m \in S : n >= m
Last(s) == s[Len(s)]
Front(s) == SubSeq(s, 1, Len(s) - 1)
Goto(p, step) == pc' = [pc EXCEPT ![p] = step]

Init ==
    /\ minMsgNum = 0 /\ maxMsgNum = 0 /\ nextThreshold = CLEANUP_MIN /\ lastBackend = 0
    /\ buffer = [i \in 0 .. MAXNUMMESSAGES - 1 |-> 0]
    /\ procPid = [s \in Slots |-> NULL] /\ nextMsgNum = [s \in Slots |-> 0]
    /\ resetState = [s \in Slots |-> FALSE] /\ signaled = [s \in Slots |-> FALSE]
    /\ hasMessages = [s \in Slots |-> FALSE]
    /\ writeLock = NULL /\ readShared = {}
    /\ pc = [p \in Procs |-> "unborn"] /\ slot = [p \in Procs |-> 0]
    /\ left = [p \in Procs |-> 0] /\ batch = [p \in Procs |-> 0]
    /\ target = [p \in Procs |-> NULL] /\ max = [p \in Procs |-> 0]
    /\ frames = [p \in Procs |-> <<>>] /\ messages = [p \in Procs |-> <<>>]
    /\ nummsgs = [p \in Procs |-> 0]
    /\ procsignal = [p \in Procs |-> FALSE] /\ catchupInterruptPending = [p \in Procs |-> FALSE]
    /\ total = 0 /\ complete = 0 /\ seen = [p \in Procs |-> 0] /\ resets = [p \in Procs |-> 0]
----------------------------------------------------------------------------
(* Backends come and go. *)

\* The first unused entry; without one, FATAL: too many clients already.
FreeSlots == {s \in Slots : s <= lastBackend + 1 /\ ~Active(s)}

SharedInvalBackendInit(p) ==
    LET s == Min(FreeSlots) IN
    /\ pc[p] = "unborn" /\ Goto(p, "out")
    /\ writeLock = NULL /\ FreeSlots # {}
    /\ lastBackend' = IF s > lastBackend THEN s ELSE lastBackend
    /\ slot' = [slot EXCEPT ![p] = s]
    /\ procPid' = [procPid EXCEPT ![s] = p]
    /\ nextMsgNum' = [nextMsgNum EXCEPT ![s] = maxMsgNum]
    /\ resetState' = [resetState EXCEPT ![s] = FALSE]
    /\ signaled' = [signaled EXCEPT ![s] = FALSE]
    /\ hasMessages' = [hasMessages EXCEPT ![s] = FALSE]
    /\ seen' = [seen EXCEPT ![p] = total]
    /\ UNCHANGED <<minMsgNum, maxMsgNum, nextThreshold, buffer, locks, insertvars, target,
                   receivevars, procsignal, catchupInterruptPending, total, complete, resets>>

\* At exit; the memory of the process goes with it.
CleanupInvalidationState(p) ==
    LET s == slot[p] IN
    /\ pc[p] = "out" /\ Goto(p, "gone")
    /\ writeLock = NULL
    /\ procPid' = [procPid EXCEPT ![s] = NULL]
    /\ nextMsgNum' = [nextMsgNum EXCEPT ![s] = 0]
    /\ resetState' = [resetState EXCEPT ![s] = FALSE]
    /\ signaled' = [signaled EXCEPT ![s] = FALSE]
    /\ lastBackend' = Max({0} \cup {t \in 1 .. lastBackend : procPid'[t] # NULL})
    /\ procsignal' = [procsignal EXCEPT ![p] = FALSE]
    /\ catchupInterruptPending' = [catchupInterruptPending EXCEPT ![p] = FALSE]
    /\ messages' = [messages EXCEPT ![p] = <<>>]
    /\ seen' = [seen EXCEPT ![p] = 0] /\ resets' = [resets EXCEPT ![p] = 0]
    /\ UNCHANGED <<minMsgNum, maxMsgNum, nextThreshold, buffer, hasMessages, locks, slot, insertvars,
                   target, max, frames, nummsgs, total, complete>>
----------------------------------------------------------------------------
(* SIInsertDataEntries *)

SendSharedInvalidMessages(p) ==
    /\ pc[p] = "out" /\ Goto(p, "insert") /\ p \in Senders
    /\ \E n \in 1 .. MaxSend : total + n <= MaxTotal /\ left' = [left EXCEPT ![p] = n]
    /\ UNCHANGED <<seg, buffer, procstate, locks, slot, batch, target, receivevars, procsignal,
                   catchupInterruptPending, history>>

\* Each round takes SInvalWriteLock ...
InsertLock(p) ==
    LET nthistime == IF left[p] < WRITE_QUANTUM THEN left[p] ELSE WRITE_QUANTUM IN
    /\ pc[p] = "insert" /\ Goto(p, "room")
    /\ writeLock = NULL /\ writeLock' = p
    /\ batch' = [batch EXCEPT ![p] = nthistime]
    /\ left' = [left EXCEPT ![p] = @ - nthistime]
    /\ UNCHANGED <<seg, buffer, procstate, readShared, slot, target, receivevars,
                   procsignal, catchupInterruptPending, history>>

\* Mutant: the buffer may be overfull by one message.
NeedsRoomLate(p) == maxMsgNum - minMsgNum + batch[p] > MAXNUMMESSAGES + 1

NeedsRoom(p) ==
    LET numMsgs == maxMsgNum - minMsgNum
    IN  numMsgs + batch[p] > MAXNUMMESSAGES \/ numMsgs >= nextThreshold

\* ... makes room by SICleanupQueue, as often as it takes, stores the messages ...
InsertWrite(p) ==
    LET Index(j) == (maxMsgNum + j) % MAXNUMMESSAGES IN
    /\ pc[p] = "room" /\ ~NeedsRoom(p) /\ Goto(p, "publish")
    /\ buffer' = [i \in DOMAIN buffer |->
                      IF \E j \in 0 .. batch[p] - 1 : i = Index(j)
                        THEN total + (CHOOSE j \in 0 .. batch[p] - 1 : i = Index(j))
                        ELSE buffer[i]]
    /\ UNCHANGED <<seg, procstate, locks, slot, insertvars, target, receivevars, procsignal,
                   catchupInterruptPending, history>>

\* ... makes them visible, under the spinlock ...
InsertPublish(p) ==
    /\ pc[p] = "publish" /\ Goto(p, "flag")
    /\ maxMsgNum' = maxMsgNum + batch[p]
    /\ total' = total + batch[p]
    /\ UNCHANGED <<minMsgNum, nextThreshold, lastBackend, buffer, procstate, locks, slot, insertvars,
                   target, receivevars, procsignal, catchupInterruptPending, complete, seen, resets>>

\* ... and tells everybody.  Only its owner ever reads a flag, so it does not
\* matter that the flags are set one after the other.
InsertFlag(p) ==
    /\ pc[p] = "flag" /\ Goto(p, IF left[p] > 0 THEN "insert" ELSE "out")
    /\ hasMessages' = [s \in Slots |-> s <= lastBackend \/ hasMessages[s]]
    /\ batch' = [batch EXCEPT ![p] = 0]
    /\ writeLock' = NULL
    /\ complete' = total
    /\ UNCHANGED <<seg, buffer, procPid, nextMsgNum, resetState, signaled, readShared, slot,
                   left, target, receivevars, procsignal, catchupInterruptPending, total, seen, resets>>
----------------------------------------------------------------------------
(* SICleanupQueue, called by a writer, which holds SInvalWriteLock, or at   *)
(* the end of ReceiveSharedInvalidMessages.                                 *)

callerHasWriteLock(p) == frames[p] = <<>>
minFree(p) == IF callerHasWriteLock(p) THEN batch[p] ELSE 0

CleanupLock(p) ==
    /\ pc[p] \in {"clean", "relock"} /\ Goto(p, IF pc[p] = "clean" THEN "cleanup" ELSE "room")
    /\ writeLock = NULL /\ writeLock' = p
    /\ UNCHANGED <<seg, buffer, procstate, readShared, slot, insertvars, target,
                   receivevars, procsignal, catchupInterruptPending, history>>

\* ReceiveSharedInvalidMessages returns to its caller, or to the callback that called
\* it.  Outside of all calls the value of nummsgs is not used any more.
ReceiveReturn(p) ==
    /\ Goto(p, IF Len(frames[p]) = 1 THEN "out" ELSE "work")
    /\ frames' = [frames EXCEPT ![p] = Front(@)]
    /\ nummsgs' = [nummsgs EXCEPT ![p] = IF Len(frames[p]) = 1 THEN 0 ELSE @]

\* After the cleanup a writer checks again; a reader is done.
Resume(p) ==
    IF callerHasWriteLock(p)
      THEN Goto(p, "room") /\ UNCHANGED <<frames, nummsgs>>
      ELSE ReceiveReturn(p)

\* The backends that hold up the queue, those of them that are forced into reset
\* state, and those that have fallen behind and have not been told.
Readers == {s \in 1 .. lastBackend : Active(s) /\ ~resetState[s] /\ ~sendOnly(s)}

\* Mutant: one message too few is reclaimed.
LowBoundLess(p) == maxMsgNum - MAXNUMMESSAGES + minFree(p) - 1

LowBound(p) == maxMsgNum - MAXNUMMESSAGES + minFree(p)
TooLate(p) == {s \in Readers : nextMsgNum[s] < LowBound(p)}
Behind(p) == {s \in Readers \ TooLate(p) :
                 ~signaled[s] /\ nextMsgNum[s] < maxMsgNum - SIG_THRESHOLD}
Furthest(S) == Min({s \in S : \A t \in S : nextMsgNum[s] <= nextMsgNum[t]})

\* What is subtracted from all message numbers when min gets large.
Wrap(min) == IF min >= MSGNUMWRAPAROUND THEN MSGNUMWRAPAROUND ELSE 0

Threshold(numMsgs) ==
    IF numMsgs < CLEANUP_MIN THEN CLEANUP_MIN ELSE (numMsgs \div CLEANUP_QUANTUM + 1) * CLEANUP_QUANTUM

SICleanupQueue(p) ==
    LET kept == Readers \ TooLate(p)
        min == Min({maxMsgNum} \cup {nextMsgNum[s] : s \in kept})
        needSig == Behind(p)
        s == Furthest(needSig)
    IN
    /\ pc[p] = "cleanup" \/ (pc[p] = "room" /\ NeedsRoom(p))
    /\ readShared = {}
    /\ resetState' = [t \in Slots |-> resetState[t] \/ t \in TooLate(p)]
    /\ minMsgNum' = min - Wrap(min)
    /\ maxMsgNum' = maxMsgNum - Wrap(min)
    /\ nextMsgNum' = [t \in Slots |-> IF t <= lastBackend THEN nextMsgNum[t] - Wrap(min) ELSE nextMsgNum[t]]
    /\ nextThreshold' = Threshold(maxMsgNum - min)
    /\ IF needSig # {}
         THEN /\ signaled' = [signaled EXCEPT ![s] = TRUE]
              /\ target' = [target EXCEPT ![p] = procPid[s]]
              /\ writeLock' = NULL
              /\ Goto(p, "signal")
              /\ UNCHANGED <<frames, nummsgs>>
         ELSE /\ writeLock' = IF callerHasWriteLock(p) THEN p ELSE NULL
              /\ Resume(p)
              /\ UNCHANGED <<signaled, target>>
    /\ UNCHANGED <<lastBackend, buffer, procPid, hasMessages, readShared, slot, insertvars,
                   max, messages, procsignal, catchupInterruptPending, history>>

\* Mutant: the signal is never sent.
SendProcSignalNone(p) ==
    /\ pc[p] = "signal"
    /\ IF callerHasWriteLock(p) THEN Goto(p, "relock") /\ UNCHANGED <<frames, nummsgs>> ELSE ReceiveReturn(p)
    /\ target' = [target EXCEPT ![p] = NULL]
    /\ UNCHANGED <<seg, buffer, procstate, locks, slot, insertvars, max, messages, procsignal,
                   catchupInterruptPending, history>>

\* A process that has gone away does not get the signal.
SendProcSignal(p) ==
    /\ pc[p] = "signal"
    /\ IF callerHasWriteLock(p) THEN Goto(p, "relock") /\ UNCHANGED <<frames, nummsgs>> ELSE ReceiveReturn(p)
    /\ procsignal' = [procsignal EXCEPT ![target[p]] = pc[target[p]] # "gone"]
    /\ target' = [target EXCEPT ![p] = NULL]
    /\ UNCHANGED <<seg, buffer, procstate, locks, slot, insertvars, max, messages,
                   catchupInterruptPending, history>>

\* The signal handler.
HandleCatchupInterrupt(p) ==
    /\ pc[p] # "gone" /\ procsignal[p] /\ procsignal' = [procsignal EXCEPT ![p] = FALSE]
    /\ catchupInterruptPending' = [catchupInterruptPending EXCEPT ![p] = TRUE]
    /\ UNCHANGED <<seg, buffer, procstate, locks, pc, slot, insertvars, target, receivevars, history>>
----------------------------------------------------------------------------
(* SIGetDataEntries *)

\* SInvalReadLock is taken in shared mode, and the flag is reset before the number of
\* messages is determined.
ReadLock(p) ==
    /\ pc[p] = "lock" /\ Goto(p, "max")
    /\ readShared' = readShared \cup {p}
    /\ hasMessages' = [hasMessages EXCEPT ![slot[p]] = FALSE]
    /\ UNCHANGED <<seg, buffer, procPid, nextMsgNum, resetState, signaled, writeLock, slot,
                   insertvars, target, receivevars, procsignal, catchupInterruptPending, history>>

FetchMax(p) ==
    /\ pc[p] = "max" /\ Goto(p, "read")
    /\ max' = [max EXCEPT ![p] = maxMsgNum]
    /\ UNCHANGED <<seg, buffer, procstate, locks, slot, insertvars,
                   target, frames, messages, nummsgs, procsignal, catchupInterruptPending, history>>

\* The place of message number n in the sequence of all messages.
Place(n) == n + total - maxMsgNum
Top(p) == Last(frames[p])
SetPhase(p, phase) == frames' = [frames EXCEPT ![p] = Append(Front(@), [Top(p) EXCEPT !.phase = phase])]

\* Mutant: the reset state is overlooked.
MustResetNever(s) == FALSE

MustReset(s) == resetState[s]

\* resetFunction discards everything, so all messages up to max are dealt with.
ForceReset(p) ==
    /\ MustReset(slot[p])
    /\ nextMsgNum' = [nextMsgNum EXCEPT ![slot[p]] = max[p]]
    /\ resetState' = [resetState EXCEPT ![slot[p]] = FALSE]
    /\ signaled' = [signaled EXCEPT ![slot[p]] = FALSE]
    /\ seen' = [seen EXCEPT ![p] = Place(max[p])]
    /\ resets' = [resets EXCEPT ![p] = @ + 1]
    /\ SetPhase(p, "reset")
    /\ UNCHANGED <<hasMessages, messages, nummsgs>>

\* Mutant: the flag is not set again when messages remain.
HasMoreForgotten(p, next) == FALSE

HasMore(p, next) == next < max[p]

IsCaughtUp(p, next) == next >= max[p]

ReadEntries(p) ==
    LET s == slot[p]
        avail == max[p] - nextMsgNum[s]
        n == IF avail < MAXINVALMSGS THEN avail ELSE MAXINVALMSGS
        next == nextMsgNum[s] + n
    IN
    /\ ~MustReset(s)
    /\ messages' = [messages EXCEPT ![p] =
                        [i \in 1 .. n |-> buffer[(nextMsgNum[s] + i - 1) % MAXNUMMESSAGES]]]
    /\ nummsgs' = [nummsgs EXCEPT ![p] = n]
    /\ nextMsgNum' = [nextMsgNum EXCEPT ![s] = next]
    /\ signaled' = [signaled EXCEPT ![s] = @ /\ ~IsCaughtUp(p, next)]
    /\ hasMessages' = [hasMessages EXCEPT ![s] = @ \/ HasMore(p, next)]
    /\ UNCHANGED <<resetState, frames, seen, resets>>

SIGetDataEntries(p) ==
    /\ pc[p] = "read" /\ Goto(p, IF MustReset(slot[p]) THEN "callback" ELSE "work")
    /\ ForceReset(p) \/ ReadEntries(p)
    /\ readShared' = readShared \ {p}
    /\ max' = [max EXCEPT ![p] = 0]
    /\ UNCHANGED <<seg, buffer, procPid, writeLock, slot, insertvars, target, procsignal,
                   catchupInterruptPending, total, complete>>
----------------------------------------------------------------------------
(* ReceiveSharedInvalidMessages.  A call that is running is in one of three *)
(* phases: dealing with messages left over from an outer call, with         *)
(* messages it has fetched, or past a reset.                                *)

NewFrame == [phase |-> "leftover", due |-> complete]

AcceptInvalidationMessages(p) ==
    /\ pc[p] = "out" /\ Goto(p, "work") /\ p \notin SendOnly
    /\ frames' = [frames EXCEPT ![p] = <<NewFrame>>]
    /\ UNCHANGED <<seg, buffer, procstate, locks, slot, insertvars, target, max, messages, nummsgs,
                   procsignal, catchupInterruptPending, history>>

\* An idle backend reacts to the interrupt.
ProcessCatchupInterrupt(p) == catchupInterruptPending[p] /\ AcceptInvalidationMessages(p)

\* Whatever a callback does otherwise is its own business: leaving it is part of the
\* next step.
Working(p) == pc[p] \in {"work", "callback"}

\* The next message is passed to invalFunction ...
InvalFunction(p) ==
    /\ Working(p) /\ messages[p] # <<>> /\ Goto(p, "callback")
    /\ seen' = [seen EXCEPT ![p] = Head(messages[p]) + 1]
    /\ messages' = [messages EXCEPT ![p] = Tail(@)]
    /\ UNCHANGED <<seg, buffer, procstate, locks, slot, insertvars, target, max, frames, nummsgs,
                   procsignal, catchupInterruptPending, total, complete, resets>>

\* ... which, like resetFunction, may call the routine again, here once.
Recurse(p) ==
    /\ pc[p] = "callback" /\ Goto(p, "work") /\ p \in Nested /\ Len(frames[p]) < MaxDepth
    /\ frames' = [frames EXCEPT ![p] = Append(@, NewFrame)]
    /\ UNCHANGED <<seg, buffer, procstate, locks, slot, insertvars, target, max, messages,
                   nummsgs, procsignal, catchupInterruptPending, history>>

\* ereport(ERROR) in a callback leaves all calls that are running.  The messages not
\* yet passed on stay in the static buffer for the next call.
CallbackError(p) ==
    /\ pc[p] = "callback" /\ Goto(p, "out")
    /\ frames' = [frames EXCEPT ![p] = <<>>] /\ nummsgs' = [nummsgs EXCEPT ![p] = 0]
    /\ UNCHANGED <<seg, buffer, procstate, locks, slot, insertvars, target, max, messages,
                   procsignal, catchupInterruptPending, history>>

\* Mutant: one call of SIGetDataEntries is enough.
FetchAgainNever(p) == Top(p).phase = "leftover"

\* The last call returned a full buffer, or there was none yet.
FetchAgain(p) ==
    \/ Top(p).phase = "leftover"
    \/ Top(p).phase = "fetched" /\ nummsgs[p] = MAXINVALMSGS

\* SIGetDataEntries begins with an unlocked test; it may find nothing to read.
Fetch(p) ==
    /\ Working(p) /\ messages[p] = <<>> /\ FetchAgain(p)
    /\ Goto(p, IF hasMessages[slot[p]] THEN "lock" ELSE "work")
    /\ nummsgs' = [nummsgs EXCEPT ![p] = 0]
    /\ SetPhase(p, "fetched")
    /\ UNCHANGED <<seg, buffer, procstate, locks, slot, insertvars, target, max, messages,
                   procsignal, catchupInterruptPending, history>>

\* "We are now caught up."
CaughtUp(p) == Working(p) /\ messages[p] = <<>> /\ ~FetchAgain(p)

\* After a catchup interrupt the queue is cleaned, which passes the interrupt on to
\* the next backend.
FinishReceive(p) ==
    /\ CaughtUp(p)
    /\ IF catchupInterruptPending[p] THEN Goto(p, "clean") /\ UNCHANGED <<frames, nummsgs>> ELSE ReceiveReturn(p)
    /\ catchupInterruptPending' = [catchupInterruptPending EXCEPT ![p] = FALSE]
    /\ UNCHANGED <<seg, buffer, procstate, locks, slot, insertvars, target, max, messages,
                   procsignal, history>>
----------------------------------------------------------------------------
Calls(p) ==
    \/ SharedInvalBackendInit(p) \/ CleanupInvalidationState(p) \/ SendSharedInvalidMessages(p)
    \/ AcceptInvalidationMessages(p) \/ Recurse(p) \/ CallbackError(p)

Step(p) ==
    \/ InsertLock(p) \/ InsertWrite(p) \/ InsertPublish(p) \/ InsertFlag(p)
    \/ CleanupLock(p) \/ SICleanupQueue(p) \/ SendProcSignal(p)
    \/ ReadLock(p) \/ FetchMax(p) \/ SIGetDataEntries(p)
    \/ InvalFunction(p) \/ Fetch(p) \/ FinishReceive(p)

Next == \E p \in Procs : Calls(p) \/ Step(p) \/ HandleCatchupInterrupt(p)
Spec == Init /\ [][Next]_vars

\* Processes inside the routines go on, signals arrive, and an idle backend reacts
\* to an interrupt.  Nobody has to send, to receive, to come or to go.
Fairness ==
    \A p \in Procs : /\ WF_vars(Step(p))
                     /\ WF_vars(HandleCatchupInterrupt(p)) /\ WF_vars(ProcessCatchupInterrupt(p))
FairSpec == Spec /\ Fairness
----------------------------------------------------------------------------
(* Properties *)

\* What a backend has not read yet is in the buffer, in order, whatever writers,
\* cleanups and the decrement of the counters have done meanwhile, and continues
\* what it has dealt with or fetched; a backend that is too slow for that has been
\* marked for a reset.
UnreadIntact ==
    \A s \in Readers :
        LET p == procPid[s] IN
        /\ minMsgNum <= nextMsgNum[s] /\ nextMsgNum[s] <= maxMsgNum
        /\ seen[p] + Len(messages[p]) = Place(nextMsgNum[s])
        /\ \A n \in nextMsgNum[s] .. maxMsgNum - 1 : buffer[n % MAXNUMMESSAGES] = Place(n)

\* A backend with messages to read, or in reset state, has its flag set, unless the
\* writer is about to set it or it is itself between resetting the flag and
\* releasing SInvalReadLock: the unlocked test of SIGetDataEntries misses nothing.
UnreadFlagged ==
    \A s \in Slots :
        Active(s) /\ ~sendOnly(s) /\ (resetState[s] \/ nextMsgNum[s] < maxMsgNum) =>
            \/ hasMessages[s]
            \/ procPid[s] \in readShared
            \/ \E p \in Procs : pc[p] = "flag"

\* When ReceiveSharedInvalidMessages is about to return, also from a recursive call, all
\* messages whose insertion was over when it was entered have been passed to
\* invalFunction, or a reset has made up for them.
ReceiveComplete == \A p \in Procs : CaughtUp(p) => seen[p] >= Top(p).due

\* Every call returns: an insertion although readers never read, a cleanup
\* although it has to give up the locks to send a signal.
CallsReturn == \A p \in Procs : []<>(pc[p] \in {"unborn", "out", "gone"})

\* The interrupt for p is about to be sent, under way, or has arrived.
CatchupDue(p) ==
    \/ \E q \in Procs : pc[q] = "signal" /\ target[q] = p
    \/ procsignal[p] \/ catchupInterruptPending[p]

\* An idle backend that SICleanupQueue picks to catch up does, also when a callback
\* fails: signaled does not stay set, so that it can be picked again.  This is not so
\* for a backend that is about to leave ReceiveSharedInvalidMessages: it takes the
\* interrupt for one it has dealt with.
IdleCatchesUp ==
    \A s \in Slots :
        (signaled[s] /\ Active(s) /\ pc[procPid[s]] = "out" /\ CatchupDue(procPid[s])) ~> ~signaled[s]

\* The messages as every backend sees them: in order and without a gap, or a reset.
Log == INSTANCE InvalLog WITH
           sent <- total,
           pos <- [p \in Procs |-> IF pc[p] \in {"unborn", "gone"} \/ p \in SendOnly THEN -1 ELSE seen[p]]

\* The ring buffer, the counters and the flags implement that log.
ImplementsLog == Log!Spec
====
