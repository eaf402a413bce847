------------------------- MODULE ConditionVariable -------------------------
(***************************************************************************)
(* Condition variables: src/backend/storage/lmgr/condition_variable.c.     *)
(*                                                                         *)
(* Each critical section of a condition variable's spinlock and each latch *)
(* operation is one step.  A process is inside at most one routine; when   *)
(* cvpc says "out" its caller decides what comes next, so that a client    *)
(* such as Barrier adds its own steps there.  The latch is the process's   *)
(* general one: anybody may set it at any time.                            *)
(***************************************************************************)
EXTENDS Integers, Sequences, FiniteSets

CONSTANTS Procs,   \* the processes (PGPROC entries)
          CVs,     \* the condition variables
          NULL     \* no process, no condition variable

ASSUME CVAssumption == NULL \notin Procs \cup CVs /\ CVs # {}

VARIABLES
    cvWakeup,         \* the wait list of a condition variable
    cv_sleep_target,  \* the condition variable a process is prepared to sleep on
    latch,            \* PGPROC.procLatch is set
    cvpc,             \* next step of a process inside these routines
    cvarg,            \* the condition variable its routine works on
    found,            \* local proc: the process whose latch is to be set
    have_sentinel,    \* local of ConditionVariableBroadcast
    owed              \* history: processes listed when the current Broadcast
                      \* of a process began, and not taken off the list since

cvvars == <<cvWakeup, cv_sleep_target, latch, cvpc, cvarg, found, have_sentinel, owed>>

CVFns == {"PrepareToSleep", "Sleep", "CancelSleep", "Signal", "Broadcast"}

AnyCV == CHOOSE cv \in CVs : TRUE
Listed(p, cv) == \E i \in DOMAIN cvWakeup[cv] : cvWakeup[cv][i] = p

CVInit ==
    /\ cvWakeup = [cv \in CVs |-> <<>>]
    /\ cv_sleep_target = [p \in Procs |-> NULL]
    /\ latch = [p \in Procs |-> FALSE]
    /\ cvpc = [p \in Procs |-> "out"]
    /\ cvarg = [p \in Procs |-> AnyCV]
    /\ found = [p \in Procs |-> NULL]
    /\ have_sentinel = [p \in Procs |-> FALSE]
    /\ owed = [p \in Procs |-> {}]
----------------------------------------------------------------------------
(* Entry points *)

\* Mutant: ConditionVariableBroadcast does not cancel the caller's own sleep.
BroadcastEntryNoCancel(p) == "bcFirst"

PrepareEntry(p) == IF cv_sleep_target[p] # NULL THEN "prepCancel" ELSE "prepReset"
SleepEntry(p, cv) == IF cv_sleep_target[p] # cv THEN PrepareEntry(p) ELSE "wait"
CancelEntry(p) == IF cv_sleep_target[p] # NULL THEN "cancel" ELSE "out"
BroadcastEntry(p) == IF cv_sleep_target[p] # NULL THEN "bcCancel" ELSE "bcFirst"

\* A process calls a routine for condition variable cv.
Enter(p, fn, cv) ==
    /\ cvpc[p] = "out"
    /\ cvarg' = [cvarg EXCEPT ![p] = cv]
    /\ cvpc' = [cvpc EXCEPT ![p] = CASE fn = "PrepareToSleep" -> PrepareEntry(p)
                                     [] fn = "Sleep" -> SleepEntry(p, cv)
                                     [] fn = "CancelSleep" -> CancelEntry(p)
                                     [] fn = "Signal" -> "signal"
                                     [] fn = "Broadcast" -> BroadcastEntry(p)]
    /\ UNCHANGED <<cvWakeup, cv_sleep_target, latch, found, have_sentinel, owed>>
----------------------------------------------------------------------------
(* Sleeping *)

\* proclist_delete of p, if proclist_contains finds it.
Without(s, p) ==
    LET k == CHOOSE i \in DOMAIN s : s[i] = p IN
    IF \E i \in DOMAIN s : s[i] = p
      THEN [i \in 1 .. Len(s) - 1 |-> IF i < k THEN s[i] ELSE s[i + 1]]
      ELSE s

\* ConditionVariableCancelSleep, called for itself or by the other routines.
CancelSleep(p) ==
    LET cv == cv_sleep_target[p] IN
    /\ cvpc[p] \in {"cancel", "prepCancel", "bcCancel"}
    /\ cvWakeup' = [cvWakeup EXCEPT ![cv] = Without(@, p)]
    /\ owed' = [q \in Procs |-> owed[q] \ {p}]
    /\ cv_sleep_target' = [cv_sleep_target EXCEPT ![p] = NULL]
    /\ cvpc' = [cvpc EXCEPT ![p] = IF @ = "cancel" THEN "out"
                                   ELSE IF @ = "prepCancel" THEN "prepReset" ELSE "bcFirst"]
    /\ UNCHANGED <<latch, cvarg, found, have_sentinel>>

\* ConditionVariablePrepareToSleep: reset the latch, ...
PrepareReset(p) ==
    /\ cvpc[p] = "prepReset"
    /\ cv_sleep_target' = [cv_sleep_target EXCEPT ![p] = cvarg[p]]
    /\ latch' = [latch EXCEPT ![p] = FALSE]
    /\ cvpc' = [cvpc EXCEPT ![p] = "prepPush"]
    /\ UNCHANGED <<cvWakeup, cvarg, found, have_sentinel, owed>>

\* ... then enter the wait list.
PreparePush(p) ==
    /\ cvpc[p] = "prepPush"
    /\ cvWakeup' = [cvWakeup EXCEPT ![cvarg[p]] = Append(@, p)]
    /\ cvpc' = [cvpc EXCEPT ![p] = "out"]
    /\ UNCHANGED <<cv_sleep_target, latch, cvarg, found, have_sentinel, owed>>

\* Mutant: the latch is reset after the wait list has been examined.
SleepOrderLateReset(step) ==
    IF step = "wait" THEN "check" ELSE IF step = "check" THEN "reset" ELSE "wait"

\* The loop of ConditionVariableSleep: wait for the latch, reset it, examine
\* the list, and wait again if still listed.
SleepOrder(step) ==
    IF step = "wait" THEN "reset" ELSE IF step = "reset" THEN "check" ELSE "wait"

WaitLatch(p) ==
    /\ cvpc[p] = "wait"
    /\ latch[p]
    /\ cvpc' = [cvpc EXCEPT ![p] = SleepOrder("wait")]
    /\ UNCHANGED <<cvWakeup, cv_sleep_target, latch, cvarg, found, have_sentinel, owed>>

SleepReset(p) ==
    /\ cvpc[p] = "reset"
    /\ latch' = [latch EXCEPT ![p] = FALSE]
    /\ cvpc' = [cvpc EXCEPT ![p] = SleepOrder("reset")]
    /\ UNCHANGED <<cvWakeup, cv_sleep_target, cvarg, found, have_sentinel, owed>>

\* A process that finds itself off the list has been signaled: it enters the
\* list again and returns to its caller.
SleepCheck(p) ==
    LET cv == cvarg[p] IN
    /\ cvpc[p] = "check"
    /\ IF Listed(p, cv)
         THEN cvpc' = [cvpc EXCEPT ![p] = SleepOrder("check")] /\ UNCHANGED cvWakeup
         ELSE /\ cvWakeup' = [cvWakeup EXCEPT ![cv] = Append(@, p)]
              /\ cvpc' = [cvpc EXCEPT ![p] = "out"]
    /\ UNCHANGED <<cv_sleep_target, latch, cvarg, found, have_sentinel, owed>>

\* CHECK_FOR_INTERRUPTS raises an error before the wait; transaction abort
\* cancels the sleep.
Interrupt(p) ==
    /\ cvpc[p] = "wait"
    /\ cvpc' = [cvpc EXCEPT ![p] = "cancel"]
    /\ UNCHANGED <<cvWakeup, cv_sleep_target, latch, cvarg, found, have_sentinel, owed>>
----------------------------------------------------------------------------
(* Waking *)

\* ConditionVariableSignal takes the first process off the list.
Signal(p) ==
    LET cv == cvarg[p] IN
    /\ cvpc[p] = "signal"
    /\ IF cvWakeup[cv] = <<>>
         THEN cvpc' = [cvpc EXCEPT ![p] = "out"] /\ UNCHANGED <<cvWakeup, found, owed>>
         ELSE /\ found' = [found EXCEPT ![p] = Head(cvWakeup[cv])]
              /\ cvWakeup' = [cvWakeup EXCEPT ![cv] = Tail(@)]
              /\ owed' = [q \in Procs |-> owed[q] \ {Head(cvWakeup[cv])}]
              /\ cvpc' = [cvpc EXCEPT ![p] = "setLatch"]
    /\ UNCHANGED <<cv_sleep_target, latch, cvarg, have_sentinel>>

\* Mutant: the sentinel goes to the front of the list.
AddSentinelFront(s, p) == <<p>> \o s

\* The list behind its first entry, with the caller's sentinel at its end if
\* there is more than one entry.
AddSentinel(s, p) == Append(s, p)

\* ConditionVariableBroadcast, first section.
BroadcastFirst(p) ==
    LET cv == cvarg[p]
        rest == Tail(cvWakeup[cv]) IN
    /\ cvpc[p] = "bcFirst"
    /\ IF cvWakeup[cv] = <<>>
         THEN cvpc' = [cvpc EXCEPT ![p] = "out"] /\ UNCHANGED <<cvWakeup, found, have_sentinel, owed>>
         ELSE /\ found' = [found EXCEPT ![p] = Head(cvWakeup[cv])]
              /\ have_sentinel' = [have_sentinel EXCEPT ![p] = rest # <<>>]
              /\ cvWakeup' = [cvWakeup EXCEPT ![cv] = IF rest = <<>> THEN rest ELSE AddSentinel(rest, p)]
              /\ owed' = [q \in Procs |-> IF q = p THEN {rest[i] : i \in DOMAIN rest}
                                          ELSE owed[q] \ {Head(cvWakeup[cv])}]
              /\ cvpc' = [cvpc EXCEPT ![p] = "setLatch"]
    /\ UNCHANGED <<cv_sleep_target, latch, cvarg>>

\* Mutant: without a sentinel, wake processes until the list is empty.
SentinelListedNonempty(s, p) == s # <<>>

\* proclist_contains(&cv->wakeup, pgprocno): the sentinel is still in the list.
SentinelListed(s, p) == \E i \in DOMAIN s : s[i] = p

\* ConditionVariableBroadcast, one turn of the loop.
BroadcastLoop(p) ==
    LET cv == cvarg[p]
        s == cvWakeup[cv]
        rest == IF s = <<>> THEN s ELSE Tail(s) IN
    /\ cvpc[p] = "bcLoop"
    /\ cvWakeup' = [cvWakeup EXCEPT ![cv] = rest]
    /\ found' = [found EXCEPT ![p] = IF s = <<>> \/ s[1] = p THEN NULL ELSE s[1]]
    /\ have_sentinel' = [have_sentinel EXCEPT ![p] = SentinelListed(rest, p)]
    /\ owed' = [q \in Procs |-> IF s = <<>> THEN owed[q] ELSE owed[q] \ {s[1]}]
    /\ cvpc' = [cvpc EXCEPT ![p] = "setLatch"]
    /\ UNCHANGED <<cv_sleep_target, latch, cvarg>>

\* SetLatch of the process taken off the list, if any; the end of the routine
\* unless a Broadcast has its sentinel in the list.
SetFoundLatch(p) ==
    /\ cvpc[p] = "setLatch"
    /\ latch' = [q \in Procs |-> latch[q] \/ q = found[p]]
    /\ found' = [found EXCEPT ![p] = NULL]
    /\ cvpc' = [cvpc EXCEPT ![p] = IF have_sentinel[p] THEN "bcLoop" ELSE "out"]
    /\ UNCHANGED <<cvWakeup, cv_sleep_target, cvarg, have_sentinel, owed>>

\* Some other code sets the latch of p.
ForeignSetLatch(p) ==
    /\ ~latch[p]
    /\ latch' = [latch EXCEPT ![p] = TRUE]
    /\ UNCHANGED <<cvWakeup, cv_sleep_target, cvpc, cvarg, found, have_sentinel, owed>>
----------------------------------------------------------------------------
\* Steps inside the routines.
CVStep(p) ==
    \/ CancelSleep(p) \/ PrepareReset(p) \/ PreparePush(p)
    \/ WaitLatch(p) \/ SleepReset(p) \/ SleepCheck(p)
    \/ Signal(p) \/ BroadcastFirst(p) \/ BroadcastLoop(p) \/ SetFoundLatch(p)

\* Callers make the calls <<routine, condition variable>> in any order.
CVCaller(p, calls) ==
    \/ \E c \in calls : Enter(p, c[1], c[2])
    \/ Interrupt(p) \/ ForeignSetLatch(p)

CVNext == \E p \in Procs : CVStep(p) \/ CVCaller(p, CVFns \X CVs)
CVSpec == CVInit /\ [][CVNext]_cvvars

\* A process inside a routine keeps running; callers promise nothing.
CVFairness == \A p \in Procs : WF_cvvars(CVStep(p))
----------------------------------------------------------------------------
(* Properties *)

\* Places at which p's cvWaitLink is in use.
Links(p) == {e \in UNION {{cv} \X DOMAIN cvWakeup[cv] : cv \in CVs} : cvWakeup[e[1]][e[2]] = p}

\* A process has one cvWaitLink, for its sleeps and for its sentinels: it is in
\* one list at most, once, either as a sleeper on that condition variable or as
\* the sentinel of the Broadcast it is executing on it.
LinkOnce ==
    \A p \in Procs :
        /\ \A e, f \in Links(p) : e = f
        /\ \A e \in Links(p) : \/ cv_sleep_target[p] = e[1]
                               \/ have_sentinel[p] /\ cvarg[p] = e[1]

\* No lost signal: a process that is prepared to sleep and has been taken off the
\* list finds its latch set, or some process is just about to set it.
SignalNotLost ==
    \A p \in Procs :
        (/\ cv_sleep_target[p] # NULL /\ ~Listed(p, cv_sleep_target[p])
         /\ cvpc[p] \in {"out", "wait", "signal", "setLatch"})
            => latch[p] \/ \E q \in Procs : found[q] = p

\* "This guarantees to wake all processes that were sleeping on the CV at time
\* of call": a Broadcast does not end while one of them is still listed, also
\* when others remove its sentinel.
BroadcastWakesAll == \A p \in Procs : owed[p] # {} => have_sentinel[p]

\* A Broadcast ends although the processes it wakes may enter the list again at
\* once, which is what the sentinel is for: time and again a process is outside
\* these routines, or waits for its latch.
BroadcastEnds ==
    \A p \in Procs : []<>(cvpc[p] \in {"out", "wait"})
====
