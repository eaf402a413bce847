------------------------ MODULE MCConditionVariable ------------------------
(* ConditionVariable with three processes that use one condition variable;   *)
(* one of them may also be prepared to sleep on another.                     *)
EXTENDS ConditionVariable

CONSTANTS p1, p2, p3, c1, c2

\* The calls of a process.  ConditionVariableSleep prepares a process that is not
\* prepared, so only p1 prepares on its own, for the other condition variable.
Calls(p) == ({"Sleep", "CancelSleep", "Broadcast"} \X {c1})
                \cup (IF p = p1 THEN {<<"PrepareToSleep", c2>>} ELSE {<<"Signal", c1>>})

MCNext == \E p \in Procs : CVStep(p) \/ CVCaller(p, Calls(p))
MCSpec == CVInit /\ [][MCNext]_cvvars /\ CVFairness
====
