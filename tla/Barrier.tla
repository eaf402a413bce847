------------------------------ MODULE Barrier ------------------------------
(***************************************************************************)
(* Barriers between cooperating processes: storage/ipc/barrier.c, on top   *)
(* of condition variables (module ConditionVariable, one of which is used, *)
(* BarrierCV).  Each critical section of the barrier's spinlock is a step; *)
(* the call of a condition variable routine that follows it begins in the  *)
(* same step, and the caller goes on once that routine is "out" again.     *)
(***************************************************************************)
EXTENDS ConditionVariable

CONSTANTS MaxPhase,  \* bound on the phase number
          Latched    \* the processes whose latch other code sets

ASSUME BarrierAssumption == MaxPhase \in Nat /\ IsFiniteSet(Procs) /\ Latched \subseteq Procs

VARIABLES
    participants, arrived, phase, elected, static_party,   \* struct Barrier
    bpc,            \* where a process is inside barrier.c
    start_phase,    \* local of BarrierArriveAndWait
    won_it,         \* its local elected, or the value it returns at once
    attached,       \* the callers that count as participants
    known_phase,    \* the last phase an attached caller learned of
    winners, lost   \* history: how many returned true for a new phase, and the
                    \* phases for which somebody returned false

bvars == <<participants, arrived, phase, elected, static_party>>
localvars == <<bpc, start_phase, won_it>>
callervars == <<attached, known_phase>>
history == <<winners, lost>>
allvars == <<cvvars, bvars, localvars, callervars, history>>

BarrierCV == AnyCV
Phases == 0 .. MaxPhase

\* BarrierInit with 0 participants, who attach later, or with a fixed party.
BarrierInit ==
    /\ CVInit
    /\ \E n \in {0, Cardinality(Procs)} :
           /\ participants = n
           /\ static_party = (n > 0)
           /\ attached = IF n > 0 THEN Procs ELSE {}
    /\ arrived = 0 /\ phase = 0 /\ elected = 0
    /\ bpc = [p \in Procs |-> "idle"]
    /\ start_phase = [p \in Procs |-> 0]
    /\ won_it = [p \in Procs |-> FALSE]
    /\ known_phase = [p \in Procs |-> 0]
    /\ winners = [n \in Phases |-> 0]
    /\ lost = {}

Idle(p) == bpc[p] = "idle" /\ cvpc[p] = "out"
----------------------------------------------------------------------------
BarrierAttach(p) ==
    /\ Idle(p) /\ p \notin attached /\ ~static_party
    /\ participants' = participants + 1
    /\ attached' = attached \cup {p}
    /\ known_phase' = [known_phase EXCEPT ![p] = phase]
    /\ UNCHANGED <<cvvars, arrived, phase, elected, static_party, localvars, history>>

\* BarrierArriveAndWait: the last to arrive starts the next phase, is elected
\* and wakes the others; everybody else gets ready to sleep.
BarrierArriveAndWait(p) ==
    LET release == arrived + 1 = participants IN
    /\ Idle(p) /\ p \in attached /\ phase < MaxPhase
    /\ start_phase' = [start_phase EXCEPT ![p] = phase]
    /\ won_it' = [won_it EXCEPT ![p] = release]
    /\ IF release
         THEN /\ arrived' = 0 /\ phase' = phase + 1 /\ elected' = phase + 1
              /\ bpc' = [bpc EXCEPT ![p] = "leave"]
              /\ Enter(p, "Broadcast", BarrierCV)
         ELSE /\ arrived' = arrived + 1 /\ UNCHANGED <<phase, elected>>
              /\ bpc' = [bpc EXCEPT ![p] = "check"]
              /\ Enter(p, "PrepareToSleep", BarrierCV)
    /\ UNCHANGED <<participants, static_party, callervars, history>>

\* Mutant: everybody who wakes up is elected.
UnelectedAlways(n) == TRUE

\* Nobody has been elected for phase n yet: a detach has advanced the phase.
Unelected(n) == elected # n

\* BarrierArriveAndWait, one turn of the loop.
CheckPhase(p) ==
    LET next_phase == start_phase[p] + 1
        release == phase = next_phase
        elect == release /\ Unelected(next_phase) IN
    /\ bpc[p] = "check" /\ cvpc[p] = "out"
    /\ elected' = IF elect THEN phase ELSE elected
    /\ won_it' = [won_it EXCEPT ![p] = elect]
    /\ bpc' = [bpc EXCEPT ![p] = IF release THEN "leave" ELSE "check"]
    /\ Enter(p, IF release THEN "CancelSleep" ELSE "Sleep", BarrierCV)
    /\ UNCHANGED <<participants, arrived, phase, static_party, start_phase, callervars, history>>

\* BarrierArriveAndWait returns to its caller.
ReturnFromWait(p) ==
    LET n == start_phase[p] + 1 IN
    /\ bpc[p] = "leave" /\ cvpc[p] = "out"
    /\ bpc' = [bpc EXCEPT ![p] = "idle"]
    /\ known_phase' = [known_phase EXCEPT ![p] = n]
    /\ start_phase' = [start_phase EXCEPT ![p] = 0]
    /\ won_it' = [won_it EXCEPT ![p] = FALSE]
    /\ winners' = [winners EXCEPT ![n] = IF won_it[p] THEN @ + 1 ELSE @]
    /\ lost' = IF won_it[p] THEN lost ELSE lost \cup {n}
    /\ UNCHANGED <<cvvars, bvars, attached>>

\* Mutant: a detach counts the caller among those who must arrive.
DetachReleasesLate(arrive, n) == (arrive \/ n > 0) /\ arrived = n + 1

\* Mutant: BarrierArriveAndDetach advances the phase whoever is expected.
DetachReleasesAny(arrive, n) == arrive \/ (n > 0 /\ arrived = n)

\* With n participants left, the detach starts the next phase.
DetachReleases(arrive, n) == (arrive \/ n > 0) /\ arrived = n

\* BarrierDetach and BarrierArriveAndDetach (BarrierDetachImpl).
BarrierDetach(p, arrive) ==
    LET n == participants - 1
        release == DetachReleases(arrive, n) IN
    /\ Idle(p) /\ p \in attached /\ ~static_party
    /\ release => phase < MaxPhase
    /\ participants' = n
    /\ attached' = attached \ {p}
    /\ known_phase' = [known_phase EXCEPT ![p] = 0]
    /\ IF release
         THEN arrived' = 0 /\ phase' = phase + 1 /\ Enter(p, "Broadcast", BarrierCV)
         ELSE UNCHANGED <<arrived, phase, cvvars>>
    /\ UNCHANGED <<elected, static_party, localvars, history>>

\* A step inside a condition variable routine; a latch set by other code.
CVOnly(p) == CVStep(p) /\ UNCHANGED <<bvars, localvars, callervars, history>>
LatchOnly(p) ==
    p \in Latched /\ ForeignSetLatch(p) /\ UNCHANGED <<bvars, localvars, callervars, history>>
----------------------------------------------------------------------------
\* Steps of a process that is inside barrier.c.
BarrierStep(p) == CheckPhase(p) \/ ReturnFromWait(p) \/ CVOnly(p)

BarrierNext ==
    \E p \in Procs :
        \/ BarrierStep(p) \/ LatchOnly(p)
        \/ BarrierAttach(p) \/ BarrierArriveAndWait(p)
        \/ \E arrive \in BOOLEAN : BarrierDetach(p, arrive)

BarrierSpec == BarrierInit /\ [][BarrierNext]_allvars

\* A process inside barrier.c keeps running; nobody has to arrive or detach.
BarrierFairSpec == BarrierSpec /\ \A p \in Procs : WF_allvars(BarrierStep(p))
----------------------------------------------------------------------------
(* Properties *)

\* The processes waiting for the current phase to end.
Waiting == {p \in attached : bpc[p] = "check" /\ start_phase[p] = phase}

\* Types; the counters of struct Barrier count the attached processes and the
\* waiting ones.
BarrierTypeOK ==
    /\ attached \subseteq Procs /\ participants = Cardinality(attached)
    /\ arrived = Cardinality(Waiting)
    /\ arrived > 0 => arrived < participants
    /\ phase \in Phases /\ elected \in 0 .. phase /\ static_party \in BOOLEAN
    /\ bpc \in [Procs -> {"idle", "check", "leave"}]
    /\ start_phase \in [Procs -> Phases] /\ known_phase \in [Procs -> Phases]
    /\ won_it \in [Procs -> BOOLEAN]
    /\ winners \in [Phases -> Nat] /\ lost \subseteq Phases

\* Nobody is overtaken: while a process is attached and does not arrive, the phase
\* stays the one it knows, which is why BarrierPhase may read it without the
\* lock; while it waits, the phase advances by one at most (the assertion in
\* BarrierArriveAndWait).
PhaseInStep ==
    \A p \in attached :
        /\ bpc[p] = "idle" => phase = known_phase[p]
        /\ bpc[p] # "idle" => phase \in {start_phase[p], start_phase[p] + 1}

\* "Return true in one arbitrarily chosen participant. Return false in all
\* others": at most one process is elected for a phase, and nobody is told it is
\* not elected unless somebody is.
OneElected ==
    /\ \A n \in Phases : winners[n] <= 1
    /\ \A n \in lost : \/ winners[n] = 1
                       \/ \E p \in Procs : /\ bpc[p] = "leave" /\ won_it[p]
                                            /\ start_phase[p] + 1 = n

\* Whoever waits is released once the phase has advanced, be it by the last
\* arrival or by a detach: a time comes when nobody is left behind in it.
LeftBehind == {p \in Procs : bpc[p] # "idle" /\ phase = start_phase[p] + 1}
Released == []<>(LeftBehind = {})
====
