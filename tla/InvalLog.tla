------------------------------ MODULE InvalLog ------------------------------
(***************************************************************************)
(* What the shared invalidation messages promise: one sequence of messages *)
(* for all backends, of which a backend gets every message sent since it   *)
(* started, in order, or learns that it must discard all it has cached,    *)
(* which makes up for any number of messages.  Only the number of messages *)
(* matters here.                                                           *)
(***************************************************************************)
EXTENDS Integers

CONSTANT Procs

VARIABLES sent,     \* the number of messages sent
          pos,      \* how many of them a process has dealt with, -1: not a receiver
          resets    \* how often it has been reset

logvars == <<sent, pos, resets>>

Init == sent = 0 /\ pos = [p \in Procs |-> -1] /\ resets = [p \in Procs |-> 0]

Join(p) ==
    /\ pos[p] = -1
    /\ pos' = [pos EXCEPT ![p] = sent]
    /\ UNCHANGED <<sent, resets>>

Leave(p) ==
    /\ pos[p] # -1
    /\ pos' = [pos EXCEPT ![p] = -1] /\ resets' = [resets EXCEPT ![p] = 0]
    /\ UNCHANGED sent

Send ==
    /\ sent' \in Nat /\ sent' > sent
    /\ UNCHANGED <<pos, resets>>

Deliver(p) ==
    /\ 0 <= pos[p] /\ pos[p] < sent
    /\ pos' = [pos EXCEPT ![p] = @ + 1]
    /\ UNCHANGED <<sent, resets>>

Reset(p) ==
    /\ 0 <= pos[p]
    /\ \E n \in pos[p] + 1 .. sent : pos' = [pos EXCEPT ![p] = n]
    /\ resets' = [resets EXCEPT ![p] = @ + 1]
    /\ UNCHANGED sent

Next == Send \/ \E p \in Procs : Join(p) \/ Leave(p) \/ Deliver(p) \/ Reset(p)
Spec == Init /\ [][Next]_logvars
====
