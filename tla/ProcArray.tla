----------------------------- MODULE ProcArray -----------------------------
(***************************************************************************)
(* Running transactions and snapshots: GetNewTransactionId                 *)
(* (access/transam/varsup.c), GetSnapshotData, ProcArrayEndTransaction and *)
(* group XID clearing (storage/ipc/procarray.c).                           *)
(*                                                                         *)
(* ProcArrayLock and XidGenLock are the abstract locks that LWLock is      *)
(* shown to implement (module RWLock): who holds them is all that matters  *)
(* here.  Every access to shared memory that is not protected against the  *)
(* others by a lock is a step of its own.  Subtransactions, recovery and   *)
(* the wrap-around of transaction ids are left out.                        *)
(***************************************************************************)
EXTENDS Integers, FiniteSets, FiniteSetsExt

CONSTANTS Procs,     \* backends: all of them are in the ProcArray
          NULL,      \* INVALID_PGPROCNO, no lock holder
          MaxXid,    \* bound on the transaction ids
          Readers,   \* the backends that take snapshots
          MaxForeign \* bound on the backends that other subsystems signal at a time

ASSUME ProcArrayAssumption == 
    NULL \notin Procs /\ Readers \subseteq Procs /\ MaxXid \in Nat /\ MaxForeign \in Nat

Invalid == 0                   \* InvalidTransactionId; 1 is the first normal one
Xids == 1 .. MaxXid

VARIABLES
    nextXid, latestCompletedXid,                      \* ShmemVariableCache
    xid, xmin,                                        \* PGXACT
    xidGenLock, procArrayExcl, procArrayShared,       \* lock holders
    groupFirst,                                       \* PROC_HDR.procArrayGroupFirst
    groupNext, groupMember, sem,                      \* PGPROC
    pc,                                               \* the step a backend is at
    newXid,                                           \* GetNewTransactionId: xid
    todo, entry, snap, globalxmin,                    \* GetSnapshotData: index, pgxact, snapshot
    nextidx, wakeidx, extraWaits,                     \* ProcArrayGroupClearXid
    ended,        \* history: the transactions that are no longer running
    horizon       \* history: the largest RecentGlobalXmin anybody has computed

cache == <<nextXid, latestCompletedXid>>
locks == <<xidGenLock, procArrayExcl, procArrayShared>>
group == <<groupFirst, groupNext, groupMember>>
scanning == <<todo, entry, snap, globalxmin>>
clearing == <<nextidx, wakeidx, extraWaits>>
vars == <<cache, xid, xmin, locks, group, sem, pc, newXid, scanning, clearing, ended, horizon>>

NoSnap == [xmin |-> Invalid, xmax |-> Invalid, xip |-> {}, seen |-> {}, own |-> Invalid]

Init ==
    /\ nextXid = 1 /\ latestCompletedXid = 0
    /\ xid = [p \in Procs |-> Invalid] /\ xmin = [p \in Procs |-> Invalid]
    /\ xidGenLock = NULL /\ procArrayExcl = NULL /\ procArrayShared = {}
    /\ groupFirst = NULL
    /\ groupNext = [p \in Procs |-> NULL] /\ groupMember = [p \in Procs |-> FALSE]
    /\ sem = [p \in Procs |-> 0]
    /\ pc = [p \in Procs |-> "idle"]
    /\ newXid = [p \in Procs |-> Invalid]
    /\ todo = [p \in Procs |-> {}] /\ entry = [p \in Procs |-> NULL]
    /\ snap = [p \in Procs |-> NoSnap]
    /\ globalxmin = [p \in Procs |-> Invalid]
    /\ nextidx = [p \in Procs |-> NULL] /\ wakeidx = [p \in Procs |-> NULL]
    /\ extraWaits = [p \in Procs |-> 0]
    /\ ended = {} /\ horizon = 0

Goto(p, step) == pc' = [pc EXCEPT ![p] = step]

\* ProcArrayLock can be acquired in exclusive mode.
Free == procArrayExcl = NULL /\ procArrayShared = {}

\* A backend starts a transaction.
StartTransaction(p) ==
    /\ pc[p] = "idle" /\ Goto(p, "run")
    /\ UNCHANGED <<cache, xid, xmin, locks, group, sem, newXid, scanning, clearing, ended, horizon>>
----------------------------------------------------------------------------
(* GetNewTransactionId *)

\* Mutant: XidGenLock is released before the new id is stored.
HoldsXidGenNever(p) == NULL

\* The holder of XidGenLock between taking an id and storing it.
HoldsXidGen(p) == p

\* Under XidGenLock: take the next id ...  (Past xidVacLimit the lock is released
\* and acquired again before an id is taken; at xidStopLimit, and when the commit
\* log cannot be extended, the error leaves everything as it was.)
TakeXid(p) ==
    /\ pc[p] = "run" /\ xid[p] = Invalid /\ nextXid <= MaxXid
    /\ xidGenLock = NULL /\ xidGenLock' = HoldsXidGen(p)
    /\ newXid' = [newXid EXCEPT ![p] = nextXid]
    /\ nextXid' = nextXid + 1
    /\ Goto(p, "gen")
    /\ UNCHANGED <<latestCompletedXid, xid, xmin, procArrayExcl, procArrayShared, group, sem,
                   scanning, clearing, ended, horizon>>

\* ... and advertise it.
StoreXid(p) ==
    /\ pc[p] = "gen"
    /\ xid' = [xid EXCEPT ![p] = newXid[p]]
    /\ newXid' = [newXid EXCEPT ![p] = Invalid]
    /\ xidGenLock' = IF xidGenLock = p THEN NULL ELSE xidGenLock
    /\ Goto(p, "run")
    /\ UNCHANGED <<cache, xmin, procArrayExcl, procArrayShared, group, sem, scanning, clearing,
                   ended, horizon>>
----------------------------------------------------------------------------
(* GetSnapshotData *)

\* Lock ProcArrayLock in shared mode; xmax is latestCompletedXid + 1.
SnapshotLock(p) ==
    LET xmax == latestCompletedXid + 1 IN
    /\ pc[p] = "run" /\ p \in Readers /\ procArrayExcl = NULL
    /\ procArrayShared' = procArrayShared \cup {p}
    /\ snap' = [snap EXCEPT ![p] = [xmin |-> xmax, xmax |-> xmax, xip |-> {}, seen |-> ended,
                                    own |-> xid[p]]]
    /\ globalxmin' = [globalxmin EXCEPT ![p] = xmax]
    /\ todo' = [todo EXCEPT ![p] = Procs]
    /\ Goto(p, "scan")
    /\ UNCHANGED <<cache, xid, xmin, xidGenLock, procArrayExcl, group, sem, newXid, entry, clearing,
                   ended, horizon>>

\* Mutant: what others advertise is ignored.
SmallerIgnored(x, y) == y

\* The older of a possibly invalid id and a normal one.
Smaller(x, y) == IF x # Invalid /\ x < y THEN x ELSE y

\* An id that the snapshot has to deal with: assigned, and older than xmax.
RunningBefore(x, xmax) == x # Invalid /\ x < xmax

\* The next entry of the ProcArray: read its xmin, ...  Entries come in the order
\* of their slots, which is any order.
SnapshotXmin(p) ==
    /\ pc[p] = "scan"
    /\ \E q \in todo[p] :
        /\ todo' = [todo EXCEPT ![p] = @ \ {q}]
        /\ entry' = [entry EXCEPT ![p] = q]
        /\ globalxmin' = [globalxmin EXCEPT ![p] = Smaller(xmin[q], @)]
    /\ Goto(p, "xid")
    /\ UNCHANGED <<cache, xid, xmin, locks, group, sem, newXid, snap, clearing, ended, horizon>>

\* ... then, once, its xid.
SnapshotXid(p) ==
    LET q == entry[p]
        running == RunningBefore(xid[q], snap[p].xmax) IN
    /\ pc[p] = "xid"
    /\ snap' = [snap EXCEPT ![p].xmin = IF running THEN Smaller(xid[q], @) ELSE @,
                            ![p].xip = IF running /\ q # p THEN @ \cup {xid[q]} ELSE @]
    /\ entry' = [entry EXCEPT ![p] = NULL]
    /\ Goto(p, "scan")
    /\ UNCHANGED <<cache, xid, xmin, locks, group, sem, newXid, todo, globalxmin, clearing, ended,
                   horizon>>

\* Advertise xmin if the transaction has none yet, and unlock.
SnapshotDone(p) ==
    /\ pc[p] = "scan" /\ todo[p] = {}
    /\ xmin' = [xmin EXCEPT ![p] = IF @ = Invalid THEN snap[p].xmin ELSE @]
    /\ procArrayShared' = procArrayShared \ {p}
    /\ horizon' = Max({horizon, Smaller(snap[p].xmin, globalxmin[p])})
    /\ globalxmin' = [globalxmin EXCEPT ![p] = Invalid]
    /\ Goto(p, "run")
    /\ UNCHANGED <<cache, xid, xidGenLock, procArrayExcl, group, sem, newXid, todo, entry, snap,
                   clearing, ended>>
----------------------------------------------------------------------------
(* ProcArrayEndTransaction *)

\* Mutant: the last to end is the latest completed.
EndInternalLast(q) ==
    /\ xid' = [xid EXCEPT ![q] = Invalid]
    /\ xmin' = [xmin EXCEPT ![q] = Invalid]
    /\ latestCompletedXid' = xid[q]
    /\ ended' = ended \cup {xid[q]}

\* ProcArrayEndTransactionInternal for the transaction of q.
EndInternal(q) ==
    /\ xid' = [xid EXCEPT ![q] = Invalid]
    /\ xmin' = [xmin EXCEPT ![q] = Invalid]
    /\ latestCompletedXid' = Max({latestCompletedXid, xid[q]})
    /\ ended' = ended \cup {xid[q]}

\* Without an id there is nothing to lock for.
EndReadOnly(p) ==
    /\ pc[p] = "run" /\ xid[p] = Invalid
    /\ xmin' = [xmin EXCEPT ![p] = Invalid]
    /\ snap' = [snap EXCEPT ![p] = NoSnap]
    /\ Goto(p, "idle")
    /\ UNCHANGED <<cache, xid, locks, group, sem, newXid, todo, entry, globalxmin, clearing, ended,
                   horizon>>

\* LWLockConditionalAcquire: clear the id oneself, or join the group.
EndTransaction(p) ==
    /\ pc[p] = "run" /\ xid[p] # Invalid
    /\ snap' = [snap EXCEPT ![p] = NoSnap]
    /\ IF Free
         THEN /\ procArrayExcl' = p /\ Goto(p, "clear")
              /\ UNCHANGED groupMember
         ELSE /\ groupMember' = [groupMember EXCEPT ![p] = TRUE] /\ Goto(p, "join")
              /\ UNCHANGED procArrayExcl
    /\ UNCHANGED <<cache, xid, xmin, xidGenLock, procArrayShared, groupFirst, groupNext, sem, newXid,
                   todo, entry, globalxmin, clearing, ended, horizon>>

ClearOwn(p) ==
    /\ pc[p] = "clear"
    /\ EndInternal(p)
    /\ procArrayExcl' = NULL
    /\ Goto(p, "idle")
    /\ UNCHANGED <<nextXid, xidGenLock, procArrayShared, group, sem, newXid, scanning, clearing, horizon>>
----------------------------------------------------------------------------
(* ProcArrayGroupClearXid *)

\* Read the head of the list and link to it.
GroupRead(p) ==
    /\ pc[p] = "join"
    /\ nextidx' = [nextidx EXCEPT ![p] = groupFirst]
    /\ groupNext' = [groupNext EXCEPT ![p] = groupFirst]
    /\ Goto(p, "cas")
    /\ UNCHANGED <<cache, xid, xmin, locks, groupFirst, groupMember, sem, newXid, scanning, wakeidx,
                   extraWaits, ended, horizon>>

\* Mutant: the head is replaced whatever it has become.
HeadUnchangedAlways(p) == TRUE

HeadUnchanged(p) == groupFirst = nextidx[p]

\* Compare and exchange the head; the first in the list is the leader.
GroupCas(p) ==
    /\ pc[p] = "cas"
    /\ IF HeadUnchanged(p)
         THEN groupFirst' = p /\ Goto(p, IF nextidx[p] = NULL THEN "lead" ELSE "sleep")
         ELSE Goto(p, "join") /\ UNCHANGED groupFirst
    /\ UNCHANGED <<cache, xid, xmin, locks, groupNext, groupMember, sem, newXid, scanning, clearing,
                   ended, horizon>>

\* A follower sleeps until it is no longer a member, and gives back the signals
\* that were meant for others.
GroupSleep(p) ==
    /\ pc[p] = "sleep" /\ sem[p] > 0
    /\ IF groupMember[p]
         THEN /\ sem' = [sem EXCEPT ![p] = @ - 1]
              /\ extraWaits' = [extraWaits EXCEPT ![p] = @ + 1]
              /\ UNCHANGED <<pc, nextidx>>
         ELSE /\ sem' = [sem EXCEPT ![p] = @ - 1 + extraWaits[p]]
              /\ extraWaits' = [extraWaits EXCEPT ![p] = 0]
              /\ nextidx' = [nextidx EXCEPT ![p] = NULL]
              /\ Goto(p, "idle")
    /\ UNCHANGED <<cache, xid, xmin, locks, group, newXid, scanning, wakeidx, ended, horizon>>

\* The leader locks ProcArrayLock on behalf of everyone, ...
LeaderLock(p) ==
    /\ pc[p] = "lead" /\ Free
    /\ procArrayExcl' = p
    /\ Goto(p, "take")
    /\ UNCHANGED <<cache, xid, xmin, xidGenLock, procArrayShared, group, sem, newXid, scanning,
                   clearing, ended, horizon>>

\* ... takes the list, ...
LeaderTake(p) ==
    /\ pc[p] = "take"
    /\ groupFirst' = NULL
    /\ nextidx' = [nextidx EXCEPT ![p] = groupFirst]
    /\ wakeidx' = [wakeidx EXCEPT ![p] = groupFirst]
    /\ Goto(p, "walk")
    /\ UNCHANGED <<cache, xid, xmin, locks, groupNext, groupMember, sem, newXid, scanning, extraWaits,
                   ended, horizon>>

\* ... clears every id in it and unlocks.
LeaderWalk(p) ==
    LET q == nextidx[p] IN
    /\ pc[p] = "walk"
    /\ IF q # NULL
         THEN /\ EndInternal(q)
              /\ nextidx' = [nextidx EXCEPT ![p] = groupNext[q]]
              /\ UNCHANGED <<pc, procArrayExcl>>
         ELSE /\ procArrayExcl' = NULL /\ Goto(p, "wake")
              /\ UNCHANGED <<xid, xmin, latestCompletedXid, ended, nextidx>>
    /\ UNCHANGED <<nextXid, xidGenLock, procArrayShared, group, sem, newXid, scanning, wakeidx,
                   extraWaits, horizon>>

\* Waking the members: read and reset the link of the next one, ...
LeaderWake(p) ==
    LET q == wakeidx[p] IN
    /\ pc[p] = "wake"
    /\ IF q # NULL
         THEN /\ nextidx' = [nextidx EXCEPT ![p] = groupNext[q]]
              /\ groupNext' = [groupNext EXCEPT ![q] = NULL]
              /\ Goto(p, "member")
         ELSE Goto(p, "idle") /\ UNCHANGED <<nextidx, groupNext>>
    /\ UNCHANGED <<cache, xid, xmin, locks, groupFirst, groupMember, sem, newXid, scanning, wakeidx,
                   extraWaits, ended, horizon>>

\* ... end its membership, ...
LeaderMember(p) ==
    /\ pc[p] = "member"
    /\ groupMember' = [groupMember EXCEPT ![wakeidx[p]] = FALSE]
    /\ Goto(p, "post")
    /\ UNCHANGED <<cache, xid, xmin, locks, groupFirst, groupNext, sem, newXid, scanning, clearing,
                   ended, horizon>>

\* Mutant: the test is inverted.
NeedsPostInverted(p, q) == q = p

\* The leader itself does not sleep.
NeedsPost(p, q) == q # p

\* ... and signal it.
LeaderPost(p) ==
    LET q == wakeidx[p] IN
    /\ pc[p] = "post"
    /\ sem' = IF NeedsPost(p, q) THEN [sem EXCEPT ![q] = @ + 1] ELSE sem
    /\ wakeidx' = [wakeidx EXCEPT ![p] = nextidx[p]]
    /\ Goto(p, "wake")
    /\ UNCHANGED <<cache, xid, xmin, locks, group, newXid, scanning, nextidx, extraWaits, ended,
                   horizon>>

\* Other subsystems signal the same semaphore.
ForeignPost(p) ==
    /\ sem[p] + extraWaits[p] = 0
    /\ Cardinality({q \in Procs : sem[q] + extraWaits[q] > 0}) < MaxForeign
    /\ sem' = [sem EXCEPT ![p] = @ + 1]
    /\ UNCHANGED <<cache, xid, xmin, locks, group, pc, newXid, scanning, clearing, ended, horizon>>
ForeignTake(p) ==
    /\ pc[p] = "idle" /\ sem[p] > 0
    /\ sem' = [sem EXCEPT ![p] = @ - 1]
    /\ UNCHANGED <<cache, xid, xmin, locks, group, pc, newXid, scanning, clearing, ended, horizon>>
----------------------------------------------------------------------------
\* Steps of a backend inside one of the routines.
Step(p) ==
    \/ StoreXid(p) \/ SnapshotXmin(p) \/ SnapshotXid(p) \/ SnapshotDone(p) \/ ClearOwn(p)
    \/ GroupRead(p) \/ GroupCas(p) \/ GroupSleep(p)
    \/ LeaderLock(p) \/ LeaderTake(p) \/ LeaderWalk(p) \/ LeaderWake(p) \/ LeaderMember(p)
    \/ LeaderPost(p)

Next ==
    \E p \in Procs :
        \/ Step(p)
        \/ StartTransaction(p) \/ TakeXid(p) \/ SnapshotLock(p) \/ EndReadOnly(p) \/ EndTransaction(p)
        \/ ForeignPost(p) \/ ForeignTake(p)

Spec == Init /\ [][Next]_vars

\* A backend inside one of the routines keeps running.
FairSpec == Spec /\ \A p \in Procs : WF_vars(Step(p))
----------------------------------------------------------------------------
(* Properties *)

\* p has taken a snapshot in its current transaction.
HasSnapshot(p) == snap[p] # NoSnap /\ pc[p] \notin {"scan", "xid"}

\* A snapshot is exact: the transactions it treats as finished are those that had
\* left the set of running transactions when it was begun, although ids are
\* assigned while it is taken and whole groups leave at once.
SnapshotExact ==
    \A p \in Procs :
        HasSnapshot(p) =>
            {x \in Xids : x < snap[p].xmax /\ x \notin snap[p].xip} \ {snap[p].own} = snap[p].seen

\* "every active XID older than latestCompletedXid is present in the ProcArray".
ActiveAdvertised ==
    \A x \in 1 .. latestCompletedXid : x \in ended \/ \E p \in Procs : xid[p] = x

\* Nobody ever computes a RecentGlobalXmin that is newer than an advertised xmin,
\* and every snapshot in use is covered by one, so that what VACUUM may remove is
\* invisible to all snapshots, those taken at the same time included.
HorizonSafe ==
    \A p \in Procs :
        /\ xmin[p] # Invalid => horizon <= xmin[p]
        /\ HasSnapshot(p) => xmin[p] # Invalid /\ xmin[p] <= snap[p].xmin

\* The members found by following the links from q.
Chain(q) ==
    LET From[n \in 0 .. Cardinality(Procs), r \in Procs \cup {NULL}] ==
            IF r = NULL \/ n = 0 THEN {} ELSE {r} \cup From[n - 1, groupNext[r]]
    IN  From[Cardinality(Procs), q]

\* The group protocol: there are members in the list only together with exactly
\* one leader who has yet to take it; nobody's id is cleared twice; a member's
\* link is reset before it goes on (the assertion after the wait), and once freed
\* it is signalled; a backend goes on only when its transaction has left the set
\* of the running ones.
GroupIntact ==
    /\ groupFirst # NULL <=> \E p \in Procs : pc[p] \in {"lead", "take"}
    /\ \A p, q \in Procs : pc[p] \in {"lead", "take"} /\ pc[q] \in {"lead", "take"} => p = q
    /\ \A p \in Procs :
          /\ pc[p] = "walk" /\ nextidx[p] # NULL => xid[nextidx[p]] # Invalid
          /\ pc[p] = "sleep" /\ ~groupMember[p] =>
                 /\ groupNext[p] = NULL
                 /\ sem[p] > 0 \/ \E q \in Procs : pc[q] = "post" /\ wakeidx[q] = p
          /\ pc[p] = "idle" => xid[p] = Invalid /\ ~groupMember[p]

\* Nobody sleeps for a leader that is not there: the links lead from the head of the
\* list to its leader, and every member that sleeps is reached by the links its
\* leader has yet to follow; those whose ids are to be cleared all have one.
FollowerServed ==
    \A p \in Procs :
        /\ pc[p] \in {"lead", "take"} => p \in Chain(groupFirst)
        /\ pc[p] = "walk" => \A q \in Chain(nextidx[p]) : xid[q] # Invalid
        /\ pc[p] = "sleep" /\ groupMember[p] =>
               \/ p \in Chain(groupFirst)
               \/ \E q \in Procs : /\ pc[q] \in {"walk", "wake", "member", "post"}
                                   /\ p \in Chain(wakeidx[q]) \cup Chain(nextidx[q])

\* Once its id has been cleared, a follower returns.
FollowerReturns == \A p \in Procs : []<>~(pc[p] = "sleep" /\ xid[p] = Invalid)
====
