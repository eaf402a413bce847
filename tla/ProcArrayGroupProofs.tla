------------------------ MODULE ProcArrayGroupProofs ------------------------
(***************************************************************************)
(* Group XID clearing, for any number of backends: whoever a leader clears *)
(* has an id to be cleared, nobody returns before its id is cleared, and   *)
(* whoever has been freed is signalled.                                    *)
(*                                                                         *)
(* The links of the members make up lists that are shared, taken and taken *)
(* apart without a lock.  What following links leads to cannot be defined  *)
(* without recursion, so the invariant says that the members can be        *)
(* assigned to leaders (own) and numbered (rank) such that every link      *)
(* leads to the next number of the same leader's list, which begins at its *)
(* head and ends at the leader, and such that the ids still to be cleared  *)
(* are those from the member that the leader is at on.  The first half of  *)
(* the module shows that every step of a leader or of a member keeps the   *)
(* lists; the second half has the types, the locks, what a backend has at  *)
(* each of its steps, and the members that are being freed.                *)
(***************************************************************************)
EXTENDS ProcArray, TLAPS

USE ProcArrayAssumption, ZenonT(10), SMTT(60)

PCs == {"idle", "run", "gen", "scan", "xid", "clear", "join", "cas", "sleep",
        "lead", "take", "walk", "wake", "member", "post"}
LeaderPCs == {"lead", "take", "walk", "wake", "member", "post"}

Snapshots == [xmin : Nat, xmax : Nat, xip : SUBSET Nat, seen : SUBSET Nat, own : Nat]

PATypeOK ==
    /\ nextXid \in 1 .. MaxXid + 1 /\ latestCompletedXid \in Nat
    /\ xid \in [Procs -> Nat] /\ xmin \in [Procs -> Nat] /\ newXid \in [Procs -> Nat]
    /\ xidGenLock \in Procs \cup {NULL} /\ procArrayExcl \in Procs \cup {NULL}
    /\ procArrayShared \subseteq Procs
    /\ groupFirst \in Procs \cup {NULL} /\ groupNext \in [Procs -> Procs \cup {NULL}]
    /\ groupMember \in [Procs -> BOOLEAN]
    /\ sem \in [Procs -> Nat] /\ extraWaits \in [Procs -> Nat] /\ pc \in [Procs -> PCs]
    /\ nextidx \in [Procs -> Procs \cup {NULL}] /\ wakeidx \in [Procs -> Procs \cup {NULL}]
    /\ todo \in [Procs -> SUBSET Procs] /\ entry \in [Procs -> Procs \cup {NULL}]
    /\ snap \in [Procs -> Snapshots]
    /\ globalxmin \in [Procs -> Nat] /\ ended \subseteq Nat /\ horizon \in Nat

\* What a backend has at each of its steps.
Control(p) ==
    /\ pc[p] \in {"idle", "run", "gen", "scan", "xid", "clear"} => ~groupMember[p]
    /\ pc[p] \in {"join", "cas", "lead", "take", "walk"} => groupMember[p]
    /\ pc[p] \in {"clear", "join", "cas", "lead", "take"} => xid[p] # Invalid
    /\ pc[p] \in {"idle", "gen", "wake", "member", "post"} => xid[p] = Invalid
    /\ pc[p] = "gen" => newXid[p] # Invalid
    /\ pc[p] = "cas" => groupNext[p] = nextidx[p]
    /\ pc[p] = "sleep" /\ ~groupMember[p] => xid[p] = Invalid /\ groupNext[p] = NULL
    /\ pc[p] \in {"member", "post"} => wakeidx[p] # NULL
    /\ pc[p] = "xid" => entry[p] \in Procs

\* ProcArrayLock is held where the code holds it.
Mutex ==
    /\ \A p \in Procs : procArrayExcl = p <=> pc[p] \in {"clear", "take", "walk"}
    /\ \A p \in Procs : p \in procArrayShared <=> pc[p] \in {"scan", "xid"}
    /\ procArrayExcl # NULL => procArrayShared = {}

\* A member that has entered a list, and one whose link its leader has just reset.
Entered(r) == groupMember[r] /\ pc[r] \notin {"join", "cas"}
Unlinked(r) == \E p \in Procs : pc[p] = "member" /\ wakeidx[p] = r
Linked(r) == Entered(r) /\ ~Unlinked(r)

\* What is left of the list of leader p begins here.
HeadOf(p) == IF pc[p] \in {"lead", "take"} THEN groupFirst
             ELSE IF pc[p] \in {"walk", "wake"} THEN wakeidx[p] ELSE nextidx[p]

\* A link leads to the next member of the same list, and the last is its leader.
Link(own, rank, r) ==
    Linked(r) =>
        /\ pc[own[r]] \in LeaderPCs /\ rank[r] <= rank[own[r]]
        /\ groupNext[r] = NULL <=> own[r] = r
        /\ groupNext[r] # NULL => /\ Linked(groupNext[r]) /\ own[groupNext[r]] = own[r]
                                  /\ rank[groupNext[r]] = rank[r] + 1

\* No two members have the same place.
Places(own, rank) ==
    \A r, s \in Procs : Linked(r) /\ Linked(s) /\ own[r] = own[s] /\ rank[r] = rank[s] => r = s

\* The id of member r of the list of leader p is still to be cleared.
ToClear(rank, p, r) ==
    \/ pc[p] \in {"lead", "take"}
    \/ pc[p] = "walk" /\ nextidx[p] # NULL /\ rank[nextidx[p]] <= rank[r]

\* The list of leader p from its head on.
List(own, rank, p) ==
    pc[p] \in LeaderPCs =>
        /\ Linked(p) => own[p] = p
        /\ HeadOf(p) = NULL => \A r \in Procs : Linked(r) => own[r] # p
        /\ HeadOf(p) # NULL =>
              /\ Linked(HeadOf(p)) /\ own[HeadOf(p)] = p
              /\ \A r \in Procs : Linked(r) /\ own[r] = p => rank[HeadOf(p)] <= rank[r]
        /\ pc[p] = "walk" /\ nextidx[p] # NULL => Linked(nextidx[p]) /\ own[nextidx[p]] = p
        /\ \A r \in Procs : Linked(r) /\ own[r] = p => (xid[r] # Invalid <=> ToClear(rank, p, r))

\* There is a list to be taken if and only if it has a leader, and only one.
OneLeader ==
    /\ groupFirst # NULL <=> \E p \in Procs : pc[p] \in {"lead", "take"}
    /\ \A p, q \in Procs : pc[p] \in {"lead", "take"} /\ pc[q] \in {"lead", "take"} => p = q

\* A member whose link has been reset is cleared, and is in the hands of one leader.
Unlinking(p) ==
    pc[p] = "member" =>
        /\ Entered(wakeidx[p]) /\ xid[wakeidx[p]] = Invalid /\ groupNext[wakeidx[p]] = NULL
        /\ pc[wakeidx[p]] = "sleep" \/ wakeidx[p] = p
        /\ \A q \in Procs : pc[q] = "member" /\ wakeidx[q] = wakeidx[p] => q = p

Lists(own, rank) ==
    /\ own \in [Procs -> Procs] /\ rank \in [Procs -> Int]
    /\ Places(own, rank)
    /\ \A p \in Procs : Link(own, rank, p) /\ List(own, rank, p)

\* A member that has been freed has been signalled, or is about to be.
Signalled(p) ==
    pc[p] = "sleep" /\ ~groupMember[p] =>
        sem[p] > 0 \/ \E q \in Procs : pc[q] = "post" /\ wakeidx[q] = p

GroupInv ==
    /\ PATypeOK /\ Mutex /\ OneLeader
    /\ \A p \in Procs : Control(p) /\ Unlinking(p) /\ Signalled(p)
    /\ \E own, rank : Lists(own, rank)

-----------------------------------------------------------------------------
(* Types *)

\* The larger of two numbers.
LEMMA MaxOf ==
    ASSUME NEW a \in Nat, NEW b \in Nat
    PROVE  Max({a, b}) \in {a, b} /\ Max({a, b}) >= a /\ Max({a, b}) >= b
<1>1. \E x \in {a, b} : \A y \in {a, b} : x >= y
  <2>1. CASE a >= b BY <2>1, SMTT(60)
  <2>2. CASE ~(a >= b) BY <2>2, SMTT(60)
  <2> QED BY <2>1, <2>2
<1>2. Max({a, b}) = CHOOSE x \in {a, b} : \A y \in {a, b} : x >= y BY DEF Max
<1> QED BY <1>1, <1>2, Zenon

\* The comparison of GetSnapshotData, which passes over invalid ids.
LEMMA SmallerOf ==
    ASSUME NEW a \in Nat, NEW b \in Nat
    PROVE  /\ Smaller(a, b) \in Nat /\ Smaller(a, b) <= b /\ Smaller(a, b) \in {a, b}
           /\ a # Invalid => Smaller(a, b) <= a
           /\ b # Invalid => Smaller(a, b) # Invalid
BY DEF Smaller, Invalid

\* The types hold at first.
LEMMA TypeInit == Init => PATypeOK
BY SMTT(60) DEF Init, PATypeOK, PCs, Invalid, NoSnap, Snapshots

\* Ending a transaction.
LEMMA EndTypes ==
    ASSUME PATypeOK, NEW q \in Procs, EndInternal(q)
    PROVE  /\ xid' \in [Procs -> Nat] /\ xmin' \in [Procs -> Nat]
           /\ latestCompletedXid' \in Nat /\ ended' \subseteq Nat
<1>1. xid[q] \in Nat /\ latestCompletedXid \in Nat BY DEF PATypeOK
<1>2. latestCompletedXid' \in Nat BY <1>1, MaxOf DEF EndInternal
<1>3. xid' \in [Procs -> Nat] /\ xmin' \in [Procs -> Nat] BY DEF EndInternal, PATypeOK, Invalid
<1>4. ended' \subseteq Nat BY <1>1 DEF EndInternal, PATypeOK
<1> QED BY <1>2, <1>3, <1>4

-----------------------------------------------------------------------------
(* What the longer actions do, by case *)

Still == <<cache, xid, xmin, locks, newXid, scanning, ended, horizon>>

\* What a wakeup does to a follower: it counts the signal of another, or leaves.
LEMMA SleepEffect ==
    ASSUME NEW p \in Procs, GroupSleep(p)
    PROVE  /\ pc[p] = "sleep" /\ sem[p] > 0 /\ UNCHANGED <<Still, group, wakeidx>>
           /\ groupMember[p] => /\ sem' = [sem EXCEPT ![p] = sem[p] - 1]
                                /\ extraWaits' = [extraWaits EXCEPT ![p] = extraWaits[p] + 1]
                                /\ UNCHANGED <<pc, nextidx>>
           /\ ~groupMember[p] => /\ sem' = [sem EXCEPT ![p] = sem[p] - 1 + extraWaits[p]]
                                 /\ extraWaits' = [extraWaits EXCEPT ![p] = 0]
                                 /\ nextidx' = [nextidx EXCEPT ![p] = NULL]
                                 /\ pc' = [pc EXCEPT ![p] = "idle"]
BY DEF GroupSleep, Goto, Still

\* What the leader does at the head of its wakeup loop.
LEMMA WakeEffect ==
    ASSUME NEW p \in Procs, LeaderWake(p)
    PROVE  /\ pc[p] = "wake"
           /\ UNCHANGED <<Still, groupFirst, groupMember, sem, wakeidx, extraWaits>>
           /\ wakeidx[p] # NULL => /\ nextidx' = [nextidx EXCEPT ![p] = groupNext[wakeidx[p]]]
                                   /\ groupNext' = [groupNext EXCEPT ![wakeidx[p]] = NULL]
                                   /\ pc' = [pc EXCEPT ![p] = "member"]
           /\ wakeidx[p] = NULL => pc' = [pc EXCEPT ![p] = "idle"] /\ UNCHANGED <<nextidx, groupNext>>
BY DEF LeaderWake, Goto, Still

\* What the leader does at the end of its wakeup loop.
LEMMA PostEffect ==
    ASSUME NEW p \in Procs, LeaderPost(p)
    PROVE  /\ pc[p] = "post" /\ UNCHANGED <<Still, group, nextidx, extraWaits>>
           /\ wakeidx[p] # p => sem' = [sem EXCEPT ![wakeidx[p]] = sem[wakeidx[p]] + 1]
           /\ wakeidx[p] = p => sem' = sem
           /\ wakeidx' = [wakeidx EXCEPT ![p] = nextidx[p]]
           /\ pc' = [pc EXCEPT ![p] = "wake"]
BY DEF LeaderPost, NeedsPost, Goto, Still

\* What the rest of the system does to the semaphore of a backend.
LEMMA ForeignEffect ==
    ASSUME NEW p \in Procs, ForeignPost(p) \/ ForeignTake(p)
    PROVE  /\ UNCHANGED <<Still, group, pc, clearing>>
           /\ \/ sem' = [sem EXCEPT ![p] = sem[p] + 1]
              \/ (pc[p] = "idle" /\ sem[p] > 0 /\ sem' = [sem EXCEPT ![p] = sem[p] - 1])
BY DEF ForeignPost, ForeignTake, Still

\* What the leader does at each turn of its first loop, and after the last.
LEMMA WalkEffect ==
    ASSUME NEW p \in Procs, LeaderWalk(p)
    PROVE  /\ pc[p] = "walk"
           /\ UNCHANGED <<nextXid, xidGenLock, procArrayShared, group, sem, newXid, scanning, wakeidx,
                          extraWaits, horizon>>
           /\ nextidx[p] # NULL => /\ EndInternal(nextidx[p])
                                   /\ nextidx' = [nextidx EXCEPT ![p] = groupNext[nextidx[p]]]
                                   /\ UNCHANGED <<pc, procArrayExcl>>
           /\ nextidx[p] = NULL => /\ procArrayExcl' = NULL /\ pc' = [pc EXCEPT ![p] = "wake"]
                                   /\ UNCHANGED <<xid, xmin, latestCompletedXid, ended, nextidx>>
BY DEF LeaderWalk, Goto

\* ProcArrayEndTransaction of a transaction with an id: the lock if it is free, the group if not.
LEMMA EndEffect ==
    ASSUME NEW p \in Procs, EndTransaction(p)
    PROVE  /\ pc[p] = "run" /\ xid[p] # Invalid
           /\ snap' = [snap EXCEPT ![p] = NoSnap]
           /\ Free => /\ procArrayExcl' = p /\ pc' = [pc EXCEPT ![p] = "clear"]
                      /\ groupMember' = groupMember
           /\ ~Free => /\ groupMember' = [groupMember EXCEPT ![p] = TRUE]
                       /\ pc' = [pc EXCEPT ![p] = "join"] /\ procArrayExcl' = procArrayExcl
           /\ UNCHANGED <<nextXid, latestCompletedXid, xid, xmin, xidGenLock, procArrayShared>>
           /\ UNCHANGED <<groupFirst, groupNext, sem, newXid, todo, entry, globalxmin, nextidx, wakeidx,
                          extraWaits, ended, horizon>>
BY DEF EndTransaction, Goto, cache, clearing

\* The compare-and-exchange of the head of the list: a member enters it or reads the head again.
LEMMA CasEffect ==
    ASSUME NEW p \in Procs, GroupCas(p)
    PROVE  /\ pc[p] = "cas"
           /\ HeadUnchanged(p) =>
                 /\ groupFirst' = p
                 /\ pc' = [pc EXCEPT ![p] = IF nextidx[p] = NULL THEN "lead" ELSE "sleep"]
           /\ ~HeadUnchanged(p) => groupFirst' = groupFirst /\ pc' = [pc EXCEPT ![p] = "join"]
           /\ UNCHANGED <<nextXid, latestCompletedXid, xid, xmin, xidGenLock, procArrayShared>>
           /\ UNCHANGED <<procArrayExcl, groupNext, groupMember, sem, newXid, todo, entry, globalxmin,
                          nextidx, wakeidx, extraWaits, ended, horizon, snap>>
BY DEF GroupCas, Goto, cache, clearing, locks, scanning

\* A function with one value replaced.
LEMMA Put ==
    ASSUME NEW S, NEW T, NEW f \in [S -> T], NEW x, NEW v \in T
    PROVE  [f EXCEPT ![x] = v] \in [S -> T]
OBVIOUS

\* What looking at the id of one entry does to a snapshot.
LEMMA XidEffect ==
    ASSUME NEW p \in Procs, PATypeOK, SnapshotXid(p), entry[p] \in Procs
    PROVE  LET q == entry[p]
               running == RunningBefore(xid[q], snap[p].xmax)
           IN  /\ pc[p] = "xid" /\ snap' \in [Procs -> Snapshots]
               /\ \A r \in Procs \ {p} : snap'[r] = snap[r]
               /\ snap'[p].xmin = IF running THEN Smaller(xid[q], snap[p].xmin) ELSE snap[p].xmin
               /\ snap'[p].xip = IF running /\ q # p THEN snap[p].xip \cup {xid[q]} ELSE snap[p].xip
               /\ snap'[p].xmax = snap[p].xmax /\ snap'[p].seen = snap[p].seen
               /\ snap'[p].own = snap[p].own
               /\ entry' = [entry EXCEPT ![p] = NULL] /\ pc' = [pc EXCEPT ![p] = "scan"]
               /\ UNCHANGED <<cache, xid, xmin, locks, group, sem, newXid, todo, globalxmin, clearing,
                              ended, horizon>>
<1> DEFINE q == entry[p]
           running == RunningBefore(xid[q], snap[p].xmax)
           m == IF running THEN Smaller(xid[q], snap[p].xmin) ELSE snap[p].xmin
           X == IF running /\ q # p THEN snap[p].xip \cup {xid[q]} ELSE snap[p].xip
<1>1. /\ snap' = [snap EXCEPT ![p].xmin = m, ![p].xip = X] /\ pc[p] = "xid"
      /\ entry' = [entry EXCEPT ![p] = NULL] /\ pc' = [pc EXCEPT ![p] = "scan"]
      /\ UNCHANGED <<cache, xid, xmin, locks, group, sem, newXid, todo, globalxmin, clearing, ended,
                     horizon>>
  BY DEF SnapshotXid, Goto
<1>2. snap \in [Procs -> Snapshots] BY DEF PATypeOK
<1>3. xid[q] \in Nat /\ snap[p].xmin \in Nat /\ snap[p].xip \in SUBSET Nat
  BY <1>2 DEF PATypeOK, Snapshots
<1>4. m \in Nat BY <1>3, SmallerOf
<1>5. X \in SUBSET Nat BY <1>3
<1> HIDE DEF m, X
<1>6. snap' = [snap EXCEPT ![p].xmin = m, ![p].xip = X] BY <1>1
<1>7. \A r \in Procs \ {p} : snap'[r] = snap[r] BY <1>2, <1>6 DEF Snapshots
<1>8. snap' \in [Procs -> Snapshots]
  <2>1. snap'[p] \in Snapshots BY <1>2, <1>4, <1>5, <1>6 DEF Snapshots
  <2>2. snap' = [snap EXCEPT ![p] = snap'[p]] BY <1>2, <1>6
  <2> QED BY <1>2, <2>1, <2>2, Put
<1>9. snap'[p].xmin = m /\ snap'[p].xip = X BY <1>2, <1>6 DEF Snapshots
<1>10. /\ snap'[p].xmax = snap[p].xmax /\ snap'[p].seen = snap[p].seen
       /\ snap'[p].own = snap[p].own
  BY <1>2, <1>6 DEF Snapshots
<1> QED BY <1>1, <1>7, <1>8, <1>9, <1>10 DEF m, X

-----------------------------------------------------------------------------
(* Nothing changes *)

\* What a backend has at its step depends on its own entry alone.
LEMMA ControlSame ==
    ASSUME NEW q \in Procs, Control(q), pc'[q] = pc[q], groupMember'[q] = groupMember[q],
           xid'[q] = xid[q], newXid'[q] = newXid[q], groupNext'[q] = groupNext[q],
           nextidx'[q] = nextidx[q], wakeidx'[q] = wakeidx[q], entry'[q] = entry[q]
    PROVE  Control(q)'
BY DEF Control

\* A step that leaves the lists alone.
LEMMA ListsSame ==
    ASSUME NEW own, NEW rank, Lists(own, rank),
           UNCHANGED <<pc, xid, groupFirst, groupNext, groupMember, nextidx, wakeidx>>
    PROVE  Lists(own, rank)'
<1>1. \A r : Linked(r)' <=> Linked(r) BY DEF Linked, Entered, Unlinked
<1>2. Places(own, rank)' BY <1>1 DEF Lists, Places
<1>3. \A p \in Procs : Link(own, rank, p)' BY <1>1 DEF Lists, Link
<1>4. \A p \in Procs : HeadOf(p)' = HeadOf(p) BY DEF HeadOf
<1>5. \A p, r \in Procs : ToClear(rank, p, r)' <=> ToClear(rank, p, r) BY DEF ToClear
<1>6. \A p \in Procs : List(own, rank, p)' BY <1>1, <1>4, <1>5, SMTT(60) DEF Lists, List
<1> QED BY <1>2, <1>3, <1>6 DEF Lists

-----------------------------------------------------------------------------
(* The lists *)

\* Steps that change neither a list nor what is to be cleared.
LEMMA ListsKept ==
    ASSUME NEW own, NEW rank, PATypeOK, PATypeOK', Lists(own, rank),
           \A r \in Procs : Linked(r)' <=> Linked(r),
           \A r \in Procs : Linked(r) => groupNext'[r] = groupNext[r] /\ xid'[r] = xid[r],
           \A l \in Procs : pc'[l] \in LeaderPCs <=> pc[l] \in LeaderPCs,
           \A l \in Procs : pc[l] \in LeaderPCs => HeadOf(l)' = HeadOf(l),
           \A l \in Procs : pc'[l] = "walk" /\ nextidx'[l] # NULL =>
               Linked(nextidx'[l]) /\ own[nextidx'[l]] = l,
           \A l, r \in Procs : pc[l] \in LeaderPCs /\ Linked(r) /\ own[r] = l =>
               (ToClear(rank, l, r)' <=> ToClear(rank, l, r))
    PROVE  Lists(own, rank)'
<1>0. /\ own \in [Procs -> Procs] /\ rank \in [Procs -> Int]
      /\ \A r \in Procs : groupNext[r] \in Procs \cup {NULL} /\ nextidx'[r] \in Procs \cup {NULL}
      /\ \A r \in Procs : HeadOf(r) \in Procs \cup {NULL}
  BY SMTT(60) DEF Lists, PATypeOK, HeadOf
<1>1. Places(own, rank)' BY DEF Lists, Places
<1>2. ASSUME NEW r \in Procs PROVE Link(own, rank, r)'
  <2>1. Link(own, rank, r) BY DEF Lists
  <2>2. own[r] \in Procs BY <1>0
  <2> QED BY <1>0, <2>1, <2>2 DEF Link
<1>3. ASSUME NEW l \in Procs PROVE List(own, rank, l)'
  <2> SUFFICES ASSUME pc'[l] \in LeaderPCs PROVE List(own, rank, l)' BY DEF List
  <2>1. pc[l] \in LeaderPCs /\ List(own, rank, l) BY DEF Lists
  <2>2. (Linked(l) => own[l] = l)' BY <2>1 DEF List
  <2>3. (HeadOf(l) = NULL => \A r \in Procs : Linked(r) => own[r] # l)' BY <2>1 DEF List
  <2>4. (HeadOf(l) # NULL => /\ Linked(HeadOf(l)) /\ own[HeadOf(l)] = l
                             /\ \A r \in Procs : Linked(r) /\ own[r] = l => rank[HeadOf(l)] <= rank[r])'
    <3>1. HeadOf(l)' = HeadOf(l) /\ HeadOf(l) \in Procs \cup {NULL} BY <1>0, <2>1
    <3>2. CASE HeadOf(l) # NULL
      <4>1. /\ Linked(HeadOf(l)) /\ own[HeadOf(l)] = l
            /\ \A r \in Procs : Linked(r) /\ own[r] = l => rank[HeadOf(l)] <= rank[r]
        BY <2>1, <3>2 DEF List
      <4>2. HeadOf(l) \in Procs BY <3>1, <3>2
      <4> QED BY <3>1, <4>1, <4>2
    <3>3. CASE HeadOf(l) = NULL BY <3>1, <3>3
    <3> QED BY <3>2, <3>3
  <2>5. (pc[l] = "walk" /\ nextidx[l] # NULL => Linked(nextidx[l]) /\ own[nextidx[l]] = l)'
    BY <1>0
  <2>6. (\A r \in Procs : Linked(r) /\ own[r] = l => (xid[r] # Invalid <=> ToClear(rank, l, r)))'
    BY <2>1 DEF List
  <2> QED BY <2>2, <2>3, <2>4, <2>5, <2>6 DEF List
<1> QED BY <1>0, <1>1, <1>2, <1>3 DEF Lists

\* Steps of a backend that is in no list and leads none.
LEMMA ListsAside ==
    ASSUME NEW own, NEW rank, PATypeOK, PATypeOK', Lists(own, rank), NEW p \in Procs,
           ~Entered(p), ~Entered(p)', pc[p] \notin LeaderPCs, pc'[p] \notin LeaderPCs,
           groupFirst' = groupFirst, wakeidx' = wakeidx,
           \A q \in Procs \ {p} : /\ pc'[q] = pc[q] /\ groupMember'[q] = groupMember[q]
                                  /\ groupNext'[q] = groupNext[q] /\ xid'[q] = xid[q]
                                  /\ nextidx'[q] = nextidx[q]
    PROVE  Lists(own, rank)'
<1>0. pc[p] # "member" /\ pc'[p] # "member" /\ pc'[p] # "walk" BY DEF LeaderPCs
<1>1. \A r \in Procs : Unlinked(r)' <=> Unlinked(r) BY <1>0 DEF Unlinked
<1>2. \A r \in Procs : Linked(r)' <=> Linked(r) BY <1>1 DEF Linked, Entered
<1>3. \A r \in Procs : Linked(r) => r # p BY DEF Linked
<1>4. \A l \in Procs : pc'[l] \in LeaderPCs <=> pc[l] \in LeaderPCs OBVIOUS
<1>5. \A l \in Procs : pc[l] \in LeaderPCs => l # p OBVIOUS
<1>6. \A l \in Procs : pc[l] \in LeaderPCs => HeadOf(l)' = HeadOf(l) BY <1>5 DEF HeadOf
<1>7. \A l, r \in Procs : pc[l] \in LeaderPCs => (ToClear(rank, l, r)' <=> ToClear(rank, l, r))
  BY <1>5 DEF ToClear
<1>8. ASSUME NEW l \in Procs, pc'[l] = "walk", nextidx'[l] # NULL
      PROVE  Linked(nextidx'[l]) /\ own[nextidx'[l]] = l
  <2>1. l # p BY <1>8, <1>0
  <2>2. pc[l] = "walk" /\ nextidx[l] # NULL /\ nextidx'[l] = nextidx[l] BY <1>8, <2>1
  <2>3. List(own, rank, l) BY DEF Lists
  <2> QED BY <2>2, <2>3 DEF List, LeaderPCs
<1> QED BY <1>2, <1>3, <1>4, <1>6, <1>7, <1>8, ListsKept, SMTT(60)

\* What the steps of a leader need to know of its list.
LEMMA OfLeader ==
    ASSUME NEW own, NEW rank, PATypeOK, Lists(own, rank), NEW p \in Procs, pc[p] \in LeaderPCs,
           \A q \in Procs : Control(q) /\ Unlinking(q)
    PROVE  /\ List(own, rank, p) /\ own \in [Procs -> Procs] /\ rank \in [Procs -> Int]
           /\ \A r \in Procs : Linked(r) => pc[r] = "sleep" \/ own[r] = r
           /\ pc[p] # "member" /\ groupMember[p] => Linked(p) /\ own[p] = p
<1>1. List(own, rank, p) /\ own \in [Procs -> Procs] /\ rank \in [Procs -> Int] BY DEF Lists
<1>2. ASSUME NEW r \in Procs, Linked(r) PROVE pc[r] = "sleep" \/ own[r] = r
  <2>1. pc[r] = "sleep" \/ pc[r] \in LeaderPCs
    <3>1. pc[r] \in PCs /\ Control(r) /\ groupMember[r] /\ pc[r] \notin {"join", "cas"}
      BY <1>2 DEF PATypeOK, Linked, Entered
    <3> QED BY <3>1 DEF Control, PCs, LeaderPCs
  <2>2. List(own, rank, r) BY DEF Lists
  <2> QED BY <1>2, <2>1, <2>2 DEF List
<1>3. ASSUME pc[p] # "member", groupMember[p] PROVE Linked(p) /\ own[p] = p
  <2>1. pc[p] # "sleep" /\ pc[p] \notin {"join", "cas"} BY DEF LeaderPCs
  <2>2. ~Unlinked(p)
    <3> SUFFICES ASSUME NEW l \in Procs, pc[l] = "member", wakeidx[l] = p PROVE FALSE BY DEF Unlinked
    <3> QED BY <1>3, <2>1 DEF Unlinking
  <2>3. Linked(p) BY <1>3, <2>1, <2>2 DEF Linked, Entered
  <2> QED BY <1>1, <2>3 DEF List
<1> QED BY <1>1, <1>2, <1>3

\* A leader goes on to another of its steps, with the same list ahead.
LEMMA ListsAhead ==
    ASSUME NEW own, NEW rank, PATypeOK, PATypeOK', Lists(own, rank), NEW p \in Procs,
           pc[p] \in LeaderPCs, pc'[p] \in LeaderPCs, HeadOf(p)' = HeadOf(p),
           \A r \in Procs : Linked(r)' <=> Linked(r),
           \A q \in Procs \ {p} : /\ pc'[q] = pc[q] /\ nextidx'[q] = nextidx[q]
                                  /\ HeadOf(q)' = HeadOf(q) \/ pc[q] \notin LeaderPCs,
           UNCHANGED <<groupNext, xid>>,
           pc'[p] = "walk" /\ nextidx'[p] # NULL => Linked(nextidx'[p]) /\ own[nextidx'[p]] = p,
           \A r \in Procs : Linked(r) /\ own[r] = p => (ToClear(rank, p, r)' <=> ToClear(rank, p, r))
    PROVE  Lists(own, rank)'
<1>4. \A l \in Procs : pc'[l] \in LeaderPCs <=> pc[l] \in LeaderPCs OBVIOUS
<1>6. \A l \in Procs : pc[l] \in LeaderPCs => HeadOf(l)' = HeadOf(l) OBVIOUS
<1>7. \A l, r \in Procs : pc[l] \in LeaderPCs /\ Linked(r) /\ own[r] = l =>
                          (ToClear(rank, l, r)' <=> ToClear(rank, l, r))
  <2> SUFFICES ASSUME NEW l \in Procs, NEW r \in Procs, Linked(r), own[r] = l
               PROVE  ToClear(rank, l, r)' <=> ToClear(rank, l, r)
    OBVIOUS
  <2>1. CASE l = p BY <2>1
  <2>2. CASE l # p BY <2>2 DEF ToClear
  <2> QED BY <2>1, <2>2
<1>8. ASSUME NEW l \in Procs, pc'[l] = "walk", nextidx'[l] # NULL
      PROVE  Linked(nextidx'[l]) /\ own[nextidx'[l]] = l
  <2>1. CASE l = p BY <1>8, <2>1
  <2>2. CASE l # p
    <3>2. pc[l] = "walk" /\ nextidx[l] # NULL /\ nextidx'[l] = nextidx[l] BY <1>8, <2>2
    <3>3. List(own, rank, l) BY DEF Lists
    <3> QED BY <3>2, <3>3 DEF List, LeaderPCs
  <2> QED BY <2>1, <2>2
<1> QED BY <1>4, <1>6, <1>7, <1>8, ListsKept, SMTT(60)

\* One action at a time.
LEMMA ListsLock ==
    ASSUME NEW own, NEW rank, PATypeOK, PATypeOK', Lists(own, rank), NEW p \in Procs, LeaderLock(p)
    PROVE  Lists(own, rank)'
<1>1. /\ pc[p] = "lead" /\ pc' = [pc EXCEPT ![p] = "take"]
      /\ UNCHANGED <<groupFirst, groupNext, groupMember, xid, nextidx, wakeidx>>
  BY DEF LeaderLock, Goto, group, clearing
<1>2. pc'[p] = "take" /\ \A q \in Procs \ {p} : pc'[q] = pc[q] BY <1>1 DEF PATypeOK
<1>3. \A r \in Procs : Unlinked(r)' <=> Unlinked(r) BY <1>1, <1>2 DEF Unlinked
<1>4. \A r \in Procs : Linked(r)' <=> Linked(r) BY <1>1, <1>2, <1>3 DEF Linked, Entered
<1>5. \A r \in Procs : HeadOf(r)' = HeadOf(r) BY <1>1, <1>2 DEF HeadOf
<1>6. \A r \in Procs : ToClear(rank, p, r)' <=> ToClear(rank, p, r) BY <1>1, <1>2 DEF ToClear
<1>7. pc[p] \in LeaderPCs /\ pc'[p] \in LeaderPCs BY <1>1, <1>2 DEF LeaderPCs
<1> QED BY <1>1, <1>2, <1>4, <1>5, <1>6, <1>7, ListsAhead

\* Taking the shared list makes it the list of the leader.
LEMMA ListsTake ==
    ASSUME NEW own, NEW rank, PATypeOK, PATypeOK', OneLeader, Lists(own, rank), NEW p \in Procs,
           LeaderTake(p)
    PROVE  Lists(own, rank)'
<1>1. /\ pc[p] = "take" /\ pc' = [pc EXCEPT ![p] = "walk"] /\ groupFirst' = NULL
      /\ nextidx' = [nextidx EXCEPT ![p] = groupFirst] /\ wakeidx' = [wakeidx EXCEPT ![p] = groupFirst]
      /\ UNCHANGED <<groupNext, groupMember, xid>>
  BY DEF LeaderTake, Goto
<1>2. /\ pc'[p] = "walk" /\ nextidx'[p] = groupFirst /\ wakeidx'[p] = groupFirst
      /\ \A q \in Procs \ {p} : pc'[q] = pc[q] /\ nextidx'[q] = nextidx[q] /\ wakeidx'[q] = wakeidx[q]
  BY <1>1, SMTT(60) DEF PATypeOK
<1>3. \A r \in Procs : Unlinked(r)' <=> Unlinked(r) BY <1>1, <1>2 DEF Unlinked
<1>4. \A r \in Procs : Linked(r)' <=> Linked(r) BY <1>1, <1>2, <1>3 DEF Linked, Entered
<1>5. HeadOf(p) = groupFirst /\ HeadOf(p)' = groupFirst BY <1>1, <1>2 DEF HeadOf
<1>6. \A q \in Procs \ {p} : pc[q] \notin {"lead", "take"} BY <1>1 DEF OneLeader
<1>7. \A q \in Procs \ {p} : HeadOf(q)' = HeadOf(q) BY <1>2, <1>6 DEF HeadOf
<1>8. pc[p] \in LeaderPCs /\ pc'[p] \in LeaderPCs BY <1>1, <1>2 DEF LeaderPCs
<1>9. groupFirst # NULL BY <1>1 DEF OneLeader
<1>10. List(own, rank, p) BY DEF Lists
<1>11. /\ Linked(groupFirst) /\ own[groupFirst] = p
       /\ \A r \in Procs : Linked(r) /\ own[r] = p => rank[groupFirst] <= rank[r]
  BY <1>5, <1>8, <1>9, <1>10 DEF List
<1>12. \A r \in Procs : Linked(r) /\ own[r] = p => (ToClear(rank, p, r)' <=> ToClear(rank, p, r))
  BY <1>1, <1>2, <1>9, <1>11 DEF ToClear
<1> QED BY <1>1, <1>2, <1>4, <1>5, <1>7, <1>8, <1>11, <1>12, ListsAhead, SMTT(60)

\* Letting the lock go turns from clearing the list to waking it.
LEMMA ListsWalkDone ==
    ASSUME NEW own, NEW rank, PATypeOK, PATypeOK', Lists(own, rank), NEW p \in Procs,
           LeaderWalk(p), nextidx[p] = NULL
    PROVE  Lists(own, rank)'
<1>1. /\ pc[p] = "walk" /\ pc' = [pc EXCEPT ![p] = "wake"]
      /\ UNCHANGED <<groupFirst, groupNext, groupMember, xid, nextidx, wakeidx>>
  BY WalkEffect DEF group
<1>2. pc'[p] = "wake" /\ \A q \in Procs \ {p} : pc'[q] = pc[q] BY <1>1 DEF PATypeOK
<1>3. \A r \in Procs : Unlinked(r)' <=> Unlinked(r) BY <1>1, <1>2 DEF Unlinked
<1>4. \A r \in Procs : Linked(r)' <=> Linked(r) BY <1>1, <1>2, <1>3 DEF Linked, Entered
<1>5. \A r \in Procs : HeadOf(r)' = HeadOf(r) BY <1>1, <1>2 DEF HeadOf
<1>6. \A r \in Procs : ToClear(rank, p, r)' <=> ToClear(rank, p, r) BY <1>1, <1>2 DEF ToClear
<1>7. pc[p] \in LeaderPCs /\ pc'[p] \in LeaderPCs BY <1>1, <1>2 DEF LeaderPCs
<1> QED BY <1>1, <1>2, <1>4, <1>5, <1>6, <1>7, ListsAhead

\* Resetting the membership of an entry whose link has been reset takes it off the list.
LEMMA ListsMember ==
    ASSUME NEW own, NEW rank, PATypeOK, PATypeOK', Lists(own, rank), NEW p \in Procs,
           \A q \in Procs : Unlinking(q), LeaderMember(p), wakeidx[p] \in Procs
    PROVE  Lists(own, rank)'
<1> DEFINE m == wakeidx[p]
<1>1. /\ pc[p] = "member" /\ pc' = [pc EXCEPT ![p] = "post"]
      /\ groupMember' = [groupMember EXCEPT ![m] = FALSE]
      /\ UNCHANGED <<groupFirst, groupNext, xid, nextidx, wakeidx>>
  BY DEF LeaderMember, Goto, clearing
<1>2. pc'[p] = "post" /\ \A q \in Procs \ {p} : pc'[q] = pc[q] BY <1>1 DEF PATypeOK
<1>3. ~groupMember'[m] /\ \A q \in Procs \ {m} : groupMember'[q] = groupMember[q] BY <1>1 DEF PATypeOK
<1>4. Unlinked(m) BY <1>1 DEF Unlinked
<1>5. ASSUME NEW r \in Procs PROVE Linked(r)' <=> Linked(r)
  <2>1. CASE r = m BY <2>1, <1>3, <1>4 DEF Linked, Entered
  <2>2. CASE r # m
    <3>1. Unlinked(r)' <=> Unlinked(r) BY <1>1, <1>2, <2>2 DEF Unlinked
    <3>2. Entered(r)' <=> Entered(r) BY <1>1, <1>2, <1>3, <2>2 DEF Entered
    <3> QED BY <3>1, <3>2 DEF Linked
  <2> QED BY <2>1, <2>2
<1>6. \A r \in Procs : HeadOf(r)' = HeadOf(r) BY <1>1, <1>2 DEF HeadOf
<1>7. \A r \in Procs : ToClear(rank, p, r)' <=> ToClear(rank, p, r) BY <1>1, <1>2 DEF ToClear
<1>8. pc[p] \in LeaderPCs /\ pc'[p] \in LeaderPCs BY <1>1, <1>2 DEF LeaderPCs
<1> QED BY <1>1, <1>2, <1>5, <1>6, <1>7, <1>8, ListsAhead

\* Going on to the next entry of the list.
LEMMA ListsPost ==
    ASSUME NEW own, NEW rank, PATypeOK, PATypeOK', Lists(own, rank), NEW p \in Procs, LeaderPost(p)
    PROVE  Lists(own, rank)'
<1>1. /\ pc[p] = "post" /\ pc' = [pc EXCEPT ![p] = "wake"]
      /\ wakeidx' = [wakeidx EXCEPT ![p] = nextidx[p]]
      /\ UNCHANGED <<groupFirst, groupNext, groupMember, xid, nextidx>>
  BY PostEffect DEF Still, group
<1>2. pc'[p] = "wake" /\ \A q \in Procs \ {p} : pc'[q] = pc[q] /\ wakeidx'[q] = wakeidx[q]
  BY <1>1, SMTT(60) DEF PATypeOK
<1>3. \A r \in Procs : Unlinked(r)' <=> Unlinked(r) BY <1>1, <1>2 DEF Unlinked
<1>4. \A r \in Procs : Linked(r)' <=> Linked(r) BY <1>1, <1>2, <1>3 DEF Linked, Entered
<1>5. \A r \in Procs \ {p} : HeadOf(r)' = HeadOf(r) BY <1>1, <1>2 DEF HeadOf
<1>6. HeadOf(p)' = HeadOf(p) BY <1>1, <1>2 DEF HeadOf, PATypeOK
<1>7. \A r \in Procs : ToClear(rank, p, r)' <=> ToClear(rank, p, r) BY <1>1, <1>2 DEF ToClear
<1>8. pc[p] \in LeaderPCs /\ pc'[p] \in LeaderPCs BY <1>1, <1>2 DEF LeaderPCs
<1> QED BY <1>1, <1>2, <1>4, <1>5, <1>6, <1>7, <1>8, ListsAhead

\* The leader clears the id of a member and goes on to the next: those still to be
\* cleared are the ones behind.
LEMMA ListsWalk ==
    ASSUME NEW own, NEW rank, PATypeOK, PATypeOK', Lists(own, rank), NEW p \in Procs,
           \A q \in Procs : Control(q) /\ Unlinking(q), LeaderWalk(p), nextidx[p] # NULL
    PROVE  Lists(own, rank)' /\ Linked(nextidx[p]) /\ own[nextidx[p]] = p /\ xid[nextidx[p]] # Invalid
<1> DEFINE m == nextidx[p]
<1>1. /\ pc[p] = "walk" /\ xid' = [xid EXCEPT ![m] = Invalid]
      /\ nextidx' = [nextidx EXCEPT ![p] = groupNext[m]]
      /\ UNCHANGED <<groupFirst, groupNext, groupMember, wakeidx, pc>>
  BY WalkEffect DEF group, EndInternal
<1>2. /\ m \in Procs /\ groupNext[m] \in Procs \cup {NULL} /\ xid'[m] = Invalid /\ nextidx'[p] = groupNext[m]
      /\ \A q \in Procs \ {p} : nextidx'[q] = nextidx[q]
      /\ \A q \in Procs \ {m} : xid'[q] = xid[q]
  BY <1>1, SMTT(60) DEF PATypeOK
<1>3. pc[p] \in LeaderPCs /\ List(own, rank, p) /\ Link(own, rank, m) BY <1>1, <1>2 DEF LeaderPCs, Lists
<1>4. Linked(m) /\ own[m] = p BY <1>1, <1>3 DEF List
<1>5. own \in [Procs -> Procs] /\ rank \in [Procs -> Int] /\ Places(own, rank) BY DEF Lists
<1>6. xid[m] # Invalid
  <2>1. ToClear(rank, p, m) BY <1>1, <1>2, <1>5, SMTT(60) DEF ToClear
  <2> QED BY <1>2, <1>3, <1>4, <2>1 DEF List
<1>7. \A r \in Procs : Linked(r)' <=> Linked(r) BY <1>1 DEF Linked, Entered, Unlinked
<1>8. ASSUME NEW l \in Procs \ {p} PROVE HeadOf(l)' = HeadOf(l)
  <2>1. nextidx'[l] = nextidx[l] /\ wakeidx'[l] = wakeidx[l] /\ pc'[l] = pc[l] /\ groupFirst' = groupFirst
    BY <1>1, <1>2
  <2> QED BY <2>1 DEF HeadOf
<1>9. HeadOf(p)' = HeadOf(p) BY <1>1 DEF HeadOf
<1>10. Places(own, rank)' BY <1>5, <1>7 DEF Places
<1>11. ASSUME NEW r \in Procs PROVE Link(own, rank, r)'
  <2>1. Link(own, rank, r) /\ groupNext[r] \in Procs \cup {NULL} BY DEF Lists, PATypeOK
  <2> QED BY <2>1, <1>1, <1>7 DEF Link
<1>12. ASSUME NEW r \in Procs, Linked(r), own[r] = p
       PROVE  xid'[r] # Invalid <=> ToClear(rank, p, r)'
  <2>1. ToClear(rank, p, r)' <=> groupNext[m] # NULL /\ rank[groupNext[m]] <= rank[r]
    BY <1>1, <1>2 DEF ToClear
  <2>2. xid[r] # Invalid <=> rank[m] <= rank[r]
    BY <1>1, <1>2, <1>3, <1>12 DEF List, ToClear
  <2>3. rank[r] = rank[m] => r = m BY <1>2, <1>4, <1>5, <1>12 DEF Places
  <2>4. rank[r] \in Int /\ rank[m] \in Int BY <1>2, <1>5
  <2>5. CASE groupNext[m] # NULL
    <3>1. rank[groupNext[m]] = rank[m] + 1 BY <1>3, <1>4, <2>5 DEF Link
    <3>2. rank[m] + 1 <= rank[r] <=> rank[m] <= rank[r] /\ r # m BY <2>3, <2>4
    <3>3. xid'[r] # Invalid <=> xid[r] # Invalid /\ r # m BY <1>2
    <3> QED BY <2>1, <2>2, <2>5, <3>1, <3>2, <3>3
  <2>6. CASE groupNext[m] = NULL
    <3>1. own[m] = m BY <1>3, <1>4, <2>6 DEF Link
    <3>2. rank[r] <= rank[m]
      <4>1. Link(own, rank, r) BY DEF Lists
      <4> QED BY <4>1, <1>4, <1>12, <3>1 DEF Link
    <3>3. xid[r] # Invalid => r = m BY <2>2, <2>3, <2>4, <3>2
    <3>4. xid'[r] = Invalid BY <1>2, <3>3
    <3> QED BY <2>1, <2>6, <3>4
  <2> QED BY <2>5, <2>6
<1>13. List(own, rank, p)'
  <2>1. (pc[p] = "walk" /\ nextidx[p] # NULL => Linked(nextidx[p]) /\ own[nextidx[p]] = p)'
    BY <1>2, <1>3, <1>4, <1>7 DEF Link
  <2>2. HeadOf(p) \in Procs \cup {NULL} BY DEF PATypeOK, HeadOf
  <2>3. (Linked(p) => own[p] = p)' BY <1>3, <1>7 DEF List
  <2>4. (HeadOf(p) = NULL => \A r \in Procs : Linked(r) => own[r] # p)' BY <1>3, <1>7, <1>9 DEF List
  <2>5. (HeadOf(p) # NULL => /\ Linked(HeadOf(p)) /\ own[HeadOf(p)] = p
                             /\ \A r \in Procs : Linked(r) /\ own[r] = p => rank[HeadOf(p)] <= rank[r])'
    <3>1. CASE HeadOf(p) # NULL
      <4>1. /\ Linked(HeadOf(p)) /\ own[HeadOf(p)] = p /\ HeadOf(p) \in Procs
            /\ \A r \in Procs : Linked(r) /\ own[r] = p => rank[HeadOf(p)] <= rank[r]
        BY <1>3, <2>2, <3>1 DEF List
      <4> QED BY <1>7, <1>9, <4>1
    <3>2. CASE HeadOf(p) = NULL BY <1>9, <3>2
    <3> QED BY <3>1, <3>2
  <2>6. (\A r \in Procs : Linked(r) /\ own[r] = p => (xid[r] # Invalid <=> ToClear(rank, p, r)))'
    BY <1>7, <1>12
  <2> QED BY <2>1, <2>3, <2>4, <2>5, <2>6 DEF List
<1>14. ASSUME NEW l \in Procs \ {p} PROVE List(own, rank, l)'
  <2> SUFFICES ASSUME pc[l] \in LeaderPCs PROVE List(own, rank, l)' BY <1>1 DEF List
  <2>1. List(own, rank, l) BY DEF Lists
  <2>2. nextidx'[l] = nextidx[l] /\ pc'[l] = pc[l] /\ HeadOf(l)' = HeadOf(l) BY <1>1, <1>2, <1>8
  <2>3. \A r \in Procs : Linked(r) /\ own[r] = l => xid'[r] = xid[r] BY <1>2, <1>4
  <2>4. \A r \in Procs : ToClear(rank, l, r)' <=> ToClear(rank, l, r) BY <2>2 DEF ToClear
  <2>5. HeadOf(l) \in Procs \cup {NULL} /\ nextidx[l] \in Procs \cup {NULL} BY DEF PATypeOK, HeadOf
  <2> HIDE DEF m
  <2> QED BY <1>7, <2>1, <2>2, <2>3, <2>4, <2>5 DEF List
<1> QED BY <1>4, <1>5, <1>6, <1>10, <1>11, <1>13, <1>14 DEF Lists

\* The last step of a leader: nobody is in its list any more.
LEMMA ListsDone ==
    ASSUME NEW own, NEW rank, PATypeOK, PATypeOK', Lists(own, rank), NEW p \in Procs,
           \A q \in Procs : Control(q) /\ Unlinking(q), LeaderWake(p), wakeidx[p] = NULL
    PROVE  Lists(own, rank)' /\ ~groupMember[p]
<1>1. /\ pc[p] = "wake" /\ pc' = [pc EXCEPT ![p] = "idle"]
      /\ UNCHANGED <<groupFirst, groupNext, groupMember, xid, nextidx, wakeidx>>
  BY WakeEffect DEF Still
<1>2. pc'[p] = "idle" /\ \A q \in Procs \ {p} : pc'[q] = pc[q] BY <1>1 DEF PATypeOK
<1>3. pc[p] \in LeaderPCs /\ pc'[p] \notin LeaderPCs /\ HeadOf(p) = NULL
  BY <1>1, <1>2 DEF LeaderPCs, HeadOf
<1>4. List(own, rank, p) /\ own \in [Procs -> Procs] /\ rank \in [Procs -> Int] /\ Places(own, rank)
  BY DEF Lists
<1>5. \A r \in Procs : Linked(r) => own[r] # p BY <1>3, <1>4 DEF List
<1>6. ~groupMember[p] BY <1>1, <1>3, <1>5, OfLeader
<1>7. \A r \in Procs : Linked(r)' <=> Linked(r)
  <2>1. \A r \in Procs : Unlinked(r)' <=> Unlinked(r) BY <1>1, <1>2 DEF Unlinked
  <2> QED BY <1>1, <1>2, <2>1 DEF Linked, Entered
<1>8. Places(own, rank)' BY <1>4, <1>7 DEF Places
<1>9. ASSUME NEW r \in Procs PROVE Link(own, rank, r)'
  <2>1. Link(own, rank, r) /\ groupNext[r] \in Procs \cup {NULL} /\ own[r] \in Procs
    BY <1>4 DEF Lists, PATypeOK
  <2> QED BY <2>1, <1>1, <1>2, <1>5, <1>7 DEF Link
<1>10. ASSUME NEW l \in Procs PROVE List(own, rank, l)'
  <2> SUFFICES ASSUME pc'[l] \in LeaderPCs PROVE List(own, rank, l)' BY DEF List
  <2>1. List(own, rank, l) /\ l # p BY <1>3 DEF Lists
  <2>2. pc'[l] = pc[l] /\ HeadOf(l)' = HeadOf(l) BY <1>1, <1>2, <2>1 DEF HeadOf
  <2>3. \A r \in Procs : ToClear(rank, l, r)' <=> ToClear(rank, l, r) BY <1>1, <2>2 DEF ToClear
  <2>4. HeadOf(l) \in Procs \cup {NULL} /\ nextidx[l] \in Procs \cup {NULL} BY DEF PATypeOK, HeadOf
  <2> QED BY <1>1, <1>7, <2>1, <2>2, <2>3, <2>4 DEF List
<1> QED BY <1>4, <1>6, <1>8, <1>9, <1>10 DEF Lists

\* The leader resets the link of the first member of its list.
LEMMA ListsWake ==
    ASSUME NEW own, NEW rank, PATypeOK, PATypeOK', Lists(own, rank), NEW p \in Procs,
           \A q \in Procs : Control(q) /\ Unlinking(q), LeaderWake(p), wakeidx[p] # NULL
    PROVE  Lists(own, rank)' /\ \A q \in Procs : Unlinking(q)'
<1> DEFINE m == wakeidx[p]
<1>1. /\ pc[p] = "wake" /\ pc' = [pc EXCEPT ![p] = "member"]
      /\ nextidx' = [nextidx EXCEPT ![p] = groupNext[m]]
      /\ groupNext' = [groupNext EXCEPT ![m] = NULL]
      /\ UNCHANGED <<groupFirst, groupMember, xid, wakeidx>>
  BY WakeEffect DEF Still
<1>2. /\ m \in Procs /\ groupNext[m] \in Procs \cup {NULL} /\ groupNext'[m] = NULL
      /\ nextidx'[p] = groupNext[m] /\ pc'[p] = "member" /\ wakeidx'[p] = m
      /\ \A q \in Procs \ {p} : nextidx'[q] = nextidx[q] /\ pc'[q] = pc[q]
      /\ \A q \in Procs \ {m} : groupNext'[q] = groupNext[q]
  BY <1>1, SMTT(60) DEF PATypeOK
<1>3. pc[p] \in LeaderPCs /\ pc'[p] \in LeaderPCs /\ HeadOf(p) = m /\ HeadOf(p)' = groupNext[m]
  BY <1>1, <1>2 DEF LeaderPCs, HeadOf
<1>4. /\ List(own, rank, p) /\ Link(own, rank, m) /\ own \in [Procs -> Procs] /\ rank \in [Procs -> Int]
      /\ Places(own, rank)
  BY <1>2 DEF Lists
<1>5. /\ Linked(m) /\ own[m] = p
      /\ \A r \in Procs : Linked(r) /\ own[r] = p => rank[m] <= rank[r]
  BY <1>3, <1>4, <1>2 DEF List
<1>6. ASSUME NEW r \in Procs PROVE Linked(r)' <=> Linked(r) /\ r # m
  <2>1. Entered(r)' <=> Entered(r) BY <1>1, <1>2 DEF Entered
  <2>2. Unlinked(r)' <=> Unlinked(r) \/ r = m BY <1>1, <1>2, SMTT(60) DEF Unlinked
  <2> QED BY <2>1, <2>2 DEF Linked
<1>7. Places(own, rank)' BY <1>4, <1>6 DEF Places
<1>8. ASSUME NEW r \in Procs PROVE Link(own, rank, r)'
  <2> SUFFICES ASSUME Linked(r), r # m PROVE Link(own, rank, r)' BY <1>6 DEF Link
  <2>1. Link(own, rank, r) /\ groupNext[r] \in Procs \cup {NULL} /\ own[r] \in Procs
    BY <1>4 DEF Lists, PATypeOK
  <2>2. groupNext'[r] = groupNext[r] BY <1>2
  <2>3. groupNext[r] # m
    <3> SUFFICES ASSUME groupNext[r] = m PROVE FALSE OBVIOUS
    <3>1. own[r] = p /\ rank[m] = rank[r] + 1 BY <1>2, <1>5, <2>1 DEF Link
    <3>2. rank[m] <= rank[r] /\ rank[m] \in Int /\ rank[r] \in Int BY <1>2, <1>4, <1>5, <3>1
    <3> QED BY <3>1, <3>2
  <2>4. pc'[own[r]] \in LeaderPCs BY <1>2, <1>3, <2>1 DEF Link
  <2> QED BY <1>6, <2>1, <2>2, <2>3, <2>4 DEF Link
<1>9. List(own, rank, p)'
  <2>1. (Linked(p) => own[p] = p)' BY <1>3, <1>4, <1>6 DEF List
  <2>2. CASE groupNext[m] = NULL
    <3>1. own[m] = m BY <1>4, <1>5, <2>2 DEF Link
    <3>2. ASSUME NEW r \in Procs, Linked(r), own[r] = p PROVE r = m
      <4>1. Link(own, rank, r) BY DEF Lists
      <4>2. rank[r] <= rank[m] BY <1>5, <3>1, <3>2, <4>1 DEF Link
      <4>3. rank[m] <= rank[r] /\ rank[r] \in Int /\ rank[m] \in Int BY <1>2, <1>4, <1>5, <3>2
      <4>4. rank[m] = rank[r] BY <4>2, <4>3
      <4> QED BY <1>2, <1>4, <1>5, <3>2, <4>4 DEF Places
    <3>3. \A r \in Procs : Linked(r)' => own[r] # p BY <1>6, <3>2
    <3> QED BY <1>2, <1>3, <2>1, <2>2, <3>3 DEF List
  <2>3. CASE groupNext[m] # NULL
    <3>0. groupNext[m] \in Procs BY <1>2, <2>3
    <3>1. Linked(groupNext[m]) /\ own[groupNext[m]] = p /\ rank[groupNext[m]] = rank[m] + 1
      BY <1>4, <1>5, <2>3 DEF Link
    <3>2. groupNext[m] # m
      <4>1. rank[m] \in Int BY <1>2, <1>4
      <4> QED BY <3>1, <4>1
    <3>3. ASSUME NEW r \in Procs, Linked(r), r # m, own[r] = p PROVE rank[groupNext[m]] <= rank[r]
      <4>1. rank[m] # rank[r] BY <1>2, <1>4, <1>5, <3>3 DEF Places
      <4>2. rank[m] <= rank[r] /\ rank[r] \in Int /\ rank[m] \in Int BY <1>2, <1>4, <1>5, <3>3
      <4> QED BY <3>1, <4>1, <4>2
    <3>4. ASSUME NEW r \in Procs, Linked(r), own[r] = p
          PROVE  xid'[r] = Invalid /\ ~ToClear(rank, p, r)'
      <4>1. xid[r] = Invalid BY <1>1, <1>3, <1>4, <3>4 DEF List, ToClear
      <4> QED BY <1>1, <1>2, <4>1 DEF ToClear
    <3>5. \A n \in Procs : n = groupNext[m] => Linked(n)' BY <1>6, <3>1, <3>2
    <3>6. (\A r \in Procs : Linked(r) /\ own[r] = p => (xid[r] # Invalid <=> ToClear(rank, p, r)))'
      BY <1>6, <3>4
    <3> HIDE DEF m
    <3>7. (HeadOf(p) # NULL => /\ Linked(HeadOf(p)) /\ own[HeadOf(p)] = p
                               /\ \A r \in Procs : Linked(r) /\ own[r] = p => rank[HeadOf(p)] <= rank[r])'
      <4>1. \A r \in Procs : Linked(r)' /\ own[r] = p => rank[groupNext[m]] <= rank[r] BY <1>6, <3>3
      <4>2. Linked(HeadOf(p))'
        <5>1. PICK n \in Procs : n = groupNext[m] BY <3>0
        <5>2. Linked(n)' /\ n = HeadOf(p)' BY <1>3, <3>5, <5>1
        <5> QED BY <5>2
      <4> QED BY <1>3, <3>1, <4>1, <4>2
    <3>8. HeadOf(p)' # NULL BY <1>3, <2>3
    <3> QED BY <1>2, <2>1, <3>6, <3>7, <3>8 DEF List
  <2> QED BY <2>2, <2>3
<1>10. ASSUME NEW l \in Procs \ {p} PROVE List(own, rank, l)'
  <2> SUFFICES ASSUME pc'[l] \in LeaderPCs PROVE List(own, rank, l)' BY DEF List
  <2>1. List(own, rank, l) BY DEF Lists
  <2>2. nextidx'[l] = nextidx[l] /\ pc'[l] = pc[l] /\ wakeidx'[l] = wakeidx[l] BY <1>1, <1>2
  <2>3. HeadOf(l)' = HeadOf(l) BY <1>1, <2>2 DEF HeadOf
  <2>4. \A r \in Procs : ToClear(rank, l, r)' <=> ToClear(rank, l, r) BY <2>2 DEF ToClear
  <2>5. HeadOf(l) \in Procs \cup {NULL} /\ nextidx[l] \in Procs \cup {NULL} BY DEF PATypeOK, HeadOf
  <2>6. \A r \in Procs : own[r] = l => (Linked(r)' <=> Linked(r)) BY <1>5, <1>6
  <2>7. Linked(l)' => Linked(l) BY <1>6
  <2> HIDE DEF m
  <2>8. (HeadOf(l) # NULL => /\ Linked(HeadOf(l)) /\ own[HeadOf(l)] = l
                             /\ \A r \in Procs : Linked(r) /\ own[r] = l => rank[HeadOf(l)] <= rank[r])'
    <3>1. CASE HeadOf(l) # NULL
      <4>1. /\ Linked(HeadOf(l)) /\ own[HeadOf(l)] = l /\ HeadOf(l) \in Procs
            /\ \A r \in Procs : Linked(r) /\ own[r] = l => rank[HeadOf(l)] <= rank[r]
        BY <2>1, <2>2, <2>5, <3>1 DEF List
      <4> QED BY <2>3, <2>6, <4>1
    <3>2. CASE HeadOf(l) = NULL BY <2>3, <3>2
    <3> QED BY <3>1, <3>2
  <2>9. (HeadOf(l) = NULL => \A r \in Procs : Linked(r) => own[r] # l)'
    BY <2>1, <2>2, <2>3, <2>6 DEF List
  <2>10. (pc[l] = "walk" /\ nextidx[l] # NULL => Linked(nextidx[l]) /\ own[nextidx[l]] = l)'
    BY <2>1, <2>2, <2>5, <2>6 DEF List
  <2>11. (\A r \in Procs : Linked(r) /\ own[r] = l => (xid[r] # Invalid <=> ToClear(rank, l, r)))'
    BY <1>1, <2>1, <2>2, <2>4, <2>6 DEF List
  <2> QED BY <2>1, <2>2, <2>7, <2>8, <2>9, <2>10, <2>11 DEF List
<1>11. ASSUME NEW q \in Procs PROVE Unlinking(q)'
  <2>1. CASE q = p
    <3>1. Entered(m)' BY <1>1, <1>2, <1>5, SMTT(60) DEF Linked, Entered
    <3>2. xid'[m] = Invalid BY <1>1, <1>2, <1>3, <1>4, <1>5 DEF List, ToClear
    <3>3. pc'[m] = "sleep" \/ m = p BY <1>2, <1>3, <1>5, OfLeader, SMTT(60)
    <3>4. \A l \in Procs : pc'[l] = "member" /\ wakeidx'[l] = m => l = p
      BY <1>1, <1>2, <1>5 DEF Linked, Unlinked
    <3> QED BY <1>1, <1>2, <2>1, <3>1, <3>2, <3>3, <3>4 DEF Unlinking
  <2>2. CASE q # p
    <3> SUFFICES ASSUME pc[q] = "member" PROVE Unlinking(q)' BY <1>2, <2>2 DEF Unlinking
    <3>1. Unlinking(q) /\ wakeidx'[q] = wakeidx[q] /\ pc'[q] = "member" BY <1>1, <1>2, <2>2
    <3>2. wakeidx[q] # m BY <1>5 DEF Linked, Unlinked
    <3>3. wakeidx[q] \in Procs BY DEF PATypeOK, Control
    <3>4. wakeidx[q] # p BY <1>1, <2>2, <3>1 DEF Unlinking
    <3>5. Entered(wakeidx[q])' BY <1>1, <1>2, <3>1, <3>3, <3>4, SMTT(60) DEF Unlinking, Entered
    <3>6. /\ xid'[wakeidx[q]] = Invalid /\ groupNext'[wakeidx[q]] = NULL
          /\ pc'[wakeidx[q]] = "sleep" \/ wakeidx[q] = q
      BY <1>1, <1>2, <3>1, <3>2, <3>3, <3>4, SMTT(60) DEF Unlinking
    <3>7. \A l \in Procs : pc'[l] = "member" /\ wakeidx'[l] = wakeidx[q] => l = q
      BY <1>1, <1>2, <3>1, <3>2, SMTT(60) DEF Unlinking
    <3> HIDE DEF m
    <3> QED BY <3>1, <3>5, <3>6, <3>7 DEF Unlinking
  <2> QED BY <2>1, <2>2
<1> QED BY <1>4, <1>7, <1>8, <1>9, <1>10, <1>11 DEF Lists

\* A backend that replaces the head of the list enters it, in front of the others or
\* as the leader of a new one.
LEMMA ListsEnter ==
    ASSUME NEW own, NEW rank, PATypeOK, PATypeOK', OneLeader, Lists(own, rank), NEW p \in Procs,
           \A q \in Procs : Control(q) /\ Unlinking(q), GroupCas(p), HeadUnchanged(p)
    PROVE  \E own2, rank2 : Lists(own2, rank2)'
<1> DEFINE h == groupFirst
<1>1. /\ pc[p] = "cas" /\ groupFirst' = p /\ groupNext[p] = h /\ groupMember[p] /\ xid[p] # Invalid
      /\ pc' = [pc EXCEPT ![p] = IF h = NULL THEN "lead" ELSE "sleep"]
      /\ UNCHANGED <<groupNext, groupMember, xid, nextidx, wakeidx>>
  BY DEF GroupCas, HeadUnchanged, Goto, Control, clearing
<1>2. /\ pc'[p] = IF h = NULL THEN "lead" ELSE "sleep"
      /\ \A q \in Procs \ {p} : pc'[q] = pc[q]
      /\ h \in Procs \cup {NULL}
  BY <1>1 DEF PATypeOK
<1>3. /\ own \in [Procs -> Procs] /\ rank \in [Procs -> Int] /\ Places(own, rank)
      /\ \A r \in Procs : Link(own, rank, r) /\ List(own, rank, r)
  BY DEF Lists
<1>4. ~Linked(p) BY <1>1 DEF Linked, Entered
<1>5. \A r \in Procs : Unlinked(r)' <=> Unlinked(r) BY <1>1, <1>2, SMTT(60) DEF Unlinked
<1>6. \A r \in Procs \ {p} : Linked(r)' <=> Linked(r) BY <1>1, <1>2, <1>5 DEF Linked, Entered
<1>7. Linked(p)'
  <2>1. ~Unlinked(p) BY <1>1 DEF Unlinked, Unlinking
  <2>2. Entered(p)' BY <1>1, <1>2, SMTT(60) DEF Entered
  <2> QED BY <1>5, <2>1, <2>2 DEF Linked
<1>8. \A r \in Procs : Linked(r) => r # p /\ own[r] # p /\ groupNext[r] # p
  BY <1>1, <1>3, <1>4, SMTT(60) DEF Link, LeaderPCs
<1>9. CASE h = NULL
  <2> DEFINE own2 == [own EXCEPT ![p] = p]
             rank2 == rank
  <2>1. /\ own2 \in [Procs -> Procs] /\ own2[p] = p /\ \A r \in Procs \ {p} : own2[r] = own[r]
    BY <1>3
  <2> HIDE DEF own2
  <2>2. pc'[p] = "lead" /\ pc'[p] \in LeaderPCs BY <1>2, <1>9 DEF LeaderPCs
  <2>3. \A q \in Procs : pc[q] \notin {"lead", "take"} BY <1>9 DEF OneLeader
  <2>4. Places(own2, rank2)' BY <1>3, <1>6, <1>8, <2>1 DEF Places
  <2>5. ASSUME NEW r \in Procs PROVE Link(own2, rank2, r)'
    <3>1. CASE r = p
      <4>1. rank[p] \in Int BY <1>3
      <4> QED BY <1>1, <1>9, <2>1, <2>2, <3>1, <4>1, SMTT(60) DEF Link
    <3>2. CASE r # p
      <4> SUFFICES ASSUME Linked(r) PROVE Link(own2, rank2, r)' BY <1>6, <3>2 DEF Link
      <4>1. Link(own, rank, r) /\ groupNext[r] \in Procs \cup {NULL} /\ own[r] \in Procs
        BY <1>3 DEF PATypeOK
      <4>2. /\ own2[r] = own[r] /\ pc'[own[r]] = pc[own[r]] /\ groupNext[r] # p
            /\ groupNext[r] # NULL => own2[groupNext[r]] = own[groupNext[r]]
        BY <1>2, <1>8, <2>1, <3>2, <4>1
      <4> QED BY <1>1, <1>6, <4>1, <4>2 DEF Link
    <3> QED BY <3>1, <3>2
  <2>6. List(own2, rank2, p)'
    <3>1. HeadOf(p)' = p BY <1>1, <2>2 DEF HeadOf
    <3>2. \A r \in Procs : Linked(r)' /\ own2[r] = p => r = p BY <1>6, <1>8, <2>1
    <3>3. \A r \in Procs : ToClear(rank2, p, r)' BY <2>2 DEF ToClear
    <3>4. rank2[p] \in Int /\ xid'[p] # Invalid /\ p # NULL BY <1>1, <1>3
    <3>5. Linked(HeadOf(p))' BY <1>7, <3>1
    <3> QED BY <1>7, <2>1, <2>2, <3>1, <3>2, <3>3, <3>4, <3>5, SMTT(60) DEF List
  <2>7. ASSUME NEW l \in Procs \ {p} PROVE List(own2, rank2, l)'
    <3> SUFFICES ASSUME pc'[l] \in LeaderPCs PROVE List(own2, rank2, l)' BY DEF List
    <3>1. List(own, rank, l) /\ pc'[l] = pc[l] BY <1>2, <1>3
    <3>2. HeadOf(l)' = HeadOf(l) BY <1>1, <2>3, <3>1 DEF HeadOf
    <3>3. \A r \in Procs : ToClear(rank2, l, r)' <=> ToClear(rank, l, r) BY <1>1, <3>1 DEF ToClear
    <3>4. HeadOf(l) \in Procs \cup {NULL} /\ nextidx[l] \in Procs \cup {NULL} BY DEF PATypeOK, HeadOf
    <3>5. \A r \in Procs : Linked(r)' /\ own2[r] = l <=> Linked(r) /\ own[r] = l
      BY <1>4, <1>6, <2>1
    <3>6. Linked(l)' => Linked(l) BY <1>6
    <3>7. (HeadOf(l) # NULL => /\ Linked(HeadOf(l)) /\ own2[HeadOf(l)] = l
                               /\ \A r \in Procs : Linked(r) /\ own2[r] = l => rank2[HeadOf(l)] <= rank2[r])'
      <4>1. CASE HeadOf(l) # NULL
        <5>1. /\ Linked(HeadOf(l)) /\ own[HeadOf(l)] = l /\ HeadOf(l) \in Procs
              /\ \A r \in Procs : Linked(r) /\ own[r] = l => rank[HeadOf(l)] <= rank[r]
          BY <3>1, <3>4, <4>1 DEF List
        <5> QED BY <3>2, <3>5, <5>1
      <4>2. CASE HeadOf(l) = NULL BY <3>2, <4>2
      <4> QED BY <4>1, <4>2
    <3>8. (HeadOf(l) = NULL => \A r \in Procs : Linked(r) => own2[r] # l)'
      BY <3>1, <3>2, <3>5 DEF List
    <3>9. (pc[l] = "walk" /\ nextidx[l] # NULL => Linked(nextidx[l]) /\ own2[nextidx[l]] = l)'
      BY <1>1, <3>1, <3>4, <3>5 DEF List
    <3>10. (\A r \in Procs : Linked(r) /\ own2[r] = l => (xid[r] # Invalid <=> ToClear(rank2, l, r)))'
      BY <1>1, <3>1, <3>3, <3>5 DEF List
    <3>11. (Linked(l) => own2[l] = l)' BY <2>1, <3>1, <3>6 DEF List
    <3> QED BY <3>7, <3>8, <3>9, <3>10, <3>11 DEF List
  <2>8. Lists(own2, rank2)' BY <1>3, <2>1, <2>4, <2>5, <2>6, <2>7 DEF Lists
  <2> QED BY <2>8
<1>10. CASE h # NULL
  <2>0. PICK l \in Procs : pc[l] \in {"lead", "take"} BY <1>10 DEF OneLeader
  <2>1. /\ l # p /\ h \in Procs /\ pc[l] \in LeaderPCs /\ HeadOf(l) = h
        /\ \A k \in Procs : pc[k] \in {"lead", "take"} => k = l
    BY <1>1, <1>2, <1>10, <2>0 DEF OneLeader, HeadOf, LeaderPCs
  <2>2. /\ Linked(h) /\ own[h] = l /\ h # p
        /\ \A r \in Procs : Linked(r) /\ own[r] = l => rank[h] <= rank[r] /\ xid[r] # Invalid
    BY <1>3, <1>8, <1>10, <2>0, <2>1, SMTT(60) DEF List, ToClear
  <2>3. PICK own2 \in [Procs -> Procs], rank2 \in [Procs -> Int] :
           /\ own2[p] = l /\ \A r \in Procs \ {p} : own2[r] = own[r]
           /\ rank2[p] = rank[h] - 1 /\ \A r \in Procs \ {p} : rank2[r] = rank[r]
           /\ rank[h] \in Int /\ rank[l] \in Int
    <3> DEFINE o == [own EXCEPT ![p] = l]
               k == [rank EXCEPT ![p] = rank[h] - 1]
    <3>1. /\ o \in [Procs -> Procs] /\ o[p] = l /\ \A r \in Procs \ {p} : o[r] = own[r]
          /\ k \in [Procs -> Int] /\ k[p] = rank[h] - 1 /\ \A r \in Procs \ {p} : k[r] = rank[r]
          /\ rank[h] \in Int /\ rank[l] \in Int
      BY <1>3, <2>1, SMTT(60)
    <3> HIDE DEF o, k
    <3> QED BY <3>1
  <2>4. /\ pc'[p] = "sleep" /\ pc'[p] \notin LeaderPCs
        /\ \A r \in Procs : pc'[r] \in LeaderPCs => r # p /\ pc'[r] = pc[r]
    BY <1>2, <1>10 DEF LeaderPCs
  <2>5. ASSUME NEW r \in Procs, Linked(r), own[r] = l PROVE rank[r] # rank2[p]
    <3>1. rank[h] <= rank[r] /\ rank[r] \in Int BY <1>3, <2>2, <2>5
    <3> QED BY <2>3, <3>1, SMTT(60)
  <2>6. Places(own2, rank2)' BY <1>3, <1>6, <1>8, <2>3, <2>5 DEF Places
  <2>7. ASSUME NEW r \in Procs PROVE Link(own2, rank2, r)'
    <3>1. CASE r = p
      <4>1. rank[h] <= rank[l]
        <5>1. Link(own, rank, h) BY <1>3, <2>1
        <5> QED BY <2>2, <5>1 DEF Link
      <4>2. rank2[p] <= rank2[l] BY <2>1, <2>3, <4>1, SMTT(60)
      <4>3. /\ own2[p] = l /\ own2[h] = l /\ rank2[h] = rank2[p] + 1 /\ pc'[l] \in LeaderPCs
            /\ groupNext'[p] = h
        BY <1>1, <1>2, <2>1, <2>2, <2>3, SMTT(60)
      <4>4. \A n \in Procs : n = h => Linked(n)' BY <1>6, <2>2
      <4>5. PICK n \in Procs : n = h BY <2>1
      <4>6. Linked(groupNext[p])' BY <4>3, <4>4, <4>5
      <4> HIDE DEF h
      <4>7. groupNext'[p] # NULL /\ own2[p] # p BY <1>10, <2>1, <4>3
      <4> QED BY <3>1, <4>2, <4>3, <4>6, <4>7 DEF Link
    <3>2. CASE r # p
      <4> SUFFICES ASSUME Linked(r) PROVE Link(own2, rank2, r)' BY <1>6, <3>2 DEF Link
      <4>1. Link(own, rank, r) /\ groupNext[r] \in Procs \cup {NULL} /\ own[r] \in Procs
        BY <1>3 DEF PATypeOK
      <4>2. /\ own2[r] = own[r] /\ rank2[r] = rank[r] /\ rank2[own[r]] = rank[own[r]]
            /\ pc'[own[r]] = pc[own[r]] /\ groupNext[r] # p
            /\ groupNext[r] # NULL => /\ own2[groupNext[r]] = own[groupNext[r]]
                                      /\ rank2[groupNext[r]] = rank[groupNext[r]]
        BY <1>2, <1>8, <2>3, <3>2, <4>1
      <4> QED BY <1>1, <1>6, <4>1, <4>2 DEF Link
    <3> QED BY <3>1, <3>2
  <2>8. List(own2, rank2, l)'
    <3>1. HeadOf(l)' = p /\ pc'[l] = pc[l] /\ pc'[l] \in {"lead", "take"}
      BY <1>1, <1>2, <2>0, <2>1 DEF HeadOf
    <3>2. ASSUME NEW r \in Procs, Linked(r)', own2[r] = l PROVE rank2[p] <= rank2[r] /\ xid'[r] # Invalid
      <4>1. CASE r = p BY <1>1, <2>3, <4>1, SMTT(60)
      <4>2. CASE r # p
        <5>1. Linked(r) /\ own[r] = l /\ rank2[r] = rank[r] BY <1>6, <2>3, <3>2, <4>2
        <5>2. rank[h] <= rank[r] /\ xid[r] # Invalid /\ rank[r] \in Int BY <1>3, <2>2, <5>1
        <5> QED BY <1>1, <2>3, <5>1, <5>2, SMTT(60)
      <4> QED BY <4>1, <4>2
    <3>3. \A r \in Procs : ToClear(rank2, l, r)' BY <3>1 DEF ToClear
    <3>4. Linked(HeadOf(l))' BY <1>7, <3>1
    <3>5. Linked(l)' => own2[l] = l BY <1>3, <1>6, <2>1, <2>3 DEF List
    <3>6. pc'[l] # "walk" BY <3>1
    <3>7. own2[p] = l /\ p # NULL BY <2>3
    <3> QED BY <3>1, <3>2, <3>3, <3>4, <3>5, <3>6, <3>7 DEF List
  <2>9. ASSUME NEW k \in Procs \ {l} PROVE List(own2, rank2, k)'
    <3> SUFFICES ASSUME pc'[k] \in LeaderPCs PROVE List(own2, rank2, k)' BY DEF List
    <3>1. List(own, rank, k) /\ pc'[k] = pc[k] /\ k # p BY <1>3, <2>4
    <3>2. HeadOf(k)' = HeadOf(k) BY <1>1, <2>1, <3>1 DEF HeadOf
    <3>4. HeadOf(k) \in Procs \cup {NULL} /\ nextidx[k] \in Procs \cup {NULL} BY DEF PATypeOK, HeadOf
    <3>5. \A r \in Procs : Linked(r)' /\ own2[r] = k <=> Linked(r) /\ own[r] = k
      BY <1>4, <1>6, <2>3
    <3>6. Linked(k)' => Linked(k) BY <1>6, <3>1
    <3>7. (HeadOf(k) # NULL => /\ Linked(HeadOf(k)) /\ own2[HeadOf(k)] = k
                               /\ \A r \in Procs : Linked(r) /\ own2[r] = k => rank2[HeadOf(k)] <= rank2[r])'
      <4>1. CASE HeadOf(k) # NULL
        <5>1. /\ Linked(HeadOf(k)) /\ own[HeadOf(k)] = k /\ HeadOf(k) \in Procs /\ HeadOf(k) # p
              /\ \A r \in Procs : Linked(r) /\ own[r] = k => rank[HeadOf(k)] <= rank[r] /\ r # p
          BY <1>8, <3>1, <3>4, <4>1 DEF List
        <5>2. \A r \in Procs : Linked(r) /\ own[r] = k => rank2[HeadOf(k)] <= rank2[r] BY <2>3, <5>1
        <5> QED BY <3>2, <3>5, <5>1, <5>2
      <4>2. CASE HeadOf(k) = NULL BY <3>2, <4>2
      <4> QED BY <4>1, <4>2
    <3>8. (HeadOf(k) = NULL => \A r \in Procs : Linked(r) => own2[r] # k)'
      BY <3>1, <3>2, <3>5 DEF List
    <3>9. (pc[k] = "walk" /\ nextidx[k] # NULL => Linked(nextidx[k]) /\ own2[nextidx[k]] = k)'
      BY <1>1, <3>1, <3>4, <3>5 DEF List
    <3>10. (\A r \in Procs : Linked(r) /\ own2[r] = k => (xid[r] # Invalid <=> ToClear(rank2, k, r)))'
      <4> SUFFICES ASSUME NEW r \in Procs, Linked(r), own[r] = k
                   PROVE  xid'[r] # Invalid <=> ToClear(rank2, k, r)'
        BY <3>5
      <4>1. r # p /\ rank2[r] = rank[r] BY <1>8, <2>3
      <4>2. xid[r] # Invalid <=> ToClear(rank, k, r) BY <3>1 DEF List
      <4>3. pc[k] = "walk" /\ nextidx[k] # NULL => rank2[nextidx[k]] = rank[nextidx[k]]
        BY <1>8, <2>3, <3>1, <3>4 DEF List
      <4> QED BY <1>1, <3>1, <4>1, <4>2, <4>3 DEF ToClear
    <3>11. (Linked(k) => own2[k] = k)' BY <2>3, <3>1, <3>6 DEF List
    <3> QED BY <3>7, <3>8, <3>9, <3>10, <3>11 DEF List
  <2>10. Lists(own2, rank2)' BY <2>3, <2>6, <2>7, <2>8, <2>9 DEF Lists
  <2> QED BY <2>10
<1> QED BY <1>9, <1>10
-----------------------------------------------------------------------------
(* Types *)

\* Types, for those actions.
LEMMA TypeSleep ==
    ASSUME PATypeOK, NEW p \in Procs, GroupSleep(p)
    PROVE  PATypeOK'
<1>0. /\ sem \in [Procs -> Nat] /\ extraWaits \in [Procs -> Nat] /\ pc \in [Procs -> PCs]
      /\ nextidx \in [Procs -> Procs \cup {NULL}]
  BY DEF PATypeOK
<1>1. /\ sem[p] - 1 \in Nat /\ extraWaits[p] + 1 \in Nat /\ sem[p] - 1 + extraWaits[p] \in Nat
      /\ NULL \in Procs \cup {NULL} /\ 0 \in Nat /\ "idle" \in PCs
  BY <1>0, SleepEffect, SMTT(60) DEF PCs
<1>2. UNCHANGED <<Still, group, wakeidx>> BY SleepEffect
<1>3. /\ sem' \in [Procs -> Nat] /\ extraWaits' \in [Procs -> Nat]
      /\ nextidx' \in [Procs -> Procs \cup {NULL}] /\ pc' \in [Procs -> PCs]
  <2>1. CASE groupMember[p]
    <3>1. /\ sem' = [sem EXCEPT ![p] = sem[p] - 1] /\ UNCHANGED <<pc, nextidx>>
          /\ extraWaits' = [extraWaits EXCEPT ![p] = extraWaits[p] + 1]
      BY <2>1, SleepEffect
    <3> QED BY <1>0, <1>1, <3>1, Put
  <2>2. CASE ~groupMember[p]
    <3>1. /\ sem' = [sem EXCEPT ![p] = sem[p] - 1 + extraWaits[p]]
          /\ extraWaits' = [extraWaits EXCEPT ![p] = 0]
          /\ nextidx' = [nextidx EXCEPT ![p] = NULL] /\ pc' = [pc EXCEPT ![p] = "idle"]
      BY <2>2, SleepEffect
    <3> QED BY <1>0, <1>1, <3>1, Put
  <2> QED BY <2>1, <2>2
<1> QED BY <1>2, <1>3 DEF PATypeOK, Still, cache, locks, group, scanning

\* Clearing an entry of the list keeps the types.
LEMMA TypeWalk ==
    ASSUME PATypeOK, NEW p \in Procs, LeaderWalk(p)
    PROVE  PATypeOK'
<1>0. /\ nextidx \in [Procs -> Procs \cup {NULL}] /\ groupNext \in [Procs -> Procs \cup {NULL}]
      /\ pc \in [Procs -> PCs] /\ "wake" \in PCs
  BY DEF PATypeOK, PCs
<1>1. UNCHANGED <<nextXid, xidGenLock, procArrayShared, group, sem, newXid, scanning, wakeidx,
                  extraWaits, horizon>>
  BY WalkEffect
<1>2. CASE nextidx[p] # NULL
  <2>1. nextidx[p] \in Procs /\ groupNext[nextidx[p]] \in Procs \cup {NULL} BY <1>2, <1>0
  <2>2. /\ EndInternal(nextidx[p]) /\ UNCHANGED <<pc, procArrayExcl>>
        /\ nextidx' = [nextidx EXCEPT ![p] = groupNext[nextidx[p]]]
    BY <1>2, WalkEffect
  <2>3. /\ xid' \in [Procs -> Nat] /\ xmin' \in [Procs -> Nat]
        /\ latestCompletedXid' \in Nat /\ ended' \subseteq Nat
    BY <2>1, <2>2, EndTypes
  <2>4. nextidx' \in [Procs -> Procs \cup {NULL}] BY <1>0, <2>1, <2>2, Put
  <2>5. UNCHANGED <<pc, procArrayExcl>> BY <2>2
  <2> QED BY <1>1, <2>3, <2>4, <2>5 DEF PATypeOK, group, scanning
<1>3. CASE nextidx[p] = NULL
  <2>1. /\ procArrayExcl' = NULL /\ pc' = [pc EXCEPT ![p] = "wake"]
        /\ UNCHANGED <<xid, xmin, latestCompletedXid, ended, nextidx>>
    BY <1>3, WalkEffect
  <2>2. pc' \in [Procs -> PCs] BY <1>0, <2>1, Put
  <2>3. procArrayExcl' = NULL /\ UNCHANGED <<xid, xmin, latestCompletedXid, ended, nextidx>> BY <2>1
  <2> QED BY <1>1, <2>2, <2>3 DEF PATypeOK, group, scanning
<1> QED BY <1>2, <1>3

\* Unlinking an entry keeps the types.
LEMMA TypeWake ==
    ASSUME PATypeOK, NEW p \in Procs, LeaderWake(p)
    PROVE  PATypeOK'
<1>0. /\ nextidx \in [Procs -> Procs \cup {NULL}] /\ groupNext \in [Procs -> Procs \cup {NULL}]
      /\ wakeidx \in [Procs -> Procs \cup {NULL}] /\ pc \in [Procs -> PCs]
      /\ "member" \in PCs /\ "idle" \in PCs /\ NULL \in Procs \cup {NULL}
  BY DEF PATypeOK, PCs
<1>1. UNCHANGED <<Still, groupFirst, groupMember, sem, wakeidx, extraWaits>> BY WakeEffect
<1>2. /\ nextidx' \in [Procs -> Procs \cup {NULL}] /\ groupNext' \in [Procs -> Procs \cup {NULL}]
      /\ pc' \in [Procs -> PCs]
  <2>1. CASE wakeidx[p] # NULL
    <3>1. groupNext[wakeidx[p]] \in Procs \cup {NULL} BY <2>1, <1>0
    <3>2. /\ nextidx' = [nextidx EXCEPT ![p] = groupNext[wakeidx[p]]]
          /\ groupNext' = [groupNext EXCEPT ![wakeidx[p]] = NULL]
          /\ pc' = [pc EXCEPT ![p] = "member"]
      BY <2>1, WakeEffect
    <3> QED BY <1>0, <3>1, <3>2, Put
  <2>2. CASE wakeidx[p] = NULL
    <3>1. pc' = [pc EXCEPT ![p] = "idle"] /\ UNCHANGED <<nextidx, groupNext>> BY <2>2, WakeEffect
    <3> QED BY <1>0, <3>1, Put
  <2> QED BY <2>1, <2>2
<1> QED BY <1>1, <1>2 DEF PATypeOK, Still, cache, locks, scanning

\* Signalling an entry keeps the types.
LEMMA TypePost ==
    ASSUME PATypeOK, NEW p \in Procs, LeaderPost(p), wakeidx[p] # NULL
    PROVE  PATypeOK'
<1>0. /\ nextidx \in [Procs -> Procs \cup {NULL}] /\ sem \in [Procs -> Nat]
      /\ wakeidx \in [Procs -> Procs \cup {NULL}] /\ pc \in [Procs -> PCs] /\ "wake" \in PCs
  BY DEF PATypeOK, PCs
<1>1. nextidx[p] \in Procs \cup {NULL} /\ sem[wakeidx[p]] + 1 \in Nat BY <1>0, SMTT(60)
<1>2. /\ UNCHANGED <<Still, group, nextidx, extraWaits>> /\ pc' = [pc EXCEPT ![p] = "wake"]
      /\ wakeidx' = [wakeidx EXCEPT ![p] = nextidx[p]]
      /\ sem' = [sem EXCEPT ![wakeidx[p]] = sem[wakeidx[p]] + 1] \/ sem' = sem
  BY PostEffect
<1>3. sem' \in [Procs -> Nat] BY <1>0, <1>1, <1>2, Put, SMTT(60)
<1>4. wakeidx' \in [Procs -> Procs \cup {NULL}] /\ pc' \in [Procs -> PCs] BY <1>0, <1>1, <1>2, Put
<1>5. UNCHANGED <<Still, group, nextidx, extraWaits>> BY <1>2
<1> QED BY <1>3, <1>4, <1>5 DEF PATypeOK, Still, cache, locks, group, scanning

\* An action of p.
Action(p) ==
    \/ Step(p) \/ StartTransaction(p) \/ TakeXid(p) \/ SnapshotLock(p) \/ EndReadOnly(p)
    \/ EndTransaction(p) \/ ForeignPost(p) \/ ForeignTake(p)

\* Every action keeps the types.
LEMMA TypeStep ==
    ASSUME PATypeOK, NEW p \in Procs, Control(p),
           Action(p)
    PROVE  PATypeOK'
<1> USE DEF PATypeOK, Goto, cache, locks, group, scanning, clearing
<1> USE DEF PCs, Invalid
<1>1. CASE StartTransaction(p) BY <1>1 DEF StartTransaction
<1>2. CASE TakeXid(p) BY <1>2, SMTT(60) DEF TakeXid, HoldsXidGen
<1>3. CASE StoreXid(p) BY <1>3 DEF StoreXid
<1>4. CASE SnapshotLock(p) BY <1>4, SMTT(60) DEF SnapshotLock, Snapshots
<1>5. CASE SnapshotXmin(p)
  <2>1. PICK q \in todo[p] : /\ todo' = [todo EXCEPT ![p] = @ \ {q}] /\ entry' = [entry EXCEPT ![p] = q]
                             /\ globalxmin' = [globalxmin EXCEPT ![p] = Smaller(xmin[q], @)]
    BY <1>5 DEF SnapshotXmin
  <2>2. q \in Procs /\ xmin[q] \in Nat /\ globalxmin[p] \in Nat OBVIOUS
  <2>3. Smaller(xmin[q], globalxmin[p]) \in Nat BY <2>2, SmallerOf
  <2> QED BY <1>5, <2>1, <2>2, <2>3 DEF SnapshotXmin
<1>6. CASE SnapshotXid(p)
  <2>1. entry[p] \in Procs BY <1>6 DEF SnapshotXid, Control
  <2>2. /\ snap' \in [Procs -> Snapshots] /\ pc' = [pc EXCEPT ![p] = "scan"]
        /\ entry' = [entry EXCEPT ![p] = NULL]
        /\ UNCHANGED <<cache, xid, xmin, locks, group, sem, newXid, todo, globalxmin, clearing,
                       ended, horizon>>
    BY <1>6, <2>1, XidEffect
  <2> QED BY <2>2
<1>7. CASE SnapshotDone(p)
  <2>1. snap[p].xmin \in Nat /\ globalxmin[p] \in Nat BY DEF Snapshots
  <2>2. Smaller(snap[p].xmin, globalxmin[p]) \in Nat BY <2>1, SmallerOf
  <2>3. horizon' \in Nat BY <2>2, MaxOf, <1>7 DEF SnapshotDone
  <2> QED BY <1>7, <2>1, <2>3 DEF SnapshotDone
<1>8. CASE EndReadOnly(p) BY <1>8 DEF EndReadOnly, NoSnap, Snapshots
<1>9. CASE EndTransaction(p)
  <2>1. NoSnap \in Snapshots BY DEF NoSnap, Snapshots
  <2>2. /\ snap' = [snap EXCEPT ![p] = NoSnap]
        /\ UNCHANGED <<nextXid, latestCompletedXid, xid, xmin, xidGenLock, procArrayShared, groupFirst>>
        /\ UNCHANGED <<groupNext, sem, newXid, todo, entry, globalxmin, nextidx, wakeidx>>
        /\ UNCHANGED <<extraWaits, ended, horizon>>
    BY <1>9, EndEffect, ZenonT(30)
  <2>3. snap' \in [Procs -> Snapshots] BY <2>1, <2>2, SMTT(60)
  <2>4. pc' \in [Procs -> PCs] /\ groupMember' \in [Procs -> BOOLEAN] /\ procArrayExcl' \in Procs \cup {NULL}
    <3>1. CASE Free
      <4>1. procArrayExcl' = p /\ pc' = [pc EXCEPT ![p] = "clear"] /\ groupMember' = groupMember
        BY <1>9, <3>1, EndEffect, ZenonT(30)
      <4> QED BY <4>1, SMTT(60)
    <3>2. CASE ~Free
      <4>1. /\ groupMember' = [groupMember EXCEPT ![p] = TRUE]
            /\ pc' = [pc EXCEPT ![p] = "join"] /\ procArrayExcl' = procArrayExcl
        BY <1>9, <3>2, EndEffect, ZenonT(30)
      <4> QED BY <4>1, SMTT(60)
    <3> QED BY <3>1, <3>2
  <2> QED BY <2>2, <2>3, <2>4, SMTT(60)
<1>10. CASE ClearOwn(p)
  <2>1. /\ xid' \in [Procs -> Nat] /\ xmin' \in [Procs -> Nat]
        /\ latestCompletedXid' \in Nat /\ ended' \subseteq Nat
    BY <1>10, EndTypes DEF ClearOwn
  <2> QED BY <1>10, <2>1 DEF ClearOwn
<1>11. CASE GroupRead(p) BY <1>11 DEF GroupRead
<1>12. CASE GroupCas(p)
  <2>1. /\ UNCHANGED <<nextXid, latestCompletedXid, xid, xmin, xidGenLock, procArrayShared, procArrayExcl>>
        /\ UNCHANGED <<groupNext, groupMember, sem, newXid, todo, entry, globalxmin, nextidx, wakeidx>>
        /\ UNCHANGED <<extraWaits, ended, horizon, snap>>
    BY <1>12, CasEffect, ZenonT(30)
  <2>2. groupFirst' \in Procs \cup {NULL} /\ pc' \in [Procs -> PCs]
    <3>1. CASE HeadUnchanged(p)
      <4>1. groupFirst' = p /\ pc' = [pc EXCEPT ![p] = IF nextidx[p] = NULL THEN "lead" ELSE "sleep"]
        BY <1>12, <3>1, CasEffect, ZenonT(30)
      <4> QED BY <4>1, SMTT(60)
    <3>2. CASE ~HeadUnchanged(p)
      <4>1. groupFirst' = groupFirst /\ pc' = [pc EXCEPT ![p] = "join"] BY <1>12, <3>2, CasEffect, ZenonT(30)
      <4> QED BY <4>1, SMTT(60)
    <3> QED BY <3>1, <3>2
  <2> QED BY <2>1, <2>2, SMTT(60)
<1>13. CASE GroupSleep(p) BY <1>13, TypeSleep
<1>14. CASE LeaderLock(p) BY <1>14 DEF LeaderLock
<1>15. CASE LeaderTake(p) BY <1>15 DEF LeaderTake
<1>16. CASE LeaderWalk(p) BY <1>16, TypeWalk
<1>17. CASE LeaderWake(p) BY <1>17, TypeWake
<1>18. CASE LeaderMember(p) BY <1>18 DEF LeaderMember
<1>19. CASE LeaderPost(p)
  <2>1. wakeidx[p] # NULL BY <1>19, PostEffect DEF Control
  <2> QED BY <1>19, <2>1, TypePost
<1>20. CASE ForeignPost(p) BY <1>20, SMTT(60) DEF ForeignPost
<1>21. CASE ForeignTake(p) BY <1>21, SMTT(60) DEF ForeignTake
<1> HIDE DEF PATypeOK
<1> QED BY <1>1, <1>2, <1>3, <1>4, <1>5, <1>6, <1>7, <1>8, <1>9, <1>10, <1>11, <1>12, <1>13, <1>14,
           <1>15, <1>16, <1>17, <1>18, <1>19, <1>20, <1>21 DEF Step, Action

-----------------------------------------------------------------------------
(* Locks and control *)

\* ProcArrayLock is acquired and released where the steps say.
LEMMA MutexStep ==
    ASSUME PATypeOK, Mutex, NEW p \in Procs, Action(p)
    PROVE  Mutex'
<1>0. pc \in [Procs -> PCs] BY DEF PATypeOK
<1> USE <1>0 DEF Mutex, Goto, locks
<1>1. CASE StartTransaction(p) BY <1>1 DEF StartTransaction
<1>2. CASE TakeXid(p) BY <1>2 DEF TakeXid
<1>3. CASE StoreXid(p) BY <1>3 DEF StoreXid
<1>4. CASE SnapshotLock(p) BY <1>4 DEF SnapshotLock
<1>5. CASE SnapshotXmin(p) BY <1>5 DEF SnapshotXmin
<1>6. CASE SnapshotXid(p) BY <1>6 DEF SnapshotXid
<1>7. CASE SnapshotDone(p) BY <1>7 DEF SnapshotDone
<1>8. CASE EndReadOnly(p) BY <1>8 DEF EndReadOnly
<1>9. CASE EndTransaction(p) 
  <2>1. CASE Free BY <1>9, <2>1, SMTT(60) DEF EndTransaction, Free
  <2>2. CASE ~Free BY <1>9, <2>2 DEF EndTransaction
  <2> QED BY <2>1, <2>2
<1>10. CASE ClearOwn(p) BY <1>10 DEF ClearOwn
<1>11. CASE GroupRead(p) BY <1>11 DEF GroupRead
<1>12. CASE GroupCas(p)
  <2>1. CASE HeadUnchanged(p) BY <1>12, <2>1 DEF GroupCas
  <2>2. CASE ~HeadUnchanged(p) BY <1>12, <2>2 DEF GroupCas
  <2> QED BY <2>1, <2>2
<1>13. CASE GroupSleep(p)
  <2>1. CASE groupMember[p] BY <1>13, <2>1, SleepEffect DEF Still
  <2>2. CASE ~groupMember[p] BY <1>13, <2>2, SleepEffect DEF Still
  <2> QED BY <2>1, <2>2
<1>14. CASE LeaderLock(p) BY <1>14 DEF LeaderLock, Free
<1>15. CASE LeaderTake(p) BY <1>15 DEF LeaderTake
<1>16. CASE LeaderWalk(p)
  <2>1. CASE nextidx[p] # NULL BY <1>16, <2>1, WalkEffect
  <2>2. CASE nextidx[p] = NULL BY <1>16, <2>2, WalkEffect
  <2> QED BY <2>1, <2>2
<1>17. CASE LeaderWake(p)
  <2>1. CASE wakeidx[p] # NULL BY <1>17, <2>1, WakeEffect DEF Still
  <2>2. CASE wakeidx[p] = NULL BY <1>17, <2>2, WakeEffect, SMTT(60) DEF Still
  <2> QED BY <2>1, <2>2
<1>18. CASE LeaderMember(p) BY <1>18 DEF LeaderMember
<1>19. CASE LeaderPost(p) BY <1>19, PostEffect DEF Still
<1>20. CASE ForeignPost(p) BY <1>20 DEF ForeignPost
<1>21. CASE ForeignTake(p) BY <1>21 DEF ForeignTake
<1> HIDE DEF Mutex
<1> QED BY <1>1, <1>2, <1>3, <1>4, <1>5, <1>6, <1>7, <1>8, <1>9, <1>10, <1>11, <1>12, <1>13, <1>14,
           <1>15, <1>16, <1>17, <1>18, <1>19, <1>20, <1>21 DEF Step, Action

-----------------------------------------------------------------------------
(* Everything else in the invariant *)

\* A step of a backend that is in no list and leads none.
Aside(p) ==
    /\ ~Entered(p) /\ ~Entered(p)' /\ pc[p] \notin LeaderPCs /\ pc'[p] \notin LeaderPCs \cup {"sleep"}
    /\ groupFirst' = groupFirst /\ wakeidx' = wakeidx
    /\ \A q \in Procs \ {p} : /\ pc'[q] = pc[q] /\ groupMember'[q] = groupMember[q]
                              /\ groupNext'[q] = groupNext[q] /\ xid'[q] = xid[q]
                              /\ nextidx'[q] = nextidx[q] /\ newXid'[q] = newXid[q]
                              /\ entry'[q] = entry[q] /\ sem'[q] = sem[q]

\* The actions that touch no list.
LEMMA AsideSteps ==
    ASSUME PATypeOK, PATypeOK', NEW p \in Procs, Control(p),
           \/ StartTransaction(p) \/ TakeXid(p) \/ StoreXid(p) \/ SnapshotLock(p) \/ SnapshotXmin(p)
           \/ SnapshotXid(p) \/ SnapshotDone(p) \/ EndReadOnly(p) \/ EndTransaction(p)
           \/ ClearOwn(p) \/ GroupRead(p) \/ (GroupCas(p) /\ ~HeadUnchanged(p))
           \/ (GroupSleep(p) /\ ~groupMember[p])
    PROVE  Aside(p) /\ Control(p)'
<1>0. /\ pc \in [Procs -> PCs] /\ groupMember \in [Procs -> BOOLEAN] /\ xid \in [Procs -> Nat]
      /\ groupNext \in [Procs -> Procs \cup {NULL}] /\ nextidx \in [Procs -> Procs \cup {NULL}]
      /\ newXid \in [Procs -> Nat] /\ entry \in [Procs -> Procs \cup {NULL}] /\ sem \in [Procs -> Nat]
      /\ todo \in [Procs -> SUBSET Procs] /\ nextXid \in 1 .. MaxXid + 1
  BY DEF PATypeOK
<1> USE <1>0 DEF Control, Aside, Entered, LeaderPCs, Goto
<1> USE DEF Invalid, cache, locks, group, scanning, clearing
<1>1. CASE StartTransaction(p) BY <1>1 DEF StartTransaction
<1>2. CASE TakeXid(p)
  <2>1. /\ UNCHANGED <<groupFirst, wakeidx, groupNext, groupMember, xid, nextidx, entry, sem>>
        /\ pc[p] = "run" /\ xid[p] = Invalid /\ newXid' = [newXid EXCEPT ![p] = nextXid]
        /\ pc' = [pc EXCEPT ![p] = "gen"]
    BY <1>2, ZenonT(30) DEF TakeXid
  <2>2. pc'[p] = "gen" /\ newXid'[p] # Invalid /\ ~groupMember[p]
    <3> HIDE DEF Aside
    <3> QED BY <2>1
  <2>3. ASSUME NEW q \in Procs \ {p} PROVE pc'[q] = pc[q] /\ newXid'[q] = newXid[q]
    <3> HIDE DEF Control, Aside
    <3> QED BY <2>1
  <2>4. Aside(p)
    <3> HIDE DEF Control
    <3> QED BY <2>1, <2>2, <2>3
  <2>5. Control(p)'
    <3> HIDE DEF Aside
    <3> QED BY <2>1, <2>2
  <2> QED BY <2>4, <2>5, Zenon
<1>3. CASE StoreXid(p) BY <1>3 DEF StoreXid
<1>4. CASE SnapshotLock(p) BY <1>4 DEF SnapshotLock
<1>5. CASE SnapshotXmin(p)
  <2>1. PICK q \in todo[p] : entry' = [entry EXCEPT ![p] = q] BY <1>5 DEF SnapshotXmin
  <2>2. /\ UNCHANGED <<groupFirst, wakeidx, groupNext, groupMember, xid, nextidx, newXid, sem>>
        /\ pc[p] = "scan" /\ pc' = [pc EXCEPT ![p] = "xid"]
    BY <1>5, ZenonT(30) DEF SnapshotXmin
  <2>3. q \in Procs OBVIOUS
  <2> QED BY <2>1, <2>2, <2>3
<1>6. CASE SnapshotXid(p) BY <1>6 DEF SnapshotXid
<1>7. CASE SnapshotDone(p) BY <1>7 DEF SnapshotDone
<1>8. CASE EndReadOnly(p) BY <1>8 DEF EndReadOnly
<1>9. CASE EndTransaction(p)
  <2>1. /\ UNCHANGED <<groupFirst, wakeidx, groupNext, xid, nextidx, newXid, entry, sem>>
        /\ pc[p] = "run" /\ xid[p] # Invalid
    BY <1>9, EndEffect
  <2>2. CASE Free
    <3>1. pc' = [pc EXCEPT ![p] = "clear"] /\ groupMember' = groupMember BY <1>9, <2>2, EndEffect
    <3> QED BY <2>1, <3>1
  <2>3. CASE ~Free
    <3>1. pc' = [pc EXCEPT ![p] = "join"] /\ groupMember' = [groupMember EXCEPT ![p] = TRUE]
      BY <1>9, <2>3, EndEffect
    <3>2. pc'[p] = "join" /\ groupMember'[p] /\ ~groupMember[p] BY <2>1, <3>1
    <3>3. ASSUME NEW q \in Procs \ {p} PROVE pc'[q] = pc[q] /\ groupMember'[q] = groupMember[q]
      <4> HIDE DEF Control, Aside
      <4> QED BY <3>1
    <3>4. Aside(p)
      <4> HIDE DEF Control
      <4> QED BY <2>1, <3>2, <3>3
    <3>5. Control(p)'
      <4> HIDE DEF Aside
      <4> QED BY <2>1, <3>2
    <3> QED BY <3>4, <3>5, Zenon
  <2> QED BY <2>2, <2>3
<1>10. CASE ClearOwn(p) BY <1>10 DEF ClearOwn, EndInternal
<1>11. CASE GroupRead(p) BY <1>11 DEF GroupRead
<1>12. CASE GroupCas(p) /\ ~HeadUnchanged(p)
  <2>1. /\ UNCHANGED <<groupFirst, wakeidx, groupNext, xid, nextidx, newXid, entry, sem, groupMember>>
        /\ pc[p] = "cas" /\ pc' = [pc EXCEPT ![p] = "join"]
    BY <1>12, CasEffect
  <2> QED BY <2>1
<1>13. CASE GroupSleep(p) /\ ~groupMember[p]
  <2>1. /\ UNCHANGED <<groupFirst, wakeidx, groupNext, groupMember, xid, newXid, entry>>
        /\ pc[p] = "sleep" /\ pc' = [pc EXCEPT ![p] = "idle"]
        /\ sem' = [sem EXCEPT ![p] = sem[p] - 1 + extraWaits[p]]
        /\ nextidx' = [nextidx EXCEPT ![p] = NULL]
    BY <1>13, SleepEffect, ZenonT(30) DEF Still
  <2>2. pc'[p] = "idle" /\ xid[p] = Invalid /\ ~groupMember[p] BY <1>13, <2>1
  <2>3. ASSUME NEW q \in Procs \ {p}
        PROVE  pc'[q] = pc[q] /\ sem'[q] = sem[q] /\ nextidx'[q] = nextidx[q]
    BY <2>1
  <2>4. Aside(p)
    <3> HIDE DEF Control
    <3> QED BY <2>1, <2>2, <2>3
  <2>5. Control(p)'
    <3> HIDE DEF Aside
    <3> QED BY <2>1, <2>2
  <2> QED BY <2>4, <2>5
<1> HIDE DEF Aside, Control
<1> QED BY <1>1, <1>2, <1>3, <1>4, <1>5, <1>6, <1>7, <1>8, <1>9, <1>10, <1>11, <1>12, <1>13

\* A member that was in the hands of a leader still is.
LEMMA UnlinkingSame ==
    ASSUME NEW q \in Procs, NEW m \in Procs, wakeidx[q] = m, wakeidx'[q] = m, pc[q] = "member",
           Unlinking(q), Entered(m)', xid'[m] = Invalid, groupNext'[m] = NULL,
           pc'[m] = "sleep" \/ m = q,
           \A l \in Procs : pc'[l] = "member" => pc[l] = "member" /\ wakeidx'[l] = wakeidx[l]
    PROVE  Unlinking(q)'
<1>1. \A l \in Procs : pc'[l] = "member" /\ wakeidx'[l] = m => l = q BY DEF Unlinking
<1> QED BY <1>1 DEF Unlinking

\* Such an action keeps what each backend has at its step, and who
\* leads, is being unlinked or signalled.
LEMMA AsideKeeps ==
    ASSUME PATypeOK, PATypeOK', OneLeader, NEW p \in Procs, Aside(p), Control(p)',
           \A q \in Procs : Control(q) /\ Unlinking(q) /\ Signalled(q)
    PROVE  OneLeader' /\ \A q \in Procs : Control(q)' /\ Unlinking(q)' /\ Signalled(q)'
<1>1. OneLeader' BY DEF OneLeader, Aside, LeaderPCs
<1>2. ASSUME NEW q \in Procs PROVE Control(q)'
  <2>1. CASE q = p BY <2>1
  <2>2. CASE q # p
    <3>1. /\ pc'[q] = pc[q] /\ groupMember'[q] = groupMember[q] /\ groupNext'[q] = groupNext[q]
          /\ xid'[q] = xid[q] /\ nextidx'[q] = nextidx[q] /\ newXid'[q] = newXid[q]
          /\ entry'[q] = entry[q] /\ wakeidx'[q] = wakeidx[q]
      BY <2>2 DEF Aside
    <3> QED BY <3>1, ControlSame
  <2> QED BY <2>1, <2>2
<1>3. ASSUME NEW q \in Procs PROVE Unlinking(q)'
  <2> SUFFICES ASSUME pc'[q] = "member" PROVE Unlinking(q)' BY DEF Unlinking
  <2>1. q # p /\ pc[q] = "member" /\ wakeidx' = wakeidx BY DEF Aside, LeaderPCs
  <2>2. Unlinking(q) /\ wakeidx[q] \in Procs BY <2>1 DEF Control, PATypeOK
  <2>3. wakeidx[q] # p BY <2>1, <2>2 DEF Unlinking, Aside
  <2> DEFINE m == wakeidx[q]
  <2>4. /\ pc'[m] = pc[m] /\ groupMember'[m] = groupMember[m] /\ groupNext'[m] = groupNext[m]
        /\ xid'[m] = xid[m]
    BY <2>2, <2>3 DEF Aside
  <2>5. Entered(m) /\ xid[m] = Invalid /\ groupNext[m] = NULL /\ (pc[m] = "sleep" \/ m = q)
    BY <2>1, <2>2 DEF Unlinking
  <2>6. Entered(m)' BY <2>1, <2>4, <2>5 DEF Entered
  <2>7. \A l \in Procs : pc'[l] = "member" => pc[l] = "member" BY DEF Aside, LeaderPCs
  <2> QED BY <2>1, <2>2, <2>4, <2>5, <2>6, <2>7, UnlinkingSame
<1>4. ASSUME NEW q \in Procs PROVE Signalled(q)'
  <2> SUFFICES ASSUME pc'[q] = "sleep", ~groupMember'[q] PROVE Signalled(q)' BY DEF Signalled
  <2>1. q # p BY DEF Aside
  <2>2. pc[q] = "sleep" /\ ~groupMember[q] /\ sem'[q] = sem[q] BY <2>1 DEF Aside
  <2>3. \A l \in Procs : pc[l] = "post" => pc'[l] = "post" BY DEF Aside, LeaderPCs
  <2>4. wakeidx' = wakeidx BY DEF Aside
  <2> QED BY <2>2, <2>3, <2>4 DEF Signalled
<1> QED BY <1>1, <1>2, <1>3, <1>4

\* A step that only changes the semaphore of p.
LEMMA SemKeeps ==
    ASSUME PATypeOK, PATypeOK', OneLeader, NEW p \in Procs,
           UNCHANGED <<pc, xid, newXid, entry, groupFirst, groupNext, groupMember, nextidx, wakeidx>>,
           \A q \in Procs \ {p} : sem'[q] = sem[q],
           pc[p] = "sleep" /\ ~groupMember[p] => sem'[p] >= sem[p],
           \A q \in Procs : Control(q) /\ Unlinking(q) /\ Signalled(q)
    PROVE  /\ OneLeader' /\ \A q \in Procs : Control(q)' /\ Unlinking(q)' /\ Signalled(q)'
           /\ \A own, rank : Lists(own, rank) => Lists(own, rank)'
<1>1. OneLeader' BY DEF OneLeader
<1>2. \A q \in Procs : Control(q)' BY DEF Control
<1>3. \A q \in Procs : Unlinking(q)' BY DEF Unlinking, Entered
<1>4. ASSUME NEW q \in Procs PROVE Signalled(q)'
  <2>1. Signalled(q) /\ sem[q] \in Nat /\ sem'[q] \in Nat BY DEF PATypeOK
  <2>2. CASE q = p BY <2>1, <2>2, SMTT(60) DEF Signalled
  <2>3. CASE q # p BY <2>1, <2>3 DEF Signalled
  <2> QED BY <2>2, <2>3
<1>5. ASSUME NEW own, NEW rank, Lists(own, rank) PROVE Lists(own, rank)'
  BY <1>5, ListsSame
<1> QED BY <1>1, <1>2, <1>3, <1>4, <1>5

\* A step of p that leaves the memberships, the links and those about to be signalled
\* as they were.
Leads(p) ==
    /\ UNCHANGED <<newXid, entry, groupNext, groupMember, sem>>
    /\ pc[p] \notin {"sleep", "member", "post"} /\ pc'[p] \notin {"member", "post"}
    /\ pc'[p] = "sleep" => groupMember[p]
    /\ \A q \in Procs \ {p} :
          /\ pc'[q] = pc[q] /\ nextidx'[q] = nextidx[q] /\ wakeidx'[q] = wakeidx[q]
          /\ xid'[q] = xid[q] \/ (xid'[q] = Invalid /\ pc[q] = "sleep")

\* An action of a leader that unlinks nobody keeps what each backend has at its step, and who
\* leads, is being unlinked or signalled.
LEMMA LeaderKeeps ==
    ASSUME PATypeOK, PATypeOK', NEW p \in Procs, Control(p)',
           \A q \in Procs : Control(q) /\ Unlinking(q) /\ Signalled(q),
           Leads(p)
    PROVE  \A q \in Procs : Control(q)' /\ Unlinking(q)' /\ Signalled(q)'
<1> USE DEF Leads
<1>1. ASSUME NEW q \in Procs PROVE Control(q)'
  <2>1. CASE q = p BY <2>1
  <2>2. CASE q # p
    <3>1. Control(q) /\ pc'[q] = pc[q] /\ nextidx'[q] = nextidx[q] /\ wakeidx'[q] = wakeidx[q] BY <2>2
    <3>2. CASE xid'[q] = xid[q] BY <3>1, <3>2 DEF Control
    <3>3. CASE xid'[q] = Invalid /\ pc[q] = "sleep" BY <3>1, <3>3 DEF Control
    <3> QED BY <2>2, <3>2, <3>3
  <2> QED BY <2>1, <2>2
<1>2. ASSUME NEW q \in Procs PROVE Unlinking(q)'
  <2> SUFFICES ASSUME pc'[q] = "member" PROVE Unlinking(q)' BY DEF Unlinking
  <2>1. q # p /\ pc[q] = "member" /\ wakeidx'[q] = wakeidx[q] OBVIOUS
  <2>2. Unlinking(q) /\ wakeidx[q] \in Procs BY <2>1 DEF Control, PATypeOK
  <2>3. wakeidx[q] # p BY <2>1, <2>2 DEF Unlinking
  <2>4. Entered(wakeidx[q])'
    <3>1. Entered(wakeidx[q]) BY <2>1, <2>2 DEF Unlinking
    <3>2. pc'[wakeidx[q]] = pc[wakeidx[q]] /\ groupMember' = groupMember BY <2>2, <2>3
    <3> QED BY <3>1, <3>2 DEF Entered
  <2>5. \A l \in Procs : pc'[l] = "member" => pc[l] = "member" /\ wakeidx'[l] = wakeidx[l] OBVIOUS
  <2>6. xid'[wakeidx[q]] = Invalid BY <2>1, <2>2, <2>3 DEF Unlinking
  <2>7. groupNext'[wakeidx[q]] = NULL /\ (pc'[wakeidx[q]] = "sleep" \/ wakeidx[q] = q)
    BY <2>1, <2>2, <2>3 DEF Unlinking
  <2> QED BY <2>1, <2>2, <2>4, <2>5, <2>6, <2>7, UnlinkingSame
<1>3. ASSUME NEW q \in Procs PROVE Signalled(q)'
  <2> SUFFICES ASSUME pc'[q] = "sleep", ~groupMember'[q] PROVE Signalled(q)' BY DEF Signalled
  <2>1. q # p /\ pc[q] = "sleep" /\ ~groupMember[q] OBVIOUS
  <2>2. \A l \in Procs : pc[l] = "post" => pc'[l] = "post" /\ wakeidx'[l] = wakeidx[l] OBVIOUS
  <2> QED BY <2>1, <2>2, SMTT(60) DEF Signalled
<1> QED BY <1>1, <1>2, <1>3

-----------------------------------------------------------------------------
(* The rest of the invariant, action by action *)

\* Entering the list keeps what each backend has at its step, and who
\* leads, is being unlinked or signalled.
LEMMA EnterKeeps ==
    ASSUME PATypeOK, PATypeOK', OneLeader, NEW p \in Procs, GroupCas(p), HeadUnchanged(p),
           \A q \in Procs : Control(q) /\ Unlinking(q) /\ Signalled(q)
    PROVE  OneLeader' /\ \A q \in Procs : Control(q)' /\ Unlinking(q)' /\ Signalled(q)'
<1>1. /\ pc[p] = "cas" /\ groupFirst' = p /\ groupMember[p] /\ xid[p] # Invalid
      /\ pc' = [pc EXCEPT ![p] = IF groupFirst = NULL THEN "lead" ELSE "sleep"]
      /\ UNCHANGED <<groupNext, groupMember, xid, newXid, entry, nextidx, wakeidx, sem>>
  BY DEF GroupCas, HeadUnchanged, Goto, Control, clearing, scanning
<1>2. /\ pc'[p] = IF groupFirst = NULL THEN "lead" ELSE "sleep"
      /\ \A q \in Procs \ {p} : pc'[q] = pc[q]
  BY <1>1 DEF PATypeOK
<1>3. OneLeader'
  <2>1. CASE groupFirst = NULL BY <1>1, <1>2, <2>1, SMTT(60) DEF OneLeader
  <2>2. CASE groupFirst # NULL BY <1>1, <1>2, <2>2, SMTT(60) DEF OneLeader
  <2> QED BY <2>1, <2>2
<1>4. Control(p)' BY <1>1, <1>2, SMTT(60) DEF Control
<1>5. Leads(p) BY <1>1, <1>2, SMTT(60) DEF Leads
<1> QED BY <1>3, <1>4, <1>5, LeaderKeeps

\* Locking ProcArrayLock for the group keeps what each backend has at its step, and who
\* leads, is being unlinked or signalled.
LEMMA LockKeeps ==
    ASSUME PATypeOK, PATypeOK', OneLeader, NEW p \in Procs, LeaderLock(p),
           \A q \in Procs : Control(q) /\ Unlinking(q) /\ Signalled(q)
    PROVE  OneLeader' /\ \A q \in Procs : Control(q)' /\ Unlinking(q)' /\ Signalled(q)'
<1>1. /\ pc[p] = "lead" /\ pc' = [pc EXCEPT ![p] = "take"] /\ groupFirst' = groupFirst
      /\ UNCHANGED <<groupNext, groupMember, xid, newXid, entry, nextidx, wakeidx, sem>>
  BY DEF LeaderLock, Goto, group, clearing, scanning
<1>2. pc'[p] = "take" /\ \A q \in Procs \ {p} : pc'[q] = pc[q] BY <1>1 DEF PATypeOK
<1>3. OneLeader' BY <1>1, <1>2 DEF OneLeader
<1>4. Control(p)' BY <1>1, <1>2 DEF Control
<1>5. Leads(p) BY <1>1, <1>2 DEF Leads
<1> QED BY <1>3, <1>4, <1>5, LeaderKeeps

\* Taking the list keeps what each backend has at its step, and who
\* leads, is being unlinked or signalled.
LEMMA TakeKeeps ==
    ASSUME PATypeOK, PATypeOK', OneLeader, NEW p \in Procs, LeaderTake(p),
           \A q \in Procs : Control(q) /\ Unlinking(q) /\ Signalled(q)
    PROVE  OneLeader' /\ \A q \in Procs : Control(q)' /\ Unlinking(q)' /\ Signalled(q)'
<1>1. /\ pc[p] = "take" /\ pc' = [pc EXCEPT ![p] = "walk"] /\ groupFirst' = NULL
      /\ nextidx' = [nextidx EXCEPT ![p] = groupFirst] /\ wakeidx' = [wakeidx EXCEPT ![p] = groupFirst]
      /\ UNCHANGED <<groupNext, groupMember, xid, newXid, entry, sem>>
  BY DEF LeaderTake, Goto, scanning
<1>2. /\ pc'[p] = "walk"
      /\ \A q \in Procs \ {p} : pc'[q] = pc[q] /\ nextidx'[q] = nextidx[q] /\ wakeidx'[q] = wakeidx[q]
  BY <1>1, SMTT(60) DEF PATypeOK
<1>3. OneLeader' BY <1>1, <1>2 DEF OneLeader
<1>4. Control(p)' BY <1>1, <1>2 DEF Control
<1>5. Leads(p) BY <1>1, <1>2 DEF Leads
<1> QED BY <1>3, <1>4, <1>5, LeaderKeeps

\* Clearing an entry keeps what each backend has at its step, and who
\* leads, is being unlinked or signalled.
LEMMA WalkKeeps ==
    ASSUME NEW own, NEW rank, Lists(own, rank), PATypeOK, PATypeOK', OneLeader, NEW p \in Procs, LeaderWalk(p),
           \A q \in Procs : Control(q) /\ Unlinking(q) /\ Signalled(q)
    PROVE  OneLeader' /\ \A q \in Procs : Control(q)' /\ Unlinking(q)' /\ Signalled(q)'
<1>0. pc[p] = "walk" /\ UNCHANGED <<groupFirst, groupNext, groupMember, newXid, entry, wakeidx, sem>>
  BY WalkEffect DEF group, scanning
<1>1. pc[p] \in LeaderPCs /\ groupMember[p] BY <1>0 DEF LeaderPCs, Control
<1>2. /\ List(own, rank, p) /\ Linked(p) /\ own[p] = p
      /\ \A r \in Procs : Linked(r) => pc[r] = "sleep" \/ own[r] = r
  BY <1>0, <1>1, OfLeader
<1>3. CASE nextidx[p] = NULL
  <2>1. pc' = [pc EXCEPT ![p] = "wake"] /\ UNCHANGED <<xid, nextidx>> BY <1>3, WalkEffect
  <2>2. pc'[p] = "wake" /\ \A q \in Procs \ {p} : pc'[q] = pc[q] BY <2>1 DEF PATypeOK
  <2>3. xid[p] = Invalid BY <1>0, <1>1, <1>2, <1>3 DEF List, ToClear
  <2>4. Control(p)' BY <1>0, <1>1, <2>1, <2>2, <2>3 DEF Control
  <2>5. OneLeader' BY <1>0, <2>2 DEF OneLeader
  <2>6. Leads(p) BY <1>0, <2>1, <2>2 DEF Leads
  <2> QED BY <2>4, <2>5, <2>6, LeaderKeeps
<1>4. CASE nextidx[p] # NULL
  <2>1. /\ xid' = [xid EXCEPT ![nextidx[p]] = Invalid] /\ UNCHANGED pc
        /\ nextidx' = [nextidx EXCEPT ![p] = groupNext[nextidx[p]]]
    BY <1>4, WalkEffect DEF EndInternal
  <2>2. Linked(nextidx[p]) /\ own[nextidx[p]] = p BY <1>0, <1>1, <1>2, <1>4 DEF List
  <2>3. nextidx[p] = p \/ pc[nextidx[p]] = "sleep" BY <1>2, <1>4, <2>2 DEF PATypeOK
  <2>4. ASSUME NEW q \in Procs \ {p}
        PROVE  nextidx'[q] = nextidx[q] /\ (xid'[q] = xid[q] \/ (xid'[q] = Invalid /\ pc[q] = "sleep"))
    <3>1. nextidx'[q] = nextidx[q] BY <2>1 DEF PATypeOK
    <3>2. xid'[q] = IF q = nextidx[p] THEN Invalid ELSE xid[q] BY <2>1 DEF PATypeOK
    <3> QED BY <2>3, <3>1, <3>2
  <2>5. Control(p)' BY <1>0, <1>1, <2>1 DEF Control
  <2>6. OneLeader' BY <1>0, <2>1 DEF OneLeader
  <2>7. Leads(p) BY <1>0, <2>1, <2>4 DEF Leads
  <2> QED BY <2>5, <2>6, <2>7, LeaderKeeps
<1> QED BY <1>3, <1>4

\* Leaving the wakeup loop keeps what each backend has at its step, and who
\* leads, is being unlinked or signalled.
LEMMA DoneKeeps ==
    ASSUME PATypeOK, PATypeOK', OneLeader, NEW p \in Procs, LeaderWake(p), wakeidx[p] = NULL,
           \A q \in Procs : Control(q) /\ Unlinking(q) /\ Signalled(q), ~groupMember[p]
    PROVE  OneLeader' /\ \A q \in Procs : Control(q)' /\ Unlinking(q)' /\ Signalled(q)'
<1>1. /\ pc[p] = "wake" /\ pc' = [pc EXCEPT ![p] = "idle"] /\ groupFirst' = groupFirst
      /\ UNCHANGED <<groupNext, groupMember, xid, newXid, entry, nextidx, wakeidx, sem>>
  BY WakeEffect DEF Still, scanning
<1>2. pc'[p] = "idle" /\ \A q \in Procs \ {p} : pc'[q] = pc[q] BY <1>1 DEF PATypeOK
<1>3. OneLeader' BY <1>1, <1>2 DEF OneLeader
<1>4. Control(p)' BY <1>1, <1>2 DEF Control
<1>5. Leads(p) BY <1>1, <1>2 DEF Leads
<1> QED BY <1>3, <1>4, <1>5, LeaderKeeps

\* Unlinking an entry keeps what each backend has at its step and who leads or is signalled.
LEMMA WakeKeeps ==
    ASSUME NEW own, NEW rank, Lists(own, rank), PATypeOK, PATypeOK', OneLeader, NEW p \in Procs,
           LeaderWake(p), wakeidx[p] # NULL,
           \A q \in Procs : Control(q) /\ Unlinking(q) /\ Signalled(q)
    PROVE  OneLeader' /\ \A q \in Procs : Control(q)' /\ Signalled(q)'
<1>1. /\ pc[p] = "wake" /\ pc' = [pc EXCEPT ![p] = "member"]
      /\ nextidx' = [nextidx EXCEPT ![p] = groupNext[wakeidx[p]]]
      /\ groupNext' = [groupNext EXCEPT ![wakeidx[p]] = NULL]
      /\ UNCHANGED <<groupFirst, groupMember, xid, newXid, entry, wakeidx, sem>>
  BY WakeEffect DEF Still, scanning
<1>2. /\ pc'[p] = "member" /\ \A q \in Procs \ {p} : pc'[q] = pc[q] /\ nextidx'[q] = nextidx[q]
      /\ \A q \in Procs \ {wakeidx[p]} : groupNext'[q] = groupNext[q]
      /\ wakeidx[p] \in Procs /\ groupNext'[wakeidx[p]] = NULL
  BY <1>1, SMTT(60) DEF PATypeOK
<1>3. pc[p] \in LeaderPCs /\ HeadOf(p) = wakeidx[p] BY <1>1 DEF LeaderPCs, HeadOf
<1>4. /\ List(own, rank, p) /\ \A r \in Procs : Linked(r) => pc[r] = "sleep" \/ own[r] = r
  BY <1>3, OfLeader
<1>5. Linked(wakeidx[p]) /\ own[wakeidx[p]] = p BY <1>2, <1>3, <1>4 DEF List
<1>6. pc[wakeidx[p]] = "sleep" \/ wakeidx[p] = p BY <1>2, <1>4, <1>5
<1>7. OneLeader' BY <1>1, <1>2 DEF OneLeader
<1>8. ASSUME NEW q \in Procs PROVE Control(q)'
  <2>1. CASE q = p BY <1>1, <1>2, <2>1 DEF Control
  <2>2. CASE q # p /\ q # wakeidx[p] BY <1>1, <1>2, <2>2 DEF Control
  <2>3. CASE q # p /\ q = wakeidx[p]
    <3>1. pc[q] = "sleep" /\ pc'[q] = "sleep" /\ groupNext'[q] = NULL BY <1>2, <1>6, <2>3
    <3> QED BY <1>1, <3>1 DEF Control
  <2> QED BY <2>1, <2>2, <2>3
<1>9. ASSUME NEW q \in Procs PROVE Signalled(q)'
  <2> SUFFICES ASSUME pc'[q] = "sleep", ~groupMember'[q] PROVE Signalled(q)' BY DEF Signalled
  <2>1. q # p /\ pc[q] = "sleep" /\ ~groupMember[q] BY <1>1, <1>2
  <2>2. \A l \in Procs : pc[l] = "post" => pc'[l] = "post" BY <1>1, <1>2
  <2> QED BY <1>1, <2>1, <2>2 DEF Signalled
<1> QED BY <1>7, <1>8, <1>9

\* Resetting a membership keeps what each backend has at its step, and who
\* leads, is being unlinked or signalled.
LEMMA MemberKeeps ==
    ASSUME PATypeOK, PATypeOK', OneLeader, NEW p \in Procs, LeaderMember(p),
           \A q \in Procs : Control(q) /\ Unlinking(q) /\ Signalled(q)
    PROVE  OneLeader' /\ \A q \in Procs : Control(q)' /\ Unlinking(q)' /\ Signalled(q)'
<1> DEFINE m == wakeidx[p]
<1>1. /\ pc[p] = "member" /\ pc' = [pc EXCEPT ![p] = "post"]
      /\ groupMember' = [groupMember EXCEPT ![m] = FALSE]
      /\ UNCHANGED <<groupFirst, groupNext, xid, newXid, entry, nextidx, wakeidx, sem>>
  BY DEF LeaderMember, Goto, clearing, scanning
<1>2. /\ pc'[p] = "post" /\ \A q \in Procs \ {p} : pc'[q] = pc[q]
      /\ m \in Procs /\ ~groupMember'[m] /\ \A q \in Procs \ {m} : groupMember'[q] = groupMember[q]
  BY <1>1, SMTT(60) DEF PATypeOK, Control
<1>3. /\ xid[m] = Invalid /\ groupNext[m] = NULL /\ (pc[m] = "sleep" \/ m = p)
      /\ \A q \in Procs : pc[q] = "member" /\ wakeidx[q] = m => q = p
  BY <1>1 DEF Unlinking
<1> HIDE DEF m
<1>4. OneLeader' BY <1>1, <1>2 DEF OneLeader
<1>5. ASSUME NEW q \in Procs PROVE Control(q)'
  <2>1. CASE q = p BY <1>1, <1>2, <2>1 DEF Control
  <2>2. CASE q # p /\ q # m BY <1>1, <1>2, <2>2 DEF Control
  <2>3. CASE q # p /\ q = m BY <1>1, <1>2, <1>3, <2>3 DEF Control
  <2> QED BY <2>1, <2>2, <2>3
<1>6. ASSUME NEW q \in Procs PROVE Unlinking(q)'
  <2> SUFFICES ASSUME pc'[q] = "member" PROVE Unlinking(q)' BY DEF Unlinking
  <2>1. q # p /\ pc[q] = "member" BY <1>1, <1>2
  <2>2. Unlinking(q) /\ wakeidx[q] \in Procs BY <2>1 DEF Control, PATypeOK
  <2>3. wakeidx[q] # p /\ wakeidx[q] # m BY <1>1, <1>3, <2>1, <2>2 DEF Unlinking
  <2>4. Entered(wakeidx[q])'
    <3>1. Entered(wakeidx[q]) BY <2>1, <2>2 DEF Unlinking
    <3>2. /\ pc'[wakeidx[q]] = pc[wakeidx[q]] /\ wakeidx' = wakeidx
          /\ groupMember'[wakeidx[q]] = groupMember[wakeidx[q]]
      BY <1>1, <1>2, <2>2, <2>3
    <3> QED BY <3>1, <3>2 DEF Entered
  <2>5. \A l \in Procs : pc'[l] = "member" => pc[l] = "member" BY <1>1, <1>2
  <2>6. pc'[wakeidx[q]] = "sleep" \/ wakeidx[q] = q BY <1>2, <2>1, <2>2, <2>3 DEF Unlinking
  <2> QED BY <1>1, <2>1, <2>2, <2>4, <2>5, <2>6 DEF Unlinking
<1>7. ASSUME NEW q \in Procs PROVE Signalled(q)'
  <2> SUFFICES ASSUME pc'[q] = "sleep", ~groupMember'[q] PROVE Signalled(q)' BY DEF Signalled
  <2>1. pc[q] = "sleep" BY <1>1, <1>2
  <2>2. CASE q = m BY <1>1, <1>2, <2>2 DEF Signalled, m
  <2>3. CASE q # m
    <3>1. ~groupMember[q] BY <1>2, <2>3
    <3>2. \A l \in Procs : pc[l] = "post" => pc'[l] = "post" BY <1>1, <1>2
    <3> QED BY <1>1, <2>1, <3>1, <3>2 DEF Signalled
  <2> QED BY <2>2, <2>3
<1> QED BY <1>4, <1>5, <1>6, <1>7

\* Signalling a member keeps what each backend has at its step, and who
\* leads, is being unlinked or signalled.
LEMMA PostKeeps ==
    ASSUME PATypeOK, PATypeOK', OneLeader, NEW p \in Procs, LeaderPost(p),
           \A q \in Procs : Control(q) /\ Unlinking(q) /\ Signalled(q)
    PROVE  OneLeader' /\ \A q \in Procs : Control(q)' /\ Unlinking(q)' /\ Signalled(q)'
<1>1. /\ pc[p] = "post" /\ pc' = [pc EXCEPT ![p] = "wake"]
      /\ wakeidx' = [wakeidx EXCEPT ![p] = nextidx[p]]
      /\ UNCHANGED <<groupFirst, groupNext, groupMember, xid, newXid, entry, nextidx>>
  BY PostEffect DEF Still, group, scanning
<1>2. /\ pc'[p] = "wake" /\ \A q \in Procs \ {p} : pc'[q] = pc[q] /\ wakeidx'[q] = wakeidx[q]
  BY <1>1, SMTT(60) DEF PATypeOK
<1>3. \A q \in Procs : sem'[q] >= sem[q] /\ (q = wakeidx[p] /\ q # p => sem'[q] > 0)
  BY PostEffect, SMTT(60) DEF PATypeOK
<1>4. OneLeader' BY <1>1, <1>2 DEF OneLeader
<1>5. ASSUME NEW q \in Procs PROVE Control(q)'
  <2>1. CASE q = p BY <1>1, <1>2, <2>1 DEF Control
  <2>2. CASE q # p BY <1>1, <1>2, <2>2 DEF Control
  <2> QED BY <2>1, <2>2
<1>6. ASSUME NEW q \in Procs PROVE Unlinking(q)'
  <2> SUFFICES ASSUME pc'[q] = "member" PROVE Unlinking(q)' BY DEF Unlinking
  <2>1. q # p /\ pc[q] = "member" /\ wakeidx'[q] = wakeidx[q] BY <1>1, <1>2
  <2>2. Unlinking(q) /\ wakeidx[q] \in Procs BY <2>1 DEF Control, PATypeOK
  <2>a. Entered(wakeidx[q]) /\ (pc[wakeidx[q]] = "sleep" \/ wakeidx[q] = q) BY <2>1, <2>2, Zenon DEF Unlinking
  <2>3. wakeidx[q] # p BY <1>1, <2>1, <2>a
  <2>b. pc'[wakeidx[q]] = pc[wakeidx[q]] /\ groupMember' = groupMember BY <1>1, <1>2, <2>2, <2>3, Zenon
  <2>4. Entered(wakeidx[q])' BY <2>1, <2>a, <2>b, ZenonT(30) DEF Entered
  <2>5. \A l \in Procs : pc'[l] = "member" => pc[l] = "member" /\ wakeidx'[l] = wakeidx[l] BY <1>1, <1>2
  <2>6. pc'[wakeidx[q]] = "sleep" \/ wakeidx[q] = q BY <1>2, <2>1, <2>2, <2>3 DEF Unlinking
  <2> QED BY <1>1, <2>1, <2>2, <2>4, <2>5, <2>6 DEF Unlinking
<1>7. ASSUME NEW q \in Procs PROVE Signalled(q)'
  <2> SUFFICES ASSUME pc'[q] = "sleep", ~groupMember'[q] PROVE Signalled(q)' BY DEF Signalled
  <2>1. q # p /\ pc[q] = "sleep" /\ ~groupMember[q] /\ Signalled(q) BY <1>1, <1>2
  <2>2. sem[q] \in Nat /\ sem'[q] \in Nat /\ sem'[q] >= sem[q] BY <1>3 DEF PATypeOK
  <2>3. CASE sem[q] > 0 BY <2>2, <2>3, SMTT(60) DEF Signalled
  <2>4. CASE q = wakeidx[p] BY <1>3, <2>1, <2>4 DEF Signalled
  <2>5. CASE \E l \in Procs \ {p} : pc[l] = "post" /\ wakeidx[l] = q BY <1>2, <2>5 DEF Signalled
  <2> QED BY <2>1, <2>3, <2>4, <2>5 DEF Signalled
<1> QED BY <1>4, <1>5, <1>6, <1>7

\* The invariant depends on nothing but the variables of the module.
LEMMA GroupStutter == GroupInv /\ UNCHANGED vars => GroupInv'
<1> SUFFICES ASSUME GroupInv, UNCHANGED vars PROVE GroupInv' OBVIOUS
<1> USE DEF vars, cache, locks, group, scanning, clearing
<1>1. PATypeOK' BY DEF GroupInv, PATypeOK
<1>2. Mutex' /\ OneLeader' BY DEF GroupInv, Mutex, OneLeader
<1>3. PICK own, rank : Lists(own, rank) BY DEF GroupInv
<1>4. Lists(own, rank)' BY <1>3, ListsSame
<1>5. \A p \in Procs : Control(p) /\ Unlinking(p) /\ Signalled(p) BY DEF GroupInv
<1>6. \A p \in Procs : Control(p)' BY <1>5, ControlSame
<1>7. \A p \in Procs : Unlinking(p)' BY <1>5 DEF Unlinking, Entered
<1>8. \A p \in Procs : Signalled(p)' BY <1>5 DEF Signalled
<1> HIDE DEF vars, cache, locks, group, scanning, clearing
<1> QED BY <1>1, <1>2, <1>4, <1>6, <1>7, <1>8 DEF GroupInv

-----------------------------------------------------------------------------
(* The invariant *)

\* An action that touches no list keeps the invariant.
LEMMA AsideStep ==
    ASSUME GroupInv, PATypeOK', Mutex', NEW p \in Procs, Aside(p), Control(p)'
    PROVE  GroupInv'
<1>1. PICK own, rank : Lists(own, rank) BY DEF GroupInv
<1>2. Lists(own, rank)'
  <2>1. /\ ~Entered(p) /\ ~Entered(p)' /\ pc[p] \notin LeaderPCs /\ pc'[p] \notin LeaderPCs
        /\ groupFirst' = groupFirst /\ wakeidx' = wakeidx
        /\ \A q \in Procs \ {p} : /\ pc'[q] = pc[q] /\ groupMember'[q] = groupMember[q]
                                  /\ groupNext'[q] = groupNext[q] /\ xid'[q] = xid[q]
                                  /\ nextidx'[q] = nextidx[q]
    BY DEF Aside
  <2> QED BY <1>1, <2>1, ListsAside DEF GroupInv
<1>3. OneLeader' /\ \A q \in Procs : Control(q)' /\ Unlinking(q)' /\ Signalled(q)'
  BY AsideKeeps DEF GroupInv
<1> QED BY <1>2, <1>3 DEF GroupInv

\* A step of any action preserves the invariant.
LEMMA GroupStep ==
    ASSUME GroupInv, NEW p \in Procs, Action(p)
    PROVE  GroupInv'
<1>0. PATypeOK /\ Mutex /\ OneLeader /\ \A q \in Procs : Control(q) /\ Unlinking(q) /\ Signalled(q)
  BY DEF GroupInv
<1>1. PATypeOK' BY <1>0, TypeStep
<1>2. Mutex' BY <1>0, MutexStep
<1>3. PICK own, rank : Lists(own, rank) BY DEF GroupInv
<1> DEFINE Kept == /\ OneLeader' /\ \A q \in Procs : Control(q)' /\ Unlinking(q)' /\ Signalled(q)'
                   /\ \E o, k : Lists(o, k)'
<1>4. Kept => GroupInv' BY <1>1, <1>2 DEF GroupInv
<1>5. CASE Aside(p) /\ Control(p)' BY <1>1, <1>2, <1>5, AsideStep
<1>6. CASE \/ StartTransaction(p) \/ TakeXid(p) \/ StoreXid(p) \/ SnapshotLock(p) \/ SnapshotXmin(p)
           \/ SnapshotXid(p) \/ SnapshotDone(p) \/ EndReadOnly(p) \/ EndTransaction(p)
           \/ ClearOwn(p) \/ GroupRead(p) \/ (GroupCas(p) /\ ~HeadUnchanged(p))
           \/ (GroupSleep(p) /\ ~groupMember[p])
  BY <1>0, <1>1, <1>5, <1>6, AsideSteps
<1>7. CASE GroupCas(p) /\ HeadUnchanged(p)
  <2>1. OneLeader' /\ \A q \in Procs : Control(q)' /\ Unlinking(q)' /\ Signalled(q)'
    BY <1>0, <1>1, <1>7, EnterKeeps
  <2>2. \E o, k : Lists(o, k)' BY <1>0, <1>1, <1>3, <1>7, ListsEnter
  <2> QED BY <1>4, <2>1, <2>2
<1>8. CASE \/ (GroupSleep(p) /\ groupMember[p]) \/ ForeignPost(p) \/ ForeignTake(p)
  <2>1. /\ UNCHANGED <<pc, xid, newXid, entry, groupFirst, groupNext, groupMember, nextidx, wakeidx>>
        /\ \A q \in Procs \ {p} : sem'[q] = sem[q]
        /\ pc[p] = "sleep" /\ ~groupMember[p] => sem'[p] >= sem[p]
    <3>0. sem \in [Procs -> Nat] BY <1>0 DEF PATypeOK
    <3>1. CASE GroupSleep(p) /\ groupMember[p] BY <3>0, <3>1, SleepEffect, SMTT(60) DEF Still, group, scanning
    <3>2. CASE ForeignPost(p) \/ ForeignTake(p)
      BY <3>0, <3>2, ForeignEffect, SMTT(60) DEF Still, group, scanning, clearing
    <3> QED BY <1>8, <3>1, <3>2
  <2>2. /\ OneLeader' /\ \A q \in Procs : Control(q)' /\ Unlinking(q)' /\ Signalled(q)'
        /\ \A o, k : Lists(o, k) => Lists(o, k)'
    BY <1>0, <1>1, <2>1, SemKeeps
  <2> QED BY <1>3, <1>4, <2>2
<1>9. CASE LeaderLock(p)
  <2>1. OneLeader' /\ \A q \in Procs : Control(q)' /\ Unlinking(q)' /\ Signalled(q)'
    BY <1>0, <1>1, <1>9, LockKeeps
  <2>2. Lists(own, rank)' BY <1>0, <1>1, <1>3, <1>9, ListsLock
  <2> QED BY <1>4, <2>1, <2>2
<1>10. CASE LeaderTake(p)
  <2>1. OneLeader' /\ \A q \in Procs : Control(q)' /\ Unlinking(q)' /\ Signalled(q)'
    BY <1>0, <1>1, <1>10, TakeKeeps
  <2>2. Lists(own, rank)' BY <1>0, <1>1, <1>3, <1>10, ListsTake
  <2> QED BY <1>4, <2>1, <2>2
<1>11. CASE LeaderWalk(p)
  <2>1. OneLeader' /\ \A q \in Procs : Control(q)' /\ Unlinking(q)' /\ Signalled(q)'
    BY <1>0, <1>1, <1>3, <1>11, WalkKeeps
  <2>2. Lists(own, rank)' BY <1>0, <1>1, <1>3, <1>11, ListsWalk, ListsWalkDone
  <2> QED BY <1>4, <2>1, <2>2
<1>12. CASE LeaderWake(p) /\ wakeidx[p] = NULL
  <2>1. Lists(own, rank)' /\ ~groupMember[p] BY <1>0, <1>1, <1>3, <1>12, ListsDone
  <2>2. OneLeader' /\ \A q \in Procs : Control(q)' /\ Unlinking(q)' /\ Signalled(q)'
    BY <1>0, <1>1, <1>12, <2>1, DoneKeeps
  <2> QED BY <1>4, <2>1, <2>2
<1>13. CASE LeaderWake(p) /\ wakeidx[p] # NULL
  <2>1. OneLeader' /\ \A q \in Procs : Control(q)' /\ Signalled(q)'
    BY <1>0, <1>1, <1>3, <1>13, WakeKeeps
  <2>2. Lists(own, rank)' /\ \A q \in Procs : Unlinking(q)' BY <1>0, <1>1, <1>3, <1>13, ListsWake
  <2> QED BY <1>4, <2>1, <2>2
<1>14. CASE LeaderMember(p)
  <2>0. wakeidx[p] \in Procs BY <1>0, <1>14 DEF LeaderMember, Control, PATypeOK
  <2>1. OneLeader' /\ \A q \in Procs : Control(q)' /\ Unlinking(q)' /\ Signalled(q)'
    BY <1>0, <1>1, <1>14, MemberKeeps
  <2>2. Lists(own, rank)' BY <1>0, <1>1, <1>3, <1>14, <2>0, ListsMember
  <2> QED BY <1>4, <2>1, <2>2
<1>15. CASE LeaderPost(p)
  <2>1. OneLeader' /\ \A q \in Procs : Control(q)' /\ Unlinking(q)' /\ Signalled(q)'
    BY <1>0, <1>1, <1>15, PostKeeps
  <2>2. Lists(own, rank)' BY <1>0, <1>1, <1>3, <1>15, ListsPost
  <2> QED BY <1>4, <2>1, <2>2
<1> HIDE DEF Kept
<1> QED BY <1>6, <1>7, <1>8, <1>9, <1>10, <1>11, <1>12, <1>13, <1>14, <1>15, Zenon DEF Action, Step

\* The invariant holds at first.
LEMMA GroupInit == Init => GroupInv
<1> SUFFICES ASSUME Init PROVE GroupInv OBVIOUS
<1>1. PATypeOK BY TypeInit
<1>2. \A p \in Procs : /\ pc[p] = "idle" /\ ~groupMember[p] /\ xid[p] = Invalid
  BY DEF Init
<1>3. groupFirst = NULL /\ procArrayExcl = NULL /\ procArrayShared = {} BY DEF Init
<1>4. Mutex /\ OneLeader BY <1>2, <1>3 DEF Mutex, OneLeader
<1>5. \A p \in Procs : Control(p) /\ Unlinking(p) /\ Signalled(p)
  BY <1>2 DEF Control, Unlinking, Signalled
<1>6. \E own, rank : Lists(own, rank)
  <2> DEFINE own == [p \in Procs |-> p]
             rank == [p \in Procs |-> 0]
  <2>1. Lists(own, rank)
    BY <1>2 DEF Lists, Places, Link, List, Linked, Entered, LeaderPCs
  <2> QED BY <2>1
<1> QED BY <1>1, <1>4, <1>5, <1>6 DEF GroupInv

\* A step of the system is an action of one backend.
LEMMA NextActions == Next <=> \E p \in Procs : Action(p)
BY DEF Next, Action

\* Every step keeps the invariant.
LEMMA GroupNextStep == GroupInv /\ [Next]_vars => GroupInv'
BY GroupStep, GroupStutter, NextActions

\* The bookkeeping of GetNewTransactionId, GetSnapshotData, ProcArrayEndTransaction
\* and ProcArrayGroupClearXid keeps the invariant.
THEOREM GroupInvariance == Spec => []GroupInv
<1>1. Init => GroupInv BY GroupInit
<1>2. GroupInv /\ [Next]_vars => GroupInv' BY GroupNextStep
<1> QED BY <1>1, <1>2, PTL DEF Spec

\* Group XID clearing keeps its protocol: no id is cleared twice, nobody returns with
\* its id still advertised, and whoever is freed is signalled.
THEOREM GroupProtocol == Spec => []GroupIntact
<1>1. GroupInv => GroupIntact
  <2> SUFFICES ASSUME GroupInv PROVE GroupIntact OBVIOUS
  <2>1. PICK own, rank : Lists(own, rank) BY DEF GroupInv
  <2>2. ASSUME NEW p \in Procs, pc[p] = "walk", nextidx[p] # NULL PROVE xid[nextidx[p]] # Invalid
    <3>1. List(own, rank, p) /\ rank \in [Procs -> Int] /\ pc[p] \in LeaderPCs
      BY <2>1, <2>2 DEF Lists, LeaderPCs
    <3>2. nextidx[p] \in Procs BY <2>2 DEF GroupInv, PATypeOK
    <3>3. Linked(nextidx[p]) /\ own[nextidx[p]] = p BY <2>2, <3>1 DEF List
    <3>4. ToClear(rank, p, nextidx[p]) BY <2>2, <3>1, <3>2, SMTT(60) DEF ToClear
    <3> QED BY <3>1, <3>2, <3>3, <3>4 DEF List
  <2>3. OneLeader /\ \A p \in Procs : Control(p) /\ Signalled(p) BY DEF GroupInv
  <2> QED BY <2>2, <2>3 DEF GroupIntact, OneLeader, Control, Signalled
<1> QED BY <1>1, GroupInvariance, PTL
====
