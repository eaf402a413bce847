-------------------------- MODULE ProcArrayProofs --------------------------
(***************************************************************************)
(* Snapshots are exact, every running transaction up to latestCompletedXid *)
(* is advertised, and no horizon passes an advertised xmin, for any number *)
(* of backends and of transaction ids.  The invariant accounts for every   *)
(* id that has been assigned (Assigned): it has ended, is advertised, or   *)
(* belongs to the holder of XidGenLock, and then it is newer than whatever *)
(* has completed.  A scan in progress (Scan) has seen what it would see    *)
(* now, because nothing ends while ProcArrayLock is shared, and ids that   *)
(* are stored meanwhile are not older than its xmax.  For the horizon it   *)
(* matters that an xmin which a scan has missed, because it was stored     *)
(* after its entry was read, is the oldest id that is still running or is  *)
(* latestCompletedXid + 1 (Current), and so cannot be older than what the  *)
(* scan finds.                                                             *)
(***************************************************************************)
EXTENDS ProcArrayGroupProofs

USE ProcArrayAssumption, ZenonT(10), SMTT(60)

\* Every id that has been assigned is accounted for.
Assigned ==
    /\ \A p \in Procs : pc[p] = "gen" <=> xidGenLock = p
    /\ \A p \in Procs : pc[p] = "gen" => /\ newXid[p] = nextXid - 1 /\ newXid[p] > latestCompletedXid
                                         /\ \A q \in Procs : xid[q] < newXid[p]
    /\ latestCompletedXid < nextXid /\ \A p \in Procs : xid[p] < nextXid
    /\ \A p, q \in Procs : xid[p] # Invalid /\ xid[p] = xid[q] => p = q
    /\ \A p \in Procs : xid[p] \notin ended
    /\ \A x \in ended : 1 <= x /\ x <= latestCompletedXid
    /\ \A x \in 1 .. nextXid - 1 : \/ x \in ended \/ \E p \in Procs : xid[p] = x
                                   \/ \E p \in Procs : pc[p] = "gen" /\ newXid[p] = x

\* A bound that a snapshot taken now could get.
Current(x) == x = latestCompletedXid + 1 \/ \E r \in Procs : xid[r] = x

\* The scan of p has read the xid of q.
Scanned(p, q) == q \notin todo[p] /\ ~(pc[p] = "xid" /\ entry[p] = q)

\* What GetSnapshotData has found so far.
Scan(p) ==
    pc[p] \in {"scan", "xid"} =>
        /\ snap[p].seen = ended /\ snap[p].xmax = latestCompletedXid + 1 /\ snap[p].own = xid[p]
        /\ \A x \in Nat : x \in snap[p].xip <=>
              /\ RunningBefore(x, snap[p].xmax)
              /\ \E q \in Procs : q # p /\ Scanned(p, q) /\ xid[q] = x
        /\ snap[p].xmin <= snap[p].xmax /\ snap[p].xmin # Invalid /\ Current(snap[p].xmin)
        /\ \A q \in Procs : Scanned(p, q) /\ xid[q] # Invalid => snap[p].xmin <= xid[q]
        /\ globalxmin[p] # Invalid
        /\ \A q \in Procs : q \notin todo[p] /\ xmin[q] # Invalid =>
              globalxmin[p] <= xmin[q] \/ Current(xmin[q])
        /\ pc[p] = "xid" => entry[p] \in Procs \ todo[p]

\* Nothing that is running, or will be, is older than m.
Oldest(m) == m <= latestCompletedXid + 1 /\ \A r \in Procs : xid[r] # Invalid => m <= xid[r]

Horizon ==
    /\ Oldest(horizon)
    /\ \A p \in Procs : xmin[p] # Invalid => Oldest(xmin[p]) /\ horizon <= xmin[p]

\* Snapshots are used by running transactions, which advertise an xmin for them.
Using(p) ==
    /\ pc[p] \notin {"run", "gen", "scan", "xid"} => snap[p] = NoSnap
    /\ HasSnapshot(p) => xmin[p] # Invalid /\ xmin[p] <= snap[p].xmin

Exact(p) ==
    HasSnapshot(p) =>
        {x \in Xids : x < snap[p].xmax /\ x \notin snap[p].xip} \ {snap[p].own} = snap[p].seen

SnapInv ==
    /\ GroupInv /\ Assigned /\ Horizon
    /\ \A p \in Procs : Scan(p) /\ Using(p) /\ Exact(p)

\* The types of what the snapshots are made of.
LEMMA SnapTypes ==
    ASSUME PATypeOK
    PROVE  /\ nextXid \in Nat /\ latestCompletedXid \in Nat /\ horizon \in Nat /\ ended \subseteq Nat
           /\ \A p \in Procs : /\ xid[p] \in Nat /\ xmin[p] \in Nat /\ newXid[p] \in Nat
                               /\ globalxmin[p] \in Nat /\ todo[p] \subseteq Procs
                               /\ snap[p].xmin \in Nat /\ snap[p].xmax \in Nat /\ snap[p].own \in Nat
                               /\ snap[p].xip \subseteq Nat /\ snap[p].seen \subseteq Nat
<1>1. /\ nextXid \in Nat /\ latestCompletedXid \in Nat /\ horizon \in Nat /\ ended \subseteq Nat
  BY SMTT(60) DEF PATypeOK
<1>2. \A p \in Procs : /\ xid[p] \in Nat /\ xmin[p] \in Nat /\ newXid[p] \in Nat
                       /\ globalxmin[p] \in Nat /\ todo[p] \subseteq Procs
  BY DEF PATypeOK
<1>3. \A p \in Procs : snap[p] \in Snapshots BY DEF PATypeOK
<1>4. \A s \in Snapshots : s.xmin \in Nat /\ s.xmax \in Nat /\ s.own \in Nat /\ s.xip \subseteq Nat
                           /\ s.seen \subseteq Nat
  BY DEF Snapshots
<1> QED BY <1>1, <1>2, <1>3, <1>4

-----------------------------------------------------------------------------
(* Steps that touch neither ids nor snapshots *)

\* A step of p outside GetNewTransactionId and GetSnapshotData.
Elsewhere(p) ==
    /\ UNCHANGED <<nextXid, latestCompletedXid, xid, xmin, xidGenLock, newXid, todo, entry, snap,
                   globalxmin, ended, horizon>>
    /\ pc[p] \notin {"run", "gen", "scan", "xid"} /\ pc'[p] \notin {"gen", "scan", "xid"}
    /\ \A q \in Procs \ {p} : pc'[q] = pc[q]

\* An action that touches neither ids nor snapshots keeps the invariant.
LEMMA ElsewhereKeeps ==
    ASSUME SnapInv, GroupInv', NEW p \in Procs, Elsewhere(p)
    PROVE  SnapInv'
<1>0. Assigned /\ Horizon /\ \A q \in Procs : Scan(q) /\ Using(q) /\ Exact(q) BY DEF SnapInv
<1>1. \A q \in Procs : /\ pc'[q] = "gen" <=> pc[q] = "gen"
                       /\ pc'[q] = "xid" <=> pc[q] = "xid"
                       /\ pc'[q] = "scan" <=> pc[q] = "scan"
  BY DEF Elsewhere
<1>2. Assigned' BY <1>0, <1>1, SMTT(60) DEF Assigned, Elsewhere
<1>3. Horizon' BY <1>0 DEF Horizon, Oldest, Elsewhere
<1>4. ASSUME NEW q \in Procs PROVE Scan(q)'
  <2>1. \A r \in Procs : Scanned(q, r)' <=> Scanned(q, r) BY <1>1 DEF Scanned, Elsewhere
  <2>2. \A x : Current(x)' <=> Current(x) BY DEF Current, Elsewhere
  <2>3. Scan(q) BY <1>0
  <2> QED BY <1>1, <2>1, <2>2, <2>3 DEF Scan, Elsewhere
<1>5. ASSUME NEW q \in Procs PROVE Using(q)' /\ Exact(q)'
  <2>1. Using(q) /\ Exact(q) BY <1>0
  <2>2. CASE q = p
    <3>1. snap[p] = NoSnap /\ snap' = snap BY <2>1, <2>2 DEF Using, Elsewhere
    <3> QED BY <2>2, <3>1 DEF Using, Exact, HasSnapshot
  <2>3. CASE q # p
    <3>1. pc'[q] = pc[q] /\ snap' = snap /\ xmin' = xmin BY <2>3 DEF Elsewhere
    <3> QED BY <2>1, <3>1 DEF Using, Exact, HasSnapshot
  <2> QED BY <2>2, <2>3
<1> QED BY <1>2, <1>3, <1>4, <1>5 DEF SnapInv

\* The actions that touch neither ids nor snapshots.
LEMMA ElsewhereSteps ==
    ASSUME SnapInv, NEW p \in Procs,
           \/ StartTransaction(p) \/ GroupRead(p) \/ GroupCas(p) \/ (GroupSleep(p) /\ ~groupMember[p])
           \/ LeaderLock(p) \/ LeaderTake(p) \/ (LeaderWalk(p) /\ nextidx[p] = NULL)
           \/ LeaderWake(p) \/ LeaderMember(p) \/ LeaderPost(p)
    PROVE  Elsewhere(p)
<1>0. pc \in [Procs -> PCs] BY DEF SnapInv, GroupInv, PATypeOK
<1> USE <1>0 DEF Elsewhere, Goto
<1> USE DEF cache, locks, scanning
<1>1. CASE StartTransaction(p) BY <1>1 DEF StartTransaction
<1>2. CASE GroupRead(p) BY <1>2 DEF GroupRead
<1>3. CASE GroupCas(p)
  <2>1. CASE HeadUnchanged(p) BY <1>3, <2>1 DEF GroupCas
  <2>2. CASE ~HeadUnchanged(p) BY <1>3, <2>2 DEF GroupCas
  <2> QED BY <2>1, <2>2
<1>4. CASE GroupSleep(p) /\ ~groupMember[p] BY <1>4, SleepEffect DEF Still
<1>5. CASE LeaderLock(p) BY <1>5 DEF LeaderLock
<1>6. CASE LeaderTake(p) BY <1>6 DEF LeaderTake
<1>7. CASE LeaderWalk(p) /\ nextidx[p] = NULL BY <1>7, WalkEffect
<1>8. CASE LeaderWake(p)
  <2>1. CASE wakeidx[p] # NULL BY <1>8, <2>1, WakeEffect DEF Still
  <2>2. CASE wakeidx[p] = NULL BY <1>8, <2>2, WakeEffect, SMTT(60) DEF Still
  <2> QED BY <2>1, <2>2
<1>9. CASE LeaderMember(p) BY <1>9 DEF LeaderMember
<1>10. CASE LeaderPost(p) BY <1>10, PostEffect DEF Still
<1> HIDE DEF Elsewhere
<1> QED BY <1>1, <1>2, <1>3, <1>4, <1>5, <1>6, <1>7, <1>8, <1>9, <1>10

\* A semaphore operation alone.
LEMMA SemOnly ==
    ASSUME SnapInv, GroupInv', NEW p \in Procs,
           \/ (GroupSleep(p) /\ groupMember[p]) \/ ForeignPost(p) \/ ForeignTake(p)
    PROVE  SnapInv'
<1>1. UNCHANGED <<nextXid, latestCompletedXid, xid, xmin, xidGenLock, newXid, todo, entry, snap,
                  globalxmin, ended, horizon, pc>>
  <2>1. CASE GroupSleep(p) /\ groupMember[p] BY <2>1, SleepEffect DEF Still, cache, locks, scanning
  <2>2. CASE ForeignPost(p) BY <2>2 DEF ForeignPost, cache, locks, scanning
  <2>3. CASE ForeignTake(p) BY <2>3 DEF ForeignTake, cache, locks, scanning
  <2> QED BY <2>1, <2>2, <2>3
<1>2. Assigned' /\ Horizon' BY <1>1 DEF SnapInv, Assigned, Horizon, Oldest
<1>3. \A q \in Procs : Scan(q)' BY <1>1, SMTT(60) DEF SnapInv, Scan, Scanned, Current
<1>4. \A q \in Procs : Using(q)' /\ Exact(q)' BY <1>1 DEF SnapInv, Using, Exact, HasSnapshot
<1> QED BY <1>2, <1>3, <1>4 DEF SnapInv

-----------------------------------------------------------------------------
(* GetNewTransactionId *)

\* GetNewTransactionId, up to the point where the id is taken, keeps the invariant.
LEMMA TakeKeepsSnap ==
    ASSUME SnapInv, GroupInv', NEW p \in Procs, TakeXid(p)
    PROVE  SnapInv'
<1>0. /\ PATypeOK /\ Assigned /\ Horizon /\ \A q \in Procs : Scan(q) /\ Using(q) /\ Exact(q)
  BY DEF SnapInv, GroupInv
<1>1. /\ pc[p] = "run" /\ xid[p] = Invalid /\ xidGenLock = NULL /\ xidGenLock' = p
      /\ newXid' = [newXid EXCEPT ![p] = nextXid] /\ nextXid' = nextXid + 1
      /\ pc' = [pc EXCEPT ![p] = "gen"]
      /\ UNCHANGED <<latestCompletedXid, xid, xmin, todo, entry, snap, globalxmin, ended, horizon>>
  BY DEF TakeXid, HoldsXidGen, Goto, scanning
<1>2. /\ pc'[p] = "gen" /\ newXid'[p] = nextXid
      /\ \A q \in Procs \ {p} : pc'[q] = pc[q] /\ newXid'[q] = newXid[q]
  BY <1>0, <1>1 DEF PATypeOK
<1>3. \A q \in Procs : pc[q] # "gen" BY <1>0, <1>1 DEF Assigned
<1>4. Assigned'
  <2>0. nextXid \in Nat /\ latestCompletedXid \in Nat /\ \A q \in Procs : xid[q] \in Nat
    BY <1>0, SnapTypes
  <2>1. \A q \in Procs : pc'[q] = "gen" <=> xidGenLock' = q BY <1>1, <1>2, <1>3
  <2>2. \A q \in Procs : pc'[q] = "gen" => q = p BY <1>2, <1>3
  <2>3. \A q \in Procs : pc'[q] = "gen" =>
            /\ newXid'[q] = nextXid' - 1 /\ newXid'[q] > latestCompletedXid'
            /\ \A r \in Procs : xid'[r] < newXid'[q]
    BY <1>0, <1>1, <1>2, <2>0, <2>2, SMTT(60) DEF Assigned
  <2>4. latestCompletedXid' < nextXid' /\ \A q \in Procs : xid'[q] < nextXid'
    BY <1>0, <1>1, <2>0, SMTT(60) DEF Assigned
  <2>5. ASSUME NEW x \in 1 .. nextXid' - 1
        PROVE  \/ x \in ended' \/ \E q \in Procs : xid'[q] = x
               \/ \E q \in Procs : pc'[q] = "gen" /\ newXid'[q] = x
    <3>1. CASE x = nextXid BY <1>2, <3>1
    <3>2. CASE x # nextXid
      <4>1. x \in 1 .. nextXid - 1 BY <1>1, <2>0, <3>2
      <4> QED BY <1>0, <1>1, <1>3, <4>1 DEF Assigned
    <3> QED BY <3>1, <3>2
  <2> QED BY <1>0, <1>1, <2>1, <2>3, <2>4, <2>5, SMTT(60) DEF Assigned
<1>5. Horizon' BY <1>0, <1>1 DEF Horizon, Oldest
<1>6. ASSUME NEW q \in Procs PROVE Scan(q)'
  <2> SUFFICES ASSUME pc'[q] \in {"scan", "xid"} PROVE Scan(q)' BY DEF Scan
  <2>1. Scan(q) /\ pc'[q] = pc[q] BY <1>0, <1>2
  <2>2. \A r \in Procs : Scanned(q, r)' <=> Scanned(q, r) BY <1>1, <2>1 DEF Scanned
  <2>3. \A x : Current(x)' <=> Current(x) BY <1>1 DEF Current
  <2> QED BY <1>1, <2>1, <2>2, <2>3 DEF Scan
<1>7. ASSUME NEW q \in Procs PROVE Using(q)' /\ Exact(q)'
  <2>1. HasSnapshot(q)' <=> HasSnapshot(q) BY <1>1, <1>2 DEF HasSnapshot
  <2>2. Using(q) /\ Exact(q) BY <1>0
  <2> QED BY <1>1, <1>2, <2>1, <2>2 DEF Using, Exact
<1> QED BY <1>4, <1>5, <1>6, <1>7 DEF SnapInv

\* The new id is newer than all that the scans in progress look for.
LEMMA StoreKeepsSnap ==
    ASSUME SnapInv, GroupInv', NEW p \in Procs, StoreXid(p)
    PROVE  SnapInv'
<1>0. /\ PATypeOK /\ Assigned /\ Horizon /\ \A q \in Procs : Scan(q) /\ Using(q) /\ Exact(q)
      /\ Control(p)
  BY DEF SnapInv, GroupInv
<1>1. /\ pc[p] = "gen" /\ xid' = [xid EXCEPT ![p] = newXid[p]]
      /\ newXid' = [newXid EXCEPT ![p] = Invalid]
      /\ xidGenLock' = IF xidGenLock = p THEN NULL ELSE xidGenLock
      /\ pc' = [pc EXCEPT ![p] = "run"]
      /\ UNCHANGED <<nextXid, latestCompletedXid, xmin, todo, entry, snap, globalxmin, ended, horizon>>
  BY DEF StoreXid, Goto, scanning, cache
<1>2. /\ pc'[p] = "run" /\ xid'[p] = newXid[p]
      /\ \A q \in Procs \ {p} : pc'[q] = pc[q] /\ newXid'[q] = newXid[q] /\ xid'[q] = xid[q]
  BY <1>0, <1>1 DEF PATypeOK
<1>3. /\ nextXid \in Nat /\ latestCompletedXid \in Nat /\ horizon \in Nat /\ newXid[p] \in Nat
      /\ ended \subseteq Nat
      /\ \A q \in Procs : /\ xid[q] \in Nat /\ xmin[q] \in Nat /\ snap[q].xmin \in Nat
                          /\ snap[q].xmax \in Nat
    BY <1>0, SnapTypes
<1>4. /\ xidGenLock = p /\ newXid[p] = nextXid - 1 /\ newXid[p] > latestCompletedXid
      /\ xid[p] = Invalid /\ newXid[p] # Invalid
      /\ \A q \in Procs : xid[q] < newXid[p] /\ xid[q] # newXid[p]
  BY <1>0, <1>1, <1>3, SMTT(60) DEF Assigned, Control
<1>5. \A q \in Procs : pc[q] = "gen" => q = p BY <1>0, <1>4 DEF Assigned
<1>6. Assigned'
  <2>1. \A q \in Procs : pc'[q] # "gen" BY <1>2, <1>5
  <2>2. xidGenLock' = NULL BY <1>1, <1>4
  <2>3. latestCompletedXid' < nextXid' /\ \A q \in Procs : xid'[q] < nextXid'
    BY <1>0, <1>1, <1>2, <1>3, <1>4, SMTT(60) DEF Assigned
  <2>4. \A q, r \in Procs : xid'[q] # Invalid /\ xid'[q] = xid'[r] => q = r
    BY <1>0, <1>2, <1>4, SMTT(60) DEF Assigned
  <2>5. newXid[p] \notin ended BY <1>0, <1>3, <1>4, SMTT(60) DEF Assigned
  <2>6. \A q \in Procs : xid'[q] \notin ended' BY <1>0, <1>1, <1>2, <2>5, SMTT(60) DEF Assigned
  <2>7. ASSUME NEW x \in 1 .. nextXid' - 1
        PROVE  x \in ended' \/ \E q \in Procs : xid'[q] = x
    <3>1. x # Invalid BY DEF Invalid
    <3>2. CASE x \in ended BY <1>1, <3>2
    <3>3. CASE \E q \in Procs : xid[q] = x BY <1>2, <1>4, <3>1, <3>3
    <3>4. CASE \E q \in Procs : pc[q] = "gen" /\ newXid[q] = x BY <1>2, <1>5, <3>4
    <3>5. x \in 1 .. nextXid - 1 BY <1>1
    <3> QED BY <1>0, <3>2, <3>3, <3>4, <3>5 DEF Assigned
  <2> QED BY <1>0, <1>1, <2>1, <2>2, <2>3, <2>4, <2>6, <2>7, SMTT(60) DEF Assigned
<1>7. ASSUME NEW m \in Nat, Oldest(m) PROVE Oldest(m)'
  BY <1>1, <1>2, <1>3, <1>4, <1>7, SMTT(60) DEF Oldest
<1>8. Horizon' BY <1>0, <1>1, <1>3, <1>7 DEF Horizon
<1>9. \A x : x # Invalid /\ Current(x) => Current(x)' BY <1>1, <1>2, <1>4, SMTT(60) DEF Current
<1>10. ASSUME NEW q \in Procs PROVE Scan(q)'
  <2> SUFFICES ASSUME pc'[q] \in {"scan", "xid"} PROVE Scan(q)' BY DEF Scan
  <2>1. Scan(q) /\ pc'[q] = pc[q] /\ q # p /\ pc[q] \in {"scan", "xid"} BY <1>0, <1>2
  <2>2. \A r \in Procs : Scanned(q, r)' <=> Scanned(q, r) BY <1>1, <2>1 DEF Scanned
  <2>3. snap[q].xmax = latestCompletedXid + 1 BY <2>1 DEF Scan
  <2>4. ~RunningBefore(newXid[p], snap[q].xmax) BY <1>3, <1>4, <2>3 DEF RunningBefore
  <2>5. (snap[q].seen = ended /\ snap[q].xmax = latestCompletedXid + 1 /\ snap[q].own = xid[q])'
    BY <1>1, <1>2, <2>1 DEF Scan
  <2>6. ASSUME NEW x \in Nat
        PROVE  x \in snap'[q].xip <=> /\ RunningBefore(x, snap'[q].xmax)
                                      /\ \E r \in Procs : r # q /\ Scanned(q, r)' /\ xid'[r] = x
    <3>1. x \in snap[q].xip <=> /\ RunningBefore(x, snap[q].xmax)
                                /\ \E r \in Procs : r # q /\ Scanned(q, r) /\ xid[r] = x
      BY <2>1 DEF Scan
    <3>2. CASE ~RunningBefore(x, snap[q].xmax) BY <1>1, <3>1, <3>2
    <3>3. CASE RunningBefore(x, snap[q].xmax)
      <4>1. x # Invalid /\ x # newXid[p] BY <2>4, <3>3 DEF RunningBefore
      <4>2. \A r \in Procs : xid'[r] = x <=> xid[r] = x BY <1>2, <1>4, <4>1
      <4> QED BY <1>1, <2>2, <3>1, <3>3, <4>2
    <3> QED BY <3>2, <3>3
  <2>7. snap'[q].xmin <= snap'[q].xmax /\ snap'[q].xmin # Invalid /\ Current(snap[q].xmin)'
    BY <1>1, <1>9, <2>1 DEF Scan
  <2>8. ASSUME NEW r \in Procs, Scanned(q, r)', xid'[r] # Invalid PROVE snap'[q].xmin <= xid'[r]
    <3>1. CASE r = p
      <4>1. snap[q].xmin <= latestCompletedXid + 1 BY <2>1, <2>3 DEF Scan
      <4> QED BY <1>1, <1>2, <1>3, <1>4, <3>1, <4>1, SMTT(60)
    <3>2. CASE r # p
      <4>1. snap[q].xmin <= xid[r] BY <1>2, <2>1, <2>2, <2>8, <3>2 DEF Scan
      <4> QED BY <1>1, <1>2, <3>2, <4>1
    <3> QED BY <3>1, <3>2
  <2>9. ASSUME NEW r \in Procs, r \notin todo'[q], xmin'[r] # Invalid
        PROVE  globalxmin'[q] <= xmin'[r] \/ Current(xmin[r])'
    <3>1. globalxmin[q] <= xmin[r] \/ Current(xmin[r]) BY <1>1, <2>1, <2>9 DEF Scan
    <3> QED BY <1>1, <1>9, <2>9, <3>1
  <2>10. globalxmin'[q] # Invalid /\ (pc'[q] = "xid" => entry'[q] \in Procs \ todo'[q])
    BY <1>1, <2>1 DEF Scan
  <2> QED BY <2>5, <2>6, <2>7, <2>8, <2>9, <2>10 DEF Scan
<1>11. ASSUME NEW q \in Procs PROVE Using(q)' /\ Exact(q)'
  <2>1. HasSnapshot(q)' <=> HasSnapshot(q) BY <1>1, <1>2 DEF HasSnapshot
  <2>2. Using(q) /\ Exact(q) BY <1>0
  <2> QED BY <1>1, <1>2, <2>1, <2>2 DEF Using, Exact
<1> QED BY <1>6, <1>8, <1>10, <1>11 DEF SnapInv

-----------------------------------------------------------------------------
(* Snapshots *)

\* A step of p that neither assigns nor ends a transaction id, and advertises at
\* most an xmin that is current.
OwnStep(p) ==
    /\ UNCHANGED <<nextXid, latestCompletedXid, xid, xidGenLock, newXid, ended>>
    /\ pc[p] # "gen" /\ pc'[p] # "gen"
    /\ \A q \in Procs \ {p} : /\ pc'[q] = pc[q] /\ todo'[q] = todo[q] /\ entry'[q] = entry[q]
                              /\ snap'[q] = snap[q] /\ globalxmin'[q] = globalxmin[q]
                              /\ xmin'[q] = xmin[q]
    /\ xmin'[p] \in {xmin[p], Invalid} \/ Current(xmin'[p])

\* A step on the snapshot of p itself leaves those of the others as they were.
LEMMA OwnStepKeeps ==
    ASSUME SnapInv, NEW p \in Procs, OwnStep(p)
    PROVE  Assigned' /\ \A q \in Procs \ {p} : Scan(q)' /\ Using(q)' /\ Exact(q)'
<1>0. Assigned /\ \A q \in Procs : Scan(q) /\ Using(q) /\ Exact(q) BY DEF SnapInv
<1>1. \A q \in Procs : pc'[q] = "gen" <=> pc[q] = "gen" BY DEF OwnStep
<1>2. Assigned' BY <1>0, <1>1, SMTT(60) DEF Assigned, OwnStep
<1>3. ASSUME NEW x PROVE Current(x)' <=> Current(x) BY DEF Current, OwnStep
<1>4. ASSUME NEW q \in Procs \ {p} PROVE Scan(q)'
  <2> SUFFICES ASSUME pc'[q] \in {"scan", "xid"} PROVE Scan(q)' BY DEF Scan
  <2>1. /\ pc'[q] = pc[q] /\ todo'[q] = todo[q] /\ entry'[q] = entry[q] /\ snap'[q] = snap[q]
        /\ globalxmin'[q] = globalxmin[q] /\ xid' = xid /\ ended' = ended
        /\ latestCompletedXid' = latestCompletedXid
    BY DEF OwnStep
  <2>2. Scan(q) BY <1>0
  <2>3. \A r \in Procs : Scanned(q, r)' <=> Scanned(q, r) BY <2>1 DEF Scanned
  <2>4. ASSUME NEW r \in Procs, r \notin todo'[q], xmin'[r] # Invalid
        PROVE  globalxmin'[q] <= xmin'[r] \/ Current(xmin[r])'
    <3>1. CASE xmin'[r] = xmin[r]
      <4>1. globalxmin[q] <= xmin[r] \/ Current(xmin[r]) BY <2>1, <2>2, <2>4, <3>1 DEF Scan
      <4>2. Current(xmin[r]) => Current(xmin[r])' BY <2>1, <3>1 DEF Current
      <4> QED BY <2>1, <3>1, <4>1, <4>2
    <3>2. CASE xmin'[r] # xmin[r]
      <4>1. Current(xmin'[r]) BY <2>4, <3>2 DEF OwnStep
      <4> QED BY <2>1, <4>1 DEF Current
    <3> QED BY <3>1, <3>2
  <2>5. Current(snap[q].xmin)' <=> Current(snap[q].xmin) BY <2>1 DEF Current
  <2> QED BY <2>1, <2>2, <2>3, <2>4, <2>5 DEF Scan
<1>5. ASSUME NEW q \in Procs \ {p} PROVE Using(q)' /\ Exact(q)'
  <2>1. pc'[q] = pc[q] /\ snap'[q] = snap[q] /\ xmin'[q] = xmin[q] BY DEF OwnStep
  <2>2. HasSnapshot(q)' <=> HasSnapshot(q) BY <2>1 DEF HasSnapshot
  <2>3. Using(q) /\ Exact(q) BY <1>0
  <2> QED BY <2>1, <2>2, <2>3 DEF Using, Exact
<1> QED BY <1>2, <1>4, <1>5

\* Inside GetSnapshotData there is only the scan to look at.
LEMMA ScanningKeeps ==
    ASSUME SnapInv, GroupInv', NEW p \in Procs, OwnStep(p), UNCHANGED <<xmin, horizon>>,
           pc'[p] \in {"scan", "xid"}, Scan(p)'
    PROVE  SnapInv'
<1>1. Assigned' /\ \A q \in Procs \ {p} : Scan(q)' /\ Using(q)' /\ Exact(q)' BY OwnStepKeeps
<1>2. Horizon' BY DEF SnapInv, Horizon, Oldest, OwnStep
<1>3. Using(p)' /\ Exact(p)' BY DEF Using, Exact, HasSnapshot
<1> QED BY <1>1, <1>2, <1>3 DEF SnapInv

\* The start of GetSnapshotData keeps the invariant.
LEMMA LockKeepsSnap ==
    ASSUME SnapInv, GroupInv', NEW p \in Procs, SnapshotLock(p)
    PROVE  SnapInv'
<1> DEFINE s == [xmin |-> latestCompletedXid + 1, xmax |-> latestCompletedXid + 1, xip |-> {},
                 seen |-> ended, own |-> xid[p]]
<1>0. PATypeOK BY DEF SnapInv, GroupInv
<1>1. /\ pc[p] = "run" /\ snap' = [snap EXCEPT ![p] = s]
      /\ globalxmin' = [globalxmin EXCEPT ![p] = latestCompletedXid + 1]
      /\ todo' = [todo EXCEPT ![p] = Procs] /\ pc' = [pc EXCEPT ![p] = "scan"]
      /\ UNCHANGED <<nextXid, latestCompletedXid, xid, xmin, xidGenLock, newXid, entry, ended, horizon>>
  BY DEF SnapshotLock, Goto, cache
<1> HIDE DEF s
<1>2. /\ pc'[p] = "scan" /\ todo'[p] = Procs /\ snap'[p] = s
      /\ globalxmin'[p] = latestCompletedXid + 1
  BY <1>0, <1>1 DEF PATypeOK
<1>3. \A q \in Procs \ {p} : /\ pc'[q] = pc[q] /\ todo'[q] = todo[q] /\ snap'[q] = snap[q]
                             /\ globalxmin'[q] = globalxmin[q]
  BY <1>0, <1>1 DEF PATypeOK
<1>4. OwnStep(p) BY <1>1, <1>2, <1>3 DEF OwnStep
<1>5. Scan(p)'
  <2>1. latestCompletedXid \in Nat BY <1>0, SnapTypes
  <2>2. /\ s.xmin = latestCompletedXid + 1 /\ s.xmax = latestCompletedXid + 1 /\ s.xip = {}
        /\ s.seen = ended /\ s.own = xid[p]
    BY DEF s
  <2>3. \A q \in Procs : ~Scanned(p, q)' BY <1>2 DEF Scanned
  <2>4. Current(snap[p].xmin)' BY <1>1, <1>2, <2>2 DEF Current
  <2> QED BY <1>1, <1>2, <2>1, <2>2, <2>3, <2>4, SMTT(60) DEF Scan, Invalid
<1> QED BY <1>1, <1>2, <1>4, <1>5, ScanningKeeps

\* Reading the xmin of an entry.
LEMMA XminKeepsSnap ==
    ASSUME SnapInv, GroupInv', NEW p \in Procs, SnapshotXmin(p)
    PROVE  SnapInv'
<1>0. PATypeOK /\ Scan(p) BY DEF SnapInv, GroupInv
<1>1. PICK q \in todo[p] : /\ todo' = [todo EXCEPT ![p] = todo[p] \ {q}]
                           /\ entry' = [entry EXCEPT ![p] = q]
                           /\ globalxmin' = [globalxmin EXCEPT ![p] = Smaller(xmin[q], globalxmin[p])]
  BY DEF SnapshotXmin
<1>2. /\ pc[p] = "scan" /\ pc' = [pc EXCEPT ![p] = "xid"]
      /\ UNCHANGED <<nextXid, latestCompletedXid, xid, xmin, xidGenLock, newXid, snap, ended, horizon>>
  BY DEF SnapshotXmin, Goto, cache, locks
<1>3. /\ pc'[p] = "xid" /\ todo'[p] = todo[p] \ {q} /\ entry'[p] = q
      /\ globalxmin'[p] = Smaller(xmin[q], globalxmin[p])
  BY <1>0, <1>1, <1>2 DEF PATypeOK
<1>4. \A r \in Procs \ {p} : /\ pc'[r] = pc[r] /\ todo'[r] = todo[r] /\ entry'[r] = entry[r]
                             /\ globalxmin'[r] = globalxmin[r]
  BY <1>0, <1>1, <1>2 DEF PATypeOK
<1>5. OwnStep(p) BY <1>2, <1>3, <1>4 DEF OwnStep
<1>6. q \in Procs /\ xmin[q] \in Nat /\ globalxmin[p] \in Nat BY <1>0, <1>1, SnapTypes
<1>7. Scan(p)'
  <2>1. \A r \in Procs : Scanned(p, r)' <=> Scanned(p, r) BY <1>2, <1>3 DEF Scanned
  <2>2. \A x : Current(x)' <=> Current(x) BY <1>2 DEF Current
  <2>3. /\ globalxmin'[p] \in Nat /\ globalxmin'[p] <= globalxmin[p] /\ globalxmin'[p] # Invalid
        /\ xmin[q] # Invalid => globalxmin'[p] <= xmin[q]
    BY <1>0, <1>2, <1>3, <1>6, SmallerOf, SMTT(60) DEF Scan
  <2>4. ASSUME NEW r \in Procs, r \notin todo'[p], xmin'[r] # Invalid
        PROVE  globalxmin'[p] <= xmin'[r] \/ Current(xmin[r])'
    <3>1. CASE r = q BY <1>2, <2>3, <2>4, <3>1
    <3>2. CASE r # q
      <4>1. globalxmin[p] <= xmin[r] \/ Current(xmin[r]) BY <1>0, <1>2, <1>3, <2>4, <3>2 DEF Scan
      <4>2. xmin[r] \in Nat BY <1>0, SnapTypes
      <4> QED BY <1>2, <1>6, <2>2, <2>3, <4>1, <4>2
    <3> QED BY <3>1, <3>2
  <2>5. entry'[p] \in Procs \ todo'[p] BY <1>3, <1>6
  <2> QED BY <1>0, <1>2, <2>1, <2>2, <2>3, <2>4, <2>5 DEF Scan
<1> QED BY <1>2, <1>3, <1>5, <1>7, ScanningKeeps

\* Reading the xid of an entry: what has been scanned grows by it.
LEMMA XidKeepsSnap ==
    ASSUME SnapInv, GroupInv', NEW p \in Procs, SnapshotXid(p)
    PROVE  SnapInv'
<1>0. PATypeOK /\ Scan(p) /\ pc[p] = "xid" BY DEF SnapInv, GroupInv, SnapshotXid
<1>a. entry[p] \in Procs \ todo[p] BY <1>0 DEF Scan
<1>b. PICK q : q = entry[p] OBVIOUS
<1> DEFINE running == RunningBefore(xid[q], snap[p].xmax)
<1>1. /\ snap'[p].xmin = IF running THEN Smaller(xid[q], snap[p].xmin) ELSE snap[p].xmin
      /\ snap'[p].xip = IF running /\ q # p THEN snap[p].xip \cup {xid[q]} ELSE snap[p].xip
      /\ snap'[p].xmax = snap[p].xmax /\ snap'[p].seen = snap[p].seen /\ snap'[p].own = snap[p].own
      /\ \A r \in Procs \ {p} : snap'[r] = snap[r]
  BY <1>0, <1>a, <1>b, XidEffect, Zenon
<1>2. /\ entry' = [entry EXCEPT ![p] = NULL] /\ pc' = [pc EXCEPT ![p] = "scan"]
      /\ UNCHANGED <<nextXid, latestCompletedXid, xid, xmin, xidGenLock, newXid, todo, globalxmin,
                     ended, horizon>>
  BY DEF SnapshotXid, Goto, cache, locks
<1>3. /\ pc'[p] = "scan" /\ \A r \in Procs \ {p} : pc'[r] = pc[r] /\ entry'[r] = entry[r]
  BY <1>0, <1>2 DEF PATypeOK
<1>4. OwnStep(p) BY <1>0, <1>1, <1>2, <1>3 DEF OwnStep
<1>5. q \in Procs \ todo[p] BY <1>a, <1>b
<1>6. /\ xid[q] \in Nat /\ snap[p].xmin \in Nat /\ snap[p].xmax \in Nat
      /\ \A r \in Procs : xid[r] \in Nat
  BY <1>0, <1>5, SnapTypes
<1>7. \A r \in Procs : Scanned(p, r)' <=> Scanned(p, r) \/ r = q
  BY <1>0, <1>2, <1>3, <1>5, <1>b DEF Scanned
<1>8. \A r \in Procs : r = q => ~Scanned(p, r) BY <1>0, <1>b DEF Scanned
<1>9. Scan(p)'
  <2>1. ASSUME NEW x \in Nat
        PROVE  x \in snap'[p].xip <=> /\ RunningBefore(x, snap'[p].xmax)
                                      /\ \E r \in Procs : r # p /\ Scanned(p, r)' /\ xid'[r] = x
    <3>1. x \in snap[p].xip <=> /\ RunningBefore(x, snap[p].xmax)
                                /\ \E r \in Procs : r # p /\ Scanned(p, r) /\ xid[r] = x
      BY <1>0 DEF Scan
    <3>2. x \in snap'[p].xip <=> x \in snap[p].xip \/ (running /\ q # p /\ x = xid[q]) BY <1>1
    <3>3. (\E r \in Procs : r # p /\ Scanned(p, r)' /\ xid'[r] = x) <=>
              \/ \E r \in Procs : r # p /\ Scanned(p, r) /\ xid[r] = x
              \/ (q # p /\ xid[q] = x)
      BY <1>2, <1>5, <1>7
    <3>4. x = xid[q] => (RunningBefore(x, snap[p].xmax) <=> running) OBVIOUS
    <3>5. snap'[p].xmax = snap[p].xmax BY <1>1
    <3> QED BY <3>1, <3>2, <3>3, <3>4, <3>5
  <2>2. /\ snap'[p].xmin \in Nat /\ snap'[p].xmin <= snap[p].xmin /\ snap'[p].xmin # Invalid
        /\ snap'[p].xmin \in {snap[p].xmin, xid[q]}
        /\ running => snap'[p].xmin <= xid[q]
    <3>0. snap[p].xmin # Invalid BY <1>0 DEF Scan
    <3>1. CASE running
      <4>1. xid[q] # Invalid BY <3>1 DEF RunningBefore
      <4>2. snap'[p].xmin = Smaller(xid[q], snap[p].xmin) BY <1>1, <3>1
      <4>3. PICK m \in Nat : m = Smaller(xid[q], snap[p].xmin) /\ m <= snap[p].xmin
                             /\ m \in {xid[q], snap[p].xmin} /\ m <= xid[q] /\ m # Invalid
        BY <1>6, <3>0, <4>1, SmallerOf, Zenon
      <4>4. snap'[p].xmin = m BY <4>2, <4>3
      <4> QED BY <4>3, <4>4
    <3>2. CASE ~running BY <1>1, <1>6, <3>0, <3>2
    <3> QED BY <3>1, <3>2
  <2>3. snap'[p].xmin <= snap'[p].xmax
    <3>1. snap[p].xmin <= snap[p].xmax BY <1>0 DEF Scan
    <3> QED BY <1>1, <1>6, <2>2, <3>1, SMTT(60)
  <2>4. Current(snap[p].xmin)'
    <3>1. Current(snap[p].xmin) BY <1>0 DEF Scan
    <3> QED BY <1>2, <1>5, <2>2, <3>1 DEF Current
  <2>5. ASSUME NEW r \in Procs, Scanned(p, r)', xid'[r] # Invalid
        PROVE  snap'[p].xmin <= xid'[r]
    <3>1. CASE r = q
      <4>1. CASE running BY <1>2, <2>2, <3>1, <4>1
      <4>2. CASE ~running
        <5>1. xid[q] >= snap[p].xmax BY <1>2, <1>6, <2>5, <3>1, <4>2 DEF RunningBefore
        <5> QED BY <1>1, <1>2, <1>6, <2>2, <2>3, <3>1, <5>1
      <4> QED BY <4>1, <4>2
    <3>2. CASE r # q
      <4>1. snap[p].xmin <= xid[r] BY <1>0, <1>2, <1>7, <2>5, <3>2 DEF Scan
      <4> QED BY <1>2, <1>6, <2>2, <4>1
    <3> QED BY <3>1, <3>2
  <2>6. \A x : Current(x)' <=> Current(x) BY <1>2 DEF Current
  <2>7. \A r \in Procs : r \notin todo'[p] /\ xmin'[r] # Invalid =>
            globalxmin'[p] <= xmin'[r] \/ Current(xmin[r])'
    BY <1>0, <1>2, <2>6 DEF Scan
  <2>8. /\ snap'[p].seen = ended' /\ snap'[p].xmax = latestCompletedXid' + 1 /\ snap'[p].own = xid'[p]
        /\ globalxmin'[p] # Invalid
    BY <1>0, <1>1, <1>2 DEF Scan
  <2> QED BY <1>3, <2>1, <2>2, <2>3, <2>4, <2>5, <2>7, <2>8 DEF Scan
<1> QED BY <1>2, <1>3, <1>4, <1>9, ScanningKeeps

\* A snapshot is complete: what it lists and what had ended before make up all ids
\* before its xmax.
LEMMA ScannedExact ==
    ASSUME SnapInv, NEW p \in Procs, pc[p] = "scan", todo[p] = {}
    PROVE  {x \in Xids : x < snap[p].xmax /\ x \notin snap[p].xip} \ {snap[p].own} = snap[p].seen
<1>0. PATypeOK /\ Assigned /\ Scan(p) BY DEF SnapInv, GroupInv
<1>1. /\ latestCompletedXid \in Nat /\ nextXid \in 1 .. MaxXid + 1 /\ ended \subseteq Nat
      /\ \A q \in Procs : xid[q] \in Nat /\ newXid[q] \in Nat
  BY <1>0, SnapTypes DEF PATypeOK
<1>2. \A q \in Procs : Scanned(p, q) BY DEF Scanned
<1>3. /\ snap[p].seen = ended /\ snap[p].xmax = latestCompletedXid + 1 /\ snap[p].own = xid[p]
      /\ \A x \in Nat : x \in snap[p].xip <=> /\ RunningBefore(x, snap[p].xmax)
                                              /\ \E q \in Procs : q # p /\ Scanned(p, q) /\ xid[q] = x
  BY <1>0 DEF Scan
<1>4. ASSUME NEW x \in Xids, x < snap[p].xmax, x \notin snap[p].xip, x # snap[p].own
      PROVE  x \in ended
  <2>1. x \in Nat /\ x # Invalid /\ x \in 1 .. nextXid - 1 /\ x <= latestCompletedXid
    BY <1>0, <1>1, <1>3, <1>4, SMTT(60) DEF Xids, Invalid, Assigned
  <2>2. ~\E q \in Procs : xid[q] = x
    BY <1>2, <1>3, <1>4, <2>1 DEF RunningBefore
  <2>3. ~\E q \in Procs : pc[q] = "gen" /\ newXid[q] = x
    BY <1>0, <1>1, <2>1, SMTT(60) DEF Assigned
  <2> QED BY <1>0, <2>1, <2>2, <2>3 DEF Assigned
<1>5. ASSUME NEW x \in ended
      PROVE  x \in Xids /\ x < snap[p].xmax /\ x \notin snap[p].xip /\ x # snap[p].own
  <2>1. x \in Nat /\ 1 <= x /\ x <= latestCompletedXid /\ latestCompletedXid < nextXid
    BY <1>0, <1>1 DEF Assigned
  <2>2. x \in Xids /\ x < snap[p].xmax BY <1>1, <1>3, <2>1, SMTT(60) DEF Xids
  <2>3. \A q \in Procs : xid[q] # x BY <1>0, SMTT(60) DEF Assigned
  <2> QED BY <1>3, <2>1, <2>2, <2>3
<1> QED BY <1>3, <1>4, <1>5

\* The end of GetSnapshotData keeps the invariant.
LEMMA DoneKeepsSnap ==
    ASSUME SnapInv, GroupInv', NEW p \in Procs, SnapshotDone(p)
    PROVE  SnapInv'
<1>0. PATypeOK /\ Assigned /\ Horizon /\ Scan(p) /\ Control(p) BY DEF SnapInv, GroupInv
<1>1. /\ pc[p] = "scan" /\ todo[p] = {}
      /\ xmin' = [xmin EXCEPT ![p] = IF xmin[p] = Invalid THEN snap[p].xmin ELSE xmin[p]]
      /\ horizon' = Max({horizon, Smaller(snap[p].xmin, globalxmin[p])})
      /\ globalxmin' = [globalxmin EXCEPT ![p] = Invalid] /\ pc' = [pc EXCEPT ![p] = "run"]
      /\ UNCHANGED <<nextXid, latestCompletedXid, xid, xidGenLock, newXid, todo, entry, snap, ended>>
  BY DEF SnapshotDone, Goto, cache
<1>2. /\ pc'[p] = "run" /\ xmin'[p] = IF xmin[p] = Invalid THEN snap[p].xmin ELSE xmin[p]
      /\ \A q \in Procs \ {p} : /\ pc'[q] = pc[q] /\ xmin'[q] = xmin[q]
                                /\ globalxmin'[q] = globalxmin[q]
  BY <1>0, <1>1 DEF PATypeOK
<1>3. /\ latestCompletedXid \in Nat /\ horizon \in Nat /\ snap[p].xmin \in Nat /\ globalxmin[p] \in Nat
      /\ \A q \in Procs : xid[q] \in Nat /\ xmin[q] \in Nat
  BY <1>0, SnapTypes
<1>4. \A q \in Procs : Scanned(p, q) BY <1>1 DEF Scanned
<1>5. snap[p].xmin # Invalid /\ Current(snap[p].xmin) /\ globalxmin[p] # Invalid BY <1>0, <1>1 DEF Scan
<1>6. Oldest(snap[p].xmin)
  BY <1>0, <1>1, <1>4 DEF Scan, Oldest
\* Nothing advertised is newer than a current id.
<1>7. ASSUME NEW x \in Nat, NEW m \in Nat, x # Invalid, Current(x), Oldest(m) PROVE m <= x
  <2>1. CASE x = latestCompletedXid + 1 BY <1>7, <2>1 DEF Oldest
  <2>2. CASE x # latestCompletedXid + 1 BY <1>7, <2>2 DEF Oldest, Current
  <2> QED BY <2>1, <2>2
<1>8. OwnStep(p)
  <2>1. xmin'[p] = xmin[p] \/ Current(xmin'[p]) BY <1>2, <1>5
  <2> QED BY <1>1, <1>2, <2>1 DEF OwnStep
<1>9. Assigned' /\ \A q \in Procs \ {p} : Scan(q)' /\ Using(q)' /\ Exact(q)' BY <1>8, OwnStepKeeps
<1>10. \A m : Oldest(m)' <=> Oldest(m) BY <1>1 DEF Oldest
<1>11. PICK g \in Nat : /\ g = Smaller(snap[p].xmin, globalxmin[p])
                        /\ g <= snap[p].xmin /\ g <= globalxmin[p]
  BY <1>3, <1>5, SmallerOf, Zenon
<1>12. horizon' \in {horizon, g} BY <1>1, <1>3, <1>11, MaxOf
<1>13. Oldest(horizon) /\ horizon <= snap[p].xmin BY <1>0, <1>3, <1>5, <1>7 DEF Horizon
<1>14. Oldest(g) BY <1>3, <1>6, <1>11 DEF Oldest
<1>15. ASSUME NEW q \in Procs, xmin[q] # Invalid PROVE g <= xmin[q] /\ horizon <= xmin[q]
  <2>1. horizon <= xmin[q] BY <1>0, <1>15 DEF Horizon
  <2>2. CASE globalxmin[p] <= xmin[q] BY <1>3, <1>11, <2>1, <2>2
  <2>3. CASE Current(xmin[q])
    <3>1. snap[p].xmin <= xmin[q] BY <1>3, <1>6, <1>7, <1>15, <2>3
    <3> QED BY <1>3, <1>11, <2>1, <3>1
  <2>4. globalxmin[p] <= xmin[q] \/ Current(xmin[q]) BY <1>0, <1>1, <1>15 DEF Scan
  <2> QED BY <2>2, <2>3, <2>4
<1>16. Horizon'
  <2>1. Oldest(horizon)' 
    <3>1. Oldest(horizon') BY <1>12, <1>13, <1>14
    <3> QED BY <1>1, <3>1 DEF Oldest
  <2>2. ASSUME NEW q \in Procs, xmin'[q] # Invalid PROVE Oldest(xmin[q])' /\ horizon' <= xmin'[q]
    <3>1. CASE xmin'[q] = xmin[q]
      <4>1. Oldest(xmin'[q]) BY <1>0, <2>2, <3>1 DEF Horizon
      <4>2. horizon' <= xmin'[q] BY <1>12, <1>15, <2>2, <3>1
      <4> QED BY <1>1, <4>1, <4>2 DEF Oldest
    <3>2. CASE xmin'[q] # xmin[q]
      <4>1. xmin'[q] = snap[p].xmin BY <1>2, <3>2
      <4>2. horizon' <= xmin'[q] BY <1>11, <1>12, <1>13, <4>1
      <4>3. Oldest(xmin'[q]) BY <1>6, <4>1
      <4> QED BY <1>1, <4>2, <4>3 DEF Oldest
    <3> QED BY <3>1, <3>2
  <2> QED BY <2>1, <2>2 DEF Horizon
<1>17. Scan(p)' BY <1>2 DEF Scan
<1>18. Using(p)'
  <2>1. xmin'[p] # Invalid /\ xmin'[p] <= snap'[p].xmin
    <3>1. CASE xmin[p] = Invalid BY <1>1, <1>2, <1>3, <1>5, <3>1, SMTT(60)
    <3>2. CASE xmin[p] # Invalid
      <4>1. Oldest(xmin[p]) BY <1>0, <3>2 DEF Horizon
      <4>2. xmin[p] <= snap[p].xmin BY <1>3, <1>5, <1>7, <4>1
      <4> QED BY <1>1, <1>2, <3>2, <4>2
    <3> QED BY <3>1, <3>2
  <2> QED BY <1>2, <2>1 DEF Using
<1>19. Exact(p)'
  <2>1. {x \in Xids : x < snap[p].xmax /\ x \notin snap[p].xip} \ {snap[p].own} = snap[p].seen
    BY <1>1, ScannedExact
  <2>2. snap' = snap BY <1>1
  <2> QED BY <2>1, <2>2, Zenon DEF Exact
<1> QED BY <1>9, <1>16, <1>17, <1>18, <1>19 DEF SnapInv

-----------------------------------------------------------------------------
(* The end of a transaction *)

\* Its snapshot is given up at once.
LEMMA LeaveKeepsSnap ==
    ASSUME SnapInv, GroupInv', NEW p \in Procs, EndReadOnly(p) \/ EndTransaction(p)
    PROVE  SnapInv'
<1>0. PATypeOK /\ Horizon BY DEF SnapInv, GroupInv
<1>1. /\ pc[p] = "run" /\ snap' = [snap EXCEPT ![p] = NoSnap]
      /\ UNCHANGED <<nextXid, latestCompletedXid, xid, xidGenLock, newXid, todo, entry, globalxmin,
                     ended, horizon>>
      /\ xmin' = xmin \/ xmin' = [xmin EXCEPT ![p] = Invalid]
      /\ \E s \in {"idle", "clear", "join"} : pc' = [pc EXCEPT ![p] = s]
  <2>1. CASE EndReadOnly(p) BY <2>1 DEF EndReadOnly, Goto, cache, locks
  <2>2. CASE EndTransaction(p) BY <2>2 DEF EndTransaction, Goto, cache
  <2> QED BY <2>1, <2>2
<1>2. /\ pc'[p] \in {"idle", "clear", "join"} /\ snap'[p] = NoSnap /\ xmin'[p] \in {xmin[p], Invalid}
      /\ \A q \in Procs \ {p} : /\ pc'[q] = pc[q] /\ snap'[q] = snap[q] /\ xmin'[q] = xmin[q]
  BY <1>0, <1>1, SMTT(60) DEF PATypeOK
<1>3. OwnStep(p) BY <1>1, <1>2 DEF OwnStep
<1>4. Assigned' /\ \A q \in Procs \ {p} : Scan(q)' /\ Using(q)' /\ Exact(q)' BY <1>3, OwnStepKeeps
<1>5. Horizon'
  <2>1. \A q \in Procs : xmin'[q] # Invalid => xmin'[q] = xmin[q] BY <1>2
  <2> QED BY <1>0, <1>1, <2>1 DEF Horizon, Oldest
<1>6. Scan(p)' /\ Using(p)' /\ Exact(p)' BY <1>2 DEF Scan, Using, Exact, HasSnapshot
<1> QED BY <1>4, <1>5, <1>6 DEF SnapInv

\* Its id leaves the ids that run, while ProcArrayLock keeps everybody from scanning.
LEMMA EndKeepsSnap ==
    ASSUME SnapInv, GroupInv', NEW p \in Procs, NEW q \in Procs, EndInternal(q), xid[q] # Invalid,
           pc[q] # "gen", procArrayExcl = p, snap[q] = NoSnap,
           UNCHANGED <<nextXid, xidGenLock, newXid, todo, entry, snap, globalxmin, horizon>>,
           pc'[p] \notin {"gen", "scan", "xid"}, pc[p] \notin {"gen", "scan", "xid"},
           pc'[p] # pc[p] => snap[p] = NoSnap,
           \A r \in Procs \ {p} : pc'[r] = pc[r]
    PROVE  SnapInv'
<1>0. /\ PATypeOK /\ Mutex /\ Assigned /\ Horizon /\ \A r \in Procs : Scan(r) /\ Using(r) /\ Exact(r)
  BY DEF SnapInv, GroupInv
<1>1. /\ nextXid \in Nat /\ latestCompletedXid \in Nat /\ horizon \in Nat /\ ended \subseteq Nat
      /\ \A r \in Procs : xid[r] \in Nat /\ xmin[r] \in Nat /\ newXid[r] \in Nat
  BY <1>0, SnapTypes
<1>2. /\ xid'[q] = Invalid /\ xmin'[q] = Invalid /\ ended' = ended \cup {xid[q]}
      /\ \A r \in Procs \ {q} : xid'[r] = xid[r] /\ xmin'[r] = xmin[r]
  BY <1>0 DEF EndInternal, PATypeOK
<1>3. /\ latestCompletedXid' \in Nat /\ latestCompletedXid' \in {latestCompletedXid, xid[q]}
      /\ latestCompletedXid <= latestCompletedXid' /\ xid[q] <= latestCompletedXid'
  BY <1>1, MaxOf DEF EndInternal
<1>4. \A r \in Procs : pc[r] \notin {"scan", "xid"} /\ pc'[r] \notin {"scan", "xid"}
  BY <1>0 DEF Mutex
<1>5. \A r \in Procs : pc'[r] = "gen" <=> pc[r] = "gen" OBVIOUS
<1>6. Assigned'
  <2>1. ASSUME NEW r \in Procs, pc'[r] = "gen"
        PROVE  /\ newXid'[r] = nextXid' - 1 /\ newXid'[r] > latestCompletedXid'
               /\ \A s \in Procs : xid'[s] < newXid'[r]
    <3>1. /\ newXid[r] = nextXid - 1 /\ newXid[r] > latestCompletedXid
          /\ \A s \in Procs : xid[s] < newXid[r]
      BY <1>0, <1>5, <2>1 DEF Assigned
    <3>2. \A s \in Procs : xid'[s] < newXid[r] BY <1>1, <1>2, <3>1, SMTT(60) DEF Invalid
    <3> QED BY <1>1, <1>3, <3>1, <3>2
  <2>2. latestCompletedXid' < nextXid' /\ \A r \in Procs : xid'[r] < nextXid'
    BY <1>0, <1>1, <1>2, <1>3, SMTT(60) DEF Assigned, Invalid
  <2>3. \A r, s \in Procs : xid'[r] # Invalid /\ xid'[r] = xid'[s] => r = s
    BY <1>0, <1>2, SMTT(60) DEF Assigned
  <2>4. \A x \in ended' : 1 <= x /\ x <= latestCompletedXid'
    <3>1. \A x \in ended : 1 <= x /\ x <= latestCompletedXid BY <1>0 DEF Assigned
    <3>2. 1 <= xid[q] BY <1>1 DEF Invalid
    <3> QED BY <1>1, <1>2, <1>3, <3>1, <3>2, SMTT(60)
  <2>5. ASSUME NEW r \in Procs PROVE xid'[r] \notin ended'
    <3>1. CASE r = q
      <4>1. Invalid \notin ended BY <1>0, <1>1, SMTT(60) DEF Assigned, Invalid
      <4> QED BY <1>2, <3>1, <4>1
    <3>2. CASE r # q
      <4>1. xid[r] # xid[q] BY <1>0, <3>2 DEF Assigned
      <4> QED BY <1>0, <1>2, <3>2, <4>1 DEF Assigned
    <3> QED BY <3>1, <3>2
  <2>6. ASSUME NEW x \in 1 .. nextXid' - 1
        PROVE  \/ x \in ended' \/ \E r \in Procs : xid'[r] = x
               \/ \E r \in Procs : pc'[r] = "gen" /\ newXid'[r] = x
    <3>1. \/ x \in ended \/ \E r \in Procs : xid[r] = x
          \/ \E r \in Procs : pc[r] = "gen" /\ newXid[r] = x
      BY <1>0 DEF Assigned
    <3>2. CASE x \in ended BY <1>2, <3>2
    <3>3. CASE \E r \in Procs : xid[r] = x BY <1>2, <3>3
    <3>4. CASE \E r \in Procs : pc[r] = "gen" /\ newXid[r] = x BY <1>5, <3>4
    <3> QED BY <3>1, <3>2, <3>3, <3>4
  <2>7. \A r \in Procs : pc'[r] = "gen" <=> xidGenLock' = r BY <1>0, <1>5 DEF Assigned
  <2> QED BY <2>1, <2>2, <2>3, <2>4, <2>5, <2>6, <2>7 DEF Assigned
<1>7. ASSUME NEW m \in Nat, Oldest(m) PROVE Oldest(m)'
  BY <1>1, <1>2, <1>3, <1>7, SMTT(60) DEF Oldest
<1>8. Horizon'
  <2>1. Oldest(horizon)' BY <1>0, <1>1, <1>7 DEF Horizon, Oldest
  <2>2. ASSUME NEW r \in Procs, xmin'[r] # Invalid PROVE Oldest(xmin[r])' /\ horizon' <= xmin'[r]
    <3>1. xmin'[r] = xmin[r] BY <1>2, <2>2
    <3>2. Oldest(xmin[r]) /\ horizon <= xmin[r] BY <1>0, <2>2, <3>1 DEF Horizon
    <3>3. PICK m \in Nat : m = xmin[r] BY <1>1
    <3>4. Oldest(m)' BY <1>7, <3>2, <3>3
    <3> QED BY <3>1, <3>2, <3>3, <3>4 DEF Oldest
  <2> QED BY <2>1, <2>2 DEF Horizon
<1>9. ASSUME NEW r \in Procs PROVE Scan(r)' /\ Using(r)' /\ Exact(r)'
  <2>1. Scan(r)' BY <1>4 DEF Scan
  <2>2. Using(r) /\ Exact(r) BY <1>0
  <2>3. CASE snap[r] = NoSnap BY <2>1, <2>3 DEF Using, Exact, HasSnapshot
  <2>4. CASE snap[r] # NoSnap
    <3>1. r # q /\ pc'[r] = pc[r] /\ xmin'[r] = xmin[r] BY <1>2, <2>4
    <3>2. HasSnapshot(r)' <=> HasSnapshot(r) BY <3>1 DEF HasSnapshot
    <3> QED BY <2>1, <2>2, <3>1, <3>2 DEF Using, Exact
  <2> QED BY <2>3, <2>4
<1> QED BY <1>6, <1>8, <1>9 DEF SnapInv

\* ProcArrayEndTransactionInternal under the lock of the backend itself keeps the invariant.
LEMMA ClearKeepsSnap ==
    ASSUME SnapInv, GroupInv', NEW p \in Procs, ClearOwn(p)
    PROVE  SnapInv'
<1>0. /\ PATypeOK /\ Mutex /\ Control(p) /\ Using(p) BY DEF SnapInv, GroupInv
<1>1. /\ pc[p] = "clear" /\ EndInternal(p) /\ pc' = [pc EXCEPT ![p] = "idle"]
      /\ UNCHANGED <<nextXid, xidGenLock, newXid, todo, entry, snap, globalxmin, horizon>>
  BY DEF ClearOwn, Goto, scanning
<1>2. pc'[p] = "idle" /\ \A r \in Procs \ {p} : pc'[r] = pc[r] BY <1>0, <1>1 DEF PATypeOK
<1>3. procArrayExcl = p /\ xid[p] # Invalid /\ snap[p] = NoSnap BY <1>0, <1>1 DEF Mutex, Control, Using
<1> QED BY <1>1, <1>2, <1>3, EndKeepsSnap

\* The leader ends the transaction of another, who is asleep.
LEMMA WalkKeepsSnap ==
    ASSUME SnapInv, GroupInv', NEW p \in Procs, LeaderWalk(p), nextidx[p] # NULL
    PROVE  SnapInv'
<1>0. /\ PATypeOK /\ Mutex /\ PATypeOK' /\ \A r \in Procs : Control(r) /\ Unlinking(r) /\ Using(r)
  BY DEF SnapInv, GroupInv
<1>1. PICK own, rank : Lists(own, rank) BY DEF SnapInv, GroupInv
<1>2. PICK q \in Procs : q = nextidx[p] BY <1>0 DEF PATypeOK
<1>3. Linked(q) /\ xid[q] # Invalid BY <1>0, <1>1, <1>2, ListsWalk
<1>4. /\ pc[p] = "walk" /\ EndInternal(q) /\ pc' = pc
      /\ UNCHANGED <<nextXid, xidGenLock, newXid, todo, entry, snap, globalxmin, horizon>>
  BY <1>2, WalkEffect DEF scanning
<1>5. pc[q] \notin {"idle", "run", "gen", "scan", "xid", "clear"}
  BY <1>0, <1>3 DEF Linked, Entered, Control
<1>6. snap[q] = NoSnap BY <1>0, <1>5 DEF Using
<1>7. procArrayExcl = p BY <1>0, <1>4 DEF Mutex
<1> QED BY <1>3, <1>4, <1>5, <1>6, <1>7, EndKeepsSnap

-----------------------------------------------------------------------------
(* Every step *)

\* Every action keeps the invariant.
LEMMA SnapStep ==
    ASSUME SnapInv, NEW p \in Procs, Action(p)
    PROVE  SnapInv'
<1>0. GroupInv BY DEF SnapInv
<1>1. GroupInv' BY <1>0, GroupStep
<1>2. CASE \/ StartTransaction(p) \/ GroupRead(p) \/ GroupCas(p) \/ (GroupSleep(p) /\ ~groupMember[p])
           \/ LeaderLock(p) \/ LeaderTake(p) \/ (LeaderWalk(p) /\ nextidx[p] = NULL)
           \/ LeaderWake(p) \/ LeaderMember(p) \/ LeaderPost(p)
  <2>1. Elsewhere(p) BY <1>2, ElsewhereSteps
  <2> QED BY <1>1, <2>1, ElsewhereKeeps
<1>3. CASE (GroupSleep(p) /\ groupMember[p]) \/ ForeignPost(p) \/ ForeignTake(p)
  BY <1>1, <1>3, SemOnly
<1>4. CASE TakeXid(p) BY <1>1, <1>4, TakeKeepsSnap
<1>5. CASE StoreXid(p) BY <1>1, <1>5, StoreKeepsSnap
<1>6. CASE SnapshotLock(p) BY <1>1, <1>6, LockKeepsSnap
<1>7. CASE SnapshotXmin(p) BY <1>1, <1>7, XminKeepsSnap
<1>8. CASE SnapshotXid(p) BY <1>1, <1>8, XidKeepsSnap
<1>9. CASE SnapshotDone(p) BY <1>1, <1>9, DoneKeepsSnap
<1>10. CASE EndReadOnly(p) \/ EndTransaction(p) BY <1>1, <1>10, LeaveKeepsSnap
<1>11. CASE ClearOwn(p) BY <1>1, <1>11, ClearKeepsSnap
<1>12. CASE LeaderWalk(p) /\ nextidx[p] # NULL BY <1>1, <1>12, WalkKeepsSnap
<1> QED BY <1>2, <1>3, <1>4, <1>5, <1>6, <1>7, <1>8, <1>9, <1>10, <1>11, <1>12, Zenon DEF Action, Step

\* The invariant holds at first.
LEMMA SnapInit == Init => SnapInv
<1> SUFFICES ASSUME Init PROVE SnapInv OBVIOUS
<1>1. GroupInv BY GroupInit
<1>2. \A p \in Procs : pc[p] = "idle" /\ xid[p] = Invalid /\ xmin[p] = Invalid /\ snap[p] = NoSnap
  BY DEF Init
<1>3. nextXid = 1 /\ latestCompletedXid = 0 /\ ended = {} /\ horizon = 0 /\ xidGenLock = NULL
  BY DEF Init
<1>4. Assigned BY <1>2, <1>3 DEF Assigned, Invalid
<1>5. Horizon BY <1>2, <1>3 DEF Horizon, Oldest
<1>6. \A p \in Procs : Scan(p) /\ Using(p) /\ Exact(p)
  BY <1>2 DEF Scan, Using, Exact, HasSnapshot
<1> QED BY <1>1, <1>4, <1>5, <1>6 DEF SnapInv

\* The invariant depends on nothing but the variables of the module.
LEMMA SnapStutter == SnapInv /\ UNCHANGED vars => SnapInv'
<1> SUFFICES ASSUME SnapInv, UNCHANGED vars PROVE SnapInv' OBVIOUS
<1>1. GroupInv' BY GroupStutter DEF SnapInv
<1> USE DEF vars, cache, locks, scanning
<1>2. Assigned' /\ Horizon' BY DEF SnapInv, Assigned, Horizon, Oldest
<1>3. \A p \in Procs : Scan(p)' BY SMTT(60) DEF SnapInv, Scan, Scanned, Current
<1>4. \A p \in Procs : Using(p)' /\ Exact(p)' BY DEF SnapInv, Using, Exact, HasSnapshot
<1> QED BY <1>1, <1>2, <1>3, <1>4 DEF SnapInv

\* GetNewTransactionId, GetSnapshotData and ProcArrayEndTransaction, by oneself or
\* by a leader, keep the account of the transaction ids.
THEOREM SnapInvariance == Spec => []SnapInv
<1>1. Init => SnapInv BY SnapInit
<1>2. SnapInv /\ [Next]_vars => SnapInv' BY SnapStep, SnapStutter, NextActions
<1> QED BY <1>1, <1>2, PTL DEF Spec

\* The snapshot that GetSnapshotData returns treats as finished exactly the
\* transactions that had ended when it was begun.
THEOREM SnapshotsExact == Spec => []SnapshotExact
<1>1. SnapInv => SnapshotExact BY Zenon DEF SnapInv, Exact, SnapshotExact
<1> QED BY <1>1, SnapInvariance, PTL

\* Every id up to latestCompletedXid has ended or is advertised in the ProcArray,
\* because GetNewTransactionId stores it before it releases XidGenLock.
THEOREM RunningAdvertised == Spec => []ActiveAdvertised
<1>1. SnapInv => ActiveAdvertised
  <2> SUFFICES ASSUME SnapInv, NEW x \in 1 .. latestCompletedXid
               PROVE  x \in ended \/ \E p \in Procs : xid[p] = x
    BY DEF ActiveAdvertised
  <2>0. PATypeOK /\ Assigned BY DEF SnapInv, GroupInv
  <2>1. latestCompletedXid \in Nat /\ nextXid \in Nat /\ \A p \in Procs : newXid[p] \in Nat
    BY <2>0, SnapTypes
  <2>2. x \in 1 .. nextXid - 1 BY <2>0, <2>1, SMTT(60) DEF Assigned
  <2>3. ~\E p \in Procs : pc[p] = "gen" /\ newXid[p] = x BY <2>0, <2>1, SMTT(60) DEF Assigned
  <2> QED BY <2>0, <2>2, <2>3 DEF Assigned
<1> QED BY <1>1, SnapInvariance, PTL

\* No RecentGlobalXmin that a GetSnapshotData computes is newer than an xmin that a
\* backend advertises, whatever is stored while it scans, and every snapshot in use
\* is covered by its backend's xmin.
THEOREM HorizonsSafe == Spec => []HorizonSafe
<1>1. SnapInv => HorizonSafe BY DEF SnapInv, Horizon, Using, HorizonSafe
<1> QED BY <1>1, SnapInvariance, PTL
====
