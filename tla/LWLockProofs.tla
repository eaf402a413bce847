---------------------------- MODULE LWLockProofs ----------------------------
(***************************************************************************)
(* What lwlock.c guarantees for any number of backends and locks: mutual   *)
(* exclusion, exact lock words, the abstract lock of module RWLock, and    *)
(* wait lists that are protected and announced.                            *)
(*                                                                         *)
(* The inductive invariant IInv has three parts: the type invariant; the   *)
(* shape of a call in progress (which routine a backend is in, given the   *)
(* step it is at); and the two forms the word of a lock may have (no       *)
(* exclusive owner and one count per shared owner, or a single exclusive   *)
(* owner).  The type invariant needs the other two: LWLockRelease keeps    *)
(* the count a natural number only because a holder has been counted.      *)
(***************************************************************************)
EXTENDS LWLockAbstract, FiniteSetTheorems, SequenceTheorems, TLAPS

USE ZenonT(10), SMTT(60)

WaitFns == AcquireFns \cup {"LWLockWaitForVar"}

\* The steps of the acquiring and waiting routines.
WaitPCs == {"attempt", "qLock", "qFlag", "qPush", "sleep", "retry", "dqLock", "dqBody",
            "dqRelOk", "dqSleep", "return", "vRead", "vLock", "vVal", "vRelOk"}
DonePCs == {"dqLock", "dqBody", "dqRelOk", "dqSleep", "return"}
VarPCs == {"vRead", "vLock", "vVal", "vRelOk"}

CallShape(p) ==
    /\ pc[p] \in WaitPCs <=> call[p].fn \in WaitFns
    /\ pc[p] \in WaitPCs => held[p][call[p].lock] = NotHeld
    /\ pc[p] \in {"attempt", "retry"} => call[p].fn \in AcquireFns
    /\ pc[p] \in VarPCs => call[p].fn = "LWLockWaitForVar"
    /\ result[p] => pc[p] \in DonePCs
    /\ pc[p] \in {"wake", "clear", "post"} => wakeup[p] # <<>>

WordShape(l) ==
    \/ /\ Owners(l, LW_EXCLUSIVE) = {}
       /\ count[l] = Cardinality(Owners(l, LW_SHARED))
    \/ /\ \E p \in Procs : Owners(l, LW_EXCLUSIVE) = {p}
       /\ Owners(l, LW_SHARED) = {}
       /\ count[l] = LW_VAL_EXCLUSIVE

IInv == /\ TypeOK
        /\ \A p \in Procs : CallShape(p)
        /\ \A l \in Locks : WordShape(l)
----------------------------------------------------------------------------
(* Lemmas about the operators *)

\* The default arguments of an idle backend are well typed.
LEMMA NoCallType ==
    /\ AnyLock \in Locks /\ AnyVal \in Vals
    /\ NoCall \in [fn : Fns, lock : Locks, mode : Modes, val : Vals]
    /\ NoCall.fn = "LWLockRelease"
<1>1. AnyLock \in Locks BY LWLockAssumption DEF AnyLock
<1>2. AnyVal \in Vals BY LWLockAssumption DEF AnyVal
<1> QED BY <1>1, <1>2 DEF NoCall, Call, Fns, Modes, LW_SHARED

\* What LWLockAttemptLock and LWLockRelease read from a word that holds fewer
\* than LW_VAL_EXCLUSIVE shared counts, or the exclusive bit alone.
LEMMA WordBits ==
    /\ LW_VAL_EXCLUSIVE \in Nat \ {0}
    /\ \A c \in 0..(LW_VAL_EXCLUSIVE - 1) : ~ExclusiveBit(c) /\ (IsFree(c) <=> c = 0)
    /\ ExclusiveBit(LW_VAL_EXCLUSIVE) /\ ~IsFree(LW_VAL_EXCLUSIVE)
<1> DEFINE V == LW_VAL_EXCLUSIVE
<1>1. V \in Nat \ {0}
  <2>1. Cardinality(Procs) \in Nat BY LWLockAssumption, FS_CardinalityType
  <2> QED BY <2>1, LWLockAssumption
<1>2. ASSUME NEW c \in 0..(V - 1) PROVE ~ExclusiveBit(c) /\ (IsFree(c) <=> c = 0)
  BY <1>1, <1>2 DEF ExclusiveBit, IsFree
<1>3. ExclusiveBit(V) /\ ~IsFree(V)
  BY <1>1 DEF ExclusiveBit, IsFree
<1> QED BY <1>1, <1>2, <1>3

\* The owners of a lock are finitely many, fewer than LW_VAL_EXCLUSIVE.
LEMMA OwnersFinite ==
    ASSUME NEW l, NEW mode
    PROVE  /\ IsFiniteSet(Owners(l, mode))
           /\ Cardinality(Owners(l, mode)) \in 0..(LW_VAL_EXCLUSIVE - 1)
<1>1. Owners(l, mode) \subseteq Procs BY DEF Owners
<1>2. /\ IsFiniteSet(Owners(l, mode))
      /\ Cardinality(Owners(l, mode)) <= Cardinality(Procs)
  BY <1>1, LWLockAssumption, FS_Subset
<1>3. Cardinality(Owners(l, mode)) \in Nat /\ Cardinality(Procs) \in Nat
  BY <1>2, LWLockAssumption, FS_CardinalityType
<1> QED BY <1>2, <1>3, LWLockAssumption

\* Taking an element out of a wait list leaves a wait list.
LEMMA DeleteType ==
    ASSUME NEW S, NEW s \in Seq(S), NEW i \in 1..Len(s)
    PROVE  proclist_delete(s, i) \in Seq(S)
<1>1. SubSeq(s, 1, i-1) \in Seq(S)
  BY SubSeqProperties, LenProperties, ElementOfSeq, SMTT(60)
<1>2. SubSeq(s, i+1, Len(s)) \in Seq(S)
  BY SubSeqProperties, LenProperties, ElementOfSeq, SMTT(60)
<1> QED BY <1>1, <1>2, ConcatProperties DEF proclist_delete
\* A wakeup list of more than one waiter goes on.
LEMMA LongTail ==
    ASSUME NEW S, NEW s \in Seq(S), Len(s) > 1
    PROVE  Tail(s) # <<>>
<1>1. Len(s) \in Nat BY LenProperties
<1>2. s # <<>> OBVIOUS
<1>3. Len(Tail(s)) = Len(s) - 1 BY <1>2, HeadTailProperties
<1>4. \A n \in Nat : n > 1 => n - 1 # 0 OBVIOUS
<1>5. Len(<<>>) = 0 OBVIOUS
<1> QED BY <1>1, <1>3, <1>4, <1>5, Zenon
----------------------------------------------------------------------------
(* Type correctness *)

\* A holder's share of the word can be subtracted.
LEMMA HolderCounted ==
    ASSUME IInv, NEW p \in Procs, NEW l \in Locks, held[p][l] # NotHeld
    PROVE  /\ held[p][l] \in Modes
           /\ SubFetch(count[l], held[p][l]) \in Nat
<1>1. held[p][l] \in Modes BY SMTT(60) DEF IInv, TypeOK
<1>2. p \in Owners(l, held[p][l]) BY DEF Owners, Owns
<1>3. CASE held[p][l] = LW_EXCLUSIVE
  <2>1. count[l] = LW_VAL_EXCLUSIVE BY <1>2, <1>3 DEF IInv, WordShape
  <2> QED BY <1>1, <1>3, <2>1, WordBits DEF SubFetch, LockValue
<1>4. CASE held[p][l] = LW_SHARED
  <2>1. count[l] = Cardinality(Owners(l, LW_SHARED)) BY <1>2, <1>4 DEF IInv, WordShape
  <2>2. Cardinality(Owners(l, LW_SHARED)) # 0
    BY <1>2, <1>4, OwnersFinite, FS_EmptySet
  <2>3. count[l] \in Nat /\ count[l] # 0 BY <2>1, <2>2, OwnersFinite
  <2> QED BY <1>1, <1>4, <2>3 DEF SubFetch, LockValue, LW_SHARED, LW_EXCLUSIVE
<1> QED BY <1>1, <1>3, <1>4 DEF Modes

\* LWLockRelease, from any of its callers.
LEMMA ReleaseType ==
    ASSUME IInv, NEW p \in Procs, NEW l \in Locks, NEW fn \in Fns, Release(p, l, fn)
    PROVE  TypeOK'
<1>1. SubFetch(count[l], held[p][l]) \in Nat BY HolderCounted DEF Release
<1>2. count' \in [Locks -> Nat] BY <1>1 DEF Release, IInv, TypeOK
<1>3. held' \in [Procs -> [Locks -> Modes \cup {NotHeld}]] BY DEF Release, IInv, TypeOK
<1>4. pc' \in [Procs -> PCs] BY DEF Release, IInv, TypeOK, PCs
<1>5. call' \in [Procs -> [fn : Fns, lock : Locks, mode : Modes, val : Vals]]
  BY NoCallType DEF Release, IInv, TypeOK, Call, Modes
<1>6. freed' \in [Procs -> BOOLEAN] BY DEF Release, IInv, TypeOK
<1> QED BY <1>2, <1>3, <1>4, <1>5, <1>6, Zenon DEF Release, IInv, TypeOK

\* The end of a release or an update.
LEMMA FinishType ==
    ASSUME TypeOK, NEW p \in Procs, Finish(p)
    PROVE  /\ pc' \in [Procs -> PCs]
           /\ call' \in [Procs -> [fn : Fns, lock : Locks, mode : Modes, val : Vals]]
<1>1. pc' \in [Procs -> PCs] BY ZenonT(60) DEF Finish, TypeOK, PCs
<1>2. call' \in [Procs -> [fn : Fns, lock : Locks, mode : Modes, val : Vals]]
  BY NoCallType, Zenon DEF Finish, TypeOK
<1> QED BY <1>1, <1>2

\* Every step of a backend inside the LWLock routines preserves the types.
LEMMA StepType ==
    ASSUME IInv, NEW p \in Procs, Step(p)
    PROVE  TypeOK'
<1> DEFINE l == call[p].lock
<1>t. TypeOK /\ CallShape(p) BY DEF IInv
<1>l. /\ l \in Locks /\ call[p].fn \in Fns /\ call[p].mode \in Modes /\ call[p].val \in Vals
      /\ waiters[l] \in Seq(Procs) /\ wakeup[p] \in Seq(Procs)
  BY <1>t DEF TypeOK
<1>1. CASE AttemptLock(p)
  <2>1. LockValue(call[p].mode) \in Nat BY LWLockAssumption DEF LockValue
  <2>2. count' \in [Locks -> Nat]
    <3>1. count[l] + LockValue(call[p].mode) \in Nat BY <1>t, <1>l, <2>1, SMTT(60) DEF TypeOK
    <3>2. count' = [count EXCEPT ![l] = count[l] + LockValue(call[p].mode)] \/ count' = count
      BY <1>1 DEF AttemptLock
    <3> QED BY <1>t, <3>1, <3>2, ZenonT(60) DEF TypeOK
  <2>3. pc' \in [Procs -> PCs]
    <3>1. \/ pc' = [pc EXCEPT ![p] = "dqLock"] \/ pc' = [pc EXCEPT ![p] = "return"]
          \/ pc' = [pc EXCEPT ![p] = "sleep"] \/ pc' = [pc EXCEPT ![p] = "qLock"]
      BY <1>1, SMTT(60) DEF AttemptLock
    <3>2. pc \in [Procs -> PCs] BY <1>t DEF TypeOK
    <3> QED BY <3>1, <3>2, SMTT(60) DEF PCs
  <2>4. result' \in [Procs -> BOOLEAN] /\ freed' \in [Procs -> BOOLEAN]
    BY <1>1, <1>t, Zenon DEF AttemptLock, TypeOK
  <2> QED BY <1>1, <1>t, <2>2, <2>3, <2>4, SMTT(60) DEF AttemptLock, TypeOK
<1>2. CASE WaitListLock(p)
  <2>1. pc' \in [Procs -> PCs] BY <1>2, <1>t DEF WaitListLock, TypeOK
  <2> QED BY <1>2, <1>t, <1>l, <2>1, SMTT(60) DEF WaitListLock, TypeOK
<1>3. CASE QueueSelfFlag(p)
  BY <1>3, <1>t DEF QueueSelfFlag, TypeOK, PCs
<1>4. CASE QueueSelfPush(p)
  <2>1. Append(waiters[l], p) \in Seq(Procs) /\ <<p>> \o waiters[l] \in Seq(Procs)
    BY <1>l
  <2>2. waiters' \in [Locks -> Seq(Procs)] BY <1>4, <1>t, <1>l, <2>1 DEF QueueSelfPush, TypeOK
  <2>3. QueueMode(p) \in Modes \cup {LW_WAIT_UNTIL_FREE} BY <1>l DEF QueueMode
  <2>4. lwWaitMode' \in [Procs -> Modes \cup {LW_WAIT_UNTIL_FREE}]
    BY <1>4, <1>t, <2>3 DEF QueueSelfPush, TypeOK
  <2>5. pc' \in [Procs -> PCs] BY <1>4, <1>t DEF QueueSelfPush, TypeOK, AfterQueue, PCs
  <2> QED BY <1>4, <1>t, <2>2, <2>4, <2>5 DEF QueueSelfPush, TypeOK
<1>5. CASE Sleep(p)
  <2>1. sem' \in [Procs -> Nat] BY <1>5, <1>t, SMTT(60) DEF Sleep, TypeOK
  <2>2. /\ extraWaits' \in [Procs -> Nat] /\ queued' \in [Procs -> BOOLEAN]
        /\ pc' \in [Procs -> PCs]
    <3>1. CASE StillWaiting(p)
      <4>1. /\ extraWaits' = [extraWaits EXCEPT ![p] = extraWaits[p] + 1]
            /\ pc' = pc /\ queued' = queued
        BY <1>5, <3>1 DEF Sleep
      <4> QED BY <4>1, <1>t, SMTT(60) DEF TypeOK
    <3>2. CASE ~StillWaiting(p)
      <4>1. /\ pc' = [pc EXCEPT ![p] = AfterSleep(p)]
            /\ queued' = [queued EXCEPT ![p] = FALSE] /\ extraWaits' = extraWaits
        BY <1>5, <3>2 DEF Sleep
      <4>2. AfterSleep(p) \in PCs BY DEF AfterSleep, PCs
      <4> QED BY <4>1, <4>2, <1>t DEF TypeOK
    <3> QED BY <3>1, <3>2
  <2> QED BY <1>5, <1>t, <2>1, <2>2, SMTT(60) DEF Sleep, TypeOK, word
<1>6. CASE Retry(p)
  BY <1>6, <1>t, ZenonT(60) DEF Retry, TypeOK, PCs
<1>7. CASE DequeueSelf(p)
  <2> DEFINE mine == {i \in DOMAIN waiters[l] : waiters[l][i] = p}
             rest == IF mine # {} THEN proclist_delete(waiters[l], CHOOSE i \in mine : TRUE)
                                  ELSE waiters[l]
  <2>1. rest \in Seq(Procs)
    <3>1. CASE mine # {}
      <4>1. (CHOOSE i \in mine : TRUE) \in 1..Len(waiters[l])
        BY <3>1, <1>l, LenProperties, SMTT(60)
      <4> QED BY <3>1, <4>1, <1>l, DeleteType
    <3> QED BY <3>1, <1>l
  <2>2. waiters' = [waiters EXCEPT ![l] = rest] BY <1>7 DEF DequeueSelf
  <2>3. waiters' \in [Locks -> Seq(Procs)]
    <3> HIDE DEF rest
    <3> QED BY <1>t, <2>1, <2>2, SMTT(60) DEF TypeOK
  <2>4. hasWaiters' \in [Locks -> BOOLEAN]
    <3>1. hasWaiters' = [hasWaiters EXCEPT ![l] = FlagAfterDequeue(@, rest)]
      BY <1>7 DEF DequeueSelf
    <3>2. FlagAfterDequeue(hasWaiters[l], rest) \in BOOLEAN BY DEF FlagAfterDequeue
    <3>3. hasWaiters \in [Locks -> BOOLEAN] BY <1>t DEF TypeOK
    <3> HIDE DEF rest
    <3> QED BY <3>1, <3>2, <3>3, <1>l, Zenon
  <2>5. lwWaiting' \in [Procs -> BOOLEAN] /\ queued' \in [Procs -> BOOLEAN]
    <3>1. /\ lwWaiting' = [lwWaiting EXCEPT ![p] = @ /\ ~(mine # {})]
          /\ queued' = [queued EXCEPT ![p] = ~(mine # {})]
      BY <1>7 DEF DequeueSelf
    <3>2. lwWaiting \in [Procs -> BOOLEAN] /\ queued \in [Procs -> BOOLEAN]
      BY <1>t DEF TypeOK
    <3> HIDE DEF mine
    <3> QED BY <3>1, <3>2, SMTT(60)
  <2>6. pc' \in [Procs -> PCs] BY <1>7, <1>t DEF DequeueSelf, TypeOK, PCs
  <2> QED BY <1>7, <1>t, <2>3, <2>4, <2>5, <2>6, Zenon DEF DequeueSelf, TypeOK
<1>8. CASE DequeueSelfReleaseOk(p)
  BY <1>8, <1>t, Zenon DEF DequeueSelfReleaseOk, TypeOK, PCs
<1>9. CASE Return(p)
  <2>1. held' \in [Procs -> [Locks -> Modes \cup {NotHeld}]]
    BY <1>9, <1>t, <1>l, SMTT(60) DEF Return, TypeOK
  <2>2. sem' \in [Procs -> Nat] BY <1>9, <1>t, SMTT(60) DEF Return, TypeOK, GiveBack
  <2>3. call' \in [Procs -> [fn : Fns, lock : Locks, mode : Modes, val : Vals]]
    BY <1>9, <1>t, NoCallType DEF Return, TypeOK
  <2>4. pc' \in [Procs -> PCs] BY <1>9, <1>t DEF Return, TypeOK, PCs
  <2> QED BY <1>9, <1>t, <2>1, <2>2, <2>3, <2>4, Zenon DEF Return, TypeOK, word
<1>10. CASE ReleaseAll(p)
  <2>1. CASE \E k \in Locks : Release(p, k, "LWLockReleaseAll")
    BY <2>1, ReleaseType DEF Fns
  <2>2. CASE UNCHANGED shared /\ HeldLocks(p) = {} /\ pc' = [pc EXCEPT ![p] = "idle"]
             /\ call' = [call EXCEPT ![p] = NoCall]
             /\ UNCHANGED <<held, queued, result, extraWaits, wakeup, scan, foreign, freed>>
    <3>1. call' \in [Procs -> [fn : Fns, lock : Locks, mode : Modes, val : Vals]]
      BY <2>2, <1>t, NoCallType DEF TypeOK
    <3>2. pc' \in [Procs -> PCs] BY <2>2, <1>t DEF TypeOK, PCs
    <3> QED BY <2>2, <3>1, <3>2, <1>t, ZenonT(30) DEF TypeOK, shared, word
  <2> QED BY <1>10, <2>1, <2>2 DEF ReleaseAll
<1>11. CASE WakeupScan(p)
  <2>1. PICK i \in Wakeable(p, l) :
             /\ waiters' = [waiters EXCEPT ![l] = proclist_delete(@, i)]
             /\ wakeup' = [wakeup EXCEPT ![p] = Append(@, waiters[l][i])]
             /\ scan' = [scan EXCEPT ![p] =
                            IF lwWaitMode[waiters[l][i]] = LW_WAIT_UNTIL_FREE
                              THEN @ ELSE lwWaitMode[waiters[l][i]]]
    BY <1>11, Zenon DEF WakeupScan
  <2>2. i \in 1..Len(waiters[l]) BY <1>l, LenProperties DEF Wakeable
  <2>3. waiters[l][i] \in Procs BY <1>l, <2>2, ElementOfSeq
  <2>4. waiters' \in [Locks -> Seq(Procs)]
    BY <1>t, <1>l, <2>1, <2>2, DeleteType, ZenonT(60) DEF TypeOK
  <2>5. wakeup' \in [Procs -> Seq(Procs)]
    BY <1>t, <1>l, <2>1, <2>3, AppendProperties, SMTT(60) DEF TypeOK
  <2>6. scan' \in [Procs -> Modes \cup {LW_WAIT_UNTIL_FREE}]
    BY <1>t, <2>1, <2>3, Zenon DEF TypeOK
  <2> QED BY <1>11, <1>t, <2>4, <2>5, <2>6, ZenonT(60) DEF WakeupScan, TypeOK, word
<1>12. CASE WakeupFlags(p)
  <2>1. /\ pc' \in [Procs -> PCs]
        /\ call' \in [Procs -> [fn : Fns, lock : Locks, mode : Modes, val : Vals]]
    <3>1. CASE Finish(p) BY <3>1, <1>t, FinishType
    <3>2. CASE pc' = [pc EXCEPT ![p] = "wake"] /\ UNCHANGED call
      BY <3>2, <1>t DEF TypeOK, PCs
    <3> QED BY <1>12, <3>1, <3>2 DEF WakeupFlags
  <2>2. /\ releaseOk' \in [Locks -> BOOLEAN] /\ hasWaiters' \in [Locks -> BOOLEAN]
        /\ listLocked' \in [Locks -> BOOLEAN]
    BY <1>12, <1>t DEF WakeupFlags, TypeOK
  <2> QED BY <1>12, <1>t, <2>1, <2>2, Zenon DEF WakeupFlags, TypeOK
<1>13. CASE WakeUnlink(p) \/ WakeClear(p)
  <2>1. CASE WakeUnlink(p) BY <2>1, <1>t, Zenon DEF WakeUnlink, TypeOK, PCs, shared, word
  <2>2. CASE WakeClear(p) BY <2>2, <1>t, Zenon DEF WakeClear, TypeOK, PCs, word
  <2> QED BY <1>13, <2>1, <2>2
<1>14. CASE WakePost(p)
  <2>1. wakeup[p] # <<>> BY <1>14, <1>t DEF WakePost, CallShape
  <2>2. wakeup' \in [Procs -> Seq(Procs)]
    BY <1>14, <1>t, <1>l, <2>1, HeadTailProperties DEF WakePost, TypeOK
  <2>3. sem' \in [Procs -> Nat]
    <3> DEFINE w == Head(wakeup[p])
    <3>1. w \in Procs BY <1>l, <2>1, HeadTailProperties
    <3>2. sem' = [sem EXCEPT ![w] = sem[w] + 1] BY <1>14 DEF WakePost
    <3> HIDE DEF w
    <3> QED BY <1>t, <3>1, <3>2, SMTT(60) DEF TypeOK
  <2>4. /\ pc' \in [Procs -> PCs]
        /\ call' \in [Procs -> [fn : Fns, lock : Locks, mode : Modes, val : Vals]]
    <3>1. CASE Finish(p) BY <3>1, <1>t, FinishType
    <3>2. CASE pc' = [pc EXCEPT ![p] = "wake"] /\ UNCHANGED call
      BY <3>2, <1>t DEF TypeOK, PCs
    <3> QED BY <1>14, <3>1, <3>2, SMTT(60) DEF WakePost
  <2> QED BY <1>14, <1>t, <2>2, <2>3, <2>4, Zenon DEF WakePost, TypeOK, word
<1>15. CASE VarRead(p)
  BY <1>15, <1>t, ZenonT(60) DEF VarRead, TypeOK, PCs, shared, word
<1>16. CASE VarValue(p)
  BY <1>16, <1>t, ZenonT(60) DEF VarValue, TypeOK, PCs
<1>17. CASE VarReleaseOk(p)
  BY <1>17, <1>t, Zenon DEF VarReleaseOk, TypeOK, PCs
<1>18. CASE UpdateVar(p)
  <2>1. PICK n \in 0..Len(waiters[l]) :
             /\ wakeup' = [wakeup EXCEPT ![p] = SubSeq(waiters[l], 1, n)]
             /\ waiters' = [waiters EXCEPT ![l] = SubSeq(@, n + 1, Len(@))]
             /\ IF n > 0 THEN pc' = [pc EXCEPT ![p] = "wake"] /\ UNCHANGED call
                         ELSE Finish(p)
    BY <1>18, Zenon DEF UpdateVar
  <2>2. /\ SubSeq(waiters[l], 1, n) \in Seq(Procs)
        /\ SubSeq(waiters[l], n + 1, Len(waiters[l])) \in Seq(Procs)
    BY <1>l, SubSeqProperties, LenProperties, ElementOfSeq, SMTT(60)
  <2>3. waiters' \in [Locks -> Seq(Procs)] /\ wakeup' \in [Procs -> Seq(Procs)]
    BY <1>t, <2>1, <2>2 DEF TypeOK
  <2>4. /\ pc' \in [Procs -> PCs]
        /\ call' \in [Procs -> [fn : Fns, lock : Locks, mode : Modes, val : Vals]]
    <3>1. CASE Finish(p) BY <3>1, <1>t, FinishType
    <3>2. CASE pc' = [pc EXCEPT ![p] = "wake"] /\ UNCHANGED call
      BY <3>2, <1>t DEF TypeOK, PCs
    <3> QED BY <2>1, <3>1, <3>2
  <2> QED BY <1>18, <1>t, <1>l, <2>3, <2>4, Zenon DEF UpdateVar, TypeOK
<1>19. CASE ClearVar(p)
  BY <1>19, <1>t, <1>l, Zenon DEF ClearVar, TypeOK, PCs
<1>20. CASE ReleaseCleared(p)
  BY <1>20, <1>l, ReleaseType DEF ReleaseCleared, Fns, HolderFns
<1> QED
  BY <1>1, <1>2, <1>3, <1>4, <1>5, <1>6, <1>7, <1>8, <1>9, <1>10, <1>11, <1>12, <1>13,
     <1>14, <1>15, <1>16, <1>17, <1>18, <1>19, <1>20 DEF Step

\* A call either fails with "too many LWLocks taken" or enters its routine.
LEMMA BeginCases ==
    ASSUME TypeOK, NEW p \in Procs, NEW l \in Locks, NEW fn \in WaitFns, NEW mode \in Modes,
           NEW v \in Vals, Begin(p, fn, l, mode, v)
    PROVE  \/ /\ pc' = [pc EXCEPT ![p] = "releaseAll"]
              /\ call' = [call EXCEPT ![p] = Call("LWLockReleaseAll", AnyLock, LW_SHARED, AnyVal)]
           \/ /\ pc' = [pc EXCEPT ![p] = IF fn = "LWLockWaitForVar" THEN "vRead" ELSE "attempt"]
              /\ call' = [call EXCEPT ![p] = Call(fn, l, mode, v)]
<1> DEFINE full == Cardinality(HeldLocks(p)) >= MAX_SIMUL_LWLOCKS
<1>1. IF fn \in AcquireFns /\ full
        THEN /\ pc' = [pc EXCEPT ![p] = "releaseAll"]
             /\ call' = [call EXCEPT ![p] = Call("LWLockReleaseAll", AnyLock, LW_SHARED, AnyVal)]
        ELSE /\ pc' = [pc EXCEPT ![p] = IF fn = "LWLockWaitForVar" THEN "vRead" ELSE "attempt"]
             /\ call' = [call EXCEPT ![p] = Call(fn, l, mode, v)]
  BY DEF Begin
<1> HIDE DEF full
<1> QED BY <1>1

\* A call, an error or a signal of another user preserves the types.
LEMMA CallerType ==
    ASSUME IInv, NEW p \in Procs, Caller(p)
    PROVE  TypeOK'
<1>t. TypeOK BY DEF IInv
<1>1. ASSUME NEW l \in Locks, NEW fn \in WaitFns, NEW mode \in Modes, NEW v \in Vals,
             Begin(p, fn, l, mode, v)
      PROVE  TypeOK'
  <2>0. \/ /\ pc' = [pc EXCEPT ![p] = "releaseAll"]
           /\ call' = [call EXCEPT ![p] = Call("LWLockReleaseAll", AnyLock, LW_SHARED, AnyVal)]
        \/ /\ pc' = [pc EXCEPT ![p] = IF fn = "LWLockWaitForVar" THEN "vRead" ELSE "attempt"]
           /\ call' = [call EXCEPT ![p] = Call(fn, l, mode, v)]
    BY <1>1, <1>t, BeginCases, SMTT(60)
  <2>1. pc' \in [Procs -> PCs] BY <1>t, <2>0, ZenonT(60) DEF TypeOK, PCs
  <2>2. call' \in [Procs -> [fn : Fns, lock : Locks, mode : Modes, val : Vals]]
    <3> DEFINE Calls == [fn : Fns, lock : Locks, mode : Modes, val : Vals]
    <3>1. Call(fn, l, mode, v) \in Calls BY DEF Call, WaitFns, Fns
    <3>2. Call("LWLockReleaseAll", AnyLock, LW_SHARED, AnyVal) \in Calls
      BY NoCallType DEF Call, Fns, Modes
    <3>3. call \in [Procs -> Calls] BY <1>t DEF TypeOK
    <3> HIDE DEF Calls
    <3>4. call' \in [Procs -> Calls] BY <2>0, <3>1, <3>2, <3>3
    <3> QED BY <3>4 DEF Calls
  <2> QED BY <1>1, <1>t, <2>1, <2>2, Zenon DEF Begin, TypeOK, shared, word
<1>2. ASSUME NEW l \in Locks, NEW fn \in HolderFns, NEW v \in Vals, BeginHolder(p, fn, l, v)
      PROVE  TypeOK'
  <2>1. pc' \in [Procs -> PCs] BY <1>2, <1>t DEF BeginHolder, TypeOK, PCs
  <2>2. call' \in [Procs -> [fn : Fns, lock : Locks, mode : Modes, val : Vals]]
    BY <1>2, <1>t, SMTT(60) DEF BeginHolder, TypeOK, Call, Fns, Modes, LW_SHARED
  <2> QED BY <1>2, <1>t, <2>1, <2>2, ZenonT(60) DEF BeginHolder, TypeOK, shared, word
<1>3. CASE RaiseError(p)
  <2>1. pc' \in [Procs -> PCs] BY <1>3, <1>t DEF RaiseError, TypeOK, PCs
  <2>2. call' \in [Procs -> [fn : Fns, lock : Locks, mode : Modes, val : Vals]]
    BY <1>3, <1>t, NoCallType DEF RaiseError, TypeOK, Call, Fns, Modes, LW_SHARED
  <2> QED BY <1>3, <1>t, <2>1, <2>2, ZenonT(60) DEF RaiseError, TypeOK, shared, word
<1>4. CASE ReleaseOne(p)
  BY <1>4, ReleaseType DEF ReleaseOne, Fns
<1>5. CASE ForeignPost(p) \/ ForeignTake(p)
  <2>1. sem' \in [Procs -> Nat] /\ foreign' \in [Procs -> Nat]
    <3>1. CASE ForeignPost(p) BY <3>1, <1>t, SMTT(60) DEF ForeignPost, TypeOK
    <3>2. CASE ForeignTake(p) BY <3>2, <1>t, SMTT(60) DEF ForeignTake, TypeOK
    <3> QED BY <1>5, <3>1, <3>2
  <2> QED BY <1>5, <1>t, <2>1, ZenonT(60) DEF ForeignPost, ForeignTake, TypeOK, word
<1> QED
  BY <1>1, <1>2, <1>3, <1>4, <1>5, NoCallType, LWLockAssumption, Zenon
  DEF Caller, WaitFns, HolderFns, Modes, LW_SHARED

----------------------------------------------------------------------------
(* The shape of a call *)

\* LWLockRelease ends or goes on to LWLockWakeup; it is never called from within
\* an acquiring routine.
LEMMA ReleaseShape ==
    ASSUME IInv, NEW p \in Procs, NEW l \in Locks, NEW fn \in Fns \ WaitFns,
           pc[p] \notin WaitPCs, Release(p, l, fn), NEW q \in Procs
    PROVE  CallShape(q)'
<1>1. CASE q # p BY <1>1 DEF Release, IInv, TypeOK, CallShape
<1>2. CASE q = p
  <2>1. ~result[p] BY DEF IInv, CallShape, DonePCs, WaitPCs
  <2>2. call'[p].fn \in Fns \ WaitFns
    BY NoCallType, Zenon DEF Release, IInv, TypeOK, Call, Fns, WaitFns, AcquireFns
  <2>3. pc'[p] \in {"wLock", "releaseAll", "idle"} BY DEF Release, IInv, TypeOK
  <2> QED BY <1>2, <2>1, <2>2, <2>3
          DEF Release, CallShape, WaitPCs, VarPCs, DonePCs
<1> QED BY <1>1, <1>2

\* So does every other end of a release or an update.
LEMMA FinishShape ==
    ASSUME IInv, NEW p \in Procs, pc[p] \notin WaitPCs, Finish(p),
           result' = result, held' = held, wakeup'[p] \in Seq(Procs)
    PROVE  CallShape(p)'
<1>1. ~result[p] BY DEF IInv, CallShape, DonePCs, WaitPCs
<1>2. call[p].fn \notin WaitFns BY DEF IInv, CallShape
<1>3. pc'[p] \in {"releaseAll", "idle"} BY SMTT(60) DEF Finish, IInv, TypeOK
<1>4. call'[p].fn \notin WaitFns
  BY <1>2, NoCallType DEF Finish, IInv, TypeOK, WaitFns, AcquireFns
<1> QED BY <1>1, <1>3, <1>4 DEF CallShape, WaitPCs, VarPCs, DonePCs

\* A step that changes only its own backend's call leaves the others' in shape.
LEMMA OtherShape ==
    ASSUME IInv, NEW p \in Procs, NEW q \in Procs \ {p},
           pc'[q] = pc[q], call'[q] = call[q], held'[q] = held[q],
           result'[q] = result[q], wakeup'[q] = wakeup[q]
    PROVE  CallShape(q)'
BY DEF IInv, CallShape

\* A backend outside the acquiring and waiting routines that wakes nobody is in shape.
LEMMA QuietShape ==
    ASSUME NEW p \in Procs, pc'[p] \notin WaitPCs \cup {"wake", "clear", "post"},
           call'[p].fn \notin WaitFns, ~result'[p]
    PROVE  CallShape(p)'
<1>1. pc'[p] \notin {"attempt", "retry"} /\ pc'[p] \notin VarPCs BY DEF WaitPCs, VarPCs
<1> QED BY <1>1 DEF CallShape

\* Every step of a backend inside the LWLock routines keeps all calls in shape.
LEMMA StepShape ==
    ASSUME IInv, NEW p \in Procs, Step(p), NEW q \in Procs
    PROVE  CallShape(q)'
<1> DEFINE l == call[p].lock
<1>t. TypeOK /\ CallShape(p) BY DEF IInv
<1>l. l \in Locks /\ call[p].fn \in Fns /\ waiters[l] \in Seq(Procs) /\ wakeup[p] \in Seq(Procs)
  BY <1>t DEF TypeOK
<1>o. CASE q # p /\ ~ReleaseAll(p) /\ ~ReleaseCleared(p)
  <2>1. pc'[q] = pc[q] /\ call'[q] = call[q]
    <3>1. CASE WakeupFlags(p) \/ WakePost(p) \/ UpdateVar(p)
      <4>1. Finish(p) \/ (pc' = [pc EXCEPT ![p] = "wake"] /\ call' = call)
        BY <3>1 DEF WakeupFlags, WakePost, UpdateVar
      <4> QED BY <4>1, <1>o, <1>t, SMTT(60) DEF Finish, TypeOK
    <3>2. CASE WaitListLock(p) BY <3>2, <1>o, <1>t DEF WaitListLock, TypeOK
    <3>3. CASE DequeueSelf(p) BY <3>3, <1>o, <1>t, SMTT(60) DEF DequeueSelf, TypeOK
    <3>4. CASE AttemptLock(p) \/ QueueSelfFlag(p) \/ QueueSelfPush(p) \/ Sleep(p) \/ Retry(p)
      BY <3>4, <1>o, <1>t, SMTT(60) DEF AttemptLock, QueueSelfFlag, QueueSelfPush, Sleep, Retry, TypeOK
    <3>5. CASE DequeueSelfReleaseOk(p) \/ Return(p) \/ WakeupScan(p) \/ WakeUnlink(p) \/ WakeClear(p)
      BY <3>5, <1>o, <1>t, ZenonT(60)
      DEF DequeueSelfReleaseOk, Return, WakeupScan, WakeUnlink, WakeClear, TypeOK
    <3>6. CASE VarRead(p) \/ VarValue(p) \/ VarReleaseOk(p) \/ ClearVar(p)
      BY <3>6, <1>o, <1>t DEF VarRead, VarValue, VarReleaseOk, ClearVar, TypeOK
    <3> QED BY <1>o, <3>1, <3>2, <3>3, <3>4, <3>5, <3>6 DEF Step
  <2>2. result'[q] = result[q] /\ wakeup'[q] = wakeup[q]
    BY <1>o, <1>t, ZenonT(60) DEF Step, TypeOK, AttemptLock, WaitListLock, QueueSelfFlag, QueueSelfPush,
       Sleep, Retry, DequeueSelf, DequeueSelfReleaseOk, Return, WakeupScan, WakeupFlags,
       WakeUnlink, WakeClear, WakePost, VarRead, VarValue, VarReleaseOk, UpdateVar, ClearVar
  <2>3. held'[q] = held[q]
    BY <1>o, <1>t, ZenonT(60) DEF Step, TypeOK, AttemptLock, WaitListLock, QueueSelfFlag, QueueSelfPush,
       Sleep, Retry, DequeueSelf, DequeueSelfReleaseOk, Return, WakeupScan, WakeupFlags,
       WakeUnlink, WakeClear, WakePost, VarRead, VarValue, VarReleaseOk, UpdateVar, ClearVar
  <2> QED BY <1>o, <2>1, <2>2, <2>3, OtherShape
<1>1. CASE q = p /\ AttemptLock(p)
  <2>0. p \in DOMAIN pc /\ p \in DOMAIN result BY <1>t DEF TypeOK
  <2>1. UNCHANGED <<held, call, wakeup>> /\ pc[p] = "attempt" BY <1>1 DEF AttemptLock
  <2>2. \/ result'[p] /\ pc'[p] \in {"dqLock", "return"}
        \/ result' = result /\ pc'[p] \in {"return", "sleep", "qLock"}
    BY <1>1, <2>0, SMTT(60) DEF AttemptLock
  <2> QED BY <1>1, <1>t, <2>1, <2>2, SMTT(60) DEF CallShape, WaitPCs, VarPCs, DonePCs, WaitFns
<1>2. CASE q = p /\ WaitListLock(p)
  <2>1. PICK b \in PCs : <<pc[p], b>> \in Section /\ pc' = [pc EXCEPT ![p] = b]
    BY <1>2, Zenon DEF WaitListLock
  <2> QED BY <1>2, <1>t, <1>l, <2>1
          DEF WaitListLock, Section, TypeOK, CallShape, WaitPCs, VarPCs, DonePCs, WaitFns
<1>3. CASE q = p /\ (QueueSelfFlag(p) \/ QueueSelfPush(p))
  <2>0. p \in DOMAIN pc BY <1>t DEF TypeOK
  <2>1. UNCHANGED <<held, call, wakeup, result>> BY <1>3 DEF QueueSelfFlag, QueueSelfPush
  <2>2. \/ pc[p] = "qFlag" /\ pc'[p] = "qPush"
        \/ pc[p] = "qPush" /\ pc'[p] = AfterQueue(p)
    BY <1>3, <2>0, SMTT(60) DEF QueueSelfFlag, QueueSelfPush
  <2> QED BY <1>3, <1>t, <2>1, <2>2, SMTT(60)
          DEF AfterQueue, CallShape, WaitPCs, VarPCs, DonePCs, WaitFns
<1>4. CASE q = p /\ Sleep(p)
  <2>1. \/ pc' = pc
        \/ pc' = [pc EXCEPT ![p] = AfterSleep(p)]
    BY <1>4 DEF Sleep
  <2>2. /\ pc[p] \in {"sleep", "dqSleep"}
        /\ UNCHANGED <<held, call, result, wakeup>>
    BY <1>4 DEF Sleep
  <2> QED BY <1>4, <2>1, <2>2, <1>t, <1>l, SMTT(60)
          DEF AfterSleep, TypeOK, CallShape, WaitPCs, VarPCs, DonePCs, WaitFns, AcquireFns
<1>5. CASE q = p /\ (Retry(p) \/ DequeueSelfReleaseOk(p))
  BY <1>5, <1>t, <1>l, ZenonT(60) DEF Retry, DequeueSelfReleaseOk, TypeOK, CallShape, WaitPCs, VarPCs,
     DonePCs, WaitFns
<1>6. CASE q = p /\ DequeueSelf(p)
  <2>1. /\ pc[p] = "dqBody" /\ pc'[p] \in {"return", "dqRelOk"}
        /\ UNCHANGED <<held, call, result, wakeup>>
    BY <1>6, <1>t DEF DequeueSelf, TypeOK
  <2> QED BY <1>6, <2>1, <1>t DEF CallShape, WaitPCs, VarPCs, DonePCs
<1>7. CASE q = p /\ Return(p)
  <2>1. /\ pc'[p] = "idle" /\ call'[p] = NoCall /\ ~result'[p]
    BY <1>7, <1>t DEF Return, TypeOK
  <2> QED BY <1>7, <2>1, NoCallType
          DEF CallShape, WaitPCs, VarPCs, DonePCs, WaitFns, AcquireFns
<1>8. CASE ReleaseAll(p)
  <2>1. CASE \E k \in Locks : Release(p, k, "LWLockReleaseAll")
    <3>1. pc[p] \notin WaitPCs BY <1>8 DEF ReleaseAll, WaitPCs
    <3> QED BY <2>1, <3>1, ReleaseShape DEF Fns, WaitFns, AcquireFns
  <2>2. CASE /\ pc' = [pc EXCEPT ![p] = "idle"] /\ call' = [call EXCEPT ![p] = NoCall]
             /\ UNCHANGED <<held, result, wakeup>> /\ pc[p] = "releaseAll"
    <3>1. CASE q = p
      <4>1. pc'[p] = "idle" /\ call'[p] = NoCall BY <2>2, <1>t DEF TypeOK
      <4> QED BY <3>1, <4>1, <2>2, <1>t, NoCallType
              DEF CallShape, WaitPCs, VarPCs, DonePCs, WaitFns, AcquireFns
    <3>2. CASE q # p BY <3>2, <2>2, <1>t, OtherShape, SMTT(60) DEF TypeOK
    <3> QED BY <3>1, <3>2
  <2> QED BY <1>8, <2>1, <2>2 DEF ReleaseAll
<1>9. CASE q = p /\ (WakeupScan(p) \/ WakeUnlink(p) \/ WakeClear(p))
  <2>1. CASE WakeupScan(p)
    BY <1>9, <2>1, <1>t, <1>l, ZenonT(60)
    DEF WakeupScan, TypeOK, CallShape, WaitPCs, VarPCs, DonePCs, WaitFns
  <2>2. CASE WakeUnlink(p) \/ WakeClear(p)
    BY <1>9, <2>2, <1>t, <1>l, ZenonT(60)
    DEF WakeUnlink, WakeClear, TypeOK, CallShape, WaitPCs, VarPCs, DonePCs, WaitFns
  <2> QED BY <1>9, <2>1, <2>2
<1>10. CASE q = p /\ WakeupFlags(p)
  <2>1. CASE wakeup[p] # <<>>
    BY <1>10, <2>1, <1>t, SMTT(60) DEF WakeupFlags, TypeOK, CallShape, WaitPCs, VarPCs, DonePCs
  <2>2. CASE wakeup[p] = <<>>
    BY <1>10, <2>2, <1>l, FinishShape, Zenon DEF WakeupFlags, WaitPCs
  <2> QED BY <2>1, <2>2
<1>11. CASE q = p /\ WakePost(p)
  <2>1. wakeup[p] # <<>> BY <1>11, <1>t DEF WakePost, CallShape
  <2>2. wakeup'[p] = Tail(wakeup[p]) BY <1>11, <1>t DEF WakePost, TypeOK
  <2>3. Tail(wakeup[p]) \in Seq(Procs) /\ Len(Tail(wakeup[p])) = Len(wakeup[p]) - 1
    BY <1>l, <2>1, HeadTailProperties
  <2>4. CASE Len(wakeup[p]) > 1
    <3>1. Tail(wakeup[p]) # <<>> BY <1>l, <2>4, LongTail
    <3>2. pc' = [pc EXCEPT ![p] = "wake"] /\ UNCHANGED <<call, result, held>>
      BY <1>11, <2>4 DEF WakePost
    <3> QED BY <1>11, <3>1, <3>2, <2>2, <1>t, Zenon
            DEF WakePost, TypeOK, CallShape, WaitPCs, VarPCs, DonePCs
  <2>5. CASE ~(Len(wakeup[p]) > 1)
    BY <1>11, <2>2, <2>3, <2>5, FinishShape DEF WakePost, WaitPCs
  <2> QED BY <2>4, <2>5
<1>12. CASE q = p /\ (VarRead(p) \/ VarValue(p) \/ VarReleaseOk(p))
  <2>1. /\ pc[p] \in VarPCs /\ UNCHANGED <<held, call, wakeup>>
        /\ \/ pc'[p] \in {"vLock", "sleep", "qLock", "vRead"} /\ result' = result
           \/ pc'[p] \in {"dqLock", "return"}
    BY <1>12, <1>t DEF VarRead, VarValue, VarReleaseOk, TypeOK, VarPCs
  <2> QED BY <1>12, <2>1, <1>t, <1>l, Zenon
          DEF TypeOK, CallShape, WaitPCs, VarPCs, DonePCs, WaitFns
<1>13. CASE q = p /\ UpdateVar(p)
  <2>1. PICK n \in 0..Len(waiters[l]) :
             /\ wakeup' = [wakeup EXCEPT ![p] = SubSeq(waiters[l], 1, n)]
             /\ IF n > 0 THEN pc' = [pc EXCEPT ![p] = "wake"] /\ UNCHANGED call
                         ELSE Finish(p)
    BY <1>13, Zenon DEF UpdateVar
  <2>2. wakeup'[p] = SubSeq(waiters[l], 1, n) BY <2>1, <1>t DEF TypeOK
  <2>3. /\ SubSeq(waiters[l], 1, n) \in Seq(Procs)
        /\ Len(SubSeq(waiters[l], 1, n)) = n
    BY <1>l, SubSeqProperties, LenProperties, ElementOfSeq
  <2>4. /\ pc[p] = "uBody" /\ UNCHANGED <<result, held>> BY <1>13 DEF UpdateVar
  <2>5. CASE n > 0
    <3>1. wakeup'[p] # <<>> BY <2>2, <2>3, <2>5
    <3>2. pc'[p] = "wake" /\ call' = call BY <2>1, <2>5, <1>t DEF TypeOK
    <3> QED BY <1>13, <3>1, <3>2, <2>4, <1>t DEF CallShape, WaitPCs, VarPCs, DonePCs
  <2>6. CASE ~(n > 0)
    BY <1>13, <2>1, <2>2, <2>3, <2>4, <2>6, FinishShape DEF WaitPCs
  <2> QED BY <2>5, <2>6
<1>14. CASE q = p /\ ClearVar(p)
  BY <1>14, <1>t DEF ClearVar, TypeOK, CallShape, WaitPCs, VarPCs, DonePCs
<1>15. CASE ReleaseCleared(p)
  <2>1. pc[p] \notin WaitPCs BY <1>15 DEF ReleaseCleared, WaitPCs
  <2> QED BY <1>15, <1>l, <2>1, ReleaseShape
          DEF ReleaseCleared, Fns, HolderFns, WaitFns, AcquireFns
<1> QED
  BY <1>o, <1>1, <1>2, <1>3, <1>4, <1>5, <1>6, <1>7, <1>8, <1>9, <1>10, <1>11, <1>12,
     <1>13, <1>14, <1>15 DEF Step

\* A call, an error or a signal of another user keeps all calls in shape.
LEMMA CallerShape ==
    ASSUME IInv, NEW p \in Procs, Caller(p), NEW q \in Procs
    PROVE  CallShape(q)'
<1>t. TypeOK /\ CallShape(p) BY DEF IInv
<1>n. pc[p] = "idle" => ~result[p] BY <1>t DEF CallShape, DonePCs
<1>1. ASSUME NEW l \in Locks, NEW fn \in WaitFns, NEW mode \in Modes, NEW v \in Vals,
             Begin(p, fn, l, mode, v)
      PROVE  CallShape(q)'
  <2>1. CASE q # p BY <1>1, <2>1, <1>t, OtherShape, SMTT(60) DEF Begin, TypeOK
  <2>2. CASE q = p
    <3>0. \/ /\ pc' = [pc EXCEPT ![p] = "releaseAll"]
             /\ call' = [call EXCEPT ![p] = Call("LWLockReleaseAll", AnyLock, LW_SHARED, AnyVal)]
          \/ /\ pc' = [pc EXCEPT ![p] = IF fn = "LWLockWaitForVar" THEN "vRead" ELSE "attempt"]
             /\ call' = [call EXCEPT ![p] = Call(fn, l, mode, v)]
      BY <1>1, <1>t, BeginCases, SMTT(60)
    <3>1. \/ pc'[p] = "releaseAll" /\ call'[p].fn = "LWLockReleaseAll"
          \/ pc'[p] = "vRead" /\ call'[p].fn = fn /\ fn = "LWLockWaitForVar" /\ call'[p].lock = l
          \/ pc'[p] = "attempt" /\ call'[p].fn = fn /\ fn \in AcquireFns /\ call'[p].lock = l
      <4>1. pc \in [Procs -> PCs] /\ DOMAIN call = Procs BY <1>t DEF TypeOK
      <4>2. fn \in AcquireFns \/ fn = "LWLockWaitForVar" BY DEF WaitFns
      <4>3. \/ pc'[p] = "releaseAll" /\ call'[p] = Call("LWLockReleaseAll", AnyLock, LW_SHARED, AnyVal)
            \/ /\ pc'[p] = IF fn = "LWLockWaitForVar" THEN "vRead" ELSE "attempt"
               /\ call'[p] = Call(fn, l, mode, v)
        BY <3>0, <4>1, ZenonT(30)
      <4>4. /\ Call("LWLockReleaseAll", AnyLock, LW_SHARED, AnyVal).fn = "LWLockReleaseAll"
            /\ Call(fn, l, mode, v).fn = fn /\ Call(fn, l, mode, v).lock = l
        BY DEF Call
      <4> QED BY <4>2, <4>3, <4>4
    <3> QED BY <2>2, <1>1, <1>n, <3>1
            DEF Begin, CallShape, WaitPCs, VarPCs, DonePCs, WaitFns, AcquireFns
  <2> QED BY <2>1, <2>2
<1>2. ASSUME NEW l \in Locks, NEW fn \in HolderFns, NEW v \in Vals, BeginHolder(p, fn, l, v)
      PROVE  CallShape(q)'
  <2>1. CASE q # p BY <1>2, <2>1, <1>t, OtherShape DEF BeginHolder, TypeOK
  <2>2. CASE q = p
    <3>1. pc'[p] \in {"uLock", "cLock"} /\ call'[p].fn = fn
      BY <1>2, <1>t DEF BeginHolder, TypeOK, Call
    <3>2. ~result'[p] BY <1>2, <1>n DEF BeginHolder
    <3>3. pc'[p] \notin WaitPCs \cup {"wake", "clear", "post"} BY <3>1 DEF WaitPCs
    <3>4. call'[p].fn \notin WaitFns BY <1>2, <3>1 DEF HolderFns, WaitFns, AcquireFns
    <3> QED BY <2>2, <3>2, <3>3, <3>4, QuietShape
  <2> QED BY <2>1, <2>2
<1>3. CASE RaiseError(p)
  <2>1. CASE q # p BY <1>3, <2>1, <1>t, OtherShape DEF RaiseError, TypeOK
  <2>2. CASE q = p
    <3>1. pc'[p] = "releaseAll" /\ call'[p].fn = "LWLockReleaseAll"
      BY <1>3, <1>t DEF RaiseError, TypeOK, Call
    <3>2. ~result'[p] BY <1>3, <1>n DEF RaiseError
    <3>3. pc'[p] \notin WaitPCs \cup {"wake", "clear", "post"} BY <3>1 DEF WaitPCs
    <3>4. call'[p].fn \notin WaitFns BY <3>1 DEF WaitFns, AcquireFns
    <3> QED BY <2>2, <3>2, <3>3, <3>4, QuietShape
  <2> QED BY <2>1, <2>2
<1>4. CASE ReleaseOne(p)
  <2>1. pc[p] \notin WaitPCs BY <1>4, SMTT(60) DEF ReleaseOne, WaitPCs
  <2> QED BY <1>4, <2>1, ReleaseShape DEF ReleaseOne, Fns, WaitFns, AcquireFns
<1>5. CASE ForeignPost(p) \/ ForeignTake(p)
  BY <1>5, Zenon DEF ForeignPost, ForeignTake, IInv, CallShape
<1> QED
  BY <1>1, <1>2, <1>3, <1>4, <1>5, NoCallType, LWLockAssumption, Zenon
  DEF Caller, WaitFns, HolderFns, Modes, LW_SHARED
----------------------------------------------------------------------------
(* The word of a lock *)

\* What a step may do to the owners of the locks, and to their words with them.
OwnersSame ==
    /\ count' = count
    /\ \A k \in Locks : \A m \in Modes : Owners(k, m)' = Owners(k, m)

OwnerAdded(p, l, mode) ==
    /\ p \notin Owners(l, LW_EXCLUSIVE) /\ p \notin Owners(l, LW_SHARED)
    /\ LockFree(count[l], mode)
    /\ count' = [count EXCEPT ![l] = @ + LockValue(mode)]
    /\ \A k \in Locks : \A m \in Modes :
           Owners(k, m)' = IF k = l /\ m = mode THEN Owners(k, m) \cup {p} ELSE Owners(k, m)

OwnerRemoved(p, l, mode) ==
    /\ p \in Owners(l, mode)
    /\ count' = [count EXCEPT ![l] = SubFetch(@, mode)]
    /\ \A k \in Locks : \A m \in Modes :
           Owners(k, m)' = IF k = l /\ m = mode THEN Owners(k, m) \ {p} ELSE Owners(k, m)

OwnersStep(p) ==
    OwnersSame \/ \E l \in Locks, mode \in Modes : OwnerAdded(p, l, mode) \/ OwnerRemoved(p, l, mode)

\* Ownership is a matter of held_lwlocks and of calls that have won the lock:
\* a step that changes neither changes no owner.
LEMMA SameOwners ==
    ASSUME count' = count, held' = held,
           \A q \in Procs :
               \/ call'[q] = call[q] /\ result'[q] = result[q]
               \/ /\ ~(call[q].fn \in AcquireFns /\ result[q])
                  /\ ~(call'[q].fn \in AcquireFns /\ result'[q])
    PROVE  OwnersSame
BY DEF OwnersSame, Owners, Owns

\* If nothing changes, the words stay in shape.
LEMMA SameOwnersWord ==
    ASSUME IInv, OwnersSame, NEW l \in Locks
    PROVE  WordShape(l)'
<1>1. LW_EXCLUSIVE \in Modes /\ LW_SHARED \in Modes BY DEF Modes
<1>2. Owners(l, LW_EXCLUSIVE)' = Owners(l, LW_EXCLUSIVE) BY <1>1 DEF OwnersSame
<1>3. Owners(l, LW_SHARED)' = Owners(l, LW_SHARED) BY <1>1 DEF OwnersSame
<1>4. WordShape(l) /\ count' = count BY DEF IInv, OwnersSame
<1> QED BY <1>2, <1>3, <1>4 DEF WordShape

\* A backend that finds the lock free for its mode becomes an owner.
LEMMA AddOwnerWord ==
    ASSUME IInv, NEW p \in Procs, NEW l \in Locks, NEW mode \in Modes,
           OwnerAdded(p, l, mode), NEW k \in Locks
    PROVE  WordShape(k)'
<1> USE DEF OwnerAdded
<1> DEFINE E == Owners(l, LW_EXCLUSIVE)
           S == Owners(l, LW_SHARED)
<1>m. LW_EXCLUSIVE \in Modes /\ LW_SHARED \in Modes /\ LW_EXCLUSIVE # LW_SHARED
  BY DEF Modes, LW_EXCLUSIVE, LW_SHARED
<1>w. WordShape(l) /\ WordShape(k) BY DEF IInv
<1>c. count \in [Locks -> Nat] BY DEF IInv, TypeOK
<1>1. CASE k # l
  <2>1. count'[k] = count[k] BY <1>1, <1>c
  <2>2. Owners(k, LW_EXCLUSIVE)' = Owners(k, LW_EXCLUSIVE)
        /\ Owners(k, LW_SHARED)' = Owners(k, LW_SHARED) BY <1>1, <1>m
  <2> QED BY <1>w, <2>1, <2>2 DEF WordShape
<1>2. CASE k = l /\ mode = LW_EXCLUSIVE
  <2>1. IsFree(count[l]) BY <1>2 DEF LockFree
  <2>2. count[l] # LW_VAL_EXCLUSIVE BY <2>1, WordBits
  <2>3. E = {} /\ count[l] = Cardinality(S) BY <1>w, <2>2 DEF WordShape
  <2>4. count[l] = 0 BY <2>1, <2>3, OwnersFinite, WordBits
  <2>5. S = {} BY <2>3, <2>4, OwnersFinite, FS_EmptySet, Zenon
  <2>6. count'[l] = LW_VAL_EXCLUSIVE
    BY <1>2, <1>c, <2>4, WordBits, SMTT(60) DEF LockValue
  <2>7. Owners(l, LW_EXCLUSIVE)' = {p} /\ Owners(l, LW_SHARED)' = {}
    BY <1>2, <1>m, <2>3, <2>5
  <2> QED BY <1>2, <2>6, <2>7 DEF WordShape
<1>3. CASE k = l /\ mode = LW_SHARED
  <2>1. ~ExclusiveBit(count[l]) BY <1>3, <1>m DEF LockFree
  <2>2. count[l] # LW_VAL_EXCLUSIVE BY <2>1, WordBits
  <2>3. E = {} /\ count[l] = Cardinality(S) BY <1>w, <2>2 DEF WordShape
  <2>4. IsFiniteSet(S) /\ p \notin S BY OwnersFinite
  <2>5. Cardinality(S \cup {p}) = Cardinality(S) + 1 BY <2>4, FS_AddElement, Zenon
  <2>6. count'[l] = count[l] + 1 BY <1>3, <1>m, <1>c DEF LockValue
  <2>7. Owners(l, LW_EXCLUSIVE)' = {} /\ Owners(l, LW_SHARED)' = S \cup {p}
    BY <1>3, <1>m, <2>3
  <2> QED BY <1>3, <2>3, <2>5, <2>6, <2>7 DEF WordShape
<1> QED BY <1>1, <1>2, <1>3 DEF Modes

\* LWLockRelease takes out exactly what the holder had put in.
LEMMA RemoveOwnerWord ==
    ASSUME IInv, NEW p \in Procs, NEW l \in Locks, NEW mode \in Modes,
           OwnerRemoved(p, l, mode), NEW k \in Locks
    PROVE  WordShape(k)'
<1> USE DEF OwnerRemoved
<1> DEFINE E == Owners(l, LW_EXCLUSIVE)
           S == Owners(l, LW_SHARED)
<1>m. LW_EXCLUSIVE \in Modes /\ LW_SHARED \in Modes /\ LW_EXCLUSIVE # LW_SHARED
  BY DEF Modes, LW_EXCLUSIVE, LW_SHARED
<1>w. WordShape(l) /\ WordShape(k) BY DEF IInv
<1>c. count \in [Locks -> Nat] BY DEF IInv, TypeOK
<1>1. CASE k # l
  <2>1. count'[k] = count[k] BY <1>1, <1>c
  <2>2. Owners(k, LW_EXCLUSIVE)' = Owners(k, LW_EXCLUSIVE)
        /\ Owners(k, LW_SHARED)' = Owners(k, LW_SHARED) BY <1>1, <1>m
  <2> QED BY <1>w, <2>1, <2>2 DEF WordShape
<1>2. CASE k = l /\ mode = LW_EXCLUSIVE
  <2>1. E = {p} /\ S = {} /\ count[l] = LW_VAL_EXCLUSIVE BY <1>2, <1>w DEF WordShape
  <2>2. count'[l] = 0 BY <1>2, <1>c, <2>1, WordBits, SMTT(60) DEF SubFetch, LockValue
  <2>3. Owners(l, LW_EXCLUSIVE)' = {} /\ Owners(l, LW_SHARED)' = {} BY <1>2, <1>m, <2>1
  <2>4. Cardinality({}) = 0 BY FS_EmptySet
  <2> QED BY <1>2, <2>2, <2>3, <2>4 DEF WordShape
<1>3. CASE k = l /\ mode = LW_SHARED
  <2>1. E = {} /\ count[l] = Cardinality(S) BY <1>3, <1>w DEF WordShape
  <2>2. IsFiniteSet(S) /\ p \in S BY <1>3, OwnersFinite
  <2>3. Cardinality(S \ {p}) = Cardinality(S) - 1 BY <2>2, FS_RemoveElement, Zenon
  <2>4. count'[l] = count[l] - 1 BY <1>3, <1>m, <1>c DEF SubFetch, LockValue
  <2>5. Owners(l, LW_EXCLUSIVE)' = {} /\ Owners(l, LW_SHARED)' = S \ {p} BY <1>3, <1>m, <2>1
  <2> QED BY <1>3, <2>1, <2>3, <2>4, <2>5 DEF WordShape
<1> QED BY <1>1, <1>2, <1>3 DEF Modes

\* LWLockRelease, from any of its callers.
LEMMA ReleaseOwners ==
    ASSUME IInv, NEW p \in Procs, NEW l \in Locks, NEW fn \in Fns \ WaitFns,
           pc[p] \notin WaitPCs, Release(p, l, fn)
    PROVE  OwnersStep(p)
<1> DEFINE mode == held[p][l]
<1>1. mode \in Modes BY HolderCounted DEF Release
<1>2. p \in Owners(l, mode) BY DEF Owners, Owns
<1>3. count' = [count EXCEPT ![l] = SubFetch(@, mode)] BY DEF Release
<1>4. ~result[p] /\ result' = result
  BY DEF IInv, CallShape, WaitPCs, DonePCs, Release
<1>5. \A q \in Procs : q # p => call'[q] = call[q] /\ held'[q] = held[q]
  BY DEF Release, IInv, TypeOK
<1>6. \A j \in Locks : held'[p][j] = IF j = l THEN NotHeld ELSE held[p][j]
  BY SMTT(60) DEF Release, IInv, TypeOK
<1>7. NotHeld \notin Modes BY DEF Modes, NotHeld, LW_EXCLUSIVE, LW_SHARED
<1>8. ASSUME NEW j \in Locks, NEW m \in Modes
      PROVE  Owners(j, m)' = IF j = l /\ m = mode THEN Owners(j, m) \ {p} ELSE Owners(j, m)
  BY <1>1, <1>4, <1>5, <1>6, <1>7, ZenonT(60) DEF Owners, Owns
<1> HIDE DEF mode
<1>9. OwnerRemoved(p, l, mode) BY <1>2, <1>3, <1>8 DEF OwnerRemoved
<1> QED BY <1>1, <1>9 DEF OwnersStep

\* Of the steps inside the LWLock routines only a successful attempt and a
\* release change an owner; the return of a routine only records it.
LEMMA StepOwners ==
    ASSUME IInv, NEW p \in Procs, Step(p)
    PROVE  OwnersStep(p)
<1> DEFINE l == call[p].lock
           mode == call[p].mode
<1>t. TypeOK /\ CallShape(p) BY DEF IInv
<1>l. l \in Locks /\ mode \in Modes BY <1>t DEF TypeOK
<1>1. CASE AttemptLock(p)
  <2>1. ~result[p] /\ call[p].fn \in AcquireFns /\ held[p][l] = NotHeld
    BY <1>1, <1>t DEF AttemptLock, CallShape, DonePCs, WaitPCs
  <2>2. CASE LockFree(count[l], mode)
    <3>1. /\ count' = [count EXCEPT ![l] = @ + LockValue(mode)]
          /\ result' = [result EXCEPT ![p] = TRUE] /\ UNCHANGED <<held, call>>
      BY <1>1, <2>2 DEF AttemptLock
    <3>2. result'[p] /\ \A q \in Procs : q # p => result'[q] = result[q]
      BY <3>1, <1>t DEF TypeOK
    <3>3. NotHeld \notin Modes BY DEF Modes, NotHeld, LW_EXCLUSIVE, LW_SHARED
    <3>4. ASSUME NEW j \in Locks, NEW m \in Modes
          PROVE  Owners(j, m)' = IF j = l /\ m = mode THEN Owners(j, m) \cup {p} ELSE Owners(j, m)
      BY <2>1, <3>1, <3>2, SMTT(60) DEF Owners, Owns
    <3>5. p \notin Owners(l, LW_EXCLUSIVE) /\ p \notin Owners(l, LW_SHARED)
      BY <2>1 DEF Owners, Owns, NotHeld, LW_EXCLUSIVE, LW_SHARED
    <3> HIDE DEF l, mode
    <3>6. OwnerAdded(p, l, mode) BY <2>2, <3>1, <3>4, <3>5, SMTT(60) DEF OwnerAdded
    <3> QED BY <1>l, <3>6 DEF OwnersStep
  <2>3. CASE ~LockFree(count[l], mode)
    BY <1>1, <2>3, SameOwners, ZenonT(60) DEF AttemptLock, OwnersStep
  <2> QED BY <2>2, <2>3, SMTT(60)
<1>2. CASE Return(p)
  <2>1. held[p][l] = NotHeld BY <1>2, <1>t DEF Return, CallShape, WaitPCs
  <2>2. /\ \A q \in Procs : q # p => /\ held'[q] = held[q] /\ call'[q] = call[q]
                                    /\ result'[q] = result[q]
        /\ ~result'[p] /\ count' = count
    BY <1>2, <1>t DEF Return, TypeOK, word
  <2>3. \A j \in Locks : held'[p][j] =
            IF j = l /\ call[p].fn \in AcquireFns /\ result[p] THEN mode ELSE held[p][j]
    BY <1>2, <1>t DEF Return, TypeOK
  <2>4. ASSUME NEW k \in Locks, NEW m \in Modes PROVE Owners(k, m)' = Owners(k, m)
    BY <2>1, <2>2, <2>3, <1>l, SMTT(60) DEF Owners, Owns, Modes, NotHeld, LW_EXCLUSIVE, LW_SHARED
  <2> QED BY <2>2, <2>4, ZenonT(60) DEF OwnersSame, OwnersStep
<1>3. CASE ReleaseAll(p)
  <2>1. CASE \E j \in Locks : Release(p, j, "LWLockReleaseAll")
    <3>1. pc[p] \notin WaitPCs BY <1>3 DEF ReleaseAll, WaitPCs
    <3> QED BY <2>1, <3>1, ReleaseOwners DEF Fns, WaitFns, AcquireFns
  <2>2. CASE /\ call' = [call EXCEPT ![p] = NoCall] /\ UNCHANGED <<count, held, result>>
             /\ pc[p] = "releaseAll"
    <3>1. ~result[p] BY <2>2, <1>t DEF CallShape, DonePCs
    <3> QED BY <2>2, <3>1, <1>t, SameOwners DEF TypeOK, OwnersStep
  <2> QED BY <1>3, <2>1, <2>2 DEF ReleaseAll, shared, word
<1>4. CASE ReleaseCleared(p)
  <2>1. pc[p] \notin WaitPCs BY <1>4 DEF ReleaseCleared, WaitPCs
  <2> QED BY <1>4, <1>l, <2>1, ReleaseOwners
          DEF ReleaseCleared, Fns, HolderFns, WaitFns, AcquireFns
<1>5. CASE WakeupFlags(p) \/ WakePost(p) \/ UpdateVar(p)
  <2>1. /\ Finish(p) \/ call' = call
        /\ UNCHANGED <<count, held, result>> /\ pc[p] \in {"wScan", "post", "uBody"}
    BY <1>5 DEF WakeupFlags, WakePost, UpdateVar, word
  <2>2. ~result[p] BY <2>1, <1>t DEF CallShape, DonePCs
  <2>3. \A q \in Procs : q # p => call'[q] = call[q]
    BY <2>1, <1>t DEF Finish, TypeOK
  <2> QED BY <2>1, <2>2, <2>3, SameOwners, SMTT(60) DEF OwnersStep
<1>6. CASE VarRead(p)
  <2>1. /\ UNCHANGED <<count, held, call>> /\ call[p].fn = "LWLockWaitForVar"
        /\ \A q \in Procs : q # p => result'[q] = result[q]
    BY <1>6, <1>t, SMTT(60) DEF VarRead, shared, word, CallShape, VarPCs, TypeOK
  <2> QED BY <2>1, SameOwners DEF AcquireFns, OwnersStep
<1>7. CASE \/ WaitListLock(p) \/ QueueSelfFlag(p) \/ QueueSelfPush(p) \/ Sleep(p) \/ Retry(p)
           \/ DequeueSelf(p) \/ DequeueSelfReleaseOk(p) \/ WakeupScan(p) \/ WakeUnlink(p) \/ WakeClear(p)
           \/ VarValue(p) \/ VarReleaseOk(p) \/ ClearVar(p)
  <2>1. UNCHANGED <<count, held, call, result>>
    BY <1>7, Zenon DEF WaitListLock, QueueSelfFlag, QueueSelfPush, Sleep, Retry, DequeueSelf,
       DequeueSelfReleaseOk, WakeupScan, WakeUnlink, WakeClear, VarValue, VarReleaseOk, ClearVar,
       shared, word
  <2> QED BY <2>1, SameOwners, ZenonT(60) DEF OwnersStep
<1> QED BY <1>1, <1>2, <1>3, <1>4, <1>5, <1>6, <1>7 DEF Step

\* Of the calls only LWLockRelease changes an owner.
LEMMA CallerOwners ==
    ASSUME IInv, NEW p \in Procs, Caller(p)
    PROVE  OwnersStep(p)
<1>t. TypeOK /\ CallShape(p) BY DEF IInv
<1>1. CASE ReleaseOne(p)
  <2>1. pc[p] \notin WaitPCs BY <1>1, SMTT(60) DEF ReleaseOne, WaitPCs
  <2> QED BY <1>1, <2>1, ReleaseOwners DEF ReleaseOne, Fns, WaitFns, AcquireFns
<1>2. CASE ForeignPost(p) \/ ForeignTake(p)
  BY <1>2, SameOwners, ZenonT(60) DEF ForeignPost, ForeignTake, word, OwnersStep
<1>3. CASE ~ReleaseOne(p) /\ ~(ForeignPost(p) \/ ForeignTake(p))
  <2>1. /\ pc[p] = "idle" /\ UNCHANGED <<count, held, result>>
        /\ \A q \in Procs : q # p => call'[q] = call[q]
    BY <1>3, <1>t, ZenonT(60) DEF Caller, Begin, BeginHolder, RaiseError, shared, word, TypeOK
  <2>2. ~result[p] BY <2>1, <1>t, Zenon DEF CallShape, DonePCs
  <2> QED BY <2>1, <2>2, SameOwners, ZenonT(60) DEF OwnersStep
<1> QED BY <1>1, <1>2, <1>3
----------------------------------------------------------------------------
(* The invariant and the theorems *)

\* The invariant holds initially: no lock has an owner.
LEMMA InitIInv == Init => IInv
<1> SUFFICES ASSUME Init PROVE IInv OBVIOUS
<1>1. TypeOK
  BY NoCallType, LWLockAssumption, SMTT(60)
  DEF Init, TypeOK, PCs, Modes, LW_SHARED, NotHeld, LW_WAIT_UNTIL_FREE
<1>2. ASSUME NEW p \in Procs PROVE CallShape(p)
  BY <1>2, NoCallType DEF Init, CallShape, WaitPCs, WaitFns, AcquireFns, VarPCs, DonePCs
<1>3. ASSUME NEW l \in Locks PROVE WordShape(l)
  <2>1. Owners(l, LW_EXCLUSIVE) = {} /\ Owners(l, LW_SHARED) = {}
    BY <1>3 DEF Init, Owners, Owns, NotHeld, LW_EXCLUSIVE, LW_SHARED
  <2>2. Cardinality({}) = 0 BY FS_EmptySet
  <2> QED BY <1>3, <2>1, <2>2 DEF Init, WordShape
<1> QED BY <1>1, <1>2, <1>3 DEF IInv

\* Every step of the system preserves the invariant.
LEMMA NextIInv == IInv /\ [Next]_vars => IInv'
<1> SUFFICES ASSUME IInv, [Next]_vars PROVE IInv' OBVIOUS
<1>1. CASE Next
  <2>1. PICK p \in Procs : Step(p) \/ Caller(p) BY <1>1 DEF Next
  <2>2. TypeOK' BY <2>1, StepType, CallerType
  <2>3. \A q \in Procs : CallShape(q)' BY <2>1, StepShape, CallerShape
  <2>4. OwnersStep(p) BY <2>1, StepOwners, CallerOwners
  <2>5. \A k \in Locks : WordShape(k)'
    BY <2>4, SameOwnersWord, AddOwnerWord, RemoveOwnerWord DEF OwnersStep
  <2> QED BY <2>2, <2>3, <2>5 DEF IInv
<1>2. CASE UNCHANGED vars
  <2>1. TypeOK' BY <1>2 DEF vars, shared, word, IInv, TypeOK
  <2>2. \A q \in Procs : CallShape(q)' BY <1>2, SMTT(60) DEF vars, shared, word, IInv, CallShape
  <2>3. OwnersSame BY <1>2, SameOwners DEF vars, shared, word
  <2>4. \A k \in Locks : WordShape(k)' BY <2>3, SameOwnersWord
  <2> QED BY <2>1, <2>2, <2>4 DEF IInv
<1> QED BY <1>1, <1>2

\* The invariant says that the owners of a lock exclude each other and are counted.
LEMMA IInvSafe == IInv => MutualExclusion /\ WordMatchesOwners
<1> SUFFICES ASSUME IInv PROVE MutualExclusion /\ WordMatchesOwners OBVIOUS
<1>1. MutualExclusion BY DEF IInv, WordShape, MutualExclusion
<1>2. ASSUME NEW l \in Locks
      PROVE  count[l] = LW_VAL_EXCLUSIVE * Cardinality(Owners(l, LW_EXCLUSIVE))
                            + Cardinality(Owners(l, LW_SHARED))
  <2> DEFINE E == Owners(l, LW_EXCLUSIVE)
             S == Owners(l, LW_SHARED)
  <2>0. WordShape(l) BY DEF IInv
  <2>1. Cardinality({}) = 0 BY FS_EmptySet
  <2>2. CASE E = {} /\ count[l] = Cardinality(S)
    <3>1. Cardinality(S) \in Nat BY OwnersFinite
    <3> QED BY <2>1, <2>2, <3>1, WordBits
  <2>3. CASE (\E p \in Procs : E = {p}) /\ S = {} /\ count[l] = LW_VAL_EXCLUSIVE
    <3>1. Cardinality(E) = 1 BY <2>3, FS_Singleton, Zenon
    <3> QED BY <2>1, <2>3, <3>1, WordBits, SMTT(60)
  <2> QED BY <2>0, <2>2, <2>3 DEF WordShape
<1> QED BY <1>1, <1>2 DEF WordMatchesOwners

\* The inductive invariant holds in every reachable state.
THEOREM Invariance == Spec => []IInv
BY InitIInv, NextIInv, PTL DEF Spec

\* Types: in particular no release ever takes the count of a word below zero.
THEOREM TypeCorrect == Spec => []TypeOK
<1>1. IInv => TypeOK BY DEF IInv
<1> QED BY <1>1, Invariance, PTL

\* While a backend owns a lock exclusively, nobody else owns it in any mode, for
\* any number of backends and locks.
THEOREM Exclusion == Spec => []MutualExclusion
BY IInvSafe, Invariance, PTL

\* The word of every lock is the exact sum of its owners' shares.
THEOREM WordExact == Spec => []WordMatchesOwners
BY IInvSafe, Invariance, PTL

-----------------------------------------------------------------------------
(***************************************************************************)
(* LWLock implements the abstract reader-writer lock of RWLock.  By        *)
(* OwnersStep a step leaves the owners alone, adds one whose attempt found *)
(* the lock free for its mode, or removes one: a stutter, an Acquire or a  *)
(* Release of the abstract lock.                                           *)
(***************************************************************************)

\* The refinement mapping in terms of Owners.
LEMMA OwnerValue ==
    ASSUME NEW l \in Locks, NEW p \in Procs
    PROVE  /\ owner[l][p] = IF p \in Owners(l, LW_EXCLUSIVE) THEN LW_EXCLUSIVE
                            ELSE IF p \in Owners(l, LW_SHARED) THEN LW_SHARED ELSE NotHeld
           /\ owner'[l][p] = IF p \in Owners(l, LW_EXCLUSIVE)' THEN LW_EXCLUSIVE
                             ELSE IF p \in Owners(l, LW_SHARED)' THEN LW_SHARED ELSE NotHeld
BY DEF owner, Owners

\* The mapping always yields a function of locks and backends.
LEMMA OwnerShape ==
    ASSUME NEW o, \A l \in Locks : \A p \in Procs : owner'[l][p] = o[l][p],
           o = [l \in Locks |-> [p \in Procs |-> o[l][p]]]
    PROVE  owner' = o
<1>1. owner' = [l \in Locks |-> [p \in Procs |-> owner'[l][p]]] BY DEF owner
<1> QED BY <1>1

\* If the owners stay the same the abstract lock stutters.
LEMMA SameStutters ==
    ASSUME OwnersSame
    PROVE  owner' = owner
<1>1. ASSUME NEW l \in Locks, NEW p \in Procs PROVE owner'[l][p] = owner[l][p]
  <2>1. LW_EXCLUSIVE \in Modes /\ LW_SHARED \in Modes BY DEF Modes
  <2>2. Owners(l, LW_EXCLUSIVE)' = Owners(l, LW_EXCLUSIVE) BY <2>1 DEF OwnersSame
  <2>3. Owners(l, LW_SHARED)' = Owners(l, LW_SHARED) BY <2>1 DEF OwnersSame
  <2> QED BY <2>2, <2>3, OwnerValue
<1>2. owner = [l \in Locks |-> [p \in Procs |-> owner[l][p]]] BY DEF owner
<1> QED BY <1>1, <1>2, OwnerShape

\* A new owner is an abstract Acquire: by WordShape a word that LockFree accepts
\* has no conflicting owner.
LEMMA AddAcquires ==
    ASSUME IInv, NEW p \in Procs, NEW l \in Locks, NEW mode \in Modes, OwnerAdded(p, l, mode)
    PROVE  RW!Acquire(p, l, mode)
<1>m. LW_EXCLUSIVE \in Modes /\ LW_SHARED \in Modes BY DEF Modes
<1>n. LW_EXCLUSIVE # LW_SHARED /\ LW_EXCLUSIVE # NotHeld /\ LW_SHARED # NotHeld
  BY DEF LW_EXCLUSIVE, LW_SHARED, NotHeld
<1>1. owner[l][p] = NotHeld BY OwnerValue DEF OwnerAdded
<1>2. RW!Compatible(l, mode)
  <2>0. WordShape(l) BY DEF IInv
  <2>1. Owners(l, LW_EXCLUSIVE) = {}
    <3>1. SUFFICES ASSUME count[l] = LW_VAL_EXCLUSIVE PROVE FALSE BY <2>0 DEF WordShape
    <3>2. ExclusiveBit(count[l]) /\ ~IsFree(count[l]) BY <3>1, WordBits
    <3> QED BY <3>2 DEF OwnerAdded, LockFree
  <2>2. mode = LW_EXCLUSIVE => Owners(l, LW_SHARED) = {}
    <3>1. SUFFICES ASSUME mode = LW_EXCLUSIVE PROVE Owners(l, LW_SHARED) = {} OBVIOUS
    <3>2. count[l] = Cardinality(Owners(l, LW_SHARED)) BY <2>0, <2>1 DEF WordShape
    <3>3. IsFree(count[l]) BY <3>1 DEF OwnerAdded, LockFree
    <3>4. Cardinality(Owners(l, LW_SHARED)) = 0 BY <3>2, <3>3, OwnersFinite, WordBits
    <3> QED BY <3>4, OwnersFinite, FS_EmptySet
  <2>3. mode = LW_EXCLUSIVE \/ mode = LW_SHARED BY DEF Modes
  <2>4. ASSUME NEW q \in Procs
        PROVE  owner[l][q] = NotHeld \/ (owner[l][q] = LW_SHARED /\ mode = LW_SHARED)
    BY <2>1, <2>2, <2>3, OwnerValue
  <2> QED BY <2>4 DEF RW!Compatible
<1>3. owner' = [owner EXCEPT ![l] = [@ EXCEPT ![p] = mode]]
  <2> DEFINE o == [owner EXCEPT ![l] = [@ EXCEPT ![p] = mode]]
  <2>1. owner = [k \in Locks |-> [q \in Procs |-> owner[k][q]]] BY DEF owner
  <2>2. o = [k \in Locks |-> [q \in Procs |-> o[k][q]]] BY <2>1, Zenon
  <2>3. \A k \in Locks : \A q \in Procs :
            o[k][q] = IF k = l /\ q = p THEN mode ELSE owner[k][q] BY <2>1
  <2>4. ASSUME NEW k \in Locks, NEW q \in Procs PROVE owner'[k][q] = o[k][q]
    <3>1. mode = LW_EXCLUSIVE \/ mode = LW_SHARED BY DEF Modes
    <3>2. Owners(k, LW_EXCLUSIVE)' = IF k = l /\ LW_EXCLUSIVE = mode
                                       THEN Owners(k, LW_EXCLUSIVE) \cup {p} ELSE Owners(k, LW_EXCLUSIVE)
      BY <1>m DEF OwnerAdded
    <3>3. Owners(k, LW_SHARED)' = IF k = l /\ LW_SHARED = mode
                                    THEN Owners(k, LW_SHARED) \cup {p} ELSE Owners(k, LW_SHARED)
      BY <1>m DEF OwnerAdded
    <3>4. p \notin Owners(l, LW_EXCLUSIVE) /\ p \notin Owners(l, LW_SHARED) BY DEF OwnerAdded
    <3> HIDE DEF o
    <3> QED BY <1>n, <2>3, <3>1, <3>2, <3>3, <3>4, OwnerValue, SMTT(60)
  <2> HIDE DEF o
  <2>5. owner' = o BY <2>2, <2>4, OwnerShape, SMTT(60)
  <2> QED BY <2>5 DEF o
<1> QED BY <1>1, <1>2, <1>3 DEF RW!Acquire

\* The end of an ownership is an abstract Release.
LEMMA RemoveReleases ==
    ASSUME IInv, NEW p \in Procs, NEW l \in Locks, NEW mode \in Modes, OwnerRemoved(p, l, mode)
    PROVE  RW!Release(p, l)
<1>m. LW_EXCLUSIVE \in Modes /\ LW_SHARED \in Modes BY DEF Modes
<1>n. LW_EXCLUSIVE # LW_SHARED /\ LW_EXCLUSIVE # NotHeld /\ LW_SHARED # NotHeld
  BY DEF LW_EXCLUSIVE, LW_SHARED, NotHeld
<1>0. mode = LW_EXCLUSIVE \/ mode = LW_SHARED BY DEF Modes
<1>1. owner[l][p] # NotHeld BY <1>0, <1>n, OwnerValue DEF OwnerRemoved
<1>2. ~(p \in Owners(l, LW_EXCLUSIVE) /\ p \in Owners(l, LW_SHARED))
  BY DEF IInv, WordShape
<1>3. owner' = [owner EXCEPT ![l] = [@ EXCEPT ![p] = NotHeld]]
  <2> DEFINE o == [owner EXCEPT ![l] = [@ EXCEPT ![p] = NotHeld]]
  <2>1. owner = [k \in Locks |-> [q \in Procs |-> owner[k][q]]] BY DEF owner
  <2>2. o = [k \in Locks |-> [q \in Procs |-> o[k][q]]] BY <2>1, Zenon
  <2>3. \A k \in Locks : \A q \in Procs :
            o[k][q] = IF k = l /\ q = p THEN NotHeld ELSE owner[k][q] BY <2>1
  <2>4. ASSUME NEW k \in Locks, NEW q \in Procs PROVE owner'[k][q] = o[k][q]
    <3>2. Owners(k, LW_EXCLUSIVE)' = IF k = l /\ LW_EXCLUSIVE = mode
                                       THEN Owners(k, LW_EXCLUSIVE) \ {p} ELSE Owners(k, LW_EXCLUSIVE)
      BY <1>m DEF OwnerRemoved
    <3>3. Owners(k, LW_SHARED)' = IF k = l /\ LW_SHARED = mode
                                    THEN Owners(k, LW_SHARED) \ {p} ELSE Owners(k, LW_SHARED)
      BY <1>m DEF OwnerRemoved
    <3>4. p \in Owners(l, mode) BY DEF OwnerRemoved
    <3> HIDE DEF o
    <3> QED BY <1>n, <1>0, <1>2, <2>3, <3>2, <3>3, <3>4, OwnerValue, SMTT(60)
  <2> HIDE DEF o
  <2>5. owner' = o BY <2>2, <2>4, OwnerShape, SMTT(60)
  <2> QED BY <2>5 DEF o
<1> QED BY <1>1, <1>3 DEF RW!Release

\* At the start nobody owns anything.
LEMMA InitRefines == Init => RW!Init
<1> SUFFICES ASSUME Init PROVE RW!Init OBVIOUS
<1>1. ASSUME NEW l \in Locks, NEW p \in Procs
      PROVE ~Owns(p, l, LW_EXCLUSIVE) /\ ~Owns(p, l, LW_SHARED)
  BY DEF Init, Owns, NoCall, Call, AcquireFns, LW_EXCLUSIVE, LW_SHARED, NotHeld
<1> QED BY <1>1 DEF owner, RW!Init

\* Every step of the lock code is a step or a stutter of the abstract lock.
LEMMA NextRefines == IInv /\ [Next]_vars => [RW!Next]_owner
<1> SUFFICES ASSUME IInv, [Next]_vars PROVE RW!Next \/ owner' = owner OBVIOUS
<1>1. CASE UNCHANGED vars
  <2>1. OwnersSame BY <1>1, SameOwners DEF vars, shared, word
  <2> QED BY <2>1, SameStutters
<1>2. CASE Next
  <2>1. PICK p \in Procs : OwnersStep(p) BY <1>2, StepOwners, CallerOwners DEF Next
  <2>2. CASE OwnersSame BY <2>2, SameStutters
  <2>3. CASE \E l \in Locks, mode \in Modes : OwnerAdded(p, l, mode) \/ OwnerRemoved(p, l, mode)
    <3>1. PICK l \in Locks, mode \in Modes : OwnerAdded(p, l, mode) \/ OwnerRemoved(p, l, mode)
      BY <2>3
    <3>2. RW!Acquire(p, l, mode) \/ RW!Release(p, l) BY <3>1, AddAcquires, RemoveReleases
    <3>3. owner'[l][p] # owner[l][p]
      <4>1. mode # NotHeld BY DEF Modes, LW_EXCLUSIVE, LW_SHARED, NotHeld
      <4>2. owner = [k \in Locks |-> [q \in Procs |-> owner[k][q]]] BY DEF owner
      <4> QED BY <3>2, <4>1, <4>2 DEF RW!Acquire, RW!Release
    <3> QED BY <3>2, <3>3 DEF RW!Next, Modes
  <2> QED BY <2>1, <2>2, <2>3 DEF OwnersStep
<1> QED BY <1>1, <1>2

\* lwlock.c implements a reader-writer lock: under every interleaving of its
\* atomic steps, ownership changes only by compatible acquisitions and by
\* releases, for any number of backends and locks.
THEOREM Implements == Spec => ImplementsRWLock
BY InitRefines, NextRefines, Invariance, PTL DEF Spec, ImplementsRWLock, RW!Spec

-----------------------------------------------------------------------------
(***************************************************************************)
(* The wait list of an LWLock is protected by LW_FLAG_LOCKED, and a waiter *)
(* in it is always announced by LW_FLAG_HAS_WAITERS.  The flag alone is    *)
(* not inductive: LWLockQueueSelf sets it one step before it enters the    *)
(* list, so the proof needs that nobody else is in a critical section of   *)
(* the list meanwhile, and LWLockWakeup clears it only if its scan found   *)
(* nobody, which the progress of the scan has to justify.                  *)
(***************************************************************************)

\* The steps made with the wait list locked.
ListPCs == {"qFlag", "qPush", "dqBody", "wScan", "uBody", "cBody", "vVal"}

\* At most one backend is in a critical section of a list, and the bit is set.
ListExclusion ==
    /\ \A p, q \in Procs : (pc[p] \in ListPCs /\ pc[q] \in ListPCs
                                /\ call[p].lock = call[q].lock) => p = q
    /\ \A p \in Procs : pc[p] \in ListPCs => listLocked[call[p].lock]

\* A backend about to enter a list has announced itself.
PushAnnounced == \A p \in Procs : pc[p] = "qPush" => hasWaiters[call[p].lock]

\* A scan that has woken somebody has a nonempty wakeup list.
ScanProgress ==
    \A p \in Procs : scan[p] # LW_WAIT_UNTIL_FREE => pc[p] = "wScan" /\ wakeup[p] # <<>>

ListInv == ListExclusion /\ PushAnnounced /\ ScanProgress /\ WaitersAnnounced

\* A step of p outside the critical sections, which changes no list, ...
LEMMA OutsideList ==
    ASSUME ListInv, NEW p \in Procs, pc[p] \notin ListPCs, pc'[p] \notin ListPCs,
           \A q \in Procs \ {p} : /\ pc'[q] = pc[q] /\ call'[q] = call[q]
                                  /\ wakeup'[q] = wakeup[q],
           UNCHANGED <<hasWaiters, listLocked, waiters, scan>>
    PROVE  ListInv'
<1>1. ListExclusion' BY DEF ListInv, ListExclusion
<1>2. PushAnnounced' BY DEF ListInv, PushAnnounced, ListPCs
<1>3. ScanProgress' BY DEF ListInv, ScanProgress, ListPCs
<1>4. WaitersAnnounced' BY DEF ListInv, WaitersAnnounced
<1> QED BY <1>1, <1>2, <1>3, <1>4 DEF ListInv

\* ... or leaves a critical section of list l, where nobody else is.
LEMMA LeaveList ==
    ASSUME IInv, ListInv, NEW p \in Procs, pc[p] \in ListPCs, pc'[p] \notin ListPCs,
           \A q \in Procs \ {p} : pc'[q] = pc[q] /\ call'[q] = call[q],
           listLocked' = [listLocked EXCEPT ![call[p].lock] = FALSE],
           \A k \in Locks \ {call[p].lock} : hasWaiters'[k] = hasWaiters[k]
    PROVE  ListExclusion' /\ PushAnnounced'
<1>t. TypeOK BY DEF IInv
<1>0. \A q \in Procs : call[q].lock \in Locks BY <1>t DEF TypeOK
<1>1. \A q \in Procs \ {p} : pc[q] \in ListPCs => call[q].lock # call[p].lock
  BY DEF ListInv, ListExclusion
<1>2. \A k \in Locks : k # call[p].lock => listLocked'[k] = listLocked[k]
  BY <1>t DEF TypeOK
<1>3. ListExclusion' BY <1>0, <1>1, <1>2, SMTT(60) DEF ListInv, ListExclusion
<1>4. PushAnnounced' BY <1>0, <1>1 DEF ListInv, PushAnnounced, ListPCs
<1> QED BY <1>3, <1>4

\* LWLockRelease does not touch the list.
LEMMA ReleaseList ==
    ASSUME IInv, ListInv, NEW p \in Procs, NEW l \in Locks, NEW fn,
           pc[p] \notin ListPCs, Release(p, l, fn)
    PROVE  ListInv'
<1>1. pc'[p] \in {"wLock", "releaseAll", "idle"} BY DEF Release, IInv, TypeOK
<1>2. \A q \in Procs \ {p} : pc'[q] = pc[q] /\ call'[q] = call[q] BY DEF Release, IInv, TypeOK
<1>3. UNCHANGED <<hasWaiters, listLocked, waiters, scan, wakeup>> BY DEF Release
<1>4. pc'[p] \notin ListPCs BY <1>1 DEF ListPCs
<1> QED BY <1>2, <1>3, <1>4, OutsideList

\* A wait list with nothing in its domain is empty.
LEMMA EmptyDomain ==
    ASSUME NEW S, NEW s \in Seq(S)
    PROVE  DOMAIN s = {} <=> s = <<>>
<1>1. DOMAIN s = 1..Len(s) /\ Len(s) \in Nat BY LenProperties
<1>2. CASE s = <<>> BY <1>2
<1>3. CASE s # <<>>
  <2>1. Len(s) \in Nat \ {0} BY <1>3, EmptySeq
  <2>2. 1 \in 1..Len(s) BY <2>1
  <2> QED BY <1>1, <1>3, <2>2
<1> QED BY <1>2, <1>3

\* The steps of the critical sections keep the list protocol.
LEMMA SectionList ==
    ASSUME IInv, ListInv, NEW p \in Procs,
           \/ WaitListLock(p) \/ QueueSelfFlag(p) \/ QueueSelfPush(p) \/ DequeueSelf(p)
           \/ WakeupScan(p) \/ WakeupFlags(p) \/ VarValue(p) \/ UpdateVar(p) \/ ClearVar(p)
    PROVE  ListInv'
<1> DEFINE l == call[p].lock
<1>t. TypeOK BY DEF IInv
<1>l. l \in Locks /\ waiters[l] \in Seq(Procs) /\ wakeup[p] \in Seq(Procs) BY <1>t DEF TypeOK
<1>a. WaitersAnnounced /\ ScanProgress BY DEF ListInv
<1>1. CASE WaitListLock(p)
  <2>1. PICK b \in PCs : <<pc[p], b>> \in Section /\ pc' = [pc EXCEPT ![p] = b]
    BY <1>1, Zenon DEF WaitListLock
  <2>2. /\ pc[p] \notin ListPCs /\ b # "qPush"
        /\ \A q \in Procs : pc'[q] = IF q = p THEN b ELSE pc[q]
    BY <2>1, <1>t DEF Section, ListPCs, TypeOK
  <2>3. /\ ~listLocked[l] /\ listLocked' = [listLocked EXCEPT ![l] = TRUE]
        /\ UNCHANGED <<call, hasWaiters, waiters, wakeup, scan>>
    BY <1>1 DEF WaitListLock
  <2>4. \A q \in Procs : pc[q] \in ListPCs => call[q].lock # l
    BY <2>3 DEF ListInv, ListExclusion
  <2>5. ListExclusion' BY <2>2, <2>3, <2>4, <1>t, ZenonT(60) DEF ListInv, ListExclusion, TypeOK
  <2>6. PushAnnounced' BY <2>2, <2>3 DEF ListInv, PushAnnounced
  <2>7. ScanProgress' BY <2>2, <2>3, <1>a DEF ScanProgress, ListPCs
  <2>8. WaitersAnnounced' BY <2>3, <1>a DEF WaitersAnnounced
  <2> QED BY <2>5, <2>6, <2>7, <2>8 DEF ListInv
<1>2. CASE QueueSelfFlag(p)
  <2>1. /\ pc[p] = "qFlag" /\ \A q \in Procs : pc'[q] = IF q = p THEN "qPush" ELSE pc[q]
        /\ \A k \in Locks : hasWaiters'[k] = (hasWaiters[k] \/ k = l)
        /\ UNCHANGED <<listLocked, call, waiters, wakeup, scan>>
    BY <1>2, <1>t, Zenon DEF QueueSelfFlag, TypeOK
  <2>2. ListExclusion' BY <2>1, SMTT(60) DEF ListInv, ListExclusion, ListPCs
  <2>3. PushAnnounced' BY <2>1, <1>t, Zenon DEF ListInv, PushAnnounced, TypeOK
  <2>4. ScanProgress' BY <2>1, <1>a DEF ScanProgress
  <2>5. WaitersAnnounced' BY <2>1, <1>a, Zenon DEF WaitersAnnounced
  <2> QED BY <2>2, <2>3, <2>4, <2>5 DEF ListInv
<1>3. CASE QueueSelfPush(p)
  <2>1. /\ pc[p] = "qPush" /\ \A q \in Procs : q # p => pc'[q] = pc[q]
        /\ pc'[p] \in {"vRelOk", "attempt"}
        /\ listLocked' = [listLocked EXCEPT ![l] = FALSE]
        /\ UNCHANGED <<hasWaiters, call, wakeup, scan>>
        /\ \A k \in Locks : k # l => waiters'[k] = waiters[k]
    BY <1>3, <1>t DEF QueueSelfPush, AfterQueue, TypeOK
  <2>2. ListExclusion' /\ PushAnnounced' BY <2>1, LeaveList, Zenon DEF ListPCs
  <2>3. ScanProgress' BY <2>1, <1>a DEF ScanProgress
  <2>4. hasWaiters[l] BY <2>1 DEF ListInv, PushAnnounced
  <2>5. WaitersAnnounced' BY <2>1, <2>4, <1>a, SMTT(60) DEF WaitersAnnounced
  <2> QED BY <2>2, <2>3, <2>5 DEF ListInv
<1>4. CASE DequeueSelf(p)
  <2> DEFINE mine == {i \in DOMAIN waiters[l] : waiters[l][i] = p}
             rest == IF mine # {} THEN proclist_delete(waiters[l], CHOOSE i \in mine : TRUE)
                                  ELSE waiters[l]
  <2>1. /\ pc[p] = "dqBody" /\ \A q \in Procs : q # p => pc'[q] = pc[q]
        /\ pc'[p] \in {"return", "dqRelOk"}
        /\ listLocked' = [listLocked EXCEPT ![l] = FALSE]
        /\ UNCHANGED <<call, wakeup, scan>>
    BY <1>4, <1>t, ZenonT(60) DEF DequeueSelf, TypeOK
  <2>2. /\ waiters' = [waiters EXCEPT ![l] = rest]
        /\ hasWaiters' = [hasWaiters EXCEPT ![l] = @ /\ rest # <<>>]
    BY <1>4, ZenonT(60) DEF DequeueSelf, FlagAfterDequeue
  <2>3. rest # <<>> => waiters[l] # <<>> BY <1>l, EmptyDomain, ZenonT(60)
  <2> HIDE DEF rest
  <2>4. \A k \in Locks : k # l => hasWaiters'[k] = hasWaiters[k] /\ waiters'[k] = waiters[k]
    BY <2>2, <1>t DEF TypeOK
  <2>5. ListExclusion' /\ PushAnnounced' BY <2>1, <2>4, LeaveList, ZenonT(60) DEF ListPCs
  <2>6. ScanProgress' BY <2>1, <1>a DEF ScanProgress
  <2>7. waiters'[l] # <<>> => hasWaiters'[l]
    BY <2>2, <2>3, <1>l, <1>t, <1>a DEF WaitersAnnounced, TypeOK
  <2>8. WaitersAnnounced' BY <2>4, <2>7, <1>a DEF WaitersAnnounced
  <2> QED BY <2>5, <2>6, <2>8 DEF ListInv
<1>5. CASE WakeupScan(p)
  <2>1. PICK i \in Wakeable(p, l) :
             /\ waiters' = [waiters EXCEPT ![l] = proclist_delete(@, i)]
             /\ wakeup' = [wakeup EXCEPT ![p] = Append(@, waiters[l][i])]
             /\ scan' = [scan EXCEPT ![p] =
                            IF lwWaitMode[waiters[l][i]] = LW_WAIT_UNTIL_FREE
                              THEN @ ELSE lwWaitMode[waiters[l][i]]]
    BY <1>5, ZenonT(60) DEF WakeupScan
  <2>2. pc[p] = "wScan" /\ UNCHANGED <<pc, call, hasWaiters, listLocked>>
    BY <1>5, Zenon DEF WakeupScan, word
  <2>3. i \in 1..Len(waiters[l]) BY <1>l, LenProperties DEF Wakeable
  <2>4. waiters[l][i] \in Procs BY <1>l, <2>3, ElementOfSeq
  <2>5. Append(wakeup[p], waiters[l][i]) # <<>> BY <1>l, <2>4, AppendProperties, SMTT(60)
  <2>6. ListExclusion' /\ PushAnnounced' BY <2>2 DEF ListInv, ListExclusion, PushAnnounced
  <2>7. /\ wakeup'[p] # <<>>
        /\ \A q \in Procs : q # p => wakeup'[q] = wakeup[q] /\ scan'[q] = scan[q]
    BY <2>1, <2>5, <1>t DEF TypeOK
  <2>8. ScanProgress' BY <2>2, <2>7, <1>a DEF ScanProgress
  <2>9. waiters[l] # <<>> BY <2>3
  <2>10. \A k \in Locks : k # l => waiters'[k] = waiters[k] BY <2>1, <1>t, SMTT(60) DEF TypeOK
  <2>11. WaitersAnnounced' BY <2>2, <2>9, <2>10, <1>l, <1>a, SMTT(60) DEF WaitersAnnounced
  <2> QED BY <2>6, <2>8, <2>11, SMTT(60) DEF ListInv
<1>6. CASE WakeupFlags(p)
  <2>1. /\ pc[p] = "wScan" /\ Wakeable(p, l) = {}
        /\ hasWaiters' = [hasWaiters EXCEPT ![l] = @ /\ wakeup[p] # <<>>]
        /\ listLocked' = [listLocked EXCEPT ![l] = FALSE]
        /\ scan' = [scan EXCEPT ![p] = LW_WAIT_UNTIL_FREE]
        /\ UNCHANGED <<waiters, wakeup>>
        /\ Finish(p) \/ (pc' = [pc EXCEPT ![p] = "wake"] /\ call' = call)
    BY <1>6 DEF WakeupFlags
  <2>2. /\ pc'[p] \in {"wake", "releaseAll", "idle"}
        /\ \A q \in Procs : q # p => pc'[q] = pc[q] /\ call'[q] = call[q] /\ scan'[q] = scan[q]
        /\ scan'[p] = LW_WAIT_UNTIL_FREE
    BY <2>1, <1>t, Zenon DEF Finish, TypeOK
  <2>3. ListExclusion' /\ PushAnnounced' BY <2>1, <2>2, <1>t, LeaveList, ZenonT(60) DEF ListPCs, TypeOK
  <2>4. ScanProgress' BY <2>1, <2>2, <1>a, ZenonT(60) DEF ScanProgress
  <2>5. wakeup[p] = <<>> => waiters[l] = <<>>
    <3>1. SUFFICES ASSUME wakeup[p] = <<>> PROVE waiters[l] = <<>> OBVIOUS
    <3>2. scan[p] = LW_WAIT_UNTIL_FREE BY <3>1, <1>a DEF ScanProgress
    <3>3. Wakeable(p, l) = DOMAIN waiters[l]
      BY <3>2 DEF Wakeable, LW_WAIT_UNTIL_FREE, LW_EXCLUSIVE, LW_SHARED
    <3> QED BY <2>1, <3>3, <1>l, EmptyDomain, Zenon
  <2>6. WaitersAnnounced' BY <2>1, <2>5, <1>t, <1>l, <1>a, SMTT(60) DEF WaitersAnnounced, TypeOK
  <2> QED BY <2>3, <2>4, <2>6 DEF ListInv
<1>7. CASE VarValue(p) \/ ClearVar(p)
  <2>1. /\ pc[p] \in {"vVal", "cBody"} /\ \A q \in Procs : q # p => pc'[q] = pc[q]
        /\ pc'[p] \in {"dqLock", "return", "sleep", "qLock", "cRelease"}
        /\ listLocked' = [listLocked EXCEPT ![l] = FALSE]
        /\ UNCHANGED <<hasWaiters, call, waiters, wakeup, scan>>
    <3>0. pc \in [Procs -> PCs] BY <1>t DEF TypeOK
    <3>1. CASE VarValue(p) BY <3>0, <3>1 DEF VarValue
    <3>2. CASE ClearVar(p) BY <3>0, <3>2 DEF ClearVar
    <3> QED BY <1>7, <3>1, <3>2
  <2>2. ListExclusion' /\ PushAnnounced' BY <2>1, LeaveList, ZenonT(60) DEF ListPCs
  <2>3. ScanProgress' BY <2>1, <1>a, ZenonT(60) DEF ScanProgress
  <2>4. WaitersAnnounced' BY <2>1, <1>a, Zenon DEF WaitersAnnounced
  <2> QED BY <2>2, <2>3, <2>4 DEF ListInv
<1>8. CASE UpdateVar(p)
  <2>1. PICK n \in 0..Len(waiters[l]) :
             /\ wakeup' = [wakeup EXCEPT ![p] = SubSeq(waiters[l], 1, n)]
             /\ waiters' = [waiters EXCEPT ![l] = SubSeq(@, n + 1, Len(@))]
             /\ Finish(p) \/ (pc' = [pc EXCEPT ![p] = "wake"] /\ call' = call)
    BY <1>8, ZenonT(60) DEF UpdateVar
  <2>2. /\ pc[p] = "uBody" /\ listLocked' = [listLocked EXCEPT ![l] = FALSE]
        /\ UNCHANGED <<hasWaiters, scan>>
    BY <1>8, ZenonT(60) DEF UpdateVar
  <2>3. /\ pc'[p] \in {"wake", "releaseAll", "idle"}
        /\ \A q \in Procs : q # p => pc'[q] = pc[q] /\ call'[q] = call[q] /\ wakeup'[q] = wakeup[q]
    BY <2>1, <1>t, SMTT(60) DEF Finish, TypeOK
  <2>4. ListExclusion' /\ PushAnnounced' BY <2>2, <2>3, LeaveList, Zenon DEF ListPCs
  <2>5. ScanProgress' BY <2>2, <2>3, <1>a DEF ScanProgress
  <2>6. waiters[l] = <<>> => waiters'[l] = <<>>
    <3>1. SUFFICES ASSUME waiters[l] = <<>> PROVE waiters'[l] = <<>> OBVIOUS
    <3>2. Len(waiters[l]) = 0 /\ n = 0 BY <3>1
    <3>3. waiters'[l] = SubSeq(waiters[l], 1, 0) BY <2>1, <3>2, <1>l, <1>t, SMTT(60) DEF TypeOK
    <3> QED BY <3>3, SubSeqEmpty
  <2>7. \A k \in Locks : k # l => waiters'[k] = waiters[k] BY <2>1, <1>t DEF TypeOK
  <2>8. WaitersAnnounced' BY <2>2, <2>6, <2>7, <1>a DEF WaitersAnnounced
  <2> QED BY <2>4, <2>5, <2>8, SMTT(60) DEF ListInv
<1> QED BY <1>1, <1>2, <1>3, <1>4, <1>5, <1>6, <1>7, <1>8

\* All other steps of the routines are made outside the critical sections.
LEMMA StepList ==
    ASSUME IInv, ListInv, NEW p \in Procs, Step(p)
    PROVE  ListInv'
<1>t. TypeOK BY DEF IInv
<1>1. CASE \/ WaitListLock(p) \/ QueueSelfFlag(p) \/ QueueSelfPush(p) \/ DequeueSelf(p)
           \/ WakeupScan(p) \/ WakeupFlags(p) \/ VarValue(p) \/ UpdateVar(p) \/ ClearVar(p)
  BY <1>1, SectionList
<1>2. CASE AttemptLock(p) \/ VarRead(p)
  <2>1. /\ pc[p] \in {"attempt", "vRead"} /\ \A q \in Procs : q # p => pc'[q] = pc[q]
        /\ pc'[p] \in {"dqLock", "return", "sleep", "qLock", "vLock"}
        /\ UNCHANGED <<hasWaiters, listLocked, waiters, scan, call, wakeup>>
    BY <1>2, <1>t, SMTT(60) DEF AttemptLock, VarRead, TypeOK, shared, word
  <2>2. pc[p] \notin ListPCs /\ pc'[p] \notin ListPCs BY <2>1 DEF ListPCs
  <2> QED BY <2>1, <2>2, OutsideList
<1>3. CASE Sleep(p)
  <2>1. /\ pc[p] \in {"sleep", "dqSleep"}
        /\ pc' = pc \/ pc' = [pc EXCEPT ![p] = AfterSleep(p)]
        /\ UNCHANGED <<hasWaiters, listLocked, waiters, scan, call, wakeup>>
    BY <1>3 DEF Sleep, word
  <2>2. /\ \A q \in Procs : q # p => pc'[q] = pc[q]
        /\ pc'[p] \in {"sleep", "dqSleep", "retry", "vRead", "return"}
    BY <2>1, <1>t DEF AfterSleep, TypeOK
  <2>3. pc[p] \notin ListPCs /\ pc'[p] \notin ListPCs BY <2>1, <2>2 DEF ListPCs
  <2> QED BY <2>1, <2>2, <2>3, OutsideList
<1>4. CASE Retry(p) \/ DequeueSelfReleaseOk(p) \/ VarReleaseOk(p) \/ WakeUnlink(p) \/ WakeClear(p)
  <2>1. /\ pc[p] \in {"retry", "dqRelOk", "vRelOk", "wake", "clear"}
        /\ \A q \in Procs : q # p => pc'[q] = pc[q]
        /\ pc'[p] \in {"attempt", "dqSleep", "vRead", "clear", "post"}
        /\ UNCHANGED <<hasWaiters, listLocked, waiters, scan, call, wakeup>>
    BY <1>4, <1>t, ZenonT(30)
    DEF Retry, DequeueSelfReleaseOk, VarReleaseOk, WakeUnlink, WakeClear, TypeOK, shared, word
  <2>2. pc[p] \notin ListPCs /\ pc'[p] \notin ListPCs BY <2>1, SMTT(60) DEF ListPCs
  <2> QED BY <2>1, <2>2, OutsideList
<1>5. CASE Return(p)
  <2>1. /\ pc[p] = "return" /\ pc'[p] = "idle"
        /\ \A q \in Procs : q # p => pc'[q] = pc[q] /\ call'[q] = call[q]
        /\ UNCHANGED <<hasWaiters, listLocked, waiters, scan, wakeup>>
    BY <1>5, <1>t DEF Return, TypeOK, word
  <2> QED BY <2>1, OutsideList DEF ListPCs
<1>6. CASE ReleaseAll(p)
  <2>1. pc[p] \notin ListPCs BY <1>6 DEF ReleaseAll, ListPCs
  <2>2. CASE \E k \in Locks : Release(p, k, "LWLockReleaseAll")
    BY <2>1, <2>2, ReleaseList
  <2>3. CASE /\ pc' = [pc EXCEPT ![p] = "idle"] /\ call' = [call EXCEPT ![p] = NoCall]
             /\ UNCHANGED <<hasWaiters, listLocked, waiters, scan, wakeup>>
    <3>1. /\ pc'[p] = "idle" /\ \A q \in Procs : q # p => pc'[q] = pc[q] /\ call'[q] = call[q]
      BY <2>3, <1>t DEF TypeOK
    <3> QED BY <2>1, <2>3, <3>1, OutsideList DEF ListPCs
  <2> QED BY <1>6, <2>2, <2>3 DEF ReleaseAll, shared, word
<1>7. CASE WakePost(p)
  <2>1. /\ pc[p] = "post"
        /\ Finish(p) \/ (pc' = [pc EXCEPT ![p] = "wake"] /\ call' = call)
        /\ wakeup' = [wakeup EXCEPT ![p] = Tail(@)]
        /\ UNCHANGED <<hasWaiters, listLocked, waiters, scan>>
    BY <1>7 DEF WakePost, word
  <2>2. /\ \A q \in Procs : q # p => pc'[q] = pc[q] /\ call'[q] = call[q]
        /\ pc'[p] \in {"wake", "releaseAll", "idle"}
    BY <2>1, <1>t, SMTT(60) DEF Finish, TypeOK
  <2>3. \A q \in Procs : q # p => wakeup'[q] = wakeup[q] BY <2>1, <1>t DEF TypeOK
  <2> QED BY <2>1, <2>2, <2>3, OutsideList DEF ListPCs
<1>8. CASE ReleaseCleared(p)
  <2>1. pc[p] \notin ListPCs /\ call[p].lock \in Locks
    BY <1>8, <1>t DEF ReleaseCleared, ListPCs, TypeOK
  <2> QED BY <1>8, <2>1, ReleaseList DEF ReleaseCleared
<1> QED BY <1>1, <1>2, <1>3, <1>4, <1>5, <1>6, <1>7, <1>8 DEF Step

\* Calls begin, and errors are raised, outside the critical sections.
LEMMA CallerList ==
    ASSUME IInv, ListInv, NEW p \in Procs, Caller(p)
    PROVE  ListInv'
<1>t. TypeOK BY DEF IInv
<1>1. ASSUME pc[p] = "idle",
             \A q \in Procs : q # p => pc'[q] = pc[q] /\ call'[q] = call[q],
             pc'[p] \in {"releaseAll", "vRead", "attempt", "uLock", "cLock"},
             UNCHANGED <<shared, wakeup, scan>>
      PROVE  ListInv'
  <2>1. pc[p] \notin ListPCs /\ pc'[p] \notin ListPCs BY <1>1, SMTT(60) DEF ListPCs
  <2> QED BY <1>1, <2>1, OutsideList DEF shared, word
<1>2. ASSUME NEW l \in Locks, NEW fn \in WaitFns, NEW mode \in Modes, NEW v \in Vals,
             Begin(p, fn, l, mode, v)
      PROVE  ListInv'
  <2>1. \/ pc' = [pc EXCEPT ![p] = "releaseAll"]
        \/ pc' = [pc EXCEPT ![p] = IF fn = "LWLockWaitForVar" THEN "vRead" ELSE "attempt"]
    BY <1>2, <1>t, BeginCases
  <2>2. /\ pc[p] = "idle" /\ UNCHANGED <<shared, wakeup, scan>>
        /\ \A q \in Procs : q # p => call'[q] = call[q]
    BY <1>2, <1>t DEF Begin, TypeOK
  <2> QED BY <1>1, <1>t, <2>1, <2>2 DEF TypeOK
<1>3. ASSUME NEW l \in Locks, NEW fn \in HolderFns, NEW v \in Vals, BeginHolder(p, fn, l, v)
      PROVE  ListInv'
  BY <1>1, <1>3, <1>t DEF BeginHolder, TypeOK
<1>4. CASE RaiseError(p)
  BY <1>1, <1>4, <1>t DEF RaiseError, TypeOK
<1>5. CASE ReleaseOne(p)
  <2>1. pc[p] \notin ListPCs BY <1>5, SMTT(60) DEF ReleaseOne, ListPCs
  <2> QED BY <1>5, <2>1, ReleaseList DEF ReleaseOne
<1>6. CASE ForeignPost(p) \/ ForeignTake(p)
  BY <1>6 DEF ForeignPost, ForeignTake, word, ListInv, ListExclusion, PushAnnounced,
     ScanProgress, WaitersAnnounced
<1> QED
  BY <1>2, <1>3, <1>4, <1>5, <1>6, NoCallType, LWLockAssumption, Zenon
  DEF Caller, WaitFns, HolderFns, Modes, LW_SHARED

\* ListInv is kept by every step.
LEMMA NextList == IInv /\ ListInv /\ [Next]_vars => ListInv'
<1> SUFFICES ASSUME IInv, ListInv, [Next]_vars PROVE ListInv' OBVIOUS
<1>1. CASE Next BY <1>1, StepList, CallerList DEF Next
<1>2. CASE UNCHANGED vars
  BY <1>2 DEF vars, shared, word, ListInv, ListExclusion, PushAnnounced, ScanProgress,
     WaitersAnnounced
<1> QED BY <1>1, <1>2

\* ListInv is an invariant.
LEMMA ListInvariance == Spec => []ListInv
<1>1. Init => ListInv
  BY SMTT(60) DEF Init, ListInv, ListExclusion, PushAnnounced, ScanProgress, WaitersAnnounced, ListPCs
<1> QED BY <1>1, NextList, Invariance, PTL DEF Spec

\* No backend ever waits on a list that the word does not announce, so no release
\* that leaves the lock free can overlook a waiter for want of the flag; the list
\* is only ever manipulated by the backend that holds its bit lock.
THEOREM ListProtocol == Spec => [](WaitersAnnounced /\ ListExclusion)
<1>1. ListInv => WaitersAnnounced /\ ListExclusion BY DEF ListInv
<1> QED BY <1>1, ListInvariance, PTL
====
