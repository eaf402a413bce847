-------------------------- MODULE LWLockListProofs --------------------------
(***************************************************************************)
(* The wait lists of lwlock.c, for any number of backends and locks: a     *)
(* backend is on at most one list, exactly while lwWaiting says so, and    *)
(* nobody sleeps in LWLockWaitForVar on a value that has gone.  LinkInv    *)
(* adds to WaitListsIntact where a queued backend may be, VarInv to        *)
(* VarSleeperCovered the order of a wait list, that RELEASE_OK stays set   *)
(* for a waiter for a value, and that LWLockReleaseClearVar is called by   *)
(* the exclusive holder.  Both rest on IInv and ListInv of LWLockProofs.   *)
(***************************************************************************)
EXTENDS LWLockProofs

USE ZenonT(10), SMTT(60)

\* The backends in a list.
Elems(s) == {s[i] : i \in DOMAIN s}
Distinct(s) == \A i, j \in DOMAIN s : s[i] = s[j] => i = j

\* The backends in a waker's list whose lwWaiting it has not cleared yet.
Marked(q) == IF pc[q] = "post" THEN Elems(wakeup[q]) \ {Head(wakeup[q])} ELSE Elems(wakeup[q])

\* The steps at which a backend may be on a list, and those of a waker.
QueuedPCs == {"sleep", "dqLock", "dqBody", "dqRelOk", "dqSleep", "vRelOk", "attempt", "vRead",
              "vLock", "vVal"}
WakerPCs == {"wScan", "wake", "clear", "post"}

QueuedShape(p) ==
    /\ queued[p] => pc[p] \in QueuedPCs
    /\ call[p].fn = "LWLockConditionalAcquire" => pc[p] \in {"attempt", "return"} /\ ~queued[p]
    /\ wakeup[p] # <<>> => pc[p] \in WakerPCs

Listed ==
    /\ \A l \in Locks : Distinct(waiters[l])
    /\ \A l \in Locks : \A p \in Elems(waiters[l]) :
           queued[p] /\ lwWaiting[p] /\ call[p].lock = l /\ lwWaitMode[p] = QueueMode(p)

Woken ==
    /\ \A q \in Procs : Distinct(wakeup[q])
    /\ \A q \in Procs : \A p \in Marked(q) :
           queued[p] /\ lwWaiting[p] /\ \A l \in Locks : p \notin Elems(waiters[l])
    /\ \A q, r \in Procs : \A p \in Marked(q) : p \in Marked(r) => q = r

WaitingListed ==
    \A p \in Procs : lwWaiting[p] => \/ p \in Elems(waiters[call[p].lock])
                                     \/ \E q \in Procs : p \in Marked(q)

LinkInv == (\A p \in Procs : QueuedShape(p)) /\ Listed /\ Woken /\ WaitingListed

\* The waiters for a value, or for the lock to become free, come first.
InOrderOf(mode, s) ==
    \A i, j \in DOMAIN s : (i < j /\ mode[s[j]] = LW_WAIT_UNTIL_FREE)
                                => mode[s[i]] = LW_WAIT_UNTIL_FREE
FreeFirst == \A l \in Locks : InOrderOf(lwWaitMode, waiters[l])

\* RELEASE_OK is set while a waiter for a value is on the list.
ReleaseAllowed ==
    \A l \in Locks : \A p \in Elems(waiters[l]) :
        (call[p].fn = "LWLockWaitForVar" /\ pc[p] # "vRelOk") => releaseOk[l]

\* A scan that has woken a waiter for the lock has passed all the others.
FreeTaken ==
    \A q \in Procs : scan[q] # LW_WAIT_UNTIL_FREE =>
        \A p \in Elems(waiters[call[q].lock]) : lwWaitMode[p] # LW_WAIT_UNTIL_FREE

ClearPCs == {"cLock", "cBody", "cRelease"}
ClearingHolds ==
    \A p \in Procs : pc[p] \in ClearPCs => held[p][call[p].lock] = LW_EXCLUSIVE

\* A backend sleeps on a value of the variable that has gone.
Stale(p, l) ==
    /\ p \in Elems(waiters[l])
    /\ pc[p] = "sleep" /\ call[p].fn = "LWLockWaitForVar" /\ var[l] # call[p].val
CoverPCs == {"cRelease", "wLock", "wScan"}
StaleCovered ==
    \A l \in Locks : \A p \in Procs :
        Stale(p, l) => \E q \in Procs : call[q].lock = l /\ pc[q] \in CoverPCs

VarInv == FreeFirst /\ ReleaseAllowed /\ FreeTaken /\ ClearingHolds /\ StaleCovered
-----------------------------------------------------------------------------
(* Lists *)

\* A list holds members of its set.
LEMMA ElemsType ==
    ASSUME NEW S, NEW s \in Seq(S)
    PROVE  Elems(s) \subseteq S /\ DOMAIN s = 1..Len(s) /\ Len(s) \in Nat
BY LenProperties, ElementOfSeq, SMTT(60) DEF Elems

\* A list with a new entry at its end or at its front, position by position.
LEMMA PushAt ==
    ASSUME NEW S, NEW s \in Seq(S), NEW p \in S
    PROVE  /\ DOMAIN Append(s, p) = 1..(Len(s) + 1) /\ DOMAIN (<<p>> \o s) = 1..(Len(s) + 1)
           /\ \A i \in 1..(Len(s) + 1) :
                  /\ Append(s, p)[i] = IF i = Len(s) + 1 THEN p ELSE s[i]
                  /\ (<<p>> \o s)[i] = IF i = 1 THEN p ELSE s[i - 1]
<1>0. DOMAIN s = 1..Len(s) /\ Len(s) \in Nat BY ElemsType
<1>1. /\ Append(s, p) \in Seq(S) /\ Len(Append(s, p)) = Len(s) + 1
      /\ \A i \in 1..Len(s) : Append(s, p)[i] = s[i]
      /\ Append(s, p)[Len(s) + 1] = p
  BY AppendProperties, SMTT(60)
<1>2. DOMAIN Append(s, p) = 1..(Len(s) + 1) BY <1>1, LenProperties
<1>3. /\ <<p>> \o s \in Seq(S) /\ Len(<<p>> \o s) = Len(s) + 1
      /\ (<<p>> \o s)[1] = p
      /\ \A i \in 1..Len(s) : (<<p>> \o s)[i + 1] = s[i]
  OBVIOUS
<1>4. DOMAIN (<<p>> \o s) = 1..(Len(s) + 1) BY <1>3, LenProperties
<1> DEFINE a == Append(s, p)
           f == <<p>> \o s
<1> HIDE DEF a, f
<1>6. \A i \in 1..(Len(s) + 1) : i = Len(s) + 1 \/ i \in 1..Len(s) BY <1>0
<1>7. \A i \in 1..(Len(s) + 1) : i = 1 \/ (i - 1 \in 1..Len(s) /\ (i - 1) + 1 = i) BY <1>0
<1>8. \A i \in 1..(Len(s) + 1) : f[i] = IF i = 1 THEN p ELSE s[i - 1]
  BY <1>3, <1>7 DEF f
<1>9. \A i \in 1..(Len(s) + 1) : a[i] = IF i = Len(s) + 1 THEN p ELSE s[i]
  BY <1>0, <1>1, <1>6 DEF a
<1> QED BY <1>2, <1>4, <1>8, <1>9, Zenon DEF a, f

\* Entering a list, at its end or at its front.
LEMMA PushElems ==
    ASSUME NEW S, NEW s \in Seq(S), NEW p \in S, Distinct(s), p \notin Elems(s)
    PROVE  /\ Elems(Append(s, p)) = Elems(s) \cup {p} /\ Distinct(Append(s, p))
           /\ Elems(<<p>> \o s) = Elems(s) \cup {p} /\ Distinct(<<p>> \o s)
<1>0. DOMAIN s = 1..Len(s) /\ Len(s) \in Nat BY ElemsType
<1> DEFINE a == Append(s, p)
           f == <<p>> \o s
<1>5. \A i \in DOMAIN s : s[i] # p BY DEF Elems
<1>6. \A i \in 1..(Len(s) + 1) : i = Len(s) + 1 \/ i \in 1..Len(s) BY <1>0
<1>7. \A i \in 1..(Len(s) + 1) : i = 1 \/ (i - 1 \in 1..Len(s) /\ (i - 1) + 1 = i) BY <1>0
<1>8. \A i \in 1..(Len(s) + 1) : f[i] = IF i = 1 THEN p ELSE s[i - 1] BY PushAt, SMTT(60)
<1>9. \A i \in 1..(Len(s) + 1) : a[i] = IF i = Len(s) + 1 THEN p ELSE s[i] BY PushAt, SMTT(60)
<1>10. DOMAIN a = 1..(Len(s) + 1) /\ DOMAIN f = 1..(Len(s) + 1) BY PushAt, SMTT(60)
<1> HIDE DEF a, f
<1>11. Elems(a) = Elems(s) \cup {p}
  BY <1>0, <1>9, <1>10, SMTT(60) DEF Elems
<1>12. Distinct(a)
  BY <1>0, <1>5, <1>6, <1>9, <1>10 DEF Distinct
<1>13. Elems(f) = Elems(s) \cup {p}
  <2>1. ASSUME NEW x \in Elems(f) PROVE x \in Elems(s) \cup {p}
    BY <1>0, <1>7, <1>8, <1>10, SMTT(60) DEF Elems
  <2>2. ASSUME NEW i \in DOMAIN s PROVE s[i] \in Elems(f)
    <3>1. i + 1 \in DOMAIN f /\ f[i + 1] = s[i] BY <1>0, <1>8, <1>10, SMTT(60)
    <3> QED BY <3>1 DEF Elems
  <2>3. p \in Elems(f)
    <3>1. 1 \in DOMAIN f /\ f[1] = p BY <1>0, <1>8, <1>10, SMTT(60)
    <3> QED BY <3>1 DEF Elems
  <2>4. \A x \in Elems(s) : x \in Elems(f) BY <2>2 DEF Elems
  <2> QED BY <2>1, <2>3, <2>4, Zenon
<1>14. Distinct(f)
  <2> SUFFICES ASSUME NEW i \in DOMAIN f, NEW j \in DOMAIN f, f[i] = f[j] PROVE i = j
    BY DEF Distinct
  <2>1. (i = 1 \/ i - 1 \in DOMAIN s) /\ (j = 1 \/ j - 1 \in DOMAIN s) BY <1>0, <1>7, <1>10
  <2>2. i \in Nat /\ j \in Nat BY <1>0, <1>10
  <2>3. CASE i = 1 \/ j = 1 BY <2>1, <2>3, <1>5, <1>8, <1>10, SMTT(60)
  <2>4. CASE i # 1 /\ j # 1
    <3>1. s[i - 1] = s[j - 1] BY <2>4, <1>8, <1>10
    <3>2. i - 1 = j - 1 BY <2>1, <2>4, <3>1 DEF Distinct
    <3> QED BY <2>2, <3>2
  <2> QED BY <2>3, <2>4
<1> QED BY <1>11, <1>12, <1>13, <1>14 DEF a, f

\* The two parts of a list, position by position.
LEMMA SplitAt ==
    ASSUME NEW S, NEW s \in Seq(S), NEW n \in 0..Len(s)
    PROVE  LET a == SubSeq(s, 1, n)
               b == SubSeq(s, n + 1, Len(s))
           IN  /\ a \in Seq(S) /\ Len(a) = n /\ \A j \in 1..n : a[j] = s[j]
               /\ b \in Seq(S) /\ Len(b) = Len(s) - n
               /\ \A j \in 1..(Len(s) - n) : b[j] = s[j + n]
<1> DEFINE a == SubSeq(s, 1, n)
           b == SubSeq(s, n + 1, Len(s))
<1>0. DOMAIN s = 1..Len(s) /\ Len(s) \in Nat /\ n \in Nat BY ElemsType, SMTT(60)
<1>1. Len(a) = n /\ \A j \in 1..n : a[j] = s[j]
  BY <1>0, SubSeqProperties, LenProperties, ElementOfSeq, SMTT(60)
<1>2. /\ Len(b) = Len(s) - n /\ \A j \in 1..(Len(s) - n) : b[j] = s[j + n]
  <2> DEFINE m == n + 1
             k == Len(s)
  <2>0. m \in Int /\ k \in Int /\ n \in Int /\ n <= k /\ m = n + 1 BY <1>0
  <2>1. \A j \in m..k : s[j] \in S BY <1>0, ElementOfSeq
  <2> HIDE DEF m, k
  <2>3. /\ Len(SubSeq(s, m, k)) = IF m <= k THEN k - m + 1 ELSE 0
        /\ \A j \in 1..(k - m + 1) : SubSeq(s, m, k)[j] = s[m + j - 1]
    BY <2>0, <2>1, SubSeqProperties, SMTT(60)
  <2>4. k - m + 1 = k - n /\ (~(m <= k) => k - n = 0) BY <2>0
  <2>5. \A j \in 1..(k - n) : m + j - 1 = j + n BY <2>0
  <2>6. /\ Len(SubSeq(s, m, k)) = k - n
        /\ \A j \in 1..(k - n) : SubSeq(s, m, k)[j] = s[j + n]
    BY <2>3, <2>4, <2>5, ZenonT(30)
  <2> QED BY <2>6 DEF m, k
<1>3. a \in Seq(S) /\ b \in Seq(S)
  BY SubSeqProperties, LenProperties, ElementOfSeq, SMTT(60)
<1> QED BY <1>1, <1>2, <1>3

\* What proclist_delete leaves, position by position.
LEMMA DeleteAt ==
    ASSUME NEW S, NEW s \in Seq(S), NEW i \in 1..Len(s)
    PROVE  /\ DOMAIN proclist_delete(s, i) = 1..(Len(s) - 1)
           /\ \A j \in 1..(Len(s) - 1) :
                  proclist_delete(s, i)[j] = IF j < i THEN s[j] ELSE s[j + 1]
<1>0. DOMAIN s = 1..Len(s) /\ Len(s) \in Nat /\ i \in Nat BY ElemsType, SMTT(60)
<1> DEFINE a == SubSeq(s, 1, i - 1)
           b == SubSeq(s, i + 1, Len(s))
<1>1. /\ a \in Seq(S) /\ Len(a) = i - 1
      /\ \A j \in 1..(i - 1) : a[j] = s[j]
  <2>1. i - 1 \in 0..Len(s) BY <1>0
  <2> QED BY <2>1, SplitAt, ZenonT(30)
<1>2. /\ b \in Seq(S) /\ Len(b) = Len(s) - i
      /\ \A j \in 1..(Len(s) - i) : b[j] = s[j + i]
  <2>1. i \in 0..Len(s) BY <1>0
  <2> QED BY <2>1, SplitAt
<1>3. proclist_delete(s, i) = a \o b BY DEF proclist_delete
<1> HIDE DEF a, b
<1>c. /\ a \o b \in Seq(S) /\ Len(a \o b) = Len(a) + Len(b)
      /\ \A j \in 1..(Len(a) + Len(b)) :
             (a \o b)[j] = IF j <= Len(a) THEN a[j] ELSE b[j - Len(a)]
  BY <1>1, <1>2, ConcatProperties, ZenonT(30)
<1>4. /\ a \o b \in Seq(S) /\ Len(a \o b) = Len(s) - 1
      /\ \A j \in 1..(i - 1) : (a \o b)[j] = a[j]
      /\ \A j \in 1..(Len(s) - 1) : j >= i => (a \o b)[j] = b[j - (i - 1)]
  <2> DEFINE c == a \o b
  <2>1. (i - 1) + (Len(s) - i) = Len(s) - 1 BY <1>0
  <2>2. /\ c \in Seq(S) /\ Len(c) = Len(s) - 1
        /\ \A j \in 1..(Len(s) - 1) : c[j] = IF j <= i - 1 THEN a[j] ELSE b[j - (i - 1)]
    BY <1>1, <1>2, <1>c, <2>1
  <2> HIDE DEF c
  <2>3. \A j \in 1..(i - 1) : j \in 1..(Len(s) - 1) /\ j <= i - 1 BY <1>0
  <2>4. \A j \in 1..(Len(s) - 1) : j >= i => ~(j <= i - 1) BY <1>0
  <2>5. \A j \in 1..(i - 1) : c[j] = a[j] BY <2>2, <2>3
  <2>6. \A j \in 1..(Len(s) - 1) : j >= i => c[j] = b[j - (i - 1)] BY <2>2, <2>4
  <2> QED BY <2>2, <2>5, <2>6 DEF c
<1>5. ASSUME NEW j \in 1..(Len(s) - 1)
      PROVE  (a \o b)[j] = IF j < i THEN s[j] ELSE s[j + 1]
  <2>1. CASE j < i BY <2>1, <1>0, <1>1, <1>4
  <2>2. CASE ~(j < i)
    <3>1. j - (i - 1) \in 1..(Len(s) - i) /\ (j - (i - 1)) + i = j + 1 BY <2>2, <1>0
    <3>2. (a \o b)[j] = b[j - (i - 1)] BY <2>2, <1>0, <1>4
    <3> QED BY <2>2, <3>1, <3>2, <1>2
  <2> QED BY <2>1, <2>2, Zenon
<1>6. DOMAIN (a \o b) = 1..(Len(s) - 1) BY <1>4, LenProperties
<1> QED BY <1>3, <1>5, <1>6

\* Leaving a list.
LEMMA DeleteElems ==
    ASSUME NEW S, NEW s \in Seq(S), NEW i \in 1..Len(s), Distinct(s)
    PROVE  /\ Elems(proclist_delete(s, i)) = Elems(s) \ {s[i]}
           /\ Distinct(proclist_delete(s, i))
<1> DEFINE t == proclist_delete(s, i)
<1>0. DOMAIN s = 1..Len(s) /\ Len(s) \in Nat /\ i \in Nat BY ElemsType, SMTT(60)
<1>1. /\ DOMAIN t = 1..(Len(s) - 1)
      /\ \A j \in 1..(Len(s) - 1) : t[j] = IF j < i THEN s[j] ELSE s[j + 1]
  BY DeleteAt
<1> HIDE DEF t
<1> DEFINE old(j) == IF j < i THEN j ELSE j + 1
<1>2. \A j \in DOMAIN t : old(j) \in DOMAIN s /\ old(j) # i /\ t[j] = s[old(j)]
  BY <1>0, <1>1
<1>3. \A j, k \in DOMAIN t : old(j) = old(k) => j = k BY <1>0, <1>1
<1>4. \A k \in DOMAIN s : k # i => \E j \in DOMAIN t : k = old(j)
  <2> SUFFICES ASSUME NEW k \in DOMAIN s, k # i PROVE \E j \in DOMAIN t : k = old(j) OBVIOUS
  <2>1. CASE k < i
    <3>1. k \in DOMAIN t /\ old(k) = k BY <2>1, <1>0, <1>1
    <3> QED BY <3>1
  <2>2. CASE ~(k < i)
    <3>1. k - 1 \in DOMAIN t /\ old(k - 1) = k BY <2>2, <1>0, <1>1
    <3> QED BY <3>1
  <2> QED BY <2>1, <2>2
<1> HIDE DEF old
<1>5. Distinct(t) BY <1>2, <1>3 DEF Distinct
<1>6. Elems(t) \subseteq Elems(s) \ {s[i]} BY <1>0, <1>2, SMTT(60) DEF Elems, Distinct
<1>7. Elems(s) \ {s[i]} \subseteq Elems(t)
  <2> SUFFICES ASSUME NEW k \in DOMAIN s, s[k] # s[i] PROVE s[k] \in Elems(t) BY DEF Elems
  <2>1. PICK j \in DOMAIN t : k = old(j) BY <1>4
  <2>2. t[j] = s[k] BY <2>1, <1>2
  <2> QED BY <2>2 DEF Elems
<1> QED BY <1>5, <1>6, <1>7 DEF t

\* Splitting a list.
LEMMA SplitElems ==
    ASSUME NEW S, NEW s \in Seq(S), NEW n \in 0..Len(s), Distinct(s)
    PROVE  LET a == SubSeq(s, 1, n)
               b == SubSeq(s, n + 1, Len(s))
           IN  /\ Distinct(a) /\ Distinct(b)
               /\ Elems(a) \cup Elems(b) = Elems(s) /\ Elems(a) \cap Elems(b) = {}
               /\ DOMAIN b = 1..(Len(s) - n) /\ \A j \in 1..(Len(s) - n) : b[j] = s[j + n]
               /\ DOMAIN a = 1..n /\ \A j \in 1..n : a[j] = s[j]
<1> DEFINE a == SubSeq(s, 1, n)
           b == SubSeq(s, n + 1, Len(s))
<1>0. DOMAIN s = 1..Len(s) /\ Len(s) \in Nat /\ n \in Nat BY ElemsType, SMTT(60)
<1>1. DOMAIN a = 1..n /\ \A j \in 1..n : a[j] = s[j]
  BY SplitAt, LenProperties, SMTT(60)
<1>2. /\ DOMAIN b = 1..(Len(s) - n) /\ \A j \in 1..(Len(s) - n) : b[j] = s[j + n]
  BY SplitAt, LenProperties, SMTT(60)
<1> HIDE DEF a, b
<1>3. Distinct(a) BY <1>0, <1>1, SMTT(60) DEF Distinct
<1>4. Distinct(b)
  <2> SUFFICES ASSUME NEW j \in DOMAIN b, NEW k \in DOMAIN b, b[j] = b[k] PROVE j = k
    BY DEF Distinct
  <2>1. j + n \in DOMAIN s /\ k + n \in DOMAIN s /\ s[j + n] = s[k + n] BY <1>0, <1>2
  <2>2. j + n = k + n BY <2>1 DEF Distinct
  <2> QED BY <2>2, <1>0, <1>2
<1>5. Elems(a) \subseteq Elems(s) BY <1>0, <1>1, SMTT(60) DEF Elems
<1>6. Elems(b) \subseteq Elems(s)
  <2>1. \A j \in DOMAIN b : j + n \in DOMAIN s BY <1>0, <1>2
  <2> QED BY <2>1, <1>2 DEF Elems
<1>7. Elems(s) \subseteq Elems(a) \cup Elems(b)
  <2> SUFFICES ASSUME NEW k \in DOMAIN s PROVE s[k] \in Elems(a) \cup Elems(b) BY DEF Elems
  <2>1. CASE k <= n
    <3>1. k \in DOMAIN a /\ a[k] = s[k] BY <2>1, <1>0, <1>1
    <3> QED BY <3>1 DEF Elems
  <2>2. CASE ~(k <= n)
    <3>1. k - n \in DOMAIN b /\ (k - n) + n = k BY <2>2, <1>0, <1>2
    <3>2. b[k - n] = s[k] BY <3>1, <1>2
    <3> QED BY <3>1, <3>2 DEF Elems
  <2> QED BY <2>1, <2>2
<1>8. Elems(a) \cap Elems(b) = {}
  <2> SUFFICES ASSUME NEW j \in DOMAIN a, NEW k \in DOMAIN b, a[j] = b[k] PROVE FALSE
    BY DEF Elems
  <2>1. j \in DOMAIN s /\ k + n \in DOMAIN s /\ s[j] = s[k + n] /\ j # k + n BY <1>0, <1>1, <1>2
  <2> QED BY <2>1 DEF Distinct
<1> QED BY <1>1, <1>2, <1>3, <1>4, <1>5, <1>6, <1>7, <1>8 DEF a, b

\* Leaving a list, or splitting it, keeps its order; so does entering it in front as
\* a waiter for a value, or at the end as any other.
LEMMA OrderKept ==
    ASSUME NEW S, NEW s \in Seq(S), NEW mode, InOrderOf(mode, s)
    PROVE  /\ \A i \in 1..Len(s) : InOrderOf(mode, proclist_delete(s, i))
           /\ \A n \in 0..Len(s) : InOrderOf(mode, SubSeq(s, n + 1, Len(s)))
           /\ \A p \in S : mode[p] = LW_WAIT_UNTIL_FREE => InOrderOf(mode, <<p>> \o s)
           /\ \A p \in S : mode[p] # LW_WAIT_UNTIL_FREE => InOrderOf(mode, Append(s, p))
<1>0. DOMAIN s = 1..Len(s) /\ Len(s) \in Nat BY ElemsType
<1>1. ASSUME NEW i \in 1..Len(s) PROVE InOrderOf(mode, proclist_delete(s, i))
  <2> DEFINE t == proclist_delete(s, i)
             old(j) == IF j < i THEN j ELSE j + 1
  <2>1. /\ DOMAIN t = 1..(Len(s) - 1)
        /\ \A j \in 1..(Len(s) - 1) : t[j] = IF j < i THEN s[j] ELSE s[j + 1]
    BY DeleteAt
  <2> HIDE DEF t
  <2>2. \A j \in DOMAIN t : old(j) \in DOMAIN s /\ t[j] = s[old(j)] BY <1>0, <2>1
  <2>3. \A j, k \in DOMAIN t : j < k => old(j) < old(k) BY <1>0, <2>1
  <2> HIDE DEF old
  <2>4. InOrderOf(mode, t) BY <2>2, <2>3 DEF InOrderOf
  <2> QED BY <2>4 DEF t
<1>2. ASSUME NEW n \in 0..Len(s) PROVE InOrderOf(mode, SubSeq(s, n + 1, Len(s)))
  <2> DEFINE t == SubSeq(s, n + 1, Len(s))
             old(j) == j + n
  <2>1. DOMAIN t = 1..(Len(s) - n) /\ \A j \in 1..(Len(s) - n) : t[j] = s[old(j)]
    BY SplitAt, LenProperties, SMTT(60)
  <2> HIDE DEF t
  <2>2. \A j \in DOMAIN t : old(j) \in DOMAIN s BY <1>0, <2>1
  <2>3. \A j, k \in DOMAIN t : j < k => old(j) < old(k) BY <1>0, <2>1
  <2> HIDE DEF old
  <2>4. InOrderOf(mode, t) BY <2>1, <2>2, <2>3, ZenonT(30) DEF InOrderOf
  <2> QED BY <2>4 DEF t
<1>3. ASSUME NEW p \in S, mode[p] = LW_WAIT_UNTIL_FREE PROVE InOrderOf(mode, <<p>> \o s)
  <2> DEFINE t == <<p>> \o s
  <2>1. DOMAIN t = 1..(Len(s) + 1) /\ \A i \in 1..(Len(s) + 1) : t[i] = IF i = 1 THEN p ELSE s[i - 1]
    BY PushAt, SMTT(60)
  <2> HIDE DEF t
  <2>2. SUFFICES ASSUME NEW i \in DOMAIN t, NEW j \in DOMAIN t, i < j,
                        mode[t[j]] = LW_WAIT_UNTIL_FREE, i # 1
                 PROVE  mode[t[i]] = LW_WAIT_UNTIL_FREE
    BY <1>3, <2>1 DEF InOrderOf, t
  <2>3. j # 1 /\ i - 1 \in DOMAIN s /\ j - 1 \in DOMAIN s /\ i - 1 < j - 1 BY <1>0, <2>1, <2>2, SMTT(60)
  <2>4. t[i] = s[i - 1] /\ t[j] = s[j - 1] BY <2>1, <2>2, <2>3
  <2> QED BY <2>2, <2>3, <2>4 DEF InOrderOf
<1>4. ASSUME NEW p \in S, mode[p] # LW_WAIT_UNTIL_FREE PROVE InOrderOf(mode, Append(s, p))
  <2> DEFINE t == Append(s, p)
  <2>1. DOMAIN t = 1..(Len(s) + 1)
        /\ \A i \in 1..(Len(s) + 1) : t[i] = IF i = Len(s) + 1 THEN p ELSE s[i]
    BY PushAt, SMTT(60)
  <2> HIDE DEF t
  <2>2. SUFFICES ASSUME NEW i \in DOMAIN t, NEW j \in DOMAIN t, i < j,
                        mode[t[j]] = LW_WAIT_UNTIL_FREE
                 PROVE  mode[t[i]] = LW_WAIT_UNTIL_FREE
    BY DEF InOrderOf, t
  <2>3. j # Len(s) + 1 BY <1>4, <2>1, <2>2
  <2>4. i \in DOMAIN s /\ j \in DOMAIN s /\ t[i] = s[i] /\ t[j] = s[j] BY <1>0, <2>1, <2>2, <2>3
  <2> QED BY <2>2, <2>4 DEF InOrderOf
<1> QED BY <1>1, <1>2, <1>3, <1>4

\* Going on to the rest of a list.
LEMMA TailElems ==
    ASSUME NEW S, NEW s \in Seq(S), s # <<>>, Distinct(s)
    PROVE  /\ Head(s) \in Elems(s) /\ Distinct(Tail(s))
           /\ Elems(Tail(s)) = Elems(s) \ {Head(s)}
<1>0. DOMAIN s = 1..Len(s) /\ Len(s) \in Nat BY ElemsType
<1>1. Len(s) \in Nat \ {0} BY EmptySeq, <1>0
<1>2. Head(s) = s[1] /\ 1 \in DOMAIN s BY <1>0, <1>1, HeadTailProperties, SMTT(60)
<1> DEFINE t == Tail(s)
<1>3. DOMAIN t = 1..(Len(s) - 1) /\ \A j \in 1..(Len(s) - 1) : t[j] = s[j + 1]
  BY <1>1, HeadTailProperties, LenProperties, SMTT(60)
<1> HIDE DEF t
<1>4. \A j \in DOMAIN t : j + 1 \in DOMAIN s /\ j + 1 # 1 BY <1>0, <1>1, <1>3
<1>5. Distinct(t)
  <2> SUFFICES ASSUME NEW j \in DOMAIN t, NEW k \in DOMAIN t, t[j] = t[k] PROVE j = k
    BY DEF Distinct
  <2>1. j + 1 = k + 1 BY <1>3, <1>4 DEF Distinct
  <2> QED BY <2>1, <1>0, <1>3
<1>6. Elems(t) \subseteq Elems(s) \ {s[1]} BY <1>2, <1>3, <1>4, SMTT(60) DEF Elems, Distinct
<1>7. Elems(s) \ {s[1]} \subseteq Elems(t)
  <2> SUFFICES ASSUME NEW k \in DOMAIN s, k # 1 PROVE s[k] \in Elems(t) BY <1>2 DEF Elems
  <2>1. k - 1 \in DOMAIN t /\ (k - 1) + 1 = k BY <1>0, <1>1, <1>3
  <2>2. t[k - 1] = s[k] BY <2>1, <1>3
  <2> QED BY <2>1, <2>2 DEF Elems
<1>8. s[1] \in Elems(s) BY <1>2 DEF Elems
<1> QED BY <1>2, <1>5, <1>6, <1>7, <1>8 DEF t
-----------------------------------------------------------------------------
(* Steps *)

\* A backend that waits is queued, at a step where it may be.
LEMMA WaitingQueued ==
    ASSUME IInv, LinkInv, NEW p \in Procs, lwWaiting[p]
    PROVE  queued[p] /\ pc[p] \in QueuedPCs
<1>1. call[p].lock \in Locks BY DEF IInv, TypeOK
<1>2. queued[p] BY <1>1 DEF LinkInv, WaitingListed, Listed, Woken
<1> QED BY <1>2 DEF LinkInv, QueuedShape

\* A step of p leaves the calls of the others alone, ...
Alone(p) ==
    \A q \in Procs \ {p} : /\ pc'[q] = pc[q] /\ call'[q] = call[q] /\ held'[q] = held[q]
                            /\ queued'[q] = queued[q] /\ scan'[q] = scan[q]
\* ... and most steps the lists as well.
Quiet(p) == Alone(p) /\ UNCHANGED <<waiters, wakeup, lwWaiting, lwWaitMode, var>>
                     /\ scan'[p] = scan[p]

\* Such a step keeps the lists, if a waiting p stays in its call ...
LEMMA QuietLinks ==
    ASSUME IInv, LinkInv, NEW p \in Procs, Quiet(p), pc[p] # "post", pc'[p] # "post",
           QueuedShape(p)', lwWaiting[p] => queued'[p] /\ call'[p] = call[p]
    PROVE  LinkInv'
<1>1. \A q \in Procs : Marked(q)' = Marked(q) BY DEF Quiet, Alone, Marked
<1>2. \A q \in Procs : lwWaiting[q] => queued'[q] /\ call'[q] = call[q]
  BY WaitingQueued DEF Quiet, Alone
<1>3. \A q \in Procs : QueuedShape(q)'
  BY DEF Quiet, Alone, LinkInv, QueuedShape
<1>4. \A l \in Locks : Elems(waiters[l]) \subseteq Procs
  BY ElemsType DEF IInv, TypeOK
<1>5. Listed'
  BY <1>2, <1>4, SMTT(60) DEF Quiet, Alone, LinkInv, Listed, QueueMode
<1>6. \A q \in Procs : Marked(q) \subseteq Procs
  BY ElemsType DEF IInv, TypeOK, Marked
<1>7. Woken' BY <1>1, <1>2, <1>6, ZenonT(30) DEF Quiet, Alone, LinkInv, Woken
<1>8. WaitingListed' BY <1>1, <1>2 DEF Quiet, Alone, LinkInv, WaitingListed
<1> QED BY <1>3, <1>5, <1>7, <1>8 DEF LinkInv

\* A step that takes nobody onto a list keeps the sleepers covered, if p does not
\* stop attending to a lock somebody needs it for.
LEMMA VarStep ==
    ASSUME IInv, LinkInv, VarInv, NEW p \in Procs, Alone(p), lwWaitMode' = lwWaitMode,
           FreeFirst', \A l \in Locks : Elems(waiters[l])' \subseteq Elems(waiters[l]),
           \A l \in Locks : releaseOk[l] =>
               \/ releaseOk'[l]
               \/ \A w \in Elems(waiters[l])' : lwWaitMode[w] # LW_WAIT_UNTIL_FREE,
           lwWaiting[p] => call'[p] = call[p],
           pc[p] = "vRelOk" => releaseOk'[call[p].lock],
           (pc'[p] = "sleep" /\ call'[p].fn = "LWLockWaitForVar")
               => pc[p] = "sleep" \/ var[call[p].lock] = call[p].val,
           pc[p] \in CoverPCs =>
               \/ pc'[p] \in CoverPCs /\ call'[p].lock = call[p].lock
               \/ \A l \in Locks : call[p].lock = l => \A w \in Procs : ~Stale(w, l)',
           scan'[p] # LW_WAIT_UNTIL_FREE =>
               \A w \in Elems(waiters[call[p].lock])' : lwWaitMode[w] # LW_WAIT_UNTIL_FREE,
           scan'[p] # LW_WAIT_UNTIL_FREE => call'[p].lock = call[p].lock,
           \A l \in Locks : \/ var'[l] = var[l]
                            \/ \A w \in Procs : ~Stale(w, l)'
                            \/ pc'[p] \in CoverPCs /\ call'[p].lock = l,
           pc'[p] \in ClearPCs => held'[p][call'[p].lock] = LW_EXCLUSIVE
    PROVE  VarInv'
<1>0. \A l \in Locks : Elems(waiters[l]) \subseteq Procs
  BY ElemsType DEF IInv, TypeOK
<1>c. \A q \in Procs : call[q].lock \in Locks BY DEF IInv, TypeOK
<1>1. ASSUME NEW l \in Locks, NEW q \in Elems(waiters[l])'
      PROVE  /\ q \in Elems(waiters[l]) /\ q \in Procs /\ call'[q] = call[q] /\ call[q].lock = l
             /\ lwWaitMode[q] = QueueMode(q)
  BY <1>0, <1>1 DEF Alone, LinkInv, Listed
<1>3. ReleaseAllowed'
  <2> SUFFICES ASSUME NEW l \in Locks, NEW q \in Elems(waiters[l])',
                      call'[q].fn = "LWLockWaitForVar", pc'[q] # "vRelOk"
               PROVE  releaseOk'[l]
    BY DEF ReleaseAllowed
  <2>1. /\ call[q].fn = "LWLockWaitForVar" /\ call[q].lock = l /\ q \in Elems(waiters[l])
        /\ lwWaitMode[q] = LW_WAIT_UNTIL_FREE
    BY <1>1 DEF QueueMode
  <2>2. CASE pc[q] # "vRelOk" BY <2>1, <2>2 DEF VarInv, ReleaseAllowed
  <2>3. CASE pc[q] = "vRelOk"
    <3>1. q = p BY <2>3, <1>1 DEF Alone
    <3> QED BY <2>1, <2>3, <3>1
  <2> QED BY <2>2, <2>3
<1>4. FreeTaken'
  <2> SUFFICES ASSUME NEW q \in Procs, scan'[q] # LW_WAIT_UNTIL_FREE,
                      NEW w \in Elems(waiters'[call'[q].lock])
               PROVE  lwWaitMode[w] # LW_WAIT_UNTIL_FREE
    BY DEF FreeTaken
  <2>1. CASE q = p
    <3>1. w \in Elems(waiters[call[p].lock])' BY <2>1 DEF Elems
    <3> QED BY <2>1, <3>1
  <2>2. CASE q # p
    <3>1. call'[q] = call[q] /\ scan[q] # LW_WAIT_UNTIL_FREE BY <2>2 DEF Alone
    <3>2. PICK l \in Locks : l = call[q].lock BY <1>c
    <3>3. w \in Elems(waiters[l])' BY <3>1, <3>2 DEF Elems
    <3>4. w \in Elems(waiters[l]) BY <3>3
    <3> QED BY <3>1, <3>2, <3>4 DEF VarInv, FreeTaken
  <2> QED BY <2>1, <2>2
<1>5. ClearingHolds' BY DEF Alone, VarInv, ClearingHolds
<1>6. StaleCovered'
  <2> SUFFICES ASSUME NEW l \in Locks, NEW w \in Procs, Stale(w, l)'
               PROVE  \E q \in Procs : call'[q].lock = l /\ pc'[q] \in CoverPCs
    BY DEF StaleCovered
  <2>1. w \in Elems(waiters[l]) /\ call'[w] = call[w] /\ call[w].lock = l
    BY <1>1 DEF Stale
  <2>2. CASE var'[l] = var[l]
    <3>1. pc'[w] = "sleep" /\ call[w].fn = "LWLockWaitForVar" /\ var[l] # call[w].val
      BY <2>1, <2>2 DEF Stale
    <3>2. pc[w] = "sleep" BY <2>1, <3>1, ZenonT(30) DEF Alone
    <3>3. Stale(w, l) BY <2>1, <3>1, <3>2 DEF Stale
    <3>4. PICK q \in Procs : call[q].lock = l /\ pc[q] \in CoverPCs
      BY <3>3 DEF VarInv, StaleCovered
    <3>5. CASE q = p BY <3>4, <3>5
    <3>6. CASE q # p BY <3>4, <3>6 DEF Alone
    <3> QED BY <3>5, <3>6
  <2> QED BY <2>2
<1> QED BY <1>3, <1>4, <1>5, <1>6 DEF VarInv

\* So does a quiet step.
LEMMA QuietVar ==
    ASSUME IInv, LinkInv, VarInv, NEW p \in Procs, Quiet(p),
           \A l \in Locks : releaseOk[l] => releaseOk'[l],
           lwWaiting[p] => call'[p] = call[p],
           pc[p] = "vRelOk" => releaseOk'[call[p].lock],
           (pc'[p] = "sleep" /\ call'[p].fn = "LWLockWaitForVar")
               => pc[p] = "sleep" \/ var[call[p].lock] = call[p].val,
           pc[p] \in CoverPCs =>
               \/ pc'[p] \in CoverPCs /\ call'[p].lock = call[p].lock
               \/ \A l \in Locks : call[p].lock = l => \A w \in Procs : ~Stale(w, l)',
           scan[p] # LW_WAIT_UNTIL_FREE => call'[p].lock = call[p].lock,
           pc'[p] \in ClearPCs => held'[p][call'[p].lock] = LW_EXCLUSIVE
    PROVE  VarInv'
<1>1. FreeFirst' BY DEF Quiet, VarInv, FreeFirst
<1>2. \A l \in Locks : Elems(waiters[l])' = Elems(waiters[l]) BY DEF Quiet, Elems
<1>3. call[p].lock \in Locks BY DEF IInv, TypeOK
<1>4. scan'[p] # LW_WAIT_UNTIL_FREE =>
          \A w \in Elems(waiters[call[p].lock])' : lwWaitMode[w] # LW_WAIT_UNTIL_FREE
  BY <1>2, <1>3 DEF Quiet, VarInv, FreeTaken
<1> QED BY <1>1, <1>2, <1>4, VarStep DEF Quiet

\* A step of a waiting or acquiring routine that neither enters nor leaves a list.
LEMMA WaiterQuiet ==
    ASSUME IInv, ListInv, LinkInv, VarInv, NEW p \in Procs, Quiet(p),
           pc[p] \in WaitPCs, pc'[p] \in WaitPCs, call'[p] = call[p],
           queued'[p] = queued[p] \/ (~queued'[p] /\ ~lwWaiting[p]),
           queued'[p] => pc'[p] \in QueuedPCs,
           call[p].fn = "LWLockConditionalAcquire" => pc'[p] \in {"attempt", "return"},
           \A l \in Locks : releaseOk[l] => releaseOk'[l],
           pc[p] = "vRelOk" => releaseOk'[call[p].lock],
           (pc'[p] = "sleep" /\ call[p].fn = "LWLockWaitForVar")
               => pc[p] = "sleep" \/ var[call[p].lock] = call[p].val
    PROVE  LinkInv' /\ VarInv'
<1>1. /\ pc[p] # "post" /\ pc'[p] # "post" /\ pc[p] \notin CoverPCs /\ pc'[p] \notin ClearPCs
      /\ pc[p] \notin WakerPCs
  BY DEF WaitPCs, CoverPCs, ClearPCs, WakerPCs
<1>2. QueuedShape(p)' BY <1>1 DEF Quiet, LinkInv, QueuedShape
<1>3. lwWaiting[p] => queued'[p] BY WaitingQueued
<1>4. LinkInv' BY <1>1, <1>2, <1>3, QuietLinks
<1>5. VarInv' BY <1>1, QuietVar
<1> QED BY <1>4, <1>5

\* A step of a caller, releaser or waker, which is on no list.
LEMMA ActorQuiet ==
    ASSUME IInv, ListInv, LinkInv, VarInv, NEW p \in Procs, Quiet(p),
           pc[p] \notin QueuedPCs, pc[p] # "post", pc'[p] # "post", ~queued'[p],
           call'[p].fn = "LWLockConditionalAcquire" => pc'[p] \in {"attempt", "return"},
           wakeup[p] # <<>> => pc'[p] \in WakerPCs,
           \A l \in Locks : releaseOk[l] => releaseOk'[l],
           pc'[p] # "sleep",
           pc[p] \in CoverPCs =>
               \/ pc'[p] \in CoverPCs /\ call'[p].lock = call[p].lock
               \/ \A l \in Locks : call[p].lock = l => \A w \in Procs : ~Stale(w, l)',
           scan[p] # LW_WAIT_UNTIL_FREE => call'[p].lock = call[p].lock,
           pc'[p] \in ClearPCs => held'[p][call'[p].lock] = LW_EXCLUSIVE
    PROVE  LinkInv' /\ VarInv'
<1>1. ~lwWaiting[p] BY WaitingQueued
<1>2. QueuedShape(p)' BY DEF Quiet, LinkInv, QueuedShape
<1>3. pc[p] # "vRelOk" BY DEF QueuedPCs
<1>4. LinkInv' BY <1>1, <1>2, QuietLinks
<1>5. VarInv' BY <1>1, <1>3, QuietVar
<1> QED BY <1>4, <1>5

\* Stuttering.
LEMMA SameLinks ==
    ASSUME LinkInv, VarInv,
           UNCHANGED <<waiters, wakeup, lwWaiting, lwWaitMode, scan, var, releaseOk, pc, call>>,
           UNCHANGED <<queued, held>>
    PROVE  LinkInv' /\ VarInv'
<1>1. \A q \in Procs : Marked(q)' = Marked(q) BY DEF Marked
<1>2. \A q \in Procs : QueuedShape(q)' BY DEF LinkInv, QueuedShape
<1>3. Listed' BY DEF LinkInv, Listed, QueueMode
<1>4. Woken' BY <1>1 DEF LinkInv, Woken
<1>5. WaitingListed' BY <1>1 DEF LinkInv, WaitingListed
<1>6. FreeFirst' /\ ReleaseAllowed' BY DEF VarInv, FreeFirst, ReleaseAllowed
<1>7. FreeTaken' /\ ClearingHolds' BY DEF VarInv, FreeTaken, ClearingHolds
<1>8. StaleCovered' BY DEF VarInv, StaleCovered, Stale
<1> QED BY <1>2, <1>3, <1>4, <1>5, <1>6, <1>7, <1>8 DEF LinkInv, VarInv

\* The waiting and acquiring routines, apart from entering and leaving a list.
LEMMA WaiterLinks ==
    ASSUME IInv, ListInv, LinkInv, VarInv, NEW p \in Procs,
           \/ AttemptLock(p) \/ QueueSelfFlag(p) \/ Sleep(p) \/ Retry(p)
           \/ DequeueSelfReleaseOk(p) \/ VarRead(p) \/ VarValue(p) \/ VarReleaseOk(p)
    PROVE  LinkInv' /\ VarInv'
<1>t. TypeOK /\ CallShape(p) BY DEF IInv
<1>l. call[p].lock \in Locks BY <1>t DEF TypeOK
<1>q. /\ queued[p] => pc[p] \in QueuedPCs
      /\ call[p].fn = "LWLockConditionalAcquire" => pc[p] \in {"attempt", "return"} /\ ~queued[p]
  BY DEF LinkInv, QueuedShape
<1>1. CASE AttemptLock(p)
  <2>1. /\ pc[p] = "attempt" /\ UNCHANGED <<call, queued, held, waiters, wakeup, lwWaiting>>
        /\ UNCHANGED <<lwWaitMode, scan, var, releaseOk>>
        /\ \A q \in Procs \ {p} : pc'[q] = pc[q]
    BY <1>1, <1>t, ZenonT(30) DEF AttemptLock, TypeOK
  <2>2. /\ pc'[p] \in {"dqLock", "return", "sleep", "qLock"}
        /\ queued[p] /\ call[p].fn # "LWLockConditionalAcquire" => pc'[p] \in {"dqLock", "sleep"}
        /\ ~queued[p] /\ call[p].fn = "LWLockConditionalAcquire" => pc'[p] = "return"
    BY <1>1, <1>t, SMTT(60) DEF AttemptLock, TypeOK
  <2>3. call[p].fn # "LWLockWaitForVar" BY <2>1, <1>t DEF CallShape, AcquireFns
  <2> QED BY <2>1, <2>2, <2>3, <1>q, WaiterQuiet, SMTT(60) DEF Quiet, Alone, WaitPCs, QueuedPCs
<1>2. CASE QueueSelfFlag(p)
  <2>1. /\ pc[p] = "qFlag" /\ pc'[p] = "qPush"
        /\ UNCHANGED <<call, queued, held, waiters, wakeup, lwWaiting>>
        /\ UNCHANGED <<lwWaitMode, scan, var, releaseOk>>
        /\ \A q \in Procs \ {p} : pc'[q] = pc[q]
    BY <1>2, <1>t, ZenonT(30) DEF QueueSelfFlag, TypeOK
  <2> QED BY <2>1, <1>q, WaiterQuiet, SMTT(60) DEF Quiet, Alone, WaitPCs, QueuedPCs
<1>3. CASE Sleep(p)
  <2>1. /\ pc[p] \in {"sleep", "dqSleep"}
        /\ UNCHANGED <<call, held, waiters, wakeup, lwWaiting, lwWaitMode, scan, var, releaseOk>>
    BY <1>3 DEF Sleep, word
  <2>2. CASE lwWaiting[p]
    <3>1. pc' = pc /\ queued' = queued BY <1>3, <2>2 DEF Sleep, StillWaiting
    <3> QED BY <2>1, <3>1, <1>q, WaiterQuiet, SMTT(60) DEF Quiet, Alone, WaitPCs, QueuedPCs
  <2>3. CASE ~lwWaiting[p]
    <3>1. pc' = [pc EXCEPT ![p] = AfterSleep(p)] /\ queued' = [queued EXCEPT ![p] = FALSE]
      BY <1>3, <2>3 DEF Sleep, StillWaiting
    <3>2. /\ pc'[p] \in {"retry", "vRead", "return"} /\ ~queued'[p]
          /\ \A q \in Procs \ {p} : pc'[q] = pc[q] /\ queued'[q] = queued[q]
      BY <3>1, <1>t DEF AfterSleep, TypeOK
    <3> QED BY <2>1, <2>3, <3>2, <1>q, WaiterQuiet, SMTT(60) DEF Quiet, Alone, WaitPCs, QueuedPCs
  <2> QED BY <2>2, <2>3
<1>4. CASE Retry(p) \/ DequeueSelfReleaseOk(p) \/ VarReleaseOk(p)
  <2>1. /\ \/ pc[p] = "retry" /\ pc'[p] = "attempt"
           \/ pc[p] = "dqRelOk" /\ pc'[p] = "dqSleep"
           \/ pc[p] = "vRelOk" /\ pc'[p] = "vRead"
        /\ UNCHANGED <<call, queued, held, waiters, wakeup, lwWaiting, lwWaitMode, scan, var>>
        /\ \A q \in Procs \ {p} : pc'[q] = pc[q]
        /\ releaseOk' = [releaseOk EXCEPT ![call[p].lock] = TRUE]
    BY <1>4, <1>t, ZenonT(30) DEF Retry, DequeueSelfReleaseOk, VarReleaseOk, TypeOK
  <2>2. (\A l \in Locks : releaseOk[l] => releaseOk'[l]) /\ releaseOk'[call[p].lock]
    BY <2>1, <1>l, <1>t DEF TypeOK
  <2> QED BY <2>1, <2>2, <1>q, WaiterQuiet, SMTT(60) DEF Quiet, Alone, WaitPCs, QueuedPCs
<1>5. CASE VarRead(p) \/ VarValue(p)
  <2>1. /\ pc[p] \in {"vRead", "vVal"}
        /\ UNCHANGED <<call, queued, held, waiters, wakeup, lwWaiting>>
        /\ UNCHANGED <<lwWaitMode, scan, var, releaseOk>>
        /\ \A q \in Procs \ {p} : pc'[q] = pc[q]
    BY <1>5, <1>t, ZenonT(30) DEF VarRead, VarValue, TypeOK, shared, word
  <2>2. /\ pc'[p] \in {"vLock", "dqLock", "return", "sleep", "qLock"}
        /\ queued[p] => pc'[p] \in {"vLock", "dqLock", "sleep"}
        /\ pc'[p] = "sleep" => var[call[p].lock] = call[p].val
    <3>1. CASE VarRead(p) BY <3>1, <1>t, SMTT(60) DEF VarRead, TypeOK
    <3>2. CASE VarValue(p) BY <3>2, <1>t, SMTT(60) DEF VarValue, TypeOK
    <3> QED BY <1>5, <3>1, <3>2
  <2> QED BY <2>1, <2>2, <1>q, WaiterQuiet, SMTT(60) DEF Quiet, Alone, WaitPCs, QueuedPCs
<1> QED BY <1>1, <1>2, <1>3, <1>4, <1>5

\* LWLockRelease: the releaser of an exclusive lock goes on to scan the list
\* whenever somebody there sleeps on a value that has gone.
LEMMA ReleaseLinks ==
    ASSUME IInv, ListInv, LinkInv, VarInv, NEW p \in Procs, NEW l \in Locks, NEW fn \in Fns \ WaitFns,
           \/ pc[p] \in {"idle", "releaseAll"} \/ (pc[p] = "cRelease" /\ call[p].lock = l),
           Release(p, l, fn)
    PROVE  LinkInv' /\ VarInv'
<1>t. TypeOK /\ CallShape(p) BY DEF IInv
<1> DEFINE c == SubFetch(count[l], held[p][l])
           check == hasWaiters[l] /\ releaseOk[l] /\ IsFree(c)
<1>1. /\ UNCHANGED <<queued, waiters, wakeup, lwWaiting, lwWaitMode, scan, var, releaseOk>>
      /\ \A q \in Procs \ {p} : pc'[q] = pc[q] /\ call'[q] = call[q] /\ held'[q] = held[q]
  BY <1>t, ZenonT(30) DEF Release, TypeOK
<1>2. /\ pc'[p] \in {"wLock", "releaseAll", "idle"}
      /\ check => pc'[p] = "wLock" /\ call'[p].lock = l
  <2>1. /\ call' = [call EXCEPT ![p] = IF check \/ fn = "LWLockReleaseAll"
                                         THEN Call(fn, l, LW_SHARED, AnyVal) ELSE NoCall]
        /\ pc' = [pc EXCEPT ![p] = IF check THEN "wLock"
                                   ELSE IF fn = "LWLockReleaseAll" THEN "releaseAll" ELSE "idle"]
    BY DEF Release
  <2> HIDE DEF check
  <2> QED BY <2>1, <1>t DEF TypeOK, Call
<1>3. ~queued[p] /\ wakeup[p] = <<>> /\ scan[p] = LW_WAIT_UNTIL_FREE
  BY DEF LinkInv, QueuedShape, QueuedPCs, WakerPCs, ListInv, ScanProgress
<1>4. ASSUME pc[p] = "cRelease", NEW w \in Procs, Stale(w, l)
      PROVE  check
  <2>1. waiters[l] # <<>> BY <1>4 DEF Stale, Elems
  <2>2. hasWaiters[l] BY <2>1 DEF ListInv, WaitersAnnounced
  <2>3. releaseOk[l] BY <1>4 DEF Stale, VarInv, ReleaseAllowed
  <2>4. held[p][l] = LW_EXCLUSIVE BY <1>4 DEF VarInv, ClearingHolds, ClearPCs
  <2>5. count[l] = LW_VAL_EXCLUSIVE
    <3>1. p \in Owners(l, LW_EXCLUSIVE) BY <2>4 DEF Owners, Owns
    <3> QED BY <3>1 DEF IInv, WordShape
  <2>6. c = 0 BY <2>4, <2>5, WordBits DEF SubFetch, LockValue
  <2>7. IsFree(0) BY WordBits
  <2> QED BY <2>2, <2>3, <2>6, <2>7
<1> HIDE DEF check
<1>5. pc[p] \in CoverPCs =>
          \/ pc'[p] \in CoverPCs /\ call'[p].lock = call[p].lock
          \/ \A k \in Locks : call[p].lock = k => \A w \in Procs : ~Stale(w, k)'
  <2> SUFFICES ASSUME pc[p] \in CoverPCs, ~check, NEW w \in Procs, Stale(w, l)' PROVE FALSE
    BY <1>2 DEF CoverPCs
  <2>1. pc[p] = "cRelease" BY DEF CoverPCs
  <2>2. w # p BY <1>2 DEF Stale
  <2>3. Stale(w, l) BY <1>1, <2>2 DEF Stale
  <2> QED BY <2>1, <2>3, <1>4
<1>6. pc[p] \notin QueuedPCs /\ pc[p] # "post" BY DEF QueuedPCs
<1>8. call'[p].fn # "LWLockConditionalAcquire"
  <2>1. call'[p].fn \in {fn, "LWLockRelease"}
    BY <1>t, NoCallType, ZenonT(30) DEF Release, TypeOK, Call
  <2> QED BY <2>1 DEF WaitFns, AcquireFns
<1>7. pc'[p] \notin ClearPCs /\ pc'[p] \notin {"post", "sleep"} BY <1>2 DEF ClearPCs
<1> QED BY <1>1, <1>3, <1>5, <1>6, <1>7, <1>8, ActorQuiet DEF Quiet, Alone

\* Calls begin while their backend is on no list.
LEMMA CallerLinks ==
    ASSUME IInv, ListInv, LinkInv, VarInv, NEW p \in Procs, Caller(p)
    PROVE  LinkInv' /\ VarInv'
<1>t. TypeOK BY DEF IInv
<1>1. ASSUME pc[p] = "idle", \A q \in Procs : q # p => pc'[q] = pc[q] /\ call'[q] = call[q],
             pc'[p] \in {"releaseAll", "vRead", "attempt", "uLock", "cLock"},
             pc'[p] = "cLock" => held[p][call'[p].lock] = LW_EXCLUSIVE,
             call'[p].fn = "LWLockConditionalAcquire" => pc'[p] = "attempt",
             UNCHANGED <<shared, held, queued, wakeup, scan>>
      PROVE  LinkInv' /\ VarInv'
  <2>1. ~queued[p] /\ wakeup[p] = <<>> /\ scan[p] = LW_WAIT_UNTIL_FREE
    BY <1>1 DEF LinkInv, QueuedShape, QueuedPCs, WakerPCs, ListInv, ScanProgress
  <2>2. /\ pc[p] \notin QueuedPCs \cup CoverPCs \cup {"post"} /\ pc'[p] \notin {"post", "sleep"}
        /\ pc'[p] \in ClearPCs => pc'[p] = "cLock"
    BY <1>1 DEF QueuedPCs, CoverPCs, ClearPCs
  <2> QED BY <1>1, <2>1, <2>2, ActorQuiet DEF Quiet, Alone, shared, word
<1>2. ASSUME NEW l \in Locks, NEW fn \in WaitFns, NEW mode \in Modes, NEW v \in Vals,
             Begin(p, fn, l, mode, v)
      PROVE  LinkInv' /\ VarInv'
  <2>1. \/ /\ pc' = [pc EXCEPT ![p] = "releaseAll"]
           /\ call' = [call EXCEPT ![p] = Call("LWLockReleaseAll", AnyLock, LW_SHARED, AnyVal)]
        \/ /\ pc' = [pc EXCEPT ![p] = IF fn = "LWLockWaitForVar" THEN "vRead" ELSE "attempt"]
           /\ call' = [call EXCEPT ![p] = Call(fn, l, mode, v)]
    BY <1>2, <1>t, BeginCases, SMTT(60)
  <2>2. /\ pc[p] = "idle" /\ UNCHANGED <<shared, held, queued, wakeup, scan>>
        /\ \A q \in Procs : q # p => call'[q] = call[q]
    BY <1>2, <1>t, ZenonT(30) DEF Begin, TypeOK
  <2>3. /\ \A q \in Procs : q # p => pc'[q] = pc[q]
        /\ pc'[p] \in {"releaseAll", "vRead", "attempt"}
        /\ call'[p].fn = "LWLockConditionalAcquire" => pc'[p] = "attempt"
    <3>1. DOMAIN pc = Procs /\ DOMAIN call = Procs BY <1>t DEF TypeOK
    <3> QED BY <2>1, <3>1, SMTT(60) DEF Call
  <2> QED BY <1>1, <2>2, <2>3
<1>3. ASSUME NEW l \in Locks, NEW fn \in HolderFns, NEW v \in Vals, BeginHolder(p, fn, l, v)
      PROVE  LinkInv' /\ VarInv'
  <2>1. /\ pc[p] = "idle" /\ held[p][l] = LW_EXCLUSIVE
        /\ UNCHANGED <<shared, held, queued, wakeup, scan>>
        /\ pc'[p] \in {"uLock", "cLock"} /\ call'[p].lock = l /\ call'[p].fn = fn
        /\ \A q \in Procs : q # p => pc'[q] = pc[q] /\ call'[q] = call[q]
    BY <1>3, <1>t DEF BeginHolder, TypeOK, Call
  <2> QED BY <1>1, <2>1 DEF HolderFns
<1>4. CASE RaiseError(p)
  <2>1. /\ pc[p] = "idle" /\ UNCHANGED <<shared, held, queued, wakeup, scan>>
        /\ pc'[p] = "releaseAll" /\ call'[p].fn = "LWLockReleaseAll"
        /\ \A q \in Procs : q # p => pc'[q] = pc[q] /\ call'[q] = call[q]
    BY <1>4, <1>t DEF RaiseError, TypeOK, Call
  <2> QED BY <1>1, <2>1
<1>5. CASE ReleaseOne(p)
  BY <1>5, ReleaseLinks DEF ReleaseOne, Fns, WaitFns, AcquireFns
<1>6. CASE ForeignPost(p) \/ ForeignTake(p)
  <2>1. /\ UNCHANGED <<waiters, wakeup, lwWaiting, lwWaitMode, scan, var, releaseOk, pc, call>>
        /\ UNCHANGED <<queued, held>>
    BY <1>6 DEF ForeignPost, ForeignTake, word
  <2> QED BY <2>1, SameLinks
<1> QED
  BY <1>2, <1>3, <1>4, <1>5, <1>6, NoCallType, LWLockAssumption, Zenon
  DEF Caller, WaitFns, HolderFns, Modes, LW_SHARED

\* Locking a list, returning, releasing, and the unlinking of a woken waiter.
LEMMA ActorLinks ==
    ASSUME IInv, ListInv, LinkInv, VarInv, NEW p \in Procs,
           WaitListLock(p) \/ Return(p) \/ ReleaseAll(p) \/ ReleaseCleared(p) \/ WakeUnlink(p)
    PROVE  LinkInv' /\ VarInv'
<1>t. TypeOK /\ CallShape(p) BY DEF IInv
<1>l. call[p].lock \in Locks BY <1>t DEF TypeOK
<1>q. /\ queued[p] => pc[p] \in QueuedPCs
      /\ call[p].fn = "LWLockConditionalAcquire" => pc[p] \in {"attempt", "return"} /\ ~queued[p]
      /\ wakeup[p] # <<>> => pc[p] \in WakerPCs
      /\ scan[p] # LW_WAIT_UNTIL_FREE => pc[p] = "wScan"
  BY DEF LinkInv, QueuedShape, ListInv, ScanProgress
<1>1. CASE WaitListLock(p)
  <2>1. PICK b \in PCs : <<pc[p], b>> \in Section /\ pc' = [pc EXCEPT ![p] = b]
    BY <1>1, Zenon DEF WaitListLock
  <2>2. UNCHANGED <<call, queued, held, waiters, wakeup, lwWaiting, lwWaitMode, scan, var, releaseOk>>
    BY <1>1 DEF WaitListLock
  <2>3. \A q \in Procs : pc'[q] = IF q = p THEN b ELSE pc[q] BY <2>1, <1>t DEF TypeOK
  <2>4. Quiet(p) BY <2>2, <2>3 DEF Quiet, Alone
  <2>5. CASE <<pc[p], b>> \in {<<"qLock", "qFlag">>, <<"dqLock", "dqBody">>, <<"vLock", "vVal">>}
    <3>1. /\ pc[p] \in {"qLock", "dqLock", "vLock"} /\ pc'[p] \in {"qFlag", "dqBody", "vVal"}
          /\ pc[p] # "qLock" => pc'[p] \in {"dqBody", "vVal"}
      BY <2>3, <2>5
    <3>2. pc[p] \in WaitPCs /\ pc'[p] \in WaitPCs /\ (queued[p] => pc'[p] \in QueuedPCs)
      BY <3>1, <1>q DEF WaitPCs, QueuedPCs
    <3> QED BY <2>2, <2>4, <3>1, <3>2, <1>q, WaiterQuiet
  <2>6. CASE <<pc[p], b>> \in {<<"wLock", "wScan">>, <<"uLock", "uBody">>, <<"cLock", "cBody">>}
    <3>1. /\ pc[p] \in {"wLock", "uLock", "cLock"} /\ pc'[p] \in {"wScan", "uBody", "cBody"}
          /\ pc[p] = "wLock" => pc'[p] = "wScan"
          /\ pc'[p] = "cBody" => pc[p] = "cLock"
      BY <2>3, <2>6
    <3>2. /\ pc[p] \notin QueuedPCs \cup WakerPCs /\ pc[p] \notin {"post", "wScan"}
          /\ pc'[p] \notin {"post", "sleep"}
          /\ (pc[p] \in CoverPCs => pc'[p] \in CoverPCs) /\ (pc'[p] \in ClearPCs => pc[p] \in ClearPCs)
      BY <3>1 DEF QueuedPCs, WakerPCs, CoverPCs, ClearPCs
    <3>3. pc[p] \in ClearPCs => held[p][call[p].lock] = LW_EXCLUSIVE BY DEF VarInv, ClearingHolds
    <3> QED BY <2>2, <2>4, <3>1, <3>2, <3>3, <1>q, ActorQuiet
  <2> QED BY <2>1, <2>5, <2>6 DEF Section
<1>2. CASE Return(p)
  <2>1. /\ pc[p] = "return" /\ pc'[p] = "idle" /\ ~queued'[p] /\ call'[p] = NoCall
        /\ UNCHANGED <<waiters, wakeup, lwWaiting, lwWaitMode, scan, var, releaseOk>>
        /\ \A q \in Procs \ {p} : /\ pc'[q] = pc[q] /\ call'[q] = call[q]
                                  /\ queued'[q] = queued[q] /\ held'[q] = held[q]
    BY <1>2, <1>t, ZenonT(30) DEF Return, TypeOK, word
  <2>2. Quiet(p) BY <2>1 DEF Quiet, Alone
  <2>3. /\ pc[p] \notin QueuedPCs \cup WakerPCs \cup CoverPCs /\ pc'[p] \notin ClearPCs
    BY <2>1 DEF QueuedPCs, WakerPCs, CoverPCs, ClearPCs
  <2> QED BY <2>1, <2>2, <2>3, <1>q, NoCallType, ActorQuiet
<1>3. CASE ReleaseAll(p)
  <2>1. pc[p] = "releaseAll" BY <1>3 DEF ReleaseAll
  <2>2. CASE \E k \in Locks : Release(p, k, "LWLockReleaseAll")
    BY <2>1, <2>2, ReleaseLinks DEF Fns, WaitFns, AcquireFns
  <2>3. CASE /\ pc' = [pc EXCEPT ![p] = "idle"] /\ call' = [call EXCEPT ![p] = NoCall]
             /\ UNCHANGED <<shared, held, queued, wakeup, scan>>
    <3>1. /\ pc'[p] = "idle" /\ call'[p] = NoCall
          /\ \A q \in Procs \ {p} : pc'[q] = pc[q] /\ call'[q] = call[q]
      BY <2>3, <1>t DEF TypeOK
    <3>2. Quiet(p) BY <2>3, <3>1 DEF Quiet, Alone, shared
    <3>3. /\ pc[p] \notin QueuedPCs \cup WakerPCs \cup CoverPCs /\ pc'[p] \notin ClearPCs
      BY <2>1, <3>1 DEF QueuedPCs, WakerPCs, CoverPCs, ClearPCs
    <3> QED BY <2>1, <2>3, <3>1, <3>2, <3>3, <1>q, NoCallType, ActorQuiet DEF shared, word
  <2> QED BY <1>3, <2>2, <2>3 DEF ReleaseAll
<1>4. CASE ReleaseCleared(p)
  BY <1>4, <1>l, ReleaseLinks DEF ReleaseCleared, Fns, HolderFns, WaitFns, AcquireFns
<1>5. CASE WakeUnlink(p)
  <2>1. /\ pc[p] = "wake" /\ pc'[p] = "clear" /\ \A q \in Procs \ {p} : pc'[q] = pc[q]
        /\ UNCHANGED <<call, queued, held, waiters, wakeup, lwWaiting>>
        /\ UNCHANGED <<lwWaitMode, scan, var, releaseOk>>
    BY <1>5, <1>t, ZenonT(30) DEF WakeUnlink, TypeOK, shared, word
  <2>2. Quiet(p) BY <2>1 DEF Quiet, Alone
  <2>3. /\ pc[p] \notin QueuedPCs \cup CoverPCs /\ pc'[p] \notin ClearPCs /\ pc'[p] \in WakerPCs
    BY <2>1 DEF QueuedPCs, WakerPCs, CoverPCs, ClearPCs
  <2> QED BY <2>1, <2>2, <2>3, <1>q, ActorQuiet
<1> QED BY <1>1, <1>2, <1>3, <1>4, <1>5

\* The end of LWLockWakeup's scan: no waiter for a value is left on the list.
LEMMA FlagsLinks ==
    ASSUME IInv, ListInv, LinkInv, VarInv, NEW p \in Procs, WakeupFlags(p)
    PROVE  LinkInv' /\ VarInv'
<1> DEFINE l == call[p].lock
<1>t. TypeOK /\ CallShape(p) BY DEF IInv
<1>l. l \in Locks /\ waiters[l] \in Seq(Procs) BY <1>t DEF TypeOK
<1>1. /\ pc[p] = "wScan" /\ Wakeable(p, l) = {}
      /\ releaseOk' = [releaseOk EXCEPT ![l] = (scan[p] = LW_WAIT_UNTIL_FREE)]
      /\ scan' = [scan EXCEPT ![p] = LW_WAIT_UNTIL_FREE]
      /\ UNCHANGED <<waiters, wakeup, lwWaiting, lwWaitMode, var, held, queued>>
      /\ IF wakeup[p] # <<>> THEN pc' = [pc EXCEPT ![p] = "wake"] /\ UNCHANGED call ELSE Finish(p)
  BY DEF WakeupFlags
<1>2. /\ \A q \in Procs \ {p} : pc'[q] = pc[q] /\ call'[q] = call[q] /\ scan'[q] = scan[q]
      /\ scan'[p] = LW_WAIT_UNTIL_FREE
      /\ pc'[p] \in {"wake", "releaseAll", "idle"} /\ (wakeup[p] # <<>> => pc'[p] = "wake")
      /\ call'[p] \in {call[p], NoCall}
  BY <1>1, <1>t, ZenonT(30) DEF Finish, TypeOK
<1>3. ~queued[p] /\ ~lwWaiting[p] /\ call[p].fn # "LWLockConditionalAcquire"
  BY <1>1, WaitingQueued DEF LinkInv, QueuedShape, QueuedPCs
<1>4. LinkInv'
  <2>1. \A q \in Procs : Marked(q)' = Marked(q) BY <1>1, <1>2 DEF Marked
  <2>2. \A q \in Procs : QueuedShape(q)'
    BY <1>1, <1>2, <1>3, NoCallType DEF LinkInv, QueuedShape, WakerPCs
  <2>3. \A q \in Procs : lwWaiting[q] => call'[q] = call[q] BY <1>2, <1>3
  <2>4. \A k \in Locks : Elems(waiters[k]) \subseteq Procs BY <1>t, ElemsType DEF TypeOK
  <2>5. Listed'
    <3>1. Listed BY DEF LinkInv
    <3>2. ASSUME NEW k \in Locks, NEW q \in Elems(waiters[k])
          PROVE  queued[q] /\ lwWaiting[q] /\ call'[q].lock = k /\ lwWaitMode[q] = QueueMode(q)'
      <4>1. call'[q] = call[q] BY <3>1, <2>3, <2>4 DEF Listed
      <4> QED BY <3>1, <4>1, ZenonT(30) DEF Listed, QueueMode
    <3> QED BY <3>1, <3>2, <1>1 DEF Listed
  <2>6. Woken' BY <1>1, <2>1 DEF LinkInv, Woken
  <2>7. WaitingListed' BY <1>1, <2>1, <2>3 DEF LinkInv, WaitingListed
  <2> QED BY <2>2, <2>5, <2>6, <2>7 DEF LinkInv
<1>5. \A w \in Elems(waiters[l]) : lwWaitMode[w] # LW_WAIT_UNTIL_FREE
  <2>1. CASE scan[p] = LW_WAIT_UNTIL_FREE
    <3>1. Wakeable(p, l) = DOMAIN waiters[l]
      BY <2>1 DEF Wakeable, LW_WAIT_UNTIL_FREE, LW_EXCLUSIVE, LW_SHARED
    <3> QED BY <1>1, <3>1 DEF Elems
  <2>2. CASE scan[p] # LW_WAIT_UNTIL_FREE BY <2>2 DEF VarInv, FreeTaken
  <2> QED BY <2>1, <2>2
<1>6. VarInv'
  <2>1. Alone(p) BY <1>1, <1>2 DEF Alone
  <2>2. FreeFirst' BY <1>1 DEF VarInv, FreeFirst
  <2>3. \A k \in Locks : Elems(waiters[k])' = Elems(waiters[k]) BY <1>1
  <2>4. \A k \in Locks : releaseOk[k] =>
            \/ releaseOk'[k]
            \/ \A w \in Elems(waiters[k])' : lwWaitMode[w] # LW_WAIT_UNTIL_FREE
    <3> SUFFICES ASSUME NEW k \in Locks, releaseOk[k], ~releaseOk'[k]
                 PROVE  \A w \in Elems(waiters[k]) : lwWaitMode[w] # LW_WAIT_UNTIL_FREE
      BY <2>3
    <3>1. k = l BY <1>1, <1>t DEF TypeOK
    <3> QED BY <3>1, <1>5
  <2>5. \A k \in Locks : call[p].lock = k => \A w \in Procs : ~Stale(w, k)'
    <3> SUFFICES ASSUME NEW w \in Procs, NEW k \in Locks, k = l, Stale(w, k)' PROVE FALSE OBVIOUS
    <3>1. w \in Elems(waiters[l]) BY <2>3 DEF Stale
    <3>2. w # p BY <1>2 DEF Stale
    <3>3. call[w].fn = "LWLockWaitForVar" BY <1>2, <3>2 DEF Stale
    <3>4. lwWaitMode[w] = LW_WAIT_UNTIL_FREE
      BY <3>1, <3>3, <1>l DEF LinkInv, Listed, QueueMode
    <3> QED BY <3>1, <3>4, <1>5
  <2>6. pc'[p] # "sleep" /\ pc[p] # "vRelOk" /\ pc'[p] \notin ClearPCs BY <1>1, <1>2 DEF ClearPCs
  <2> QED BY <1>1, <1>2, <1>3, <2>1, <2>2, <2>3, <2>4, <2>5, <2>6, VarStep
<1> QED BY <1>4, <1>6

\* LWLockReleaseClearVar changes the value, and goes on to release the lock.
LEMMA ClearVarLinks ==
    ASSUME IInv, ListInv, LinkInv, VarInv, NEW p \in Procs, ClearVar(p)
    PROVE  LinkInv' /\ VarInv'
<1> DEFINE l == call[p].lock
<1>t. TypeOK /\ CallShape(p) BY DEF IInv
<1>l. l \in Locks BY <1>t DEF TypeOK
<1>1. /\ pc[p] = "cBody" /\ pc'[p] = "cRelease" /\ \A q \in Procs \ {p} : pc'[q] = pc[q]
      /\ \A k \in Locks : k # l => var'[k] = var[k]
      /\ UNCHANGED <<waiters, wakeup, lwWaiting, lwWaitMode, scan, call>>
      /\ UNCHANGED <<held, queued, releaseOk>>
  BY <1>t, ZenonT(30) DEF ClearVar, TypeOK
<1>2. ~queued[p] /\ ~lwWaiting[p] /\ wakeup[p] = <<>> /\ scan[p] = LW_WAIT_UNTIL_FREE
  BY <1>1, WaitingQueued DEF LinkInv, QueuedShape, QueuedPCs, WakerPCs, ListInv, ScanProgress
<1>3. LinkInv'
  <2>1. \A q \in Procs : Marked(q)' = Marked(q) BY <1>1 DEF Marked
  <2>2. \A q \in Procs : QueuedShape(q)' BY <1>1, <1>2 DEF LinkInv, QueuedShape
  <2>3. Listed' BY <1>1 DEF LinkInv, Listed, QueueMode
  <2>4. Woken' BY <1>1, <2>1 DEF LinkInv, Woken
  <2>5. WaitingListed' BY <1>1, <2>1 DEF LinkInv, WaitingListed
  <2> QED BY <2>2, <2>3, <2>4, <2>5 DEF LinkInv
<1>4. VarInv'
  <2>1. Alone(p) BY <1>1 DEF Alone
  <2>2. FreeFirst' BY <1>1 DEF VarInv, FreeFirst
  <2>3. \A k \in Locks : Elems(waiters[k])' = Elems(waiters[k]) BY <1>1
  <2>4. held[p][l] = LW_EXCLUSIVE BY <1>1 DEF VarInv, ClearingHolds, ClearPCs
  <2>5. pc'[p] \in CoverPCs /\ pc[p] \notin CoverPCs BY <1>1 DEF CoverPCs
  <2> QED BY <1>1, <1>2, <2>1, <2>2, <2>3, <2>4, <2>5, VarStep
<1> QED BY <1>3, <1>4

\* LWLockQueueSelf: the new waiter was on no list, and nobody scans this one.
LEMMA PushLinks ==
    ASSUME IInv, ListInv, LinkInv, VarInv, NEW p \in Procs, QueueSelfPush(p)
    PROVE  LinkInv' /\ VarInv'
<1> DEFINE l == call[p].lock
           s == IF QueueMode(p) = LW_WAIT_UNTIL_FREE THEN <<p>> \o waiters[l] ELSE Append(waiters[l], p)
<1>t. TypeOK /\ CallShape(p) BY DEF IInv
<1>l. l \in Locks /\ waiters[l] \in Seq(Procs) /\ \A k \in Locks : Elems(waiters[k]) \subseteq Procs
  BY <1>t, ElemsType DEF TypeOK
<1>1. /\ pc[p] = "qPush" /\ waiters' = [waiters EXCEPT ![l] = s]
      /\ lwWaiting' = [lwWaiting EXCEPT ![p] = TRUE] /\ queued' = [queued EXCEPT ![p] = TRUE]
      /\ lwWaitMode' = [lwWaitMode EXCEPT ![p] = QueueMode(p)]
      /\ pc' = [pc EXCEPT ![p] = AfterQueue(p)]
      /\ UNCHANGED <<wakeup, scan, var, call, held, releaseOk>>
  BY DEF QueueSelfPush
<1>2. ~queued[p] /\ ~lwWaiting[p] /\ wakeup[p] = <<>> /\ call[p].fn # "LWLockConditionalAcquire"
  BY <1>1, WaitingQueued DEF LinkInv, QueuedShape, QueuedPCs, WakerPCs
<1>3. (\A k \in Locks : p \notin Elems(waiters[k])) /\ \A q \in Procs : p \notin Marked(q)
  BY <1>2 DEF LinkInv, Listed, Woken
<1>4. Elems(s) = Elems(waiters[l]) \cup {p} /\ Distinct(s)
  BY <1>l, <1>3, PushElems, SMTT(60) DEF LinkInv, Listed
<1>5. InOrderOf(lwWaitMode', s)
  <2>1. lwWaitMode'[p] = QueueMode(p) /\ \A q \in Procs \ {p} : lwWaitMode'[q] = lwWaitMode[q]
    BY <1>1, <1>t DEF TypeOK
  <2>2. InOrderOf(lwWaitMode', waiters[l])
    <3>1. \A i \in DOMAIN waiters[l] : lwWaitMode'[waiters[l][i]] = lwWaitMode[waiters[l][i]]
      BY <2>1, <1>l, <1>3 DEF Elems
    <3>2. InOrderOf(lwWaitMode, waiters[l]) BY <1>l DEF VarInv, FreeFirst
    <3> QED BY <3>1, <3>2 DEF InOrderOf
  <2> QED BY <2>1, <2>2, <1>l, OrderKept
<1> HIDE DEF s
<1>6. /\ waiters'[l] = s /\ \A k \in Locks : k # l => waiters'[k] = waiters[k]
      /\ lwWaiting'[p] /\ queued'[p] /\ lwWaitMode'[p] = QueueMode(p)
      /\ pc'[p] \in {"vRelOk", "attempt"}
      /\ call[p].fn = "LWLockWaitForVar" => pc'[p] = "vRelOk"
      /\ \A q \in Procs \ {p} : /\ lwWaiting'[q] = lwWaiting[q] /\ queued'[q] = queued[q]
                                /\ lwWaitMode'[q] = lwWaitMode[q] /\ pc'[q] = pc[q]
  BY <1>1, <1>l, <1>t, ZenonT(30) DEF TypeOK, AfterQueue
<1>e. /\ Elems(waiters'[l]) = Elems(waiters[l]) \cup {p}
      /\ \A k \in Locks : k # l => Elems(waiters'[k]) = Elems(waiters[k])
  BY <1>4, <1>6
<1>m. \A q \in Procs : Marked(q)' = Marked(q) /\ Marked(q) \subseteq Procs
  BY <1>1, <1>6, <1>t, ElemsType DEF Marked, TypeOK
<1>7. LinkInv'
  <2>1. \A q \in Procs : QueuedShape(q)'
    BY <1>1, <1>2, <1>6 DEF LinkInv, QueuedShape, QueuedPCs
  <2>2. Listed'
    <3>1. \A k \in Locks : Distinct(waiters'[k]) BY <1>4, <1>6 DEF LinkInv, Listed
    <3>2. ASSUME NEW k \in Locks, NEW q \in Elems(waiters'[k])
          PROVE  queued'[q] /\ lwWaiting'[q] /\ call[q].lock = k /\ lwWaitMode'[q] = QueueMode(q)
      <4>1. CASE q = p BY <4>1, <3>2, <1>3, <1>e, <1>6
      <4>2. CASE q # p
        <5>1. q \in Elems(waiters[k]) /\ q \in Procs BY <4>2, <3>2, <1>e, <1>l, SMTT(60)
        <5> QED BY <4>2, <5>1, <1>6 DEF LinkInv, Listed
      <4> QED BY <4>1, <4>2
    <3> QED BY <3>1, <3>2, <1>1, SMTT(60) DEF Listed, QueueMode
  <2>3. Woken'
    <3>1. \A q \in Procs : Distinct(wakeup'[q]) BY <1>1 DEF LinkInv, Woken
    <3>2. ASSUME NEW q \in Procs, NEW w \in Marked(q)
          PROVE  queued'[w] /\ lwWaiting'[w] /\ \A k \in Locks : w \notin Elems(waiters'[k])
      <4>1. w # p /\ w \in Procs BY <1>3, <1>m
      <4> QED BY <4>1, <1>e, <1>6 DEF LinkInv, Woken
    <3> QED BY <3>1, <3>2, <1>m, SMTT(60) DEF LinkInv, Woken
  <2>4. WaitingListed'
    <3> SUFFICES ASSUME NEW q \in Procs, lwWaiting'[q]
                 PROVE  q \in Elems(waiters'[call[q].lock]) \/ \E r \in Procs : q \in Marked(r)
      BY <1>1, <1>m DEF WaitingListed
    <3>1. CASE q = p BY <3>1, <1>e
    <3>2. CASE q # p
      <4>1. q \in Elems(waiters[call[q].lock]) \/ \E r \in Procs : q \in Marked(r)
        BY <3>2, <1>6 DEF LinkInv, WaitingListed
      <4>2. call[q].lock \in Locks BY <1>t DEF TypeOK
      <4> QED BY <4>1, <4>2, <1>e
    <3> QED BY <3>1, <3>2
  <2> QED BY <2>1, <2>2, <2>3, <2>4 DEF LinkInv
<1>8. VarInv'
  <2>1. FreeFirst'
    <3> SUFFICES ASSUME NEW k \in Locks PROVE InOrderOf(lwWaitMode', waiters'[k])
      BY DEF FreeFirst, InOrderOf
    <3>1. CASE k = l BY <3>1, <1>5, <1>6
    <3>2. CASE k # l
      <4>1. InOrderOf(lwWaitMode, waiters[k]) BY DEF VarInv, FreeFirst
      <4>2. \A i \in DOMAIN waiters[k] : lwWaitMode'[waiters[k][i]] = lwWaitMode[waiters[k][i]]
        BY <1>l, <1>3, <1>6, ZenonT(30) DEF Elems
      <4> QED BY <3>2, <4>1, <4>2, <1>6 DEF InOrderOf
    <3> QED BY <3>1, <3>2
  <2>2. ReleaseAllowed'
    <3> SUFFICES ASSUME NEW k \in Locks, NEW q \in Elems(waiters'[k]),
                        call[q].fn = "LWLockWaitForVar", pc'[q] # "vRelOk"
                 PROVE  releaseOk[k]
      BY <1>1 DEF ReleaseAllowed
    <3>1. q # p BY <1>6
    <3>2. q \in Elems(waiters[k]) /\ q \in Procs BY <3>1, <1>e, <1>l, SMTT(60)
    <3> QED BY <3>1, <3>2, <1>6 DEF VarInv, ReleaseAllowed
  <2>3. FreeTaken'
    <3> SUFFICES ASSUME NEW q \in Procs, scan[q] # LW_WAIT_UNTIL_FREE,
                        NEW w \in Elems(waiters'[call[q].lock])
                 PROVE  lwWaitMode'[w] # LW_WAIT_UNTIL_FREE
      BY <1>1 DEF FreeTaken
    <3>1. pc[q] = "wScan" BY DEF ListInv, ScanProgress
    <3>2. call[q].lock # l /\ call[q].lock \in Locks
      BY <3>1, <1>1, <1>t DEF ListInv, ListExclusion, ListPCs, TypeOK
    <3>3. w \in Elems(waiters[call[q].lock]) /\ w \in Procs \ {p} BY <3>2, <1>e, <1>l, <1>3
    <3> QED BY <3>3, <1>6 DEF VarInv, FreeTaken
  <2>4. ClearingHolds' BY <1>1, <1>6 DEF VarInv, ClearingHolds, ClearPCs
  <2>5. StaleCovered'
    <3> SUFFICES ASSUME NEW k \in Locks, NEW w \in Procs, Stale(w, k)'
                 PROVE  \E q \in Procs : call'[q].lock = k /\ pc'[q] \in CoverPCs
      BY DEF StaleCovered
    <3>1. w # p BY <1>6 DEF Stale
    <3>2. Stale(w, k) BY <3>1, <1>1, <1>e, <1>6 DEF Stale
    <3>3. PICK q \in Procs : call[q].lock = k /\ pc[q] \in CoverPCs
      BY <3>2 DEF VarInv, StaleCovered
    <3>4. q # p BY <3>3, <1>1 DEF CoverPCs
    <3> QED BY <3>3, <3>4, <1>1, <1>6
  <2> QED BY <2>1, <2>2, <2>3, <2>4, <2>5 DEF VarInv
<1> QED BY <1>7, <1>8

\* LWLockDequeueSelf: off the list, or already taken off it by a waker.
LEMMA DequeueLinks ==
    ASSUME IInv, ListInv, LinkInv, VarInv, NEW p \in Procs, DequeueSelf(p)
    PROVE  LinkInv' /\ VarInv'
<1> DEFINE l == call[p].lock
           mine == {i \in DOMAIN waiters[l] : waiters[l][i] = p}
           i == CHOOSE j \in mine : TRUE
<1>t. TypeOK /\ CallShape(p) BY DEF IInv
<1>l. l \in Locks /\ waiters[l] \in Seq(Procs) /\ \A k \in Locks : Elems(waiters[k]) \subseteq Procs
  BY <1>t, ElemsType DEF TypeOK
<1>1. /\ pc[p] = "dqBody"
      /\ waiters' = [waiters EXCEPT ![l] = IF mine # {} THEN proclist_delete(waiters[l], i)
                                                         ELSE waiters[l]]
      /\ lwWaiting' = [lwWaiting EXCEPT ![p] = @ /\ ~(mine # {})]
      /\ queued' = [queued EXCEPT ![p] = ~(mine # {})]
      /\ pc' = [pc EXCEPT ![p] = IF mine # {} THEN "return" ELSE "dqRelOk"]
      /\ UNCHANGED <<wakeup, lwWaitMode, scan, var, call, held, releaseOk>>
  BY ZenonT(30) DEF DequeueSelf
<1>2. /\ wakeup[p] = <<>> /\ call[p].fn # "LWLockConditionalAcquire"
      /\ scan[p] = LW_WAIT_UNTIL_FREE
  BY <1>1 DEF LinkInv, QueuedShape, WakerPCs, ListInv, ScanProgress
<1>3. CASE mine = {}
  <2>1. /\ waiters' = waiters /\ lwWaiting' = lwWaiting /\ pc'[p] = "dqRelOk" /\ queued'[p]
        /\ \A q \in Procs \ {p} : pc'[q] = pc[q] /\ queued'[q] = queued[q]
    <3> HIDE DEF mine
    <3> QED BY <1>1, <1>3, <1>t, <1>l DEF TypeOK
  <2>2. Quiet(p) BY <2>1, <1>1 DEF Quiet, Alone
  <2>3. QueuedShape(p)' BY <2>1, <1>1, <1>2 DEF QueuedShape, QueuedPCs
  <2>4. LinkInv' BY <1>1, <2>1, <2>2, <2>3, QuietLinks
  <2>5. pc[p] \notin CoverPCs /\ pc'[p] \notin ClearPCs BY <1>1, <2>1 DEF CoverPCs, ClearPCs
  <2>6. VarInv' BY <1>1, <2>1, <2>2, <2>5, QuietVar
  <2> QED BY <2>4, <2>6
<1>4. CASE mine # {}
  <2>1. i \in DOMAIN waiters[l] /\ waiters[l][i] = p BY <1>4
  <2>2. i \in 1..Len(waiters[l]) BY <2>1, <1>l, LenProperties
  <2> HIDE DEF i, mine
  <2>3. /\ waiters'[l] = proclist_delete(waiters[l], i)
        /\ \A k \in Locks : k # l => waiters'[k] = waiters[k]
        /\ ~lwWaiting'[p] /\ ~queued'[p] /\ pc'[p] = "return"
        /\ \A q \in Procs \ {p} : /\ pc'[q] = pc[q] /\ queued'[q] = queued[q]
                                  /\ lwWaiting'[q] = lwWaiting[q]
    BY <1>1, <1>4, <1>l, <1>t, ZenonT(30) DEF TypeOK
  <2>4. Elems(waiters'[l]) = Elems(waiters[l]) \ {p} /\ Distinct(waiters'[l])
    BY <2>1, <2>2, <2>3, <1>l, DeleteElems, SMTT(60) DEF LinkInv, Listed
  <2>5. p \in Elems(waiters[l]) BY <2>1 DEF Elems
  <2>6. /\ \A q \in Procs : p \notin Marked(q)
        /\ \A k \in Locks : p \notin Elems(waiters'[k])
    BY <2>3, <2>4, <2>5, <1>l DEF LinkInv, Listed, Woken
  <2>7. \A q \in Procs : Marked(q)' = Marked(q) /\ Marked(q) \subseteq Procs
    BY <1>1, <2>3, <1>t, ElemsType DEF Marked, TypeOK
  <2>8. \A k \in Locks : /\ Elems(waiters'[k]) \subseteq Elems(waiters[k])
                         /\ Distinct(waiters'[k])
                         /\ \A q \in Procs \ {p} : q \in Elems(waiters[k]) => q \in Elems(waiters'[k])
    BY <2>3, <2>4 DEF LinkInv, Listed
  <2>9. LinkInv'
    <3>1. \A q \in Procs : QueuedShape(q)' BY <1>1, <1>2, <2>3 DEF LinkInv, QueuedShape
    <3>2. Listed'
      <4>1. ASSUME NEW k \in Locks, NEW q \in Elems(waiters'[k])
            PROVE  queued'[q] /\ lwWaiting'[q] /\ call[q].lock = k /\ lwWaitMode[q] = QueueMode(q)
        <5>1. q \in Elems(waiters[k]) /\ q \in Procs \ {p} BY <4>1, <2>6, <2>8, <1>l
        <5> QED BY <5>1, <2>3, ZenonT(30) DEF LinkInv, Listed
      <4>2. \A q \in Procs : QueueMode(q)' = QueueMode(q) BY <1>1 DEF QueueMode
      <4>3. \A k \in Locks : Elems(waiters'[k]) \subseteq Procs BY <2>8, <1>l
      <4>4. UNCHANGED <<call, lwWaitMode>> BY <1>1
      <4> QED BY <4>1, <4>2, <4>3, <4>4, <2>8 DEF Listed
    <3>3. Woken'
      <4>1. \A q \in Procs : Distinct(wakeup'[q]) BY <1>1 DEF LinkInv, Woken
      <4>2. ASSUME NEW q \in Procs, NEW w \in Marked(q)
            PROVE  queued'[w] /\ lwWaiting'[w] /\ \A k \in Locks : w \notin Elems(waiters'[k])
        <5>1. w # p /\ w \in Procs BY <2>6, <2>7
        <5> QED BY <5>1, <2>3, <2>8 DEF LinkInv, Woken
      <4> QED BY <4>1, <4>2, <2>7, SMTT(60) DEF LinkInv, Woken
    <3>4. WaitingListed'
      <4> SUFFICES ASSUME NEW q \in Procs, lwWaiting'[q]
                   PROVE  q \in Elems(waiters'[call[q].lock]) \/ \E r \in Procs : q \in Marked(r)
        BY <1>1, <2>7 DEF WaitingListed
      <4>1. q # p /\ lwWaiting[q] /\ call[q].lock \in Locks BY <2>3, <1>t DEF TypeOK
      <4>2. q \in Elems(waiters[call[q].lock]) \/ \E r \in Procs : q \in Marked(r)
        BY <4>1 DEF LinkInv, WaitingListed
      <4> QED BY <4>1, <4>2, <2>8
    <3> QED BY <3>1, <3>2, <3>3, <3>4 DEF LinkInv
  <2>10. FreeFirst'
    <3> SUFFICES ASSUME NEW k \in Locks PROVE InOrderOf(lwWaitMode, waiters'[k])
      BY <1>1 DEF FreeFirst, InOrderOf
    <3>1. InOrderOf(lwWaitMode, waiters[k]) BY DEF VarInv, FreeFirst
    <3> QED BY <3>1, <2>2, <2>3, <1>l, OrderKept
  <2>11. Alone(p) BY <1>1, <2>3 DEF Alone
  <2>12. pc[p] \notin CoverPCs /\ pc'[p] \notin ClearPCs BY <1>1, <2>3 DEF CoverPCs, ClearPCs
  <2>13. \A k \in Locks : Elems(waiters[k])' \subseteq Elems(waiters[k]) BY <2>8
  <2>14. VarInv' BY <1>1, <1>2, <2>3, <2>10, <2>11, <2>12, <2>13, VarStep
  <2> QED BY <2>9, <2>14
<1> QED BY <1>3, <1>4

\* A waker p takes waiters off a list, or clears the lwWaiting of one it has taken.
LEMMA MovedLinks ==
    ASSUME IInv, LinkInv, NEW p \in Procs, Alone(p), ~queued[p], queued' = queued,
           lwWaitMode' = lwWaitMode, QueuedShape(p)',
           \A q \in Procs \ {p} : wakeup'[q] = wakeup[q], Distinct(wakeup'[p]),
           \A k \in Locks : Distinct(waiters'[k]) /\ Elems(waiters'[k]) \subseteq Elems(waiters[k]),
           \A k \in Locks : \A w \in Elems(waiters[k]) : w \in Elems(waiters'[k]) \/ w \in Marked(p)',
           \A w \in Marked(p)' :
               \/ w \in Marked(p)
               \/ /\ \E k \in Locks : w \in Elems(waiters[k])
                  /\ \A k \in Locks : w \notin Elems(waiters'[k]),
           \A w \in Marked(p) : w \in Marked(p)' \/ ~lwWaiting'[w],
           \A w \in Procs : \/ lwWaiting'[w] = lwWaiting[w]
                            \/ ~lwWaiting'[w] /\ w \in Marked(p) /\ w \notin Marked(p)'
    PROVE  LinkInv'
<1>t. TypeOK BY DEF IInv
<1>l. \A k \in Locks : Elems(waiters[k]) \subseteq Procs BY <1>t, ElemsType DEF TypeOK
<1>m. \A q \in Procs : Marked(q) \subseteq Procs BY <1>t, ElemsType DEF TypeOK, Marked
<1>o. \A q \in Procs \ {p} : Marked(q)' = Marked(q) BY DEF Alone, Marked
<1>1. \A q \in Procs : QueuedShape(q)' BY DEF Alone, LinkInv, QueuedShape
<1>2. Listed'
  <2>1. ASSUME NEW k \in Locks, NEW w \in Elems(waiters'[k])
        PROVE  /\ queued'[w] /\ lwWaiting'[w] /\ call'[w].lock = k
               /\ lwWaitMode'[w] = QueueMode(w)'
    <3>1. w \in Elems(waiters[k]) /\ w \in Procs BY <2>1, <1>l
    <3>2. queued[w] /\ lwWaiting[w] /\ call[w].lock = k /\ lwWaitMode[w] = QueueMode(w)
      BY <3>1 DEF LinkInv, Listed
    <3>3. w \notin Marked(p) BY <3>1 DEF LinkInv, Woken
    <3>4. w # p /\ call'[w] = call[w] BY <3>1, <3>2 DEF Alone
    <3> QED BY <3>1, <3>2, <3>3, <3>4 DEF QueueMode
  <2> QED BY <2>1 DEF Listed
<1>3. Woken'
  <2>1. \A q \in Procs : Distinct(wakeup'[q]) BY DEF LinkInv, Woken
  <2>2. ASSUME NEW q \in Procs, NEW w \in Marked(q)'
        PROVE  queued'[w] /\ lwWaiting'[w] /\ \A k \in Locks : w \notin Elems(waiters'[k])
    <3>1. CASE w \in Marked(q)
      <4>1. /\ w \in Procs /\ queued[w] /\ lwWaiting[w]
            /\ \A k \in Locks : w \notin Elems(waiters[k])
        BY <3>1, <1>m DEF LinkInv, Woken
      <4>2. lwWaiting'[w] = lwWaiting[w]
        <5>1. CASE q = p BY <4>1, <5>1, <2>2
        <5>2. CASE q # p
          <6>1. w \notin Marked(p) BY <3>1, <5>2 DEF LinkInv, Woken
          <6> QED BY <4>1, <6>1
        <5> QED BY <5>1, <5>2
      <4> QED BY <4>1, <4>2
    <3>2. CASE w \notin Marked(q)
      <4>1. q = p BY <2>2, <3>2, <1>o
      <4>2. PICK k \in Locks : w \in Elems(waiters[k]) BY <2>2, <3>2, <4>1
      <4>3. \A j \in Locks : w \notin Elems(waiters'[j]) BY <2>2, <3>2, <4>1
      <4>4. w \in Procs /\ queued[w] /\ lwWaiting[w] BY <4>2, <1>l DEF LinkInv, Listed
      <4> QED BY <3>2, <4>1, <4>3, <4>4
    <3> QED BY <3>1, <3>2
  <2>3. ASSUME NEW q \in Procs \ {p}, NEW w \in Marked(q), w \in Marked(p)' PROVE FALSE
    <3>1. w \notin Marked(p) /\ \A k \in Locks : w \notin Elems(waiters[k])
      BY <2>3 DEF LinkInv, Woken
    <3> QED BY <3>1, <2>3
  <2>4. ASSUME NEW q \in Procs, NEW r \in Procs, NEW w \in Marked(q)', w \in Marked(r)'
        PROVE  q = r
    <3>1. CASE q # p /\ r # p BY <3>1, <2>4, <1>o DEF LinkInv, Woken
    <3>2. CASE q = p \/ r = p BY <3>2, <2>3, <2>4, <1>o
    <3> QED BY <3>1, <3>2
  <2> QED BY <2>1, <2>2, <2>4 DEF Woken
<1>4. WaitingListed'
  <2> SUFFICES ASSUME NEW w \in Procs, lwWaiting'[w]
               PROVE  w \in Elems(waiters'[call'[w].lock]) \/ \E q \in Procs : w \in Marked(q)'
    BY DEF WaitingListed
  <2>1. lwWaiting[w] OBVIOUS
  <2>2. w # p /\ call'[w] = call[w] /\ call[w].lock \in Locks
    BY <2>1, <1>t, WaitingQueued DEF Alone, TypeOK
  <2>3. CASE w \in Elems(waiters[call[w].lock]) BY <2>2, <2>3
  <2>4. CASE \E q \in Procs : w \in Marked(q) BY <2>4, <1>o, SMTT(60)
  <2> QED BY <2>1, <2>3, <2>4 DEF LinkInv, WaitingListed
<1> QED BY <1>1, <1>2, <1>3, <1>4 DEF LinkInv

\* The wakeup loop clears the lwWaiting of a waiter it has unlinked, ...
LEMMA ClearLinks ==
    ASSUME IInv, ListInv, LinkInv, VarInv, NEW p \in Procs, WakeClear(p)
    PROVE  LinkInv' /\ VarInv'
<1> DEFINE h == Head(wakeup[p])
<1>t. TypeOK /\ CallShape(p) BY DEF IInv
<1>1. /\ pc[p] = "clear" /\ lwWaiting' = [lwWaiting EXCEPT ![h] = FALSE]
      /\ pc' = [pc EXCEPT ![p] = "post"]
      /\ UNCHANGED <<waiters, wakeup, lwWaitMode, scan, var, call, held, queued, releaseOk>>
  BY ZenonT(30) DEF WakeClear, word
<1>2. wakeup[p] # <<>> /\ wakeup[p] \in Seq(Procs) BY <1>1, <1>t DEF CallShape, TypeOK
<1>3. h \in Elems(wakeup[p]) /\ Distinct(wakeup[p]) /\ Elems(wakeup[p]) \subseteq Procs
  BY <1>2, TailElems, ElemsType DEF LinkInv, Woken
<1> HIDE DEF h
<1>4. /\ pc'[p] = "post" /\ ~lwWaiting'[h]
      /\ \A q \in Procs \ {p} : pc'[q] = pc[q]
      /\ \A q \in Procs \ {h} : lwWaiting'[q] = lwWaiting[q]
  BY <1>1, <1>3, <1>t DEF TypeOK
<1>5. Marked(p) = Elems(wakeup[p]) /\ Marked(p)' = Elems(wakeup[p]) \ {h}
  BY <1>1, <1>4 DEF Marked, h
<1>6. ~queued[p] /\ ~lwWaiting[p] /\ call[p].fn # "LWLockConditionalAcquire"
      /\ scan[p] = LW_WAIT_UNTIL_FREE
  BY <1>1, WaitingQueued DEF LinkInv, QueuedShape, QueuedPCs, ListInv, ScanProgress
<1>7. Alone(p) BY <1>1, <1>4 DEF Alone
<1>8. QueuedShape(p)' BY <1>1, <1>4, <1>6 DEF QueuedShape, WakerPCs
<1>9. LinkInv'
  <2>1. \A k \in Locks : Distinct(waiters'[k]) /\ Elems(waiters'[k]) \subseteq Elems(waiters[k])
    BY <1>1 DEF LinkInv, Listed
  <2> QED BY <1>1, <1>3, <1>4, <1>5, <1>6, <1>7, <1>8, <2>1, MovedLinks
<1>10. VarInv'
  <2>1. FreeFirst' BY <1>1 DEF VarInv, FreeFirst
  <2>2. \A k \in Locks : Elems(waiters[k])' = Elems(waiters[k]) BY <1>1
  <2>3. pc[p] \notin CoverPCs /\ pc'[p] \notin ClearPCs BY <1>1, <1>4 DEF CoverPCs, ClearPCs
  <2> QED BY <1>1, <1>4, <1>6, <1>7, <2>1, <2>2, <2>3, VarStep
<1> QED BY <1>9, <1>10

\* ... signals it and goes on to the next, or ends.
LEMMA PostLinks ==
    ASSUME IInv, ListInv, LinkInv, VarInv, NEW p \in Procs, WakePost(p)
    PROVE  LinkInv' /\ VarInv'
<1> DEFINE s == wakeup[p]
<1>t. TypeOK /\ CallShape(p) BY DEF IInv
<1>1. /\ pc[p] = "post" /\ wakeup' = [wakeup EXCEPT ![p] = Tail(s)]
      /\ UNCHANGED <<waiters, lwWaiting, lwWaitMode, scan, var, held, queued, releaseOk>>
      /\ IF Len(s) > 1 THEN pc' = [pc EXCEPT ![p] = "wake"] /\ UNCHANGED call ELSE Finish(p)
  BY ZenonT(30) DEF WakePost, word
<1>2. s # <<>> /\ s \in Seq(Procs) BY <1>1, <1>t DEF CallShape, TypeOK
<1>3. Elems(Tail(s)) = Elems(s) \ {Head(s)} /\ Distinct(Tail(s))
  BY <1>2, TailElems DEF LinkInv, Woken
<1>4. ~(Len(s) > 1) => Tail(s) = <<>>
  <2>1. Len(s) \in Nat \ {0} BY <1>2, EmptySeq, LenProperties
  <2>2. Tail(s) \in Seq(Procs) /\ Len(Tail(s)) = Len(s) - 1 BY <1>2, HeadTailProperties
  <2>3. \A m, n : m \in Nat \ {0} /\ n = m - 1 /\ ~(m > 1) => n = 0 BY SMTT(60)
  <2> QED BY <2>1, <2>2, <2>3, EmptySeq, Zenon
<1> HIDE DEF s
<1>5. /\ wakeup'[p] = Tail(s) /\ \A q \in Procs \ {p} : wakeup'[q] = wakeup[q]
      /\ pc'[p] \in {"wake", "releaseAll", "idle"} /\ (Tail(s) # <<>> => pc'[p] = "wake")
      /\ \A q \in Procs \ {p} : pc'[q] = pc[q] /\ call'[q] = call[q]
      /\ call'[p] \in {call[p], NoCall}
  BY <1>1, <1>4, <1>t, ZenonT(30) DEF Finish, TypeOK
<1>6. Marked(p)' = Marked(p)
  BY <1>1, <1>3, <1>5 DEF Marked, s
<1>7. ~queued[p] /\ ~lwWaiting[p] /\ call[p].fn # "LWLockConditionalAcquire"
      /\ scan[p] = LW_WAIT_UNTIL_FREE
  BY <1>1, WaitingQueued DEF LinkInv, QueuedShape, QueuedPCs, ListInv, ScanProgress
<1>8. Alone(p) BY <1>1, <1>5 DEF Alone
<1>9. QueuedShape(p)' BY <1>1, <1>5, <1>7, NoCallType DEF QueuedShape, WakerPCs
<1>10. LinkInv'
  <2>1. \A k \in Locks : Distinct(waiters'[k]) /\ Elems(waiters'[k]) \subseteq Elems(waiters[k])
    BY <1>1 DEF LinkInv, Listed
  <2> QED BY <1>1, <1>3, <1>5, <1>6, <1>7, <1>8, <1>9, <2>1, MovedLinks
<1>11. VarInv'
  <2>1. FreeFirst' BY <1>1 DEF VarInv, FreeFirst
  <2>2. \A k \in Locks : Elems(waiters[k])' = Elems(waiters[k]) BY <1>1
  <2>3. pc[p] \notin CoverPCs /\ pc'[p] \notin ClearPCs /\ pc'[p] # "sleep"
    BY <1>1, <1>5 DEF CoverPCs, ClearPCs
  <2> QED BY <1>1, <1>7, <1>8, <2>1, <2>2, <2>3, VarStep
<1> QED BY <1>10, <1>11

\* LWLockWakeup moves a waiter to its own list.
LEMMA ScanLinks ==
    ASSUME IInv, ListInv, LinkInv, VarInv, NEW p \in Procs, WakeupScan(p)
    PROVE  LinkInv' /\ VarInv'
<1> DEFINE l == call[p].lock
<1>t. TypeOK BY DEF IInv
<1>l. /\ l \in Locks /\ waiters[l] \in Seq(Procs) /\ DOMAIN waiters[l] = 1..Len(waiters[l])
      /\ Len(waiters[l]) \in Nat /\ wakeup[p] \in Seq(Procs)
      /\ \A k \in Locks : Elems(waiters[k]) \subseteq Procs
  BY <1>t, ElemsType, SMTT(60) DEF TypeOK
<1>1. PICK i \in Wakeable(p, l) :
         /\ \A j \in Wakeable(p, l) : i <= j
         /\ waiters' = [waiters EXCEPT ![l] = proclist_delete(waiters[l], i)]
         /\ wakeup' = [wakeup EXCEPT ![p] = Append(wakeup[p], waiters[l][i])]
         /\ scan' = [scan EXCEPT ![p] = IF lwWaitMode[waiters[l][i]] = LW_WAIT_UNTIL_FREE
                                          THEN scan[p] ELSE lwWaitMode[waiters[l][i]]]
  BY ZenonT(30) DEF WakeupScan
<1>2. /\ pc[p] = "wScan"
      /\ UNCHANGED <<lwWaiting, lwWaitMode, var, held, pc, call, queued, releaseOk>>
  BY ZenonT(30) DEF WakeupScan, word
<1> DEFINE w == waiters[l][i]
<1>3. i \in DOMAIN waiters[l] /\ i \in 1..Len(waiters[l]) /\ w \in Elems(waiters[l]) /\ w \in Procs
  <2>1. i \in DOMAIN waiters[l] BY <1>1 DEF Wakeable
  <2> QED BY <2>1, <1>l DEF Elems
<1>4. /\ Elems(proclist_delete(waiters[l], i)) = Elems(waiters[l]) \ {w}
      /\ Distinct(proclist_delete(waiters[l], i))
  BY <1>3, <1>l, DeleteElems DEF LinkInv, Listed
<1>5. Marked(p) = Elems(wakeup[p]) BY <1>2 DEF Marked
<1>6. w \notin Elems(wakeup[p]) /\ Distinct(wakeup[p])
  BY <1>3, <1>5, <1>l DEF LinkInv, Woken
<1>7. Elems(Append(wakeup[p], w)) = Elems(wakeup[p]) \cup {w} /\ Distinct(Append(wakeup[p], w))
  <2>1. wakeup[p] \in Seq(Procs) /\ w \in Procs BY <1>3, <1>l
  <2> HIDE DEF w, l
  <2>2. /\ Elems(Append(wakeup[p], w)) = Elems(wakeup[p]) \cup {w} /\ Distinct(Append(wakeup[p], w))
        /\ Elems(<<w>> \o wakeup[p]) = Elems(wakeup[p]) \cup {w} /\ Distinct(<<w>> \o wakeup[p])
    BY <2>1, <1>6, PushElems
  <2> QED BY <2>2
<1>8. ASSUME scan[p] = LW_WAIT_UNTIL_FREE, lwWaitMode[w] # LW_WAIT_UNTIL_FREE
      PROVE  \A x \in Elems(waiters[l]) : lwWaitMode[x] # LW_WAIT_UNTIL_FREE
  <2>1. Wakeable(p, l) = DOMAIN waiters[l]
    BY <1>8 DEF Wakeable, LW_WAIT_UNTIL_FREE, LW_EXCLUSIVE, LW_SHARED
  <2> SUFFICES ASSUME NEW j \in DOMAIN waiters[l], lwWaitMode[waiters[l][j]] = LW_WAIT_UNTIL_FREE
               PROVE  FALSE
    BY DEF Elems
  <2>2. i <= j /\ i # j BY <1>1, <1>8, <2>1
  <2>3. i < j BY <2>2, <1>3, <1>l
  <2> QED BY <2>3, <1>3, <1>8, <1>l DEF VarInv, FreeFirst, InOrderOf
<1> HIDE DEF w, l
<1>9. /\ waiters'[l] = proclist_delete(waiters[l], i)
      /\ \A k \in Locks : k # l => waiters'[k] = waiters[k]
      /\ wakeup'[p] = Append(wakeup[p], w) /\ \A q \in Procs \ {p} : wakeup'[q] = wakeup[q]
      /\ scan'[p] = (IF lwWaitMode[w] = LW_WAIT_UNTIL_FREE THEN scan[p] ELSE lwWaitMode[w])
      /\ \A q \in Procs \ {p} : scan'[q] = scan[q]
  BY <1>1, <1>l, <1>t, ZenonT(30) DEF TypeOK, w
<1>10. Marked(p)' = Marked(p) \cup {w} BY <1>2, <1>5, <1>7, <1>9 DEF Marked
<1>11. ~queued[p] /\ ~lwWaiting[p] /\ call[p].fn # "LWLockConditionalAcquire"
  BY <1>2, WaitingQueued DEF LinkInv, QueuedShape, QueuedPCs
<1>12. Alone(p) BY <1>2, <1>9 DEF Alone
<1>13. QueuedShape(p)' BY <1>2, <1>11 DEF QueuedShape, WakerPCs
<1>e. /\ Elems(waiters'[l]) = Elems(waiters[l]) \ {w}
      /\ \A k \in Locks : k # l => Elems(waiters'[k]) = Elems(waiters[k])
  BY <1>4, <1>9
<1>14. LinkInv'
  <2>1. \A k \in Locks : Distinct(waiters'[k]) /\ Elems(waiters'[k]) \subseteq Elems(waiters[k])
    BY <1>4, <1>9, <1>e DEF LinkInv, Listed
  <2>2. \A k \in Locks : \A x \in Elems(waiters[k]) : x \in Elems(waiters'[k]) \/ x \in Marked(p)'
    BY <1>e, <1>10
  <2>3. \A k \in Locks : w \notin Elems(waiters'[k])
    <3>1. call[w].lock = l BY <1>3, <1>l DEF LinkInv, Listed
    <3>2. \A k \in Locks : k # l => w \notin Elems(waiters[k]) BY <3>1 DEF LinkInv, Listed
    <3> QED BY <3>2, <1>e
  <2> QED BY <1>2, <1>3, <1>7, <1>9, <1>10, <1>11, <1>12, <1>13, <1>l, <2>1, <2>2, <2>3, MovedLinks
<1>15. VarInv'
  <2>1. FreeFirst'
    <3> SUFFICES ASSUME NEW k \in Locks PROVE InOrderOf(lwWaitMode, waiters'[k])
      BY <1>2 DEF FreeFirst, InOrderOf
    <3>1. InOrderOf(lwWaitMode, waiters[k]) BY DEF VarInv, FreeFirst
    <3> QED BY <3>1, <1>3, <1>9, <1>l, OrderKept
  <2>2. \A k \in Locks : Elems(waiters[k])' \subseteq Elems(waiters[k])
    BY <1>e
  <2>3. ASSUME scan'[p] # LW_WAIT_UNTIL_FREE, NEW x \in Elems(waiters'[l])
        PROVE  lwWaitMode[x] # LW_WAIT_UNTIL_FREE
    <3>1. x \in Elems(waiters[l]) BY <2>3, <1>e
    <3>2. CASE scan[p] # LW_WAIT_UNTIL_FREE BY <3>1, <3>2 DEF VarInv, FreeTaken, l
    <3>3. CASE scan[p] = LW_WAIT_UNTIL_FREE BY <2>3, <3>1, <3>3, <1>8, <1>9
    <3> QED BY <3>2, <3>3
  <2>4. scan'[p] # LW_WAIT_UNTIL_FREE =>
            \A x \in Elems(waiters[call[p].lock])' : lwWaitMode[x] # LW_WAIT_UNTIL_FREE
    BY <2>3, <1>2 DEF l
  <2>5. pc'[p] \in CoverPCs /\ pc'[p] \notin ClearPCs BY <1>2 DEF CoverPCs, ClearPCs
  <2> QED BY <1>2, <1>11, <1>12, <2>1, <2>2, <2>4, <2>5, VarStep
<1> QED BY <1>14, <1>15

\* LWLockUpdateVar takes off all waiters for a value.
LEMMA UpdateLinks ==
    ASSUME IInv, ListInv, LinkInv, VarInv, NEW p \in Procs, UpdateVar(p)
    PROVE  LinkInv' /\ VarInv'
<1> DEFINE l == call[p].lock
           s == waiters[l]
<1>t. TypeOK BY DEF IInv
<1>l. /\ l \in Locks /\ s \in Seq(Procs) /\ DOMAIN s = 1..Len(s) /\ Len(s) \in Nat
      /\ \A k \in Locks : Elems(waiters[k]) \subseteq Procs
  BY <1>t, ElemsType, SMTT(60) DEF TypeOK
<1>1. /\ pc[p] = "uBody" /\ var' = [var EXCEPT ![l] = call[p].val]
      /\ UNCHANGED <<lwWaiting, lwWaitMode, held, queued, scan, releaseOk>>
  BY ZenonT(30) DEF UpdateVar
<1>2. PICK n \in 0..Len(s) :
         /\ FreePrefix(l, n)
         /\ wakeup' = [wakeup EXCEPT ![p] = SubSeq(s, 1, n)]
         /\ waiters' = [waiters EXCEPT ![l] = SubSeq(s, n + 1, Len(s))]
         /\ IF n > 0 THEN pc' = [pc EXCEPT ![p] = "wake"] /\ UNCHANGED call ELSE Finish(p)
  BY ZenonT(30) DEF UpdateVar
<1> DEFINE a == SubSeq(s, 1, n)
           b == SubSeq(s, n + 1, Len(s))
<1>3. /\ Distinct(a) /\ Distinct(b)
      /\ Elems(a) \cup Elems(b) = Elems(s) /\ Elems(a) \cap Elems(b) = {}
      /\ DOMAIN b = 1..(Len(s) - n) /\ \A j \in 1..(Len(s) - n) : b[j] = s[j + n]
      /\ DOMAIN a = 1..n
  <2>1. Distinct(s) BY <1>l DEF LinkInv, Listed
  <2> QED BY <1>l, <2>1, SplitElems, SMTT(60)
<1>4. InOrderOf(lwWaitMode, b)
  <2>1. InOrderOf(lwWaitMode, s) BY <1>l DEF VarInv, FreeFirst
  <2> QED BY <2>1, <1>l, OrderKept
<1>5. a # <<>> => n > 0
  <2>1. a \in Seq(Procs) /\ Len(a) = n BY <1>l, SplitAt, SMTT(60)
  <2>2. Len(a) # 0 => n > 0 BY <2>1
  <2> QED BY <2>1, <2>2, EmptySeq
<1>6. \A x \in Elems(b) : lwWaitMode[x] # LW_WAIT_UNTIL_FREE
  <2> SUFFICES ASSUME NEW j \in DOMAIN b, lwWaitMode[b[j]] = LW_WAIT_UNTIL_FREE PROVE FALSE
    BY DEF Elems
  <2>1. n < Len(s) => lwWaitMode[s[n + 1]] # LW_WAIT_UNTIL_FREE BY <1>2 DEF FreePrefix
  <2> HIDE DEF a, b, s
  <2>2. /\ n < Len(s) /\ j + n \in DOMAIN s /\ n + 1 \in DOMAIN s /\ b[j] = s[j + n]
        /\ (n + 1 = j + n \/ n + 1 < j + n)
    BY <1>3, <1>l, SMTT(60)
  <2>3. InOrderOf(lwWaitMode, s) BY <1>l DEF VarInv, FreeFirst, s
  <2> QED BY <2>1, <2>2, <2>3 DEF InOrderOf
<1> HIDE DEF a, b
<1>7. /\ waiters'[l] = b /\ \A k \in Locks : k # l => waiters'[k] = waiters[k]
      /\ wakeup'[p] = a /\ \A q \in Procs \ {p} : wakeup'[q] = wakeup[q]
      /\ \A k \in Locks : k # l => var'[k] = var[k]
  BY <1>1, <1>2, <1>l, <1>t, ZenonT(30) DEF TypeOK, a, b
<1>8. /\ pc'[p] \in {"wake", "releaseAll", "idle"} /\ (a # <<>> => pc'[p] = "wake")
      /\ \A q \in Procs \ {p} : pc'[q] = pc[q] /\ call'[q] = call[q]
      /\ call'[p] \in {call[p], NoCall}
  BY <1>2, <1>5, <1>t, ZenonT(30) DEF Finish, TypeOK
<1> HIDE DEF l, s
<1>9. /\ ~queued[p] /\ ~lwWaiting[p] /\ call[p].fn # "LWLockConditionalAcquire"
      /\ wakeup[p] = <<>> /\ scan[p] = LW_WAIT_UNTIL_FREE
  BY <1>1, WaitingQueued DEF LinkInv, QueuedShape, QueuedPCs, WakerPCs, ListInv, ScanProgress
<1>10. Marked(p) = {} /\ Marked(p)' = Elems(a)
  <2>1. Elems(<<>>) = {} BY DEF Elems
  <2> QED BY <2>1, <1>1, <1>7, <1>8, <1>9 DEF Marked
<1>11. Alone(p) BY <1>1, <1>8 DEF Alone
<1>12. QueuedShape(p)' BY <1>1, <1>7, <1>8, <1>9, NoCallType DEF QueuedShape, WakerPCs
<1>e. /\ Elems(waiters'[l]) = Elems(waiters[l]) \ Elems(a) /\ Elems(a) \subseteq Elems(waiters[l])
      /\ \A k \in Locks : k # l => Elems(waiters'[k]) = Elems(waiters[k])
  BY <1>3, <1>7 DEF s
<1>13. LinkInv'
  <2>1. \A k \in Locks : Distinct(waiters'[k]) /\ Elems(waiters'[k]) \subseteq Elems(waiters[k])
    BY <1>3, <1>7, <1>e DEF LinkInv, Listed
  <2>2. \A k \in Locks : \A x \in Elems(waiters[k]) : x \in Elems(waiters'[k]) \/ x \in Marked(p)'
    BY <1>e, <1>10
  <2>3. \A x \in Elems(a) : \A k \in Locks : x \notin Elems(waiters'[k])
    <3>1. \A x \in Elems(a) : call[x].lock = l BY <1>e, <1>l DEF LinkInv, Listed
    <3>2. \A x \in Elems(a) : \A k \in Locks : k # l => x \notin Elems(waiters[k])
      BY <3>1 DEF LinkInv, Listed
    <3> QED BY <3>2, <1>e
  <2>4. \A x \in Marked(p)' : /\ \E k \in Locks : x \in Elems(waiters[k])
                              /\ \A k \in Locks : x \notin Elems(waiters'[k])
    BY <2>3, <1>e, <1>l, <1>10
  <2> QED BY <1>1, <1>3, <1>7, <1>9, <1>10, <1>11, <1>12, <2>1, <2>2, <2>4, MovedLinks
<1>14. VarInv'
  <2>1. FreeFirst'
    <3> SUFFICES ASSUME NEW k \in Locks PROVE InOrderOf(lwWaitMode, waiters'[k])
      BY <1>1 DEF FreeFirst, InOrderOf
    <3> QED BY <1>4, <1>7 DEF VarInv, FreeFirst
  <2>2. \A k \in Locks : Elems(waiters[k])' \subseteq Elems(waiters[k]) BY <1>e
  <2>3. ASSUME NEW k \in Locks, var'[k] # var[k], NEW x \in Procs, Stale(x, k)' PROVE FALSE
    <3>1. k = l BY <2>3, <1>7
    <3>2. x \in Elems(b) /\ x \in Elems(waiters[l]) BY <2>3, <3>1, <1>7, <1>e DEF Stale
    <3>3. x # p BY <3>2, <1>9, <1>l, ZenonT(30) DEF LinkInv, Listed
    <3>4. call[x].fn = "LWLockWaitForVar" BY <2>3, <3>3, <1>8 DEF Stale
    <3>5. lwWaitMode[x] = LW_WAIT_UNTIL_FREE
      BY <3>2, <3>4, <1>l DEF LinkInv, Listed, QueueMode
    <3> QED BY <3>2, <3>5, <1>6
  <2>4. pc[p] \notin CoverPCs /\ pc'[p] \notin ClearPCs /\ pc'[p] # "sleep"
    BY <1>1, <1>8 DEF CoverPCs, ClearPCs
  <2> QED BY <1>1, <1>9, <1>11, <2>1, <2>2, <2>3, <2>4, VarStep
<1> QED BY <1>13, <1>14

\* LinkInv and VarInv hold initially ...
LEMMA InitLinks == Init => LinkInv /\ VarInv
<1> SUFFICES ASSUME Init PROVE LinkInv /\ VarInv OBVIOUS
<1>1. Elems(<<>>) = {} /\ Distinct(<<>>) BY SMTT(60) DEF Elems, Distinct
<1>2. /\ \A l \in Locks : waiters[l] = <<>>
      /\ \A p \in Procs : /\ wakeup[p] = <<>> /\ pc[p] = "idle" /\ ~queued[p] /\ ~lwWaiting[p]
                          /\ call[p] = NoCall /\ scan[p] = LW_WAIT_UNTIL_FREE
  BY DEF Init
<1>3. \A p \in Procs : call[p].lock \in Locks /\ call[p].fn = "LWLockRelease"
  BY <1>2, NoCallType
<1>4. \A p \in Procs : Marked(p) = {} BY <1>1, <1>2 DEF Marked
<1>5. LinkInv
  BY <1>1, <1>2, <1>3, <1>4, ZenonT(30) DEF LinkInv, QueuedShape, Listed, Woken, WaitingListed
<1>6. FreeFirst /\ ReleaseAllowed /\ FreeTaken /\ StaleCovered
  BY <1>1, <1>2, <1>3, SMTT(60) DEF FreeFirst, InOrderOf, ReleaseAllowed, FreeTaken, StaleCovered, Stale
<1>7. ClearingHolds BY <1>2 DEF ClearingHolds, ClearPCs
<1> QED BY <1>5, <1>6, <1>7 DEF VarInv

\* ... and every step keeps them.
LEMMA NextLinks == IInv /\ ListInv /\ LinkInv /\ VarInv /\ [Next]_vars => LinkInv' /\ VarInv'
<1> SUFFICES ASSUME IInv, ListInv, LinkInv, VarInv, [Next]_vars PROVE LinkInv' /\ VarInv'
  OBVIOUS
<1>1. ASSUME NEW p \in Procs, Step(p) PROVE LinkInv' /\ VarInv'
  BY <1>1, WaiterLinks, ActorLinks, FlagsLinks, ClearVarLinks, PushLinks, DequeueLinks, ClearLinks,
     PostLinks, ScanLinks, UpdateLinks
  DEF Step
<1>2. CASE UNCHANGED vars BY <1>2, SameLinks DEF vars, shared, word
<1> QED BY <1>1, <1>2, CallerLinks DEF Next

\* They are invariants.
LEMMA Links == Spec => [](LinkInv /\ VarInv)
BY InitLinks, NextLinks, Invariance, ListInvariance, PTL DEF Spec

\* A backend in the local list of a waker that has not unlinked it is marked there.
LEMMA WokenMarked ==
    ASSUME IInv, LinkInv, NEW p \in Procs, NEW q \in Procs, NEW i \in DOMAIN wakeup[q],
           wakeup[q][i] = p, ~(pc[q] = "post" /\ i = 1)
    PROVE  p \in Marked(q)
<1>1. p \in Elems(wakeup[q]) BY DEF Elems
<1>2. CASE pc[q] # "post" BY <1>1, <1>2 DEF Marked
<1>3. CASE pc[q] = "post"
  <2>1. wakeup[q] \in Seq(Procs) /\ wakeup[q] # <<>> BY <1>3 DEF IInv, TypeOK, CallShape
  <2>2. Head(wakeup[q]) = wakeup[q][1] /\ 1 \in DOMAIN wakeup[q]
    <3>1. Len(wakeup[q]) \in Nat \ {0} /\ DOMAIN wakeup[q] = 1..Len(wakeup[q])
      BY <2>1, EmptySeq, LenProperties
    <3> QED BY <2>1, <3>1, HeadTailProperties, SMTT(60)
  <2>3. p # Head(wakeup[q]) BY <1>3, <2>2 DEF LinkInv, Woken, Distinct
  <2> QED BY <1>1, <1>3, <2>3 DEF Marked
<1> QED BY <1>2, <1>3

\* LinkInv says that the wait lists are intact.
LEMMA LinksIntact == IInv /\ LinkInv => WaitListsIntact
<1> SUFFICES ASSUME IInv, LinkInv, NEW p \in Procs
             PROVE  /\ \A e \in ListedWaiting(p) : queued[p] /\ call[p].lock = e[1]
                    /\ \A d, e \in ListedWaiting(p) : d = e
                    /\ \A d, e \in ListedWoken(p) : d = e
                    /\ ListedWaiting(p) = {} \/ ListedWoken(p) = {}
                    /\ lwWaiting[p] <=> \/ ListedWaiting(p) # {} \/ ListedWoken(p) # {}
                                        \/ BeingCleared(p)
  BY DEF WaitListsIntact
<1>1. ASSUME NEW e \in ListedWaiting(p)
      PROVE  /\ e = <<e[1], e[2]>> /\ e[1] \in Locks /\ e[2] \in DOMAIN waiters[e[1]]
             /\ waiters[e[1]][e[2]] = p /\ p \in Elems(waiters[e[1]])
  <2>0. PICK l \in Locks : e \in {l} \X DOMAIN waiters[l] BY <1>1 DEF ListedWaiting
  <2>1. PICK i \in DOMAIN waiters[l] : e = <<l, i>> BY <2>0
  <2>2. waiters[l][i] = p BY <1>1, <2>1 DEF ListedWaiting
  <2> QED BY <2>1, <2>2 DEF Elems
<1>2. \A e \in ListedWaiting(p) : queued[p] /\ lwWaiting[p] /\ call[p].lock = e[1]
  BY <1>1 DEF LinkInv, Listed
<1>3. ASSUME NEW d \in ListedWaiting(p), NEW e \in ListedWaiting(p) PROVE d = e
  <2>1. d[1] = e[1] BY <1>2
  <2>2. d[2] = e[2] BY <1>1, <2>1, SMTT(60) DEF LinkInv, Listed, Distinct
  <2> QED BY <1>1, <2>1, <2>2
<1>4. ASSUME NEW e \in PendingPosts(p)
      PROVE  /\ e = <<e[1], e[2]>> /\ e[1] \in Procs /\ e[2] \in DOMAIN wakeup[e[1]]
             /\ wakeup[e[1]][e[2]] = p
  <2>0. PICK q \in Procs : e \in {q} \X DOMAIN wakeup[q] BY <1>4 DEF PendingPosts
  <2>1. PICK i \in DOMAIN wakeup[q] : e = <<q, i>> BY <2>0
  <2>2. wakeup[q][i] = p BY <1>4, <2>1 DEF PendingPosts
  <2> QED BY <2>1, <2>2
<1>5. ASSUME NEW e \in PendingPosts(p), ~(pc[e[1]] = "post" /\ e[2] = 1)
      PROVE  p \in Marked(e[1])
  BY <1>4, <1>5, WokenMarked
<1>6. \A e \in ListedWoken(p) : e \in PendingPosts(p) /\ p \in Marked(e[1])
  BY <1>5 DEF ListedWoken
<1>7. ASSUME NEW d \in ListedWoken(p), NEW e \in ListedWoken(p) PROVE d = e
  <2>1. d[1] = e[1] BY <1>4, <1>6 DEF LinkInv, Woken
  <2>2. d[2] = e[2] BY <1>4, <1>6, <2>1, SMTT(60) DEF LinkInv, Woken, Distinct
  <2> QED BY <1>4, <1>6, <2>1, <2>2
<1>8. ListedWaiting(p) = {} \/ ListedWoken(p) = {}
  BY <1>1, <1>4, <1>6 DEF LinkInv, Woken
<1>9. BeingCleared(p) => \E q \in Procs : p \in Marked(q)
  BY <1>4, <1>5 DEF BeingCleared
<1>10. (ListedWaiting(p) # {} \/ ListedWoken(p) # {} \/ BeingCleared(p)) => lwWaiting[p]
  BY <1>2, <1>4, <1>6, <1>9 DEF LinkInv, Woken
<1>11. ASSUME NEW l \in Locks, p \in Elems(waiters[l]) PROVE ListedWaiting(p) # {}
  <2>1. PICK i \in DOMAIN waiters[l] : waiters[l][i] = p BY <1>11 DEF Elems
  <2>2. <<l, i>> \in {l} \X DOMAIN waiters[l] OBVIOUS
  <2>3. <<l, i>> \in ListedWaiting(p) BY <2>1, <2>2 DEF ListedWaiting
  <2> QED BY <2>3
<1>12. ASSUME NEW q \in Procs, p \in Marked(q) PROVE ListedWoken(p) # {} \/ BeingCleared(p)
  <2>1. p \in Elems(wakeup[q]) BY <1>12 DEF Marked
  <2>2. PICK i \in DOMAIN wakeup[q] : wakeup[q][i] = p BY <2>1 DEF Elems
  <2>3. <<q, i>> \in {q} \X DOMAIN wakeup[q] OBVIOUS
  <2>4. <<q, i>> \in PendingPosts(p) BY <2>2, <2>3 DEF PendingPosts
  <2>5. CASE pc[q] = "clear" /\ i = 1 BY <2>4, <2>5 DEF BeingCleared
  <2>6. ~(pc[q] = "post" /\ i = 1)
    <3> SUFFICES ASSUME pc[q] = "post", i = 1 PROVE FALSE OBVIOUS
    <3>1. wakeup[q] \in Seq(Procs) /\ wakeup[q] # <<>> BY DEF IInv, TypeOK, CallShape
    <3>2. Head(wakeup[q]) = wakeup[q][1] BY <3>1, HeadTailProperties, SMTT(60)
    <3> QED BY <1>12, <2>2, <3>2 DEF Marked
  <2>7. CASE ~(pc[q] = "clear" /\ i = 1) BY <2>4, <2>6, <2>7 DEF ListedWoken
  <2> QED BY <2>5, <2>7
<1>13. lwWaiting[p] => ListedWaiting(p) # {} \/ ListedWoken(p) # {} \/ BeingCleared(p)
  <2>1. call[p].lock \in Locks BY DEF IInv, TypeOK
  <2> QED BY <2>1, <1>11, <1>12 DEF LinkInv, WaitingListed
<1> QED BY <1>2, <1>3, <1>7, <1>8, <1>10, <1>13

\* The links of a backend are never in use twice, whatever the wakers are doing: a
\* backend is on one list at most, and lwWaiting tells it so until it is off.
THEOREM ListsIntact == Spec => []WaitListsIntact
BY Invariance, Links, LinksIntact, PTL

\* Nobody sleeps in LWLockWaitForVar on a value that LWLockUpdateVar or
\* LWLockReleaseClearVar has replaced, unless the lock is just being released.
THEOREM SleepersCovered == Spec => []VarSleeperCovered
<1>1. IInv /\ LinkInv /\ VarInv => VarSleeperCovered
  <2> SUFFICES ASSUME IInv, LinkInv, VarInv, NEW l \in Locks, NEW i \in DOMAIN waiters[l],
                      pc[waiters[l][i]] = "sleep", call[waiters[l][i]].fn = "LWLockWaitForVar",
                      var[l] # call[waiters[l][i]].val
               PROVE  \E q \in Procs : call[q].lock = l /\ pc[q] \in {"cRelease", "wLock", "wScan"}
    BY DEF VarSleeperCovered
  <2>1. waiters[l][i] \in Elems(waiters[l]) BY DEF Elems
  <2>2. waiters[l][i] \in Procs BY <2>1, ElemsType, ZenonT(30) DEF IInv, TypeOK
  <2>3. Stale(waiters[l][i], l) BY <2>1 DEF Stale
  <2> QED BY <2>2, <2>3 DEF VarInv, StaleCovered, CoverPCs
<1> QED BY <1>1, Invariance, Links, PTL
====
