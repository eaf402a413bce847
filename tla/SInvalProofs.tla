---------------------------- MODULE SInvalProofs ----------------------------
(***************************************************************************)
(* The invariant of SInvalFacts holds, and what follows from it.           *)
(***************************************************************************)
EXTENDS SInvalFacts

USE ZenonT(10), SMTT(60)

\* The messages are stored behind those that somebody may still read.
LEMMA WriteRing == ASSUME SIInv, NEW p \in Procs, InsertWrite(p) PROVE RingInv'
<1> DEFINE M == MAXNUMMESSAGES
           Index(j) == (maxMsgNum + j) % M
           Hit(i) == \E j \in 0 .. batch[p] - 1 : i = Index(j)
           Which(i) == CHOOSE j \in 0 .. batch[p] - 1 : i = Index(j)
<1>0. SITypeOK /\ RingInv /\ Shape(p) /\ M \in Nat \ {0} BY Constants DEF SIInv
<1>1. /\ buffer' = [i \in DOMAIN buffer |-> IF Hit(i) THEN total + Which(i) ELSE buffer[i]]
      /\ UNCHANGED <<minMsgNum, maxMsgNum, total, complete, batch>>
      /\ pc[p] = "room" /\ ~NeedsRoom(p) /\ pc' = [pc EXCEPT ![p] = "publish"]
  BY Zenon DEF InsertWrite, Goto, seg, insertvars, history
<1>2. /\ minMsgNum \in Nat /\ maxMsgNum \in Nat /\ batch[p] \in Nat /\ total \in Nat
      /\ minMsgNum <= maxMsgNum /\ maxMsgNum - minMsgNum <= M /\ maxMsgNum <= total /\ complete <= total
      /\ \A n \in minMsgNum .. maxMsgNum - 1 : buffer[n % M] = Place(n)
      /\ (\A q \in Procs : pc[q] # "flag") => complete = total
      /\ DOMAIN buffer = 0 .. M - 1 /\ pc \in [Procs -> PCs]
  BY <1>0 DEF SITypeOK, RingInv
<1>3. maxMsgNum - minMsgNum + batch[p] <= M BY <1>1, <1>2, <1>0 DEF NeedsRoom
<1>4. ASSUME NEW a \in Nat, NEW b \in Nat, a < b, b < a + M PROVE a % M # b % M
  <2> HIDE DEF M
  <2> QED BY <1>0, <1>4, ModUnique
<1>5. ASSUME NEW n \in Nat PROVE n % M \in 0 .. M - 1
  <2> HIDE DEF M
  <2> QED BY <1>0, DivRange
<1>6. ASSUME NEW n \in minMsgNum .. maxMsgNum - 1 PROVE buffer'[n % M] = buffer[n % M]
  <2>1. n \in Nat BY <1>2
  <2>2. ASSUME NEW j \in 0 .. batch[p] - 1 PROVE n % M # Index(j)
    <3>1. maxMsgNum + j \in Nat /\ n < maxMsgNum + j /\ maxMsgNum + j < n + M
      <4> HIDE DEF M
      <4> QED BY <1>0, <1>2, <1>3, <2>1
    <3> QED BY <2>1, <3>1, <1>4, Zenon
  <2>3. ~Hit(n % M) BY <2>2, Zenon
  <2>4. n % M \in DOMAIN buffer BY <2>1, <1>2, <1>5
  <2> HIDE DEF Hit, Which, Index, M
  <2> QED BY <1>1, <2>3, <2>4
<1>7. ASSUME NEW j \in 0 .. batch[p] - 1 PROVE buffer'[(maxMsgNum + j) % M] = total + j
  <2>1. maxMsgNum + j \in Nat BY <1>2
  <2>2. Hit(Index(j)) BY Zenon
  <2>3. Which(Index(j)) \in 0 .. batch[p] - 1 /\ Index(j) = Index(Which(Index(j))) BY <2>2, Zenon
  <2>4. PICK k \in 0 .. batch[p] - 1 : k = Which(Index(j)) /\ Index(j) = Index(k) BY <2>3, Zenon
  <2>5. k = j
    <3>1. maxMsgNum + k \in Nat BY <1>2
    <3>2. maxMsgNum + k < maxMsgNum + j + M /\ maxMsgNum + j < maxMsgNum + k + M
      <4> HIDE DEF M
      <4> QED BY <1>0, <1>2, <1>3
    <3>3. ~(maxMsgNum + k < maxMsgNum + j) BY <2>1, <2>4, <3>1, <3>2, <1>4, Zenon
    <3>4. ~(maxMsgNum + j < maxMsgNum + k) BY <2>1, <2>4, <3>1, <3>2, <1>4, Zenon
    <3> QED BY <3>3, <3>4, <1>2
  <2>6. Index(j) \in DOMAIN buffer BY <2>1, <1>2, <1>5
  <2> HIDE DEF Hit, Which, M
  <2>7. buffer'[Index(j)] = total + Which(Index(j)) BY <1>1, <2>2, <2>6, Zenon
  <2> QED BY <2>4, <2>5, <2>7, Zenon
<1>8. \A n : Place(n)' = Place(n) BY <1>1 DEF Place
<1>9. \A q \in Procs : pc'[q] = "publish" => q = p
  <2>1. \A q \in Procs \ {p} : pc[q] # "publish" BY <1>1, OneWriter
  <2> QED BY <2>1, <1>1, <1>2
<1>10. \A q \in Procs : pc'[q] = "flag" <=> pc[q] = "flag" BY <1>1, <1>2
<1>11. \A n \in minMsgNum .. maxMsgNum - 1 : buffer'[n % M] = Place(n)' BY <1>2, <1>6, <1>8, Zenon
<1> HIDE DEF Hit, Which, Index, M
<1> QED BY <1>1, <1>2, <1>3, <1>7, <1>9, <1>10, <1>11, Zenon DEF RingInv, M

\* They become part of the ring, at the places they were given.
LEMMA PublishRing == ASSUME SIInv, NEW p \in Procs, InsertPublish(p) PROVE RingInv'
<1> DEFINE M == MAXNUMMESSAGES
<1>0. SITypeOK /\ RingInv BY DEF SIInv
<1>1. /\ maxMsgNum' = maxMsgNum + batch[p] /\ total' = total + batch[p] /\ UNCHANGED <<minMsgNum, complete, buffer>>
      /\ pc[p] = "publish" /\ pc' = [pc EXCEPT ![p] = "flag"]
  BY Zenon DEF InsertPublish, Goto
<1>2. PICK b \in Nat : b = batch[p] BY <1>0 DEF SITypeOK
<1>3. /\ minMsgNum \in Nat /\ maxMsgNum \in Nat /\ total \in Nat /\ complete \in Nat
      /\ minMsgNum <= maxMsgNum /\ maxMsgNum <= total /\ complete <= total
      /\ \A n \in minMsgNum .. maxMsgNum - 1 : buffer[n % M] = Place(n)
      /\ maxMsgNum - minMsgNum + b <= M /\ \A j \in 0 .. b - 1 : buffer[(maxMsgNum + j) % M] = total + j
      /\ pc \in [Procs -> PCs]
  BY <1>0, <1>1, <1>2, Zenon DEF SITypeOK, RingInv
<1>4. maxMsgNum' = maxMsgNum + b /\ total' = total + b BY <1>1, <1>2
<1>5. pc'[p] = "flag" /\ \A q \in Procs : pc'[q] # "publish"
  <2>1. \A q \in Procs \ {p} : pc[q] # "publish" BY <1>1, OneWriter
  <2> QED BY <2>1, <1>1, <1>3
<1>6. \A n \in Int : Place(n)' = Place(n) BY <1>3, <1>4, SMTT(60) DEF Place
<1>7. ASSUME NEW n \in minMsgNum .. maxMsgNum + b - 1 PROVE buffer[n % M] = Place(n)
  <2> HIDE DEF M
  <2>1. CASE n <= maxMsgNum - 1
    <3>1. n \in minMsgNum .. maxMsgNum - 1 BY <2>1, <1>3
    <3> QED BY <3>1, <1>3
  <2>2. CASE ~(n <= maxMsgNum - 1)
    <3>1. PICK j \in 0 .. b - 1 : n = maxMsgNum + j
      <4>1. n - maxMsgNum \in 0 .. b - 1 /\ n = maxMsgNum + (n - maxMsgNum) BY <2>2, <1>3
      <4> QED BY <4>1
    <3>2. buffer[n % M] = total + j BY <3>1, <1>3
    <3>3. Place(n) = total + j BY <3>1, <1>3, SMTT(60) DEF Place
    <3> QED BY <3>2, <3>3
  <2> QED BY <2>1, <2>2
<1>8. \A n \in minMsgNum' .. maxMsgNum' - 1 : buffer'[n % M] = Place(n)'
  <2> HIDE DEF M
  <2>1. ASSUME NEW n \in minMsgNum .. maxMsgNum + b - 1 PROVE buffer'[n % M] = Place(n)'
    <3>1. n \in Int OBVIOUS
    <3>2. Place(n)' = Place(n) BY <3>1, <1>6
    <3>3. buffer[n % M] = Place(n) BY <1>7
    <3> QED BY <1>1, <3>2, <3>3, Zenon
  <2>2. minMsgNum' = minMsgNum BY <1>1
  <2>3. maxMsgNum' - 1 = maxMsgNum + b - 1 BY <1>4, <1>3
  <2> QED BY <2>1, <2>2, <2>3, Zenon
<1>9. /\ minMsgNum' <= maxMsgNum' /\ maxMsgNum' - minMsgNum' <= M
      /\ maxMsgNum' <= total' /\ complete' <= total'
  <2>1. M \in Nat BY Constants
  <2> HIDE DEF M
  <2>2. minMsgNum' = minMsgNum /\ complete' = complete BY <1>1
  <2> QED BY <2>1, <2>2, <1>3, <1>4
<1> QED BY <1>5, <1>8, <1>9, Zenon DEF RingInv

\* The insertion is over.
LEMMA FlagRing == ASSUME SIInv, NEW p \in Procs, InsertFlag(p) PROVE RingInv'
<1>0. SITypeOK /\ RingInv BY DEF SIInv
<1>1. /\ UNCHANGED <<minMsgNum, maxMsgNum, total, buffer>> /\ complete' = total
      /\ pc[p] = "flag" /\ pc' = [pc EXCEPT ![p] = IF left[p] > 0 THEN "insert" ELSE "out"]
  BY Zenon DEF InsertFlag, Goto, seg
<1>2. \A q \in Procs : pc'[q] # "publish"
  <2>1. \A q \in Procs \ {p} : pc[q] # "publish" BY <1>1, OneWriter
  <2> QED BY <2>1, <1>1, <1>0 DEF SITypeOK
<1>3. \A n : Place(n)' = Place(n) BY <1>1 DEF Place
<1>4. total <= total BY <1>0 DEF SITypeOK
<1> QED BY <1>0, <1>1, <1>2, <1>3, <1>4, Zenon DEF RingInv

\* A cleanup drops messages from the front; the others keep their places.
LEMMA CleanRing == ASSUME SIInv, NEW p \in Procs, SICleanupQueue(p) PROVE RingInv'
<1> DEFINE M == MAXNUMMESSAGES
<1>0. SITypeOK /\ RingInv /\ M \in Nat \ {0} BY Constants DEF SIInv
<1>1. PICK w : Cleaned(p, w) BY CleanEffect
<1>2. /\ w \in Nat /\ w % M = 0 /\ minMsgNum' \in Nat /\ minMsgNum <= minMsgNum' + w /\ minMsgNum' + w <= maxMsgNum
      /\ maxMsgNum' = maxMsgNum - w
  BY <1>1, Zenon DEF Cleaned
<1>3. UNCHANGED <<buffer, total, complete>> BY Zenon DEF SICleanupQueue, history
<1>4. /\ minMsgNum \in Nat /\ maxMsgNum \in Nat /\ total \in Nat /\ complete \in Nat
      /\ maxMsgNum - minMsgNum <= M /\ maxMsgNum <= total
      /\ \A n \in minMsgNum .. maxMsgNum - 1 : buffer[n % M] = Place(n)
  BY <1>0 DEF SITypeOK, RingInv
<1>5. /\ pc[p] \in {"room", "cleanup"} /\ \A q \in Procs \ {p} : pc'[q] = pc[q] BY CleanControl
<1>6. pc'[p] # "publish" /\ pc'[p] # "flag"
  <2>1. \/ pc'[p] = "signal" \/ pc'[p] = "room" \/ (frames[p] # <<>> /\ ReceiveReturn(p)) BY CleanControl
  <2>2. CASE frames[p] # <<>> /\ ReceiveReturn(p) BY <2>2, <1>0, ReturnEffect
  <2> QED BY <2>1, <2>2
<1>7. complete = total /\ \A q \in Procs : pc'[q] # "publish" BY <1>5, <1>6, OneWriter
<1> HIDE DEF M
<1>11. /\ w \in Nat /\ minMsgNum' \in Nat /\ minMsgNum <= minMsgNum' + w /\ minMsgNum' + w <= maxMsgNum
       /\ maxMsgNum' = maxMsgNum - w /\ minMsgNum \in Nat /\ maxMsgNum \in Nat /\ total \in Nat
       /\ maxMsgNum - minMsgNum <= M /\ maxMsgNum <= total /\ M \in Nat
  BY <1>0, <1>2, <1>4, Zenon
<1>12. PICK u \in Nat, a \in Nat : u = w /\ a = minMsgNum' BY <1>11, Zenon
<1>13. minMsgNum <= a + u /\ a + u <= maxMsgNum /\ maxMsgNum' = maxMsgNum - u BY <1>11, <1>12, Zenon
<1>14. minMsgNum \in Nat /\ maxMsgNum \in Nat /\ total \in Nat /\ M \in Nat /\ maxMsgNum - minMsgNum <= M /\ maxMsgNum <= total
  BY <1>11, Zenon
<1>15. a <= maxMsgNum - u /\ maxMsgNum - u - a <= M /\ maxMsgNum - u <= total BY <1>13, <1>14
<1>8. ASSUME NEW n \in minMsgNum' .. maxMsgNum' - 1 PROVE buffer'[n % M] = Place(n)'
  <2>0. n \in a .. maxMsgNum - u - 1 BY <1>12, <1>13, Zenon
  <2>4. n \in Nat /\ n + u \in minMsgNum .. maxMsgNum - 1 BY <2>0, <1>13, <1>14
  <2>1. n \in Nat /\ n + w \in minMsgNum .. maxMsgNum - 1 BY <2>4, <1>12, Zenon
  <2>2. buffer[(n + w) % M] = Place(n + w) BY <2>1, <1>4
  <2>3. (n + w) % M = n % M BY <2>1, <1>0, <1>2, ModWrap
  <2>5. Place(n)' = Place(n + w) BY <2>1, <1>2, <1>3, <1>4 DEF Place
  <2> QED BY <2>2, <2>3, <2>5, <1>3
<1>9. minMsgNum' <= maxMsgNum' /\ maxMsgNum' - minMsgNum' <= M /\ maxMsgNum' <= total
  BY <1>12, <1>13, <1>15, Zenon
<1>10. complete <= total BY <1>4, <1>7
<1> QED BY <1>3, <1>7, <1>8, <1>9, <1>10, Zenon DEF RingInv, M
----------------------------------------------------------------------------
(* Where everybody stands *)

\* What the slot of a living process, and its numbers, are.
LEMMA Standing ==
    ASSUME SIInv, NEW q \in Procs, Living(q)
    PROVE  /\ slot[q] \in 1 .. lastBackend /\ slot[q] \in Slots /\ procPid[slot[q]] = q /\ q # NULL
           /\ nextMsgNum[slot[q]] \in Int /\ resetState[slot[q]] \in BOOLEAN /\ hasMessages[slot[q]] \in BOOLEAN
           /\ seen[q] \in Nat /\ Len(messages[q]) \in Nat /\ max[q] \in Nat
<1>1. slot[q] \in 1 .. lastBackend /\ procPid[slot[q]] = q BY DEF SIInv, SlotInv
<1>2. slot[q] \in 0 .. maxBackends /\ lastBackend \in 0 .. maxBackends BY DEF SIInv, SITypeOK
<1>3. slot[q] \in Slots BY <1>1, <1>2 DEF Slots
<1>4. /\ nextMsgNum \in [Slots -> Int] /\ resetState \in [Slots -> BOOLEAN] /\ hasMessages \in [Slots -> BOOLEAN]
      /\ seen \in [Procs -> Nat] /\ messages \in [Procs -> Seq(Nat)] /\ max \in [Procs -> Nat]
  BY DEF SIInv, SITypeOK
<1>5. Len(messages[q]) \in Nat BY <1>4, SMTT(60)
<1> QED BY <1>1, <1>3, <1>4, <1>5, Constants

\* The counters, when no cleanup is under way.
LEMMA CounterFacts ==
    ASSUME SIInv
    PROVE  /\ minMsgNum \in Nat /\ maxMsgNum \in Nat /\ total \in Nat /\ complete \in Nat
           /\ minMsgNum <= maxMsgNum /\ complete <= total
BY DEF SIInv, SITypeOK, RingInv

\* Publishing messages moves nobody.
LEMMA PublishPlaces ==
    ASSUME SIInv, NEW p \in Procs, InsertPublish(p), NEW q \in Procs
    PROVE  Position(q)' /\ (q # p => ReadInv(q)')
<1>1. /\ UNCHANGED <<minMsgNum, complete, slot, seen, messages, max, frames, readShared>>
      /\ UNCHANGED <<nextMsgNum, resetState, hasMessages>>
      /\ maxMsgNum' = maxMsgNum + batch[p] /\ total' = total + batch[p]
      /\ pc[p] = "publish" /\ pc' = [pc EXCEPT ![p] = "flag"]
  BY Zenon DEF InsertPublish, Goto, locks, procstate, receivevars
<1>2. PICK b \in Nat : b = batch[p] BY DEF SIInv, SITypeOK
<1>3. maxMsgNum' = maxMsgNum + b /\ total' = total + b BY <1>1, <1>2
<1>4. pc \in [Procs -> PCs] BY DEF SIInv, SITypeOK
<1>5. Living(q)' <=> Living(q) BY <1>1, <1>4 DEF Living
<1>6. CASE Living(q)
  <2>1. PICK s : s = slot[q] OBVIOUS
  <2>2. PICK x \in Int, e \in Nat, k \in Nat, m \in Nat :
            x = nextMsgNum[s] /\ e = seen[q] /\ k = Len(messages[q]) /\ m = max[q]
    BY <1>6, <2>1, Standing
  <2>3. Place(nextMsgNum[s])' = Place(x) BY <1>1, <1>3, <2>2, CounterFacts DEF Place
  <2>4. Place(max[q])' = Place(m) BY <1>1, <1>3, <2>2, CounterFacts DEF Place
  <2>5. Position(q)'
    <3>1. SUFFICES ASSUME Receiver(q)' PROVE Position(q)' BY Zenon DEF Position
    <3>2. Receiver(q) BY <1>6, <3>1 DEF Receiver
    <3>3. /\ ~resetState[s] => minMsgNum <= x /\ x <= maxMsgNum /\ seen[q] + Len(messages[q]) = Place(x)
          /\ resetState[s] => e + k < total
          /\ resetState[s] \/ Place(x) < complete => hasMessages[s] \/ q \in readShared
      BY <2>1, <2>2, <3>2 DEF SIInv, Position
    <3>4. x <= maxMsgNum => x <= maxMsgNum' BY <1>3, CounterFacts
    <3>5. e + k < total => e + k < total' BY <1>3, CounterFacts
    <3> QED BY <1>1, <2>1, <2>2, <2>3, <3>3, <3>4, <3>5, Zenon DEF Position
  <2>6. ASSUME q # p PROVE ReadInv(q)'
    <3>1. SUFFICES ASSUME pc'[q] = "read" PROVE ReadInv(q)' BY Zenon DEF ReadInv
    <3>2. pc[q] = "read" BY <1>1, <1>4, <2>6, <3>1
    <3>3. /\ m \in minMsgNum .. maxMsgNum
          /\ ~resetState[s] => nextMsgNum[s] <= m
          /\ resetState[s] => seen[q] < Place(m)
          /\ Place(m) >= complete \/ hasMessages[s]
          /\ Place(m) >= Top(q).due
      BY <2>1, <2>2, <3>2, Zenon DEF SIInv, ReadInv
    <3>4. m \in minMsgNum .. maxMsgNum' BY <3>3, <1>3, CounterFacts
    <3>5. Top(q)' = Top(q) BY <1>1 DEF Top
    <3> QED BY <1>1, <2>1, <2>2, <2>4, <3>3, <3>4, <3>5, Zenon DEF ReadInv
  <2> QED BY <2>5, <2>6
<1>7. CASE ~Living(q)
  <2>1. ~Receiver(q)' /\ pc'[q] # "read" BY <1>5, <1>7 DEF Receiver, Living
  <2> QED BY <2>1, Zenon DEF Position, ReadInv
<1> QED BY <1>6, <1>7

\* After an insertion every flag is set.
LEMMA FlagPlaces ==
    ASSUME SIInv, NEW p \in Procs, InsertFlag(p), NEW q \in Procs
    PROVE  Position(q)' /\ (q # p => ReadInv(q)')
<1>1. /\ UNCHANGED <<minMsgNum, maxMsgNum, total, slot, seen, messages, max, frames, readShared>>
      /\ UNCHANGED <<nextMsgNum, resetState>>
      /\ hasMessages' = [s \in Slots |-> s <= lastBackend \/ hasMessages[s]]
      /\ pc[p] = "flag" /\ pc' = [pc EXCEPT ![p] = IF left[p] > 0 THEN "insert" ELSE "out"]
  BY Zenon DEF InsertFlag, Goto, seg, receivevars
<1>2. pc \in [Procs -> PCs] BY DEF SIInv, SITypeOK
<1>3. Living(q)' <=> Living(q) BY <1>1, <1>2 DEF Living
<1>4. CASE Living(q)
  <2>1. PICK s : s = slot[q] OBVIOUS
  <2>2. hasMessages'[s] = TRUE
    <3>1. s \in Slots /\ s \in 1 .. lastBackend BY <1>4, <2>1, Standing
    <3>2. s <= lastBackend BY <3>1
    <3> QED BY <1>1, <3>1, <3>2
  <2>3. \A n : Place(n)' = Place(n) BY <1>1 DEF Place
  <2>4. Place(nextMsgNum[s])' = Place(nextMsgNum[s]) /\ Place(max[q])' = Place(max[q]) BY <1>1 DEF Place
  <2>5. Position(q)'
    <3>1. SUFFICES ASSUME Receiver(q)' PROVE Position(q)' BY Zenon DEF Position
    <3>2. Receiver(q) BY <1>4, <3>1 DEF Receiver
    <3>3. Position(q) BY DEF SIInv
    <3> QED BY <1>1, <2>1, <2>2, <2>4, <3>2, <3>3, Zenon DEF Position
  <2>6. ASSUME q # p PROVE ReadInv(q)'
    <3>1. pc'[q] = pc[q] BY <1>1, <1>2, <2>6
    <3>2. ReadInv(q) BY DEF SIInv
    <3>3. Top(q)' = Top(q) BY <1>1 DEF Top
    <3> QED BY <1>1, <2>1, <2>2, <2>4, <3>1, <3>2, <3>3, Zenon DEF ReadInv
  <2> QED BY <2>5, <2>6
<1>5. CASE ~Living(q)
  <2>1. ~Receiver(q)' /\ pc'[q] # "read" BY <1>3, <1>5 DEF Receiver, Living
  <2> QED BY <2>1, Zenon DEF Position, ReadInv
<1> QED BY <1>4, <1>5

\* A cleanup keeps everybody in place, however the messages are numbered, except those it
\* forces into reset state.
LEMMA CleanPlaces ==
    ASSUME SIInv, NEW p \in Procs, SICleanupQueue(p), NEW q \in Procs
    PROVE  Position(q)' /\ (q # p => ReadInv(q)')
<1>1. UNCHANGED <<total, complete, slot, seen, messages, hasMessages, readShared>>
  BY Zenon DEF SICleanupQueue, history
<1>2. /\ readShared = {} /\ (q # p => pc'[q] = pc[q]) /\ pc[p] \in {"room", "cleanup"} BY CleanControl
<1>3. pc[q] # "read" BY <1>2 DEF SIInv, Shape
<1>4. q # p => ReadInv(q)' BY <1>2, <1>3 DEF ReadInv
<1>5. complete = total BY <1>2, OneWriter
<1>6. Living(q)' => Living(q) BY <1>2 DEF Living
<1>7. Position(q)'
  <2>1. SUFFICES ASSUME Receiver(q)' PROVE Position(q)' BY Zenon DEF Position
  <2>2. Receiver(q) /\ Living(q) /\ q \notin SendOnly BY <1>6, <2>1 DEF Receiver
  <2>3. PICK s : s = slot[q] OBVIOUS
  <2>4. s \in 1 .. lastBackend /\ procPid[s] = q /\ q # NULL BY <2>2, <2>3, Standing
  <2>5. PICK x \in Int, e \in Nat, k \in Nat : x = nextMsgNum[s] /\ e = seen[q] /\ k = Len(messages[q])
    BY <2>2, <2>3, Standing
  <2>6. Active(s) /\ ~sendOnly(s) BY <2>2, <2>4 DEF Active, sendOnly
  <2>7. PICK v : Cleaned(p, v) BY CleanEffect
  <2>8. PICK w \in Nat, a \in Nat : w = v /\ a = minMsgNum' BY <2>7, Zenon DEF Cleaned
  <2>9. /\ maxMsgNum' = maxMsgNum - w /\ nextMsgNum'[s] = x - w
        /\ resetState[s] => resetState'[s]
        /\ ~resetState'[s] => a <= x - w
        /\ resetState'[s] /\ ~resetState[s] => x < maxMsgNum
    BY <2>4, <2>5, <2>6, <2>7, <2>8, Zenon DEF Cleaned
  <2>10. /\ ~resetState[s] => minMsgNum <= x /\ x <= maxMsgNum /\ e + k = Place(x)
         /\ resetState[s] => e + k < total
         /\ resetState[s] \/ Place(x) < complete => hasMessages[s]
    BY <1>2, <2>2, <2>3, <2>5, Zenon DEF SIInv, Position
  <2>11. Place(nextMsgNum[s])' = x - w + total - (maxMsgNum - w) BY <1>1, <2>3, <2>9 DEF Place
  <2>12. x - w + total - (maxMsgNum - w) = Place(x) BY CounterFacts DEF Place
  <2>13. x < maxMsgNum => Place(x) < total BY CounterFacts DEF Place
  <2>14. x <= maxMsgNum => x - w <= maxMsgNum - w BY CounterFacts
  <2>15. ~resetState'[s] => minMsgNum' <= nextMsgNum'[s] /\ nextMsgNum'[s] <= maxMsgNum' /\ e + k = Place(x)
    BY <2>8, <2>9, <2>10, <2>14, Zenon
  <2>16. resetState'[s] => e + k < total BY <2>9, <2>10, <2>13, Zenon
  <2>17. resetState'[s] \/ Place(x) < complete => hasMessages[s] BY <1>5, <2>9, <2>10, <2>13, Zenon
  <2> QED BY <1>1, <2>3, <2>5, <2>11, <2>12, <2>15, <2>16, <2>17, Zenon DEF Position
<1> QED BY <1>4, <1>7
----------------------------------------------------------------------------
(* The steps that change what is shared preserve the invariant *)

\* What has to be shown of such a step.
LEMMA SharedInv ==
    ASSUME SIInv, NEW p \in Procs, SharedStep(p), SITypeOK', SlotInv', RingInv', Own(p)',
           \A q \in Procs : Position(q)' /\ (q # p => ReadInv(q)'), complete <= complete'
    PROVE  SIInv'
<1>1. Others(p) /\ \A q \in Procs \ {p} : Locks(q) BY SharedOthers
<1>2. complete' \in Nat BY DEF SITypeOK
<1>3. ASSUME NEW q \in Procs \ {p} PROVE Own(q)'
  <2>1. Same(q) /\ Locks(q) BY <1>1, Zenon DEF Others
  <2>2. Shape(q)' /\ Fetched(q)' /\ Calling(q)' BY <1>2, <2>1, OtherKeep
  <2> QED BY <2>2 DEF Own
<1> QED BY <1>3, Zenon DEF SIInv, Own

\* A process that keeps its slot and lives on, like all others.
LEMMA SlotStep ==
    ASSUME SIInv, NEW p \in Procs, Others(p), UNCHANGED <<slot, procPid, lastBackend>>, Living(p), Living(p)'
    PROVE  SlotInv'
<1>1. \A q \in Procs : Living(q)' <=> Living(q) BY Zenon DEF Others, Same, Living
<1>2. SlotInv /\ procPid \in [Slots -> Procs \cup {NULL}] BY DEF SIInv, SITypeOK
<1> QED BY <1>1, <1>2, SlotKeep

\* Storing, publishing and announcing messages.
LEMMA InsertInv ==
    ASSUME SIInv, NEW p \in Procs, InsertWrite(p) \/ InsertPublish(p) \/ InsertFlag(p)
    PROVE  SIInv'
<1>1. SharedStep(p) BY DEF SharedStep
<1>2. Others(p) BY <1>1, SharedOthers
<1>3. SITypeOK' /\ Own(p)' BY InsertTypes, InsertOwn
<1>4. UNCHANGED <<slot, procPid, lastBackend>> BY Zenon DEF InsertWrite, InsertPublish, InsertFlag, seg, procstate
<1>5. Living(p) /\ Living(p)'
  <2>1. pc \in [Procs -> PCs] BY DEF SIInv, SITypeOK
  <2> QED BY <2>1 DEF InsertWrite, InsertPublish, InsertFlag, Goto, Living
<1>6. SlotInv' BY <1>2, <1>4, <1>5, SlotStep
<1>7. RingInv' BY WriteRing, PublishRing, FlagRing
<1>8. complete <= complete'
  <2>1. complete' = complete \/ complete' = total BY Zenon DEF InsertWrite, InsertPublish, InsertFlag, history
  <2> QED BY <2>1, CounterFacts
<1>9. ASSUME NEW q \in Procs PROVE Position(q)' /\ (q # p => ReadInv(q)')
  <2>1. CASE InsertWrite(p)
    <3>1. Counters /\ UNCHANGED <<procstate, slot, seen, messages, readShared>>
      BY <2>1, Zenon DEF InsertWrite, seg, history, Counters, receivevars, locks
    <3>2. At(q) BY <3>1, Zenon DEF At, procstate
    <3>3. Living(q)' => Living(q) BY <1>2, <1>5, Zenon DEF Others, Same, Living
    <3>4. Position(q) /\ ReadInv(q) BY DEF SIInv
    <3>5. Position(q)' BY <3>1, <3>2, <3>3, <3>4, PositionKeep
    <3>6. q # p => Same(q) BY <1>2, Zenon DEF Others
    <3> QED BY <3>1, <3>2, <3>4, <3>5, <3>6, ReadKeep
  <2>2. CASE InsertPublish(p) BY <2>2, PublishPlaces
  <2>3. CASE InsertFlag(p) BY <2>3, FlagPlaces
  <2> QED BY <2>1, <2>2, <2>3
<1> QED BY <1>1, <1>3, <1>6, <1>7, <1>8, <1>9, SharedInv

\* The process that cleans up.
LEMMA CleanOwn == ASSUME SIInv, NEW p \in Procs, SICleanupQueue(p) PROVE Own(p)'
<1>0. Shape(p) /\ Fetched(p) /\ Calling(p) /\ SITypeOK BY DEF SIInv
<1>1. UNCHANGED <<complete, seen, resets, messages, batch, left, readShared>>
  BY Zenon DEF SICleanupQueue, history, insertvars
<1>2. /\ writeLock = p /\ readShared = {} /\ pc[p] \in {"room", "cleanup"} /\ (pc[p] = "room" <=> frames[p] = <<>>)
      /\ \/ pc'[p] = "signal" /\ frames'[p] = frames[p]
         \/ pc'[p] = "room" /\ frames[p] = <<>> /\ frames'[p] = <<>> /\ writeLock' = p
         \/ frames[p] # <<>> /\ ReceiveReturn(p)
  BY CleanControl
<1>3. /\ messages'[p] = messages[p] /\ seen'[p] = seen[p] /\ (frames[p] # <<>> => messages'[p] = <<>>)
      /\ p \notin readShared' /\ batch'[p] <= WRITE_QUANTUM
      /\ (p \in SendOnly => frames[p] = <<>> /\ resets'[p] = 0) /\ (pc[p] = "room" => batch'[p] > 0)
  BY <1>0, <1>1, <1>2 DEF Shape
<1>4. CASE pc'[p] = "signal" /\ frames'[p] = frames[p]
  <2>1. Shape(p)' BY <1>2, <1>3, <1>4, Zenon DEF Shape
  <2>2. Fetched(p)' BY <1>0, <1>1, Zenon DEF Fetched
  <2>3. ReadInv(p)' BY <1>4 DEF ReadInv
  <2>4. Top(p)' = Top(p) BY <1>4 DEF Top
  <2>5. frames[p] # <<>> => pc[p] = "cleanup" BY <1>2
  <2>6. frames'[p] # <<>> => seen'[p] >= Top(p)'.due BY <1>0, <1>1, <1>4, <2>4, <2>5, Zenon DEF Calling
  <2>7. Calling(p)' BY <1>0, <1>1, <1>4, <2>6, Zenon DEF Calling
  <2> QED BY <2>1, <2>2, <2>3, <2>7 DEF Own
<1>5. CASE pc'[p] = "room" /\ frames[p] = <<>> /\ frames'[p] = <<>> /\ writeLock' = p
  <2>1. Shape(p)' BY <1>2, <1>3, <1>5, Zenon DEF Shape
  <2> QED BY <1>3, <1>5, <2>1, IdleOwn DEF Own
<1>6. CASE frames[p] # <<>> /\ ReceiveReturn(p)
  <2>1. pc[p] = "cleanup" BY <1>2, <1>6
  <2>2. seen[p] >= Top(p).due BY <1>0, <2>1 DEF Calling
  <2>3. seen'[p] = seen[p] /\ complete' = complete BY <1>1
  <2>4. /\ Fetched(p)' /\ ReadInv(p)' /\ Calling(p)' /\ pc'[p] \in {"out", "work"}
        /\ (pc'[p] = "out" <=> frames'[p] = <<>>)
    BY <1>3, <1>6, <2>2, <2>3, ReturnOwn
  <2>5. p \notin SendOnly BY <1>3, <1>6
  <2>6. CASE pc'[p] = "out"
    <3>1. frames'[p] = <<>> BY <2>4, <2>6
    <3>2. Shape(p)' BY <1>3, <2>5, <2>6, <3>1, Zenon DEF Shape
    <3> QED BY <2>4, <3>2 DEF Own
  <2>7. CASE pc'[p] = "work"
    <3>1. frames'[p] # <<>> BY <2>4, <2>7
    <3>2. Shape(p)' BY <1>3, <2>5, <2>7, <3>1, Zenon DEF Shape
    <3> QED BY <2>4, <3>2 DEF Own
  <2> QED BY <2>4, <2>6, <2>7
<1> QED BY <1>2, <1>4, <1>5, <1>6

\* The cleanup.
LEMMA CleanInv == ASSUME SIInv, NEW p \in Procs, SICleanupQueue(p) PROVE SIInv'
<1>1. SharedStep(p) BY DEF SharedStep
<1>2. Others(p) BY <1>1, SharedOthers
<1>3. SITypeOK' /\ Own(p)' /\ RingInv' BY QueueTypes, CleanOwn, CleanRing
<1>4. UNCHANGED <<slot, procPid, lastBackend, complete>> BY Zenon DEF SICleanupQueue, history
<1>5. Living(p) /\ Living(p)'
  <2>1. Living(p) BY CleanControl DEF Living
  <2>2. SITypeOK /\ (pc'[p] = "signal" \/ pc'[p] = "room" \/ (frames[p] # <<>> /\ ReceiveReturn(p)))
    BY CleanControl DEF SIInv
  <2>3. frames[p] # <<>> /\ ReceiveReturn(p) => pc'[p] \in {"out", "work"} BY <2>2, ReturnEffect
  <2> QED BY <2>1, <2>2, <2>3 DEF Living
<1>6. SlotInv' BY <1>2, <1>4, <1>5, SlotStep
<1>7. complete <= complete' BY <1>4, CounterFacts
<1>8. \A q \in Procs : Position(q)' /\ (q # p => ReadInv(q)') BY CleanPlaces
<1> QED BY <1>1, <1>3, <1>6, <1>7, <1>8, SharedInv

\* A slot that is free, or belongs to p, is nobody else's.
LEMMA OthersAt ==
    ASSUME SIInv, NEW p \in Procs, NEW s \in Slots, procPid[s] \in {p, NULL},
           NEW q \in Procs, q # p, Living(q)
    PROVE  slot[q] # s /\ slot[q] \in Slots
BY Standing, SMTT(60)

\* The others stay where they are when a step changes one such slot and no counter.
LEMMA OneSlot ==
    ASSUME SIInv, NEW p \in Procs, Others(p), \A q \in Procs \ {p} : Locks(q), Counters,
           NEW s \in Slots, procPid[s] \in {p, NULL},
           \A t \in Slots \ {s} : /\ nextMsgNum'[t] = nextMsgNum[t] /\ resetState'[t] = resetState[t]
                                  /\ hasMessages'[t] = hasMessages[t],
           NEW q \in Procs, q # p
    PROVE  Position(q)' /\ ReadInv(q)'
<1>1. Same(q) /\ Locks(q) BY DEF Others
<1>2. Living(q) => At(q)
  <2>1. Living(q) => slot[q] \in Slots \ {s} BY OthersAt
  <2> QED BY <2>1, Zenon DEF At
<1>3. Position(q) /\ ReadInv(q) BY DEF SIInv
<1>4. ReadInv(q)' BY <1>1, <1>2, <1>3, ReadKeep
<1>5. /\ slot'[q] = slot[q] /\ seen'[q] + Len(messages'[q]) = seen[q] + Len(messages[q])
      /\ (q \in readShared => q \in readShared') /\ (Living(q)' => Living(q))
  BY <1>1, Zenon DEF Same, Locks, Living
<1>6. Position(q)' BY <1>2, <1>3, <1>5, PositionKeep
<1> QED BY <1>4, <1>6

\* The ring, when a process comes, goes or reads.
LEMMA RingStep ==
    ASSUME SIInv, NEW p \in Procs, Others(p), Counters, buffer' = buffer,
           pc[p] \notin {"flag", "publish"}, pc'[p] \notin {"flag", "publish"}
    PROVE  RingInv'
<1>1. \A q \in Procs : /\ pc'[q] = "flag" <=> pc[q] = "flag"
                       /\ pc'[q] = "publish" => pc[q] = "publish" /\ batch'[q] = batch[q]
  BY Zenon DEF Others, Same
<1> QED BY <1>1, RingKeep DEF SIInv

\* A backend begins.
LEMMA InitInv == ASSUME SIInv, NEW p \in Procs, SharedInvalBackendInit(p) PROVE SIInv'
<1>0. SharedStep(p) BY DEF SharedStep
<1>1. Others(p) /\ \A q \in Procs \ {p} : Locks(q) BY <1>0, SharedOthers
<1>2. PICK s \in Slots :
          /\ procPid[s] = NULL /\ lastBackend' \in 0 .. maxBackends
          /\ lastBackend <= lastBackend' /\ s <= lastBackend'
          /\ slot' = [slot EXCEPT ![p] = s] /\ procPid' = [procPid EXCEPT ![s] = p]
          /\ nextMsgNum' = [nextMsgNum EXCEPT ![s] = maxMsgNum]
          /\ resetState' = [resetState EXCEPT ![s] = FALSE]
          /\ hasMessages' = [hasMessages EXCEPT ![s] = FALSE]
  BY InitEffect, Zenon
<1>3. /\ Counters /\ UNCHANGED <<buffer, readShared, batch, frames, messages, resets>>
      /\ pc[p] = "unborn" /\ pc' = [pc EXCEPT ![p] = "out"] /\ seen' = [seen EXCEPT ![p] = total]
  BY Zenon DEF SharedInvalBackendInit, Goto, Counters, locks, insertvars, receivevars
<1>4. /\ pc \in [Procs -> PCs] /\ seen \in [Procs -> Nat] /\ slot \in [Procs -> 0 .. maxBackends]
      /\ procPid \in [Slots -> Procs \cup {NULL}] /\ lastBackend \in 0 .. maxBackends
      /\ nextMsgNum \in [Slots -> Int] /\ resetState \in [Slots -> BOOLEAN] /\ hasMessages \in [Slots -> BOOLEAN]
  BY DEF SIInv, SITypeOK
<1>5. /\ pc'[p] = "out" /\ seen'[p] = total /\ slot'[p] = s /\ procPid'[s] = p
      /\ nextMsgNum'[s] = maxMsgNum /\ resetState'[s] = FALSE
  BY <1>2, <1>3, <1>4
<1>6. \A t \in Slots \ {s} : /\ nextMsgNum'[t] = nextMsgNum[t] /\ resetState'[t] = resetState[t]
                             /\ hasMessages'[t] = hasMessages[t] /\ procPid'[t] = procPid[t]
  BY <1>2, <1>4
<1>7. ~Living(p) /\ Living(p)' BY <1>3, <1>5 DEF Living
<1>8. Own(p)'
  <2>1. Shape(p) BY DEF SIInv
  <2>2. frames'[p] = <<>> /\ messages'[p] = <<>> /\ batch'[p] <= WRITE_QUANTUM /\ p \notin readShared'
        /\ (p \in SendOnly => resets'[p] = 0)
    BY <1>3, <2>1 DEF Shape
  <2>3. Shape(p)' BY <1>5, <2>2, Zenon DEF Shape
  <2> QED BY <1>5, <2>2, <2>3, IdleOwn DEF Own
<1>9. Position(p)'
  <2>1. messages'[p] = <<>> BY <1>3 DEF SIInv, Shape
  <2>2. Len(messages'[p]) = 0 BY <2>1
  <2>3. Place(nextMsgNum[s])' = total BY <1>3, <1>5, CounterFacts DEF Place, Counters
  <2>4. seen'[p] + Len(messages'[p]) = total BY <1>5, <2>2, CounterFacts
  <2>5. ~(total < complete) /\ maxMsgNum <= maxMsgNum /\ minMsgNum <= maxMsgNum BY CounterFacts
  <2>6. minMsgNum' = minMsgNum /\ maxMsgNum' = maxMsgNum /\ total' = total /\ complete' = complete
    BY <1>3 DEF Counters
  <2> QED BY <1>5, <2>3, <2>4, <2>5, <2>6, Zenon DEF Position
<1>10. SlotInv'
  <2>0. SlotInv BY DEF SIInv
  <2>1. s \in 1 .. lastBackend' BY <1>2, <1>4, SMTT(60) DEF Slots
  <2>2. ASSUME NEW q \in Procs, Living(q)' PROVE slot'[q] \in 1 .. lastBackend' /\ procPid'[slot'[q]] = q
    <3>1. CASE q = p BY <3>1, <1>5, <2>1
    <3>2. CASE q # p
      <4>1. Living(q) /\ slot'[q] = slot[q] BY <1>1, <2>2, <3>2, Zenon DEF Others, Same, Living
      <4>2. slot[q] \in Slots \ {s} BY <1>2, <3>2, <4>1, OthersAt
      <4>3. slot[q] \in 1 .. lastBackend /\ procPid[slot[q]] = q BY <4>1, Standing
      <4>4. slot[q] \in 1 .. lastBackend' BY <4>3, <1>2, <1>4, SMTT(60)
      <4> QED BY <1>6, <4>1, <4>2, <4>3, <4>4
    <3> QED BY <3>1, <3>2
  <2>3. ASSUME NEW t \in Slots, Active(t)' PROVE Living(procPid[t])' /\ slot'[procPid'[t]] = t
    <3>1. CASE t = s BY <3>1, <1>5, <1>7 DEF Living
    <3>2. CASE t # s
      <4>1. procPid'[t] = procPid[t] /\ Active(t) BY <1>6, <2>3, <3>2 DEF Active
      <4>2. PICK u \in Procs : u = procPid[t] BY <1>4, <4>1 DEF Active
      <4>3. Living(u) /\ slot[u] = t BY <2>0, <4>1, <4>2 DEF SlotInv
      <4>4. u # p BY <4>3, <1>7
      <4>5. pc'[u] = pc[u] /\ slot'[u] = slot[u] BY <1>1, <4>4, Zenon DEF Others, Same
      <4> QED BY <4>1, <4>2, <4>3, <4>5 DEF Living
    <3> QED BY <3>1, <3>2
  <2> QED BY <2>2, <2>3, Zenon DEF SlotInv, Living
<1>11. SITypeOK' BY LifeTypes
<1>12. RingInv' BY <1>1, <1>3, <1>5, RingStep
<1>13. ASSUME NEW q \in Procs, q # p PROVE Position(q)' /\ ReadInv(q)'
  <2>1. procPid[s] \in {p, NULL} BY <1>2
  <2> QED BY <1>1, <1>3, <1>6, <1>13, <2>1, OneSlot
<1>14. complete <= complete' BY <1>3, CounterFacts DEF Counters
<1> QED BY <1>0, <1>8, <1>9, <1>10, <1>11, <1>12, <1>13, <1>14, SharedInv

\* A backend ends.
LEMMA ExitInv == ASSUME SIInv, NEW p \in Procs, CleanupInvalidationState(p) PROVE SIInv'
<1>0. SharedStep(p) BY DEF SharedStep
<1>1. Others(p) /\ \A q \in Procs \ {p} : Locks(q) BY <1>0, SharedOthers
<1>2. /\ Counters /\ UNCHANGED <<buffer, readShared, batch, frames, hasMessages, slot>>
      /\ messages' = [messages EXCEPT ![p] = <<>>]
      /\ pc[p] = "out" /\ pc' = [pc EXCEPT ![p] = "gone"] /\ resets' = [resets EXCEPT ![p] = 0]
      /\ procPid' = [procPid EXCEPT ![slot[p]] = NULL]
      /\ nextMsgNum' = [nextMsgNum EXCEPT ![slot[p]] = 0]
      /\ resetState' = [resetState EXCEPT ![slot[p]] = FALSE]
  BY Zenon DEF CleanupInvalidationState, Goto, Counters, locks, insertvars, receivevars
<1>3. /\ pc \in [Procs -> PCs] /\ resets \in [Procs -> Nat] /\ messages \in [Procs -> Seq(Nat)]
      /\ procPid \in [Slots -> Procs \cup {NULL}] /\ lastBackend \in 0 .. maxBackends
      /\ nextMsgNum \in [Slots -> Int] /\ resetState \in [Slots -> BOOLEAN]
  BY DEF SIInv, SITypeOK
<1>4. Living(p) BY <1>2 DEF Living
<1>5. PICK s \in Slots : s = slot[p] /\ procPid[s] = p BY <1>4, Standing
<1>6. pc'[p] = "gone" /\ resets'[p] = 0 /\ procPid'[s] = NULL BY <1>2, <1>3, <1>5
<1>7. \A t \in Slots \ {s} : /\ nextMsgNum'[t] = nextMsgNum[t] /\ resetState'[t] = resetState[t]
                             /\ hasMessages'[t] = hasMessages[t] /\ procPid'[t] = procPid[t]
  BY <1>2, <1>3, <1>5
<1>8. ~Living(p)' BY <1>6 DEF Living
<1>9. Own(p)'
  <2>1. Shape(p) BY DEF SIInv
  <2>2. frames'[p] = <<>> /\ messages'[p] = <<>> /\ batch'[p] <= WRITE_QUANTUM /\ p \notin readShared'
    BY <1>2, <1>3, <2>1 DEF Shape
  <2>3. Shape(p)' BY <1>6, <2>2, Zenon DEF Shape
  <2> QED BY <1>6, <2>2, <2>3, IdleOwn DEF Own
<1>10. Position(p)' BY <1>8 DEF Position, Receiver
<1>11. SlotInv'
  <2>0. SlotInv BY DEF SIInv
  <2>1. lastBackend' \in 0 .. lastBackend /\ \A t \in 1 .. lastBackend : procPid'[t] # NULL => t <= lastBackend'
    BY ExitEffect
  <2>2. ASSUME NEW q \in Procs, Living(q)' PROVE slot'[q] \in 1 .. lastBackend' /\ procPid'[slot'[q]] = q
    <3>1. q # p BY <2>2, <1>8
    <3>2. Living(q) /\ slot'[q] = slot[q] BY <1>1, <2>2, <3>1, Zenon DEF Others, Same, Living
    <3>3. slot[q] \in Slots \ {s} BY <1>5, <3>1, <3>2, OthersAt
    <3>4. slot[q] \in 1 .. lastBackend /\ procPid[slot[q]] = q /\ q # NULL BY <3>2, Standing
    <3>5. procPid'[slot[q]] = q BY <1>7, <3>3, <3>4
    <3>6. slot[q] <= lastBackend' BY <2>1, <3>4, <3>5
    <3>7. slot[q] \in 1 .. lastBackend' BY <2>1, <3>4, <3>6, <1>3, SMTT(60)
    <3> QED BY <3>2, <3>5, <3>7
  <2>3. ASSUME NEW t \in Slots, Active(t)' PROVE Living(procPid[t])' /\ slot'[procPid'[t]] = t
    <3>1. t # s BY <2>3, <1>6 DEF Active
    <3>2. procPid'[t] = procPid[t] /\ Active(t) BY <1>7, <2>3, <3>1 DEF Active
    <3>3. PICK u \in Procs : u = procPid[t] BY <1>3, <3>2 DEF Active
    <3>4. Living(u) /\ slot[u] = t BY <2>0, <3>2, <3>3 DEF SlotInv
    <3>5. u # p BY <3>1, <3>4, <1>5
    <3>6. pc'[u] = pc[u] /\ slot'[u] = slot[u] BY <1>1, <3>5, Zenon DEF Others, Same
    <3> QED BY <3>2, <3>3, <3>4, <3>6 DEF Living
  <2> QED BY <2>2, <2>3, Zenon DEF SlotInv, Living
<1>12. SITypeOK' BY LifeTypes
<1>13. RingInv' BY <1>1, <1>2, <1>6, RingStep
<1>14. ASSUME NEW q \in Procs, q # p PROVE Position(q)' /\ ReadInv(q)'
  <2>1. procPid[s] \in {p, NULL} /\ Counters BY <1>2, <1>5
  <2> QED BY <1>1, <1>7, <1>14, <2>1, OneSlot
<1>15. complete <= complete' BY <1>2, CounterFacts DEF Counters
<1> QED BY <1>0, <1>9, <1>10, <1>11, <1>12, <1>13, <1>14, <1>15, SharedInv

\* A reader takes the lock and resets its flag.
LEMMA ReadLockInv == ASSUME SIInv, NEW p \in Procs, ReadLock(p) PROVE SIInv'
<1>0. SharedStep(p) BY DEF SharedStep
<1>1. Others(p) /\ \A q \in Procs \ {p} : Locks(q) BY <1>0, SharedOthers
<1>2. /\ Counters /\ UNCHANGED <<buffer, procPid, lastBackend, slot, nextMsgNum, resetState>>
      /\ UNCHANGED <<batch, left, frames, messages, nummsgs, seen, resets>>
      /\ pc[p] = "lock" /\ pc' = [pc EXCEPT ![p] = "max"] /\ readShared' = readShared \cup {p}
      /\ hasMessages' = [hasMessages EXCEPT ![slot[p]] = FALSE]
  BY Zenon DEF ReadLock, Goto, Counters, seg, insertvars, receivevars, history
<1>3. pc \in [Procs -> PCs] /\ hasMessages \in [Slots -> BOOLEAN] BY DEF SIInv, SITypeOK
<1>4. pc'[p] = "max" /\ p \in readShared' BY <1>2, <1>3
<1>5. Living(p) /\ Living(p)' BY <1>2, <1>4 DEF Living
<1>6. PICK s \in Slots : s = slot[p] /\ procPid[s] = p BY <1>5, Standing
<1>7. \A t \in Slots \ {s} : /\ nextMsgNum'[t] = nextMsgNum[t] /\ resetState'[t] = resetState[t]
                             /\ hasMessages'[t] = hasMessages[t]
  BY <1>2, <1>3, <1>6
<1>8. Own(p)'
  <2>1. Shape(p) /\ Fetched(p) /\ Calling(p) BY DEF SIInv
  <2>2. Shape(p)' BY <1>2, <1>4, <2>1, Zenon DEF Shape
  <2>3. Fetched(p)' BY <1>2, <2>1, Zenon DEF Fetched
  <2>4. ReadInv(p)' BY <1>4 DEF ReadInv
  <2>5. Top(p)' = Top(p) /\ complete' = complete BY <1>2 DEF Top, Counters
  <2>6. Calling(p)' BY <1>2, <1>4, <2>1, <2>5, Zenon DEF Calling
  <2> QED BY <2>2, <2>3, <2>4, <2>6 DEF Own
<1>9. Position(p)'
  <2>1. Position(p) BY DEF SIInv
  <2>2. Receiver(p)' => Receiver(p) BY <1>5 DEF Receiver
  <2>3. Place(nextMsgNum[slot[p]])' = Place(nextMsgNum[slot[p]]) BY <1>2 DEF Place, Counters
  <2>4. minMsgNum' = minMsgNum /\ maxMsgNum' = maxMsgNum /\ total' = total BY <1>2 DEF Counters
  <2> QED BY <1>2, <1>4, <2>1, <2>2, <2>3, <2>4, Zenon DEF Position
<1>10. SlotInv' BY <1>1, <1>2, <1>5, SlotStep
<1>11. SITypeOK' BY InsertTypes
<1>12. pc[p] \notin {"flag", "publish"} /\ pc'[p] \notin {"flag", "publish"} /\ buffer' = buffer BY <1>2, <1>4
<1>13. RingInv' BY <1>1, <1>2, <1>12, RingStep
<1>14. ASSUME NEW q \in Procs, q # p PROVE Position(q)' /\ ReadInv(q)'
  <2>1. procPid[s] \in {p, NULL} /\ Counters BY <1>2, <1>6
  <2> QED BY <1>1, <1>7, <1>14, <2>1, OneSlot
<1>15. complete <= complete' BY <1>2, CounterFacts DEF Counters
<1> QED BY <1>0, <1>8, <1>9, <1>10, <1>11, <1>13, <1>14, <1>15, SharedInv

\* What is known of a reader before and after it has read.
LEMMA ReaderFacts ==
    ASSUME SIInv, NEW p \in Procs, SIGetDataEntries(p)
    PROVE  /\ pc[p] = "read" /\ Receiver(p) /\ messages[p] = <<>> /\ frames[p] # <<>> /\ p \notin SendOnly
           /\ slot[p] \in Slots /\ procPid[slot[p]] = p /\ p \notin readShared' /\ batch'[p] <= WRITE_QUANTUM
           /\ Counters /\ UNCHANGED <<buffer, procPid, lastBackend, slot>>
           /\ pc'[p] = (IF resetState[slot[p]] THEN "callback" ELSE "work") /\ Top(p).phase = "fetched"
           /\ (ForceReset(p) \/ ReadEntries(p))
<1>1. /\ pc[p] = "read" /\ pc' = [pc EXCEPT ![p] = IF resetState[slot[p]] THEN "callback" ELSE "work"]
      /\ Counters /\ UNCHANGED <<buffer, procPid, lastBackend, slot>> /\ readShared' = readShared \ {p}
      /\ (ForceReset(p) \/ ReadEntries(p)) /\ batch' = batch
  BY Zenon DEF SIGetDataEntries, Goto, Counters, seg, MustReset, insertvars
<1>2. pc \in [Procs -> PCs] BY DEF SIInv, SITypeOK
<1>3. Living(p) BY <1>1 DEF Living
<1>4. Shape(p) /\ Calling(p) BY DEF SIInv
<1>5. messages[p] = <<>> /\ frames[p] # <<>> /\ p \notin SendOnly /\ batch[p] <= WRITE_QUANTUM BY <1>1, <1>4 DEF Shape
<1>6. Top(p).phase = "fetched" BY <1>1, <1>4 DEF Calling
<1>7. slot[p] \in Slots /\ procPid[slot[p]] = p BY <1>3, Standing
<1>8. pc'[p] = (IF resetState[slot[p]] THEN "callback" ELSE "work") BY <1>1, <1>2
<1> QED BY <1>1, <1>3, <1>5, <1>6, <1>7, <1>8 DEF Receiver

\* A reset makes up for all messages.
LEMMA ResetOwn ==
    ASSUME SIInv, NEW p \in Procs, SIGetDataEntries(p), ForceReset(p)
    PROVE  Own(p)' /\ Position(p)'
<1> DEFINE s == slot[p]
<1>0. /\ pc[p] = "read" /\ Receiver(p) /\ messages[p] = <<>> /\ frames[p] # <<>> /\ p \notin SendOnly
      /\ s \in Slots /\ p \notin readShared' /\ batch'[p] <= WRITE_QUANTUM /\ slot' = slot
      /\ minMsgNum' = minMsgNum /\ maxMsgNum' = maxMsgNum /\ total' = total /\ complete' = complete
      /\ pc'[p] = (IF resetState[s] THEN "callback" ELSE "work")
  BY ReaderFacts DEF Counters
<1>1. /\ resetState[s] /\ max[p] \in minMsgNum .. maxMsgNum
      /\ nextMsgNum' = [nextMsgNum EXCEPT ![s] = max[p]] /\ resetState' = [resetState EXCEPT ![s] = FALSE]
      /\ UNCHANGED <<hasMessages, messages, nummsgs>>
      /\ Place(max[p]) \in Nat /\ seen' = [seen EXCEPT ![p] = Place(max[p])]
      /\ frames' \in [Procs -> Seq(Frames)]
      /\ Len(frames'[p]) = Len(frames[p]) /\ Len(frames[p]) \in Nat \ {0}
      /\ \A i \in 1 .. Len(frames[p]) : frames'[p][i].due = frames[p][i].due
      /\ Top(p)'.phase = "reset" /\ Top(p)'.due = Top(p).due
  BY <1>0, ResetEffect
<1>2. /\ nextMsgNum \in [Slots -> Int] /\ resetState \in [Slots -> BOOLEAN] /\ seen \in [Procs -> Nat]
  BY DEF SIInv, SITypeOK
<1>3. PICK m \in Nat, e \in Nat : m = max[p] /\ e = Place(m) BY <1>1, Standing, CounterFacts, SMTT(60)
<1>4. pc'[p] = "callback" /\ nextMsgNum'[s] = m /\ resetState'[s] = FALSE /\ seen'[p] = e BY <1>0, <1>1, <1>2, <1>3
<1>5. messages'[p] = <<>> /\ Len(messages'[p]) = 0 BY <1>0, <1>1
<1>6. frames'[p] # <<>> BY <1>1
<1>7. /\ e >= complete \/ hasMessages[s]
      /\ e >= Top(p).due
  BY <1>0, <1>3, Zenon DEF SIInv, ReadInv
<1>8. Shape(p)' BY <1>0, <1>4, <1>5, <1>6, Zenon DEF Shape
<1>9. Fetched(p)' BY <1>5 DEF Fetched
<1>10. ReadInv(p)' BY <1>4 DEF ReadInv
<1>11. Calling(p)'
  <2>1. Calling(p) BY DEF SIInv
  <2>2. PICK k \in Nat : k = Len(frames[p]) /\ k = Len(frames'[p]) BY <1>1
  <2>3. \A i \in 1 .. k : \A j \in i .. k : j \in 1 .. k BY SMTT(60)
  <2>4. \A i \in 1 .. k : frames'[p][i].due = frames[p][i].due BY <1>1, <2>2
  <2>5. \A i \in 1 .. k :
            /\ frames'[p][i].due <= complete'
            /\ \A j \in i .. k : frames'[p][i].due <= frames'[p][j].due
    BY <1>0, <2>1, <2>2, <2>3, <2>4, Zenon DEF Calling
  <2>6. seen'[p] >= Top(p)'.due /\ Top(p)'.phase = "reset" BY <1>1, <1>4, <1>7, Zenon
  <2> QED BY <1>4, <2>2, <2>5, <2>6, Zenon DEF Calling
<1>12. Position(p)'
  <2>1. Place(nextMsgNum[slot[p]])' = Place(m) BY <1>0, <1>4 DEF Place
  <2>2. seen'[p] + Len(messages'[p]) = e BY <1>4, <1>5
  <2>3. minMsgNum <= m /\ m <= maxMsgNum
    <3>1. m \in minMsgNum .. maxMsgNum BY <1>1, <1>3, Zenon
    <3> QED BY <3>1, CounterFacts
  <2>4. e < complete => hasMessages[s] BY <1>3, <1>7, CounterFacts
  <2>5. hasMessages' = hasMessages BY <1>1
  <2> QED BY <1>0, <1>3, <1>4, <2>1, <2>2, <2>3, <2>4, <2>5, Zenon DEF Position
<1> QED BY <1>8, <1>9, <1>10, <1>11, <1>12 DEF Own

\* The messages that are read continue what the backend has dealt with.
LEMMA ReadOwn ==
    ASSUME SIInv, NEW p \in Procs, SIGetDataEntries(p), ReadEntries(p)
    PROVE  Own(p)' /\ Position(p)'
<1> DEFINE s == slot[p]
<1>0. /\ pc[p] = "read" /\ Receiver(p) /\ messages[p] = <<>> /\ frames[p] # <<>> /\ p \notin SendOnly
      /\ s \in Slots /\ p \notin readShared' /\ batch'[p] <= WRITE_QUANTUM /\ slot' = slot
      /\ minMsgNum' = minMsgNum /\ maxMsgNum' = maxMsgNum /\ total' = total /\ complete' = complete
      /\ pc'[p] = (IF resetState[s] THEN "callback" ELSE "work") /\ Living(p) /\ Top(p).phase = "fetched"
  BY ReaderFacts DEF Counters, Receiver
<1>1. PICK n \in 0 .. MAXINVALMSGS :
               /\ ~resetState[s] /\ Len(messages'[p]) = n
               /\ \A i \in 1 .. n : messages'[p][i] = Place(nextMsgNum[s]) + i - 1
               /\ nummsgs'[p] = n
               /\ nextMsgNum' = [nextMsgNum EXCEPT ![s] = nextMsgNum[s] + n]
               /\ nextMsgNum[s] \in Nat /\ nextMsgNum[s] + n <= max[p]
               /\ n # MAXINVALMSGS => nextMsgNum[s] + n = max[p]
               /\ hasMessages' = [hasMessages EXCEPT ![s] = @ \/ nextMsgNum[s] + n < max[p]]
               /\ UNCHANGED <<resetState, frames, seen, resets>>
  BY <1>0, ReadEffect, Zenon
<1>2. nextMsgNum \in [Slots -> Int] /\ hasMessages \in [Slots -> BOOLEAN] /\ seen[p] \in Nat
  BY DEF SIInv, SITypeOK
<1>3. n \in Nat BY Constants, SMTT(60)
<1>4. PICK x \in Nat, m \in Nat, e \in Nat : x = nextMsgNum[s] /\ m = max[p] /\ e = seen[p]
  BY <1>0, <1>1, Standing, Zenon
<1>5. /\ pc'[p] = "work" /\ nextMsgNum'[s] = x + n /\ resetState'[s] = resetState[s]
      /\ (hasMessages[s] \/ x + n < m => hasMessages'[s])
  BY <1>0, <1>1, <1>2, <1>4
<1>6. x + n <= m /\ (n # MAXINVALMSGS => x + n = m) BY <1>1, <1>4, Zenon
<1>7. /\ m \in minMsgNum .. maxMsgNum /\ (Place(m) >= complete \/ hasMessages[s]) /\ Place(m) >= Top(p).due
  BY <1>0, <1>4, Zenon DEF SIInv, ReadInv
<1>8. minMsgNum <= x /\ e = Place(x)
  <2>1. minMsgNum <= x /\ e + Len(messages[p]) = Place(x) BY <1>0, <1>1, <1>4, Zenon DEF SIInv, Position
  <2>2. Len(messages[p]) = 0 BY <1>0
  <2> QED BY <2>1, <2>2
<1>9. e + n = Place(x + n) /\ (x + n = m => Place(x + n) = Place(m)) BY <1>3, <1>8, CounterFacts DEF Place
<1>10. Shape(p)' BY <1>0, <1>1, <1>5, Zenon DEF Shape
<1>11. Fetched(p)'
  <2>1. \A i \in 1 .. n : messages'[p][i] = e + i - 1 BY <1>1, <1>4, <1>8, Zenon
  <2>2. seen'[p] = e BY <1>1, <1>4
  <2> QED BY <1>1, <2>1, <2>2, Zenon DEF Fetched
<1>12. ReadInv(p)' BY <1>5 DEF ReadInv
<1>13. Calling(p)'
  <2>1. Calling(p) BY DEF SIInv
  <2>2. Top(p)' = Top(p) /\ frames' = frames /\ seen'[p] = e BY <1>1, <1>4 DEF Top
  <2>3. n # MAXINVALMSGS => e + n >= Top(p).due BY <1>6, <1>7, <1>9, Zenon
  <2>4. Top(p).phase # "reset" BY <1>0
  <2> QED BY <1>0, <1>1, <1>5, <2>1, <2>2, <2>3, <2>4, Zenon DEF Calling
<1>14. Position(p)'
  <2>1. Place(nextMsgNum[slot[p]])' = Place(x + n) BY <1>0, <1>5 DEF Place
  <2>2. seen'[p] + Len(messages'[p]) = e + n BY <1>1, <1>4
  <2>3. minMsgNum <= x + n /\ x + n <= maxMsgNum
    <3>1. minMsgNum <= m /\ m <= maxMsgNum BY <1>7, CounterFacts
    <3> QED BY <3>1, <1>3, <1>6, <1>8, CounterFacts
  <2>4. Place(x + n) < complete => hasMessages'[s]
    <3>1. CASE x + n < m BY <3>1, <1>5
    <3>2. CASE ~(x + n < m)
      <4>1. x + n = m BY <3>2, <1>3, <1>6
      <4>2. Place(m) \in Int BY CounterFacts DEF Place
      <4>3. Place(m) < complete => hasMessages[s] BY <1>7, <4>2, CounterFacts
      <4> QED BY <4>1, <4>3, <1>5, <1>9, Zenon
    <3> QED BY <3>1, <3>2
  <2> QED BY <1>0, <1>1, <1>5, <1>9, <2>1, <2>2, <2>3, <2>4, Zenon DEF Position
<1> QED BY <1>10, <1>11, <1>12, <1>13, <1>14 DEF Own

\* Reading.
LEMMA GetDataInv == ASSUME SIInv, NEW p \in Procs, SIGetDataEntries(p) PROVE SIInv'
<1>0. SharedStep(p) BY DEF SharedStep
<1>1. Others(p) /\ \A q \in Procs \ {p} : Locks(q) BY <1>0, SharedOthers
<1>2. /\ pc[p] = "read" /\ Receiver(p) /\ slot[p] \in Slots /\ procPid[slot[p]] = p
      /\ Counters /\ UNCHANGED <<buffer, procPid, lastBackend, slot>>
      /\ pc'[p] \in {"callback", "work"} /\ (ForceReset(p) \/ ReadEntries(p))
  BY ReaderFacts
<1>3. Own(p)' /\ Position(p)' BY <1>2, ResetOwn, ReadOwn
<1>4. PICK s \in Slots : s = slot[p] /\ procPid[s] = p BY <1>2
<1>5. /\ nextMsgNum \in [Slots -> Int] /\ resetState \in [Slots -> BOOLEAN] /\ hasMessages \in [Slots -> BOOLEAN]
  BY DEF SIInv, SITypeOK
<1>6. \A t \in Slots \ {s} : /\ nextMsgNum'[t] = nextMsgNum[t] /\ resetState'[t] = resetState[t]
                             /\ hasMessages'[t] = hasMessages[t]
  <2>1. CASE ForceReset(p) BY <2>1, <1>4, <1>5 DEF ForceReset
  <2>2. CASE ReadEntries(p) BY <2>2, <1>4, <1>5 DEF ReadEntries
  <2> QED BY <1>2, <2>1, <2>2
<1>7. Living(p) /\ Living(p)' BY <1>2 DEF Living
<1>8. SlotInv' BY <1>1, <1>2, <1>7, SlotStep
<1>9. SITypeOK' BY QueueTypes
<1>10. pc[p] \notin {"flag", "publish"} /\ pc'[p] \notin {"flag", "publish"} /\ buffer' = buffer BY <1>2
<1>11. RingInv' BY <1>1, <1>2, <1>10, RingStep
<1>12. ASSUME NEW q \in Procs, q # p PROVE Position(q)' /\ ReadInv(q)'
  <2>1. procPid[s] \in {p, NULL} /\ Counters BY <1>2, <1>4
  <2> QED BY <1>1, <1>6, <1>12, <2>1, OneSlot
<1>13. complete <= complete' BY <1>2, CounterFacts DEF Counters
<1> QED BY <1>0, <1>3, <1>8, <1>9, <1>11, <1>12, <1>13, SharedInv
----------------------------------------------------------------------------
(* The theorems *)

\* It holds to begin with.
LEMMA SIInitially == ASSUME Init PROVE SIInv
<1> USE DEF Init
<1>1. SITypeOK
  <2>1. minMsgNum \in Nat /\ maxMsgNum \in Nat /\ total \in Nat /\ complete \in Nat OBVIOUS
  <2>2. lastBackend \in 0 .. maxBackends BY Constants
  <2>3. writeLock \in Procs \cup {NULL} /\ readShared \subseteq Procs OBVIOUS
  <2>4. procPid \in [Slots -> Procs \cup {NULL}] /\ nextMsgNum \in [Slots -> Int] OBVIOUS
  <2>5. resetState \in [Slots -> BOOLEAN] /\ signaled \in [Slots -> BOOLEAN] /\ hasMessages \in [Slots -> BOOLEAN]
    OBVIOUS
  <2>6. buffer \in [0 .. MAXNUMMESSAGES - 1 -> Nat] OBVIOUS
  <2>7. pc \in [Procs -> PCs] BY DEF PCs
  <2>8. slot \in [Procs -> 0 .. maxBackends]
    <3>1. 0 \in 0 .. maxBackends BY Constants
    <3> QED BY <3>1
  <2>9. left \in [Procs -> Nat] /\ batch \in [Procs -> Nat] /\ max \in [Procs -> Nat] /\ nummsgs \in [Procs -> Nat]
    OBVIOUS
  <2>10. frames \in [Procs -> Seq(Frames)] /\ messages \in [Procs -> Seq(Nat)]
    <3>1. <<>> \in Seq(Frames) /\ <<>> \in Seq(Nat) OBVIOUS
    <3> QED BY <3>1
  <2>11. procsignal \in [Procs -> BOOLEAN] /\ catchupInterruptPending \in [Procs -> BOOLEAN] OBVIOUS
  <2>12. seen \in [Procs -> Nat] /\ resets \in [Procs -> Nat] OBVIOUS
  <2> QED BY <2>1, <2>2, <2>3, <2>4, <2>5, <2>6, <2>7, <2>8, <2>9, <2>10, <2>11, <2>12, Zenon DEF SITypeOK
<1>2. \A q \in Procs : /\ pc[q] = "unborn" /\ frames[q] = <<>> /\ messages[q] = <<>> /\ batch[q] = 0 /\ resets[q] = 0
                       /\ ~Living(q)
  BY DEF Living
<1>3. SlotInv BY <1>2 DEF SlotInv, Active
<1>4. RingInv
  <2>1. minMsgNum .. maxMsgNum - 1 = {} OBVIOUS
  <2>2. maxMsgNum - minMsgNum <= MAXNUMMESSAGES BY Constants
  <2>3. minMsgNum <= maxMsgNum /\ maxMsgNum <= total /\ complete <= total /\ complete = total OBVIOUS
  <2> QED BY <1>2, <2>1, <2>2, <2>3 DEF RingInv
<1>5. ASSUME NEW q \in Procs PROVE Shape(q) /\ Position(q) /\ Fetched(q) /\ ReadInv(q) /\ Calling(q)
  <2>1. Len(frames[q]) = 0 /\ Len(messages[q]) = 0 BY <1>2
  <2>2. batch[q] <= WRITE_QUANTUM /\ q \notin readShared BY <1>2, Constants
  <2>3. Shape(q) BY <1>2, <2>2 DEF Shape
  <2>4. Position(q) /\ ReadInv(q) BY <1>2 DEF Position, Receiver, ReadInv
  <2>5. Fetched(q) /\ Calling(q)
    <3>1. \A i \in 1 .. Len(frames[q]) : FALSE BY <2>1
    <3>2. \A i \in 1 .. Len(messages[q]) : FALSE BY <2>1
    <3> QED BY <1>2, <3>1, <3>2 DEF Fetched, Calling
  <2> QED BY <2>3, <2>4, <2>5
<1> QED BY <1>1, <1>3, <1>4, <1>5 DEF SIInv

\* Steps that change nothing.
LEMMA SIStutter == ASSUME SIInv, UNCHANGED vars PROVE SIInv'
<1>1. UNCHANGED <<seg, buffer, procstate, locks, pc, slot, insertvars, receivevars, procsignal,
                  catchupInterruptPending, history>>
  BY DEF vars
<1> USE DEF seg, locks, insertvars, receivevars, history, procstate
<1>2. SITypeOK' BY <1>1, Zenon DEF SIInv, SITypeOK
<1>3. SlotInv' BY <1>1, Zenon DEF SIInv, SlotInv, Living, Active
<1>4. Counters /\ buffer' = buffer /\ pc' = pc /\ batch' = batch BY <1>1, Zenon DEF Counters
<1>5. RingInv' BY <1>4, RingKeep DEF SIInv
<1>6. ASSUME NEW q \in Procs PROVE Shape(q)' /\ Position(q)' /\ Fetched(q)' /\ ReadInv(q)' /\ Calling(q)'
  <2>1. Same(q) BY <1>1, Zenon DEF Same
  <2>2. Locks(q) /\ At(q) BY <1>1, Zenon DEF Locks, At
  <2>3. complete' \in Nat /\ complete <= complete' BY <1>4, CounterFacts DEF Counters
  <2>4. Shape(q)' /\ Fetched(q)' /\ Calling(q)' BY <2>1, <2>2, <2>3, OtherKeep
  <2>5. ReadInv(q)' BY <1>4, <2>1, <2>2, ReadKeep DEF SIInv
  <2>6. /\ slot'[q] = slot[q] /\ seen'[q] + Len(messages'[q]) = seen[q] + Len(messages[q])
        /\ (q \in readShared => q \in readShared') /\ (Living(q)' => Living(q))
    BY <2>1, <2>2, Zenon DEF Same, Locks, Living
  <2>7. Position(q)' BY <1>4, <2>2, <2>6, PositionKeep DEF SIInv
  <2> QED BY <2>4, <2>5, <2>7
<1> QED BY <1>2, <1>3, <1>5, <1>6 DEF SIInv

\* Every step preserves the invariant.
LEMMA SIStep == ASSUME SIInv, Next PROVE SIInv'
<1>1. PICK p \in Procs : \/ PrivateStep(p) \/ SharedInvalBackendInit(p) \/ CleanupInvalidationState(p)
                         \/ InsertWrite(p) \/ InsertPublish(p) \/ InsertFlag(p) \/ SICleanupQueue(p)
                         \/ ReadLock(p) \/ SIGetDataEntries(p)
  BY StepKinds, Zenon
<1> QED BY <1>1, PrivateInv, InitInv, ExitInv, InsertInv, CleanInv, ReadLockInv, GetDataInv

\* The ring buffer, the counters, the flags, the locks and the running calls fit together, whatever the
\* processes of sinvaladt.c and sinval.c do and in whatever order.
THEOREM SIInvariance == Spec => []SIInv
<1>1. Init => SIInv BY SIInitially
<1>2. SIInv /\ [Next]_vars => SIInv' BY SIStep, SIStutter
<1> QED BY <1>1, <1>2, PTL DEF Spec

\* Nobody's unread messages are overwritten or lost by SIInsertDataEntries or SICleanupQueue, for every size
\* of the ring and any number of decrements of the counters.
THEOREM UnreadMessagesIntact == Spec => []UnreadIntact
<1>1. ASSUME SIInv PROVE UnreadIntact
  <2>1. SUFFICES ASSUME NEW s \in Readers
                 PROVE  /\ minMsgNum <= nextMsgNum[s] /\ nextMsgNum[s] <= maxMsgNum
                        /\ seen[procPid[s]] + Len(messages[procPid[s]]) = Place(nextMsgNum[s])
                        /\ \A n \in nextMsgNum[s] .. maxMsgNum - 1 : buffer[n % MAXNUMMESSAGES] = Place(n)
    BY Zenon DEF UnreadIntact
  <2>2. s \in 1 .. lastBackend /\ Active(s) /\ ~resetState[s] /\ ~sendOnly(s) BY DEF Readers
  <2>3. s \in Slots
    <3>1. lastBackend \in 0 .. maxBackends BY <1>1 DEF SIInv, SITypeOK
    <3> QED BY <2>2, <3>1, Constants DEF Slots
  <2>4. PICK p \in Procs : p = procPid[s] BY <1>1, <2>2, <2>3 DEF SIInv, SITypeOK, Active
  <2>5. Living(p) /\ slot[p] = s BY <1>1, <2>2, <2>3, <2>4 DEF SIInv, SlotInv
  <2>6. Receiver(p) BY <2>2, <2>4, <2>5 DEF Receiver, sendOnly
  <2>7. /\ minMsgNum <= nextMsgNum[s] /\ nextMsgNum[s] <= maxMsgNum
        /\ seen[p] + Len(messages[p]) = Place(nextMsgNum[s])
    BY <1>1, <2>2, <2>5, <2>6, Zenon DEF SIInv, Position
  <2>8. \A n \in minMsgNum .. maxMsgNum - 1 : buffer[n % MAXNUMMESSAGES] = Place(n) BY <1>1, Zenon DEF SIInv, RingInv
  <2>9. nextMsgNum[s] \in Int BY <1>1, <2>3 DEF SIInv, SITypeOK
  <2>10. \A n \in nextMsgNum[s] .. maxMsgNum - 1 : n \in minMsgNum .. maxMsgNum - 1
    BY <1>1, <2>7, <2>9, CounterFacts
  <2> QED BY <2>4, <2>7, <2>8, <2>10, Zenon
<1> QED BY <1>1, SIInvariance, PTL

\* SIGetDataEntries' test of hasMessages without a lock misses nothing, for any number of backends.
THEOREM FlagsSuffice == Spec => []UnreadFlagged
<1>1. ASSUME SIInv PROVE UnreadFlagged
  <2>1. SUFFICES ASSUME NEW s \in Slots, Active(s), ~sendOnly(s), resetState[s] \/ nextMsgNum[s] < maxMsgNum,
                        \A p \in Procs : pc[p] # "flag"
                 PROVE  hasMessages[s] \/ procPid[s] \in readShared
    BY Zenon DEF UnreadFlagged
  <2>2. PICK p \in Procs : p = procPid[s] BY <1>1, <2>1 DEF SIInv, SITypeOK, Active
  <2>3. Living(p) /\ slot[p] = s BY <1>1, <2>1, <2>2 DEF SIInv, SlotInv
  <2>4. Receiver(p) BY <2>1, <2>2, <2>3 DEF Receiver, sendOnly
  <2>5. complete = total BY <1>1, <2>1, Zenon DEF SIInv, RingInv
  <2>6. nextMsgNum[s] \in Int BY <1>1 DEF SIInv, SITypeOK
  <2>7. nextMsgNum[s] < maxMsgNum => Place(nextMsgNum[s]) < total BY <1>1, <2>6, CounterFacts DEF Place
  <2>8. resetState[s] \/ Place(nextMsgNum[s]) < complete => hasMessages[s] \/ p \in readShared
    BY <1>1, <2>3, <2>4, Zenon DEF SIInv, Position
  <2> QED BY <2>1, <2>2, <2>5, <2>7, <2>8, Zenon
<1> QED BY <1>1, SIInvariance, PTL

\* ReceiveSharedInvalidMessages does not return before all that was inserted when it was entered has been
\* dealt with, for any depth of recursion.
THEOREM ReceiveIsComplete == Spec => []ReceiveComplete
<1>1. SIInv => ReceiveComplete BY CaughtUpDone, Zenon DEF ReceiveComplete
<1> QED BY <1>1, SIInvariance, PTL
----------------------------------------------------------------------------
(* Refinement of InvalLog *)

\* What the mapping makes of a process.
Pos(p) == IF pc[p] \in {"unborn", "gone"} \/ p \in SendOnly THEN -1 ELSE seen[p]

\* The position of a receiver is that of what it has dealt with.
LEMMA PosValue ==
    ASSUME SIInv, NEW p \in Procs
    PROVE  /\ Receiver(p) => Pos(p) = seen[p] /\ seen[p] \in Nat
           /\ ~Receiver(p) => Pos(p) = -1
<1>1. seen[p] \in Nat BY DEF SIInv, SITypeOK
<1> QED BY <1>1 DEF Pos, Receiver, Living

\* Where nothing that the log knows of changes, it does not take a step.
LEMMA LogStutter ==
    ASSUME total' = total, resets' = resets, \A q \in Procs : Pos(q)' = Pos(q)
    PROVE  UNCHANGED Log!logvars
BY DEF Pos, Log!logvars

\* The other processes do not move.
LEMMA PosOthers ==
    ASSUME NEW p \in Procs, Others(p)
    PROVE  \A q \in Procs \ {p} : Pos(q)' = Pos(q)
BY DEF Others, Same, Pos

\* A receiver has dealt with no more than was sent, not counting what it has fetched.
LEMMA FetchedBehind ==
    ASSUME SIInv, NEW p \in Procs, Receiver(p)
    PROVE  seen[p] + Len(messages[p]) <= total
<1> DEFINE s == slot[p]
<1>1. Living(p) BY DEF Receiver
<1>2. PICK x \in Int, e \in Nat, k \in Nat : x = nextMsgNum[s] /\ e = seen[p] /\ k = Len(messages[p])
  BY <1>1, Standing
<1>3. /\ ~resetState[s] => x <= maxMsgNum /\ e + k = Place(x)
      /\ resetState[s] => e + k < total
  BY <1>2, Zenon DEF SIInv, Position
<1>4. x <= maxMsgNum => Place(x) <= total BY CounterFacts DEF Place
<1>5. e + k < total => e + k <= total BY CounterFacts
<1>6. e + k <= total BY <1>3, <1>4, <1>5, Zenon
<1> QED BY <1>2, <1>6

\* A step of the log by one process: how its position and its resets change.
LEMMA LogMove ==
    ASSUME NEW p \in Procs, Others(p), total' = total,
           resets \in [Procs -> Nat], NEW r, resets' = [resets EXCEPT ![p] = r],
           \/ /\ Pos(p) = -1 /\ Pos(p)' = total /\ r = resets[p]
           \/ /\ Pos(p) # -1 /\ Pos(p)' = -1 /\ r = 0
           \/ /\ 0 <= Pos(p) /\ Pos(p) < total /\ Pos(p)' = Pos(p) + 1 /\ r = resets[p]
           \/ /\ 0 <= Pos(p) /\ Pos(p)' \in Pos(p) + 1 .. total /\ r = resets[p] + 1
    PROVE  Log!Next
<1> DEFINE f == [q \in Procs |-> IF pc[q] \in {"unborn", "gone"} \/ q \in SendOnly THEN -1 ELSE seen[q]]
<1>1. \A q \in Procs : f[q] = Pos(q) /\ f'[q] = Pos(q)' BY DEF Pos
<1>2. \A q \in Procs \ {p} : f'[q] = f[q] BY <1>1, PosOthers
<1>3. DOMAIN f' = Procs /\ f' = [q \in Procs |-> f'[q]] OBVIOUS
<1>4. f' = [f EXCEPT ![p] = Pos(p)']
  <2>1. PICK v : v = Pos(p)' OBVIOUS
  <2>2. f = [q \in Procs |-> f[q]] OBVIOUS
  <2>3. f'[p] = v BY <1>1, <2>1
  <2> HIDE DEF f
  <2>4. [f EXCEPT ![p] = v] = [q \in Procs |-> IF q = p THEN v ELSE f[q]] BY <2>2
  <2>5. \A q \in Procs : f'[q] = IF q = p THEN v ELSE f[q] BY <1>2, <2>3
  <2>6. f' = [q \in Procs |-> IF q = p THEN v ELSE f[q]] BY <1>3, <2>5, Zenon
  <2> QED BY <2>1, <2>4, <2>6
<1>5. f[p] = Pos(p) BY <1>1
<1> HIDE DEF f
<1>6. resets = [resets EXCEPT ![p] = resets[p]] OBVIOUS
<1>7. CASE Pos(p) = -1 /\ Pos(p)' = total /\ r = resets[p]
  <2>1. resets' = resets BY <1>6, <1>7
  <2>2. Log!Join(p) BY <1>4, <1>5, <1>7, <2>1, Zenon DEF Log!Join, f
  <2> QED BY <2>2 DEF Log!Next
<1>8. CASE Pos(p) # -1 /\ Pos(p)' = -1 /\ r = 0
  <2>1. Log!Leave(p) BY <1>4, <1>5, <1>8, Zenon DEF Log!Leave, f
  <2> QED BY <2>1 DEF Log!Next
<1>9. CASE 0 <= Pos(p) /\ Pos(p) < total /\ Pos(p)' = Pos(p) + 1 /\ r = resets[p]
  <2>1. resets' = resets BY <1>6, <1>9
  <2>2. Log!Deliver(p) BY <1>4, <1>5, <1>9, <2>1, Zenon DEF Log!Deliver, f
  <2> QED BY <2>2 DEF Log!Next
<1>10. CASE 0 <= Pos(p) /\ Pos(p)' \in Pos(p) + 1 .. total /\ r = resets[p] + 1
  <2>1. Log!Reset(p) BY <1>4, <1>5, <1>10, Zenon DEF Log!Reset, f
  <2> QED BY <2>1 DEF Log!Next
<1> QED BY <1>7, <1>8, <1>9, <1>10

\* A step that neither sends nor moves its process is no step of the log.
LEMMA StaysPut ==
    ASSUME NEW p \in Procs, Others(p), total' = total, resets' = resets, Pos(p)' = Pos(p)
    PROVE  UNCHANGED Log!logvars
<1>1. \A q \in Procs : Pos(q)' = Pos(q) BY PosOthers
<1> QED BY <1>1, LogStutter

\* Of the private steps, only passing a message to invalFunction is a step of the log.
LEMMA PrivateLog == ASSUME SIInv, NEW p \in Procs, PrivateStep(p) PROVE Log!Next \/ UNCHANGED Log!logvars
<1>1. Others(p) BY PrivateOthers
<1>2. /\ resets' = resets /\ total' = total /\ (InvalFunction(p) \/ UNCHANGED <<messages, seen>>)
  BY PrivateFrame DEF Counters
<1>3. CASE InvalFunction(p)
  <2>1. pc \in [Procs -> PCs] /\ resets \in [Procs -> Nat] BY DEF SIInv, SITypeOK
  <2>2. pc[p] \in {"work", "callback"} /\ pc'[p] = "callback"
    BY <1>3, <2>1 DEF InvalFunction, Working, Goto
  <2>3. p \notin SendOnly BY <2>2 DEF SIInv, Shape
  <2>4. Receiver(p) BY <2>2, <2>3 DEF Receiver, Living
  <2>5. PICK k \in Nat \ {0} : k = Len(messages[p]) BY <1>3, InvalEffect
  <2>6. PICK e \in Nat : e = seen[p] BY <1>3, InvalEffect
  <2>7. seen'[p] = e + 1 BY <1>3, <2>6, InvalEffect
  <2>8. e + k <= total BY <2>4, <2>5, <2>6, FetchedBehind
  <2>9. Pos(p) = e BY <2>4, <2>6, PosValue
  <2>10. Pos(p)' = e + 1 BY <2>2, <2>3, <2>7 DEF Pos
  <2>11. 0 <= e /\ e < total BY <2>8, CounterFacts
  <2>12. resets' = [resets EXCEPT ![p] = resets[p]] BY <1>2, <2>1
  <2>13. Log!Next BY <1>1, <1>2, <2>1, <2>9, <2>10, <2>11, <2>12, LogMove
  <2> QED BY <2>13
<1>4. CASE UNCHANGED <<messages, seen>>
  <2>1. \/ pc'[p] = pc[p]
        \/ pc[p] \notin {"unborn", "gone"} /\ pc'[p] \notin {"unborn", "gone"}
    BY PrivateMove
  <2>2. Pos(p)' = Pos(p) BY <1>4, <2>1 DEF Pos
  <2> QED BY <1>1, <1>2, <2>2, StaysPut
<1> QED BY <1>2, <1>3, <1>4

\* Beginning and ending are the log's, except for a process that only sends.
LEMMA LifeLog ==
    ASSUME SIInv, NEW p \in Procs, SharedInvalBackendInit(p) \/ CleanupInvalidationState(p)
    PROVE  Log!Next \/ UNCHANGED Log!logvars
<1>0. SharedStep(p) BY DEF SharedStep
<1>1. Others(p) BY <1>0, SharedOthers
<1>2. pc \in [Procs -> PCs] /\ resets \in [Procs -> Nat] /\ seen \in [Procs -> Nat] /\ Shape(p)
  BY DEF SIInv, SITypeOK
<1>3. total' = total BY Zenon DEF SharedInvalBackendInit, CleanupInvalidationState
<1>4. CASE SharedInvalBackendInit(p)
  <2>1. /\ pc[p] = "unborn" /\ pc' = [pc EXCEPT ![p] = "out"] /\ seen' = [seen EXCEPT ![p] = total]
        /\ resets' = resets
    BY <1>4, Zenon DEF SharedInvalBackendInit, Goto
  <2>2. pc'[p] = "out" /\ seen'[p] = total BY <1>2, <2>1
  <2>3. Pos(p) = -1 BY <2>1 DEF Pos
  <2>4. CASE p \in SendOnly
    <3>1. Pos(p)' = -1 BY <2>4 DEF Pos
    <3> QED BY <1>1, <1>3, <2>1, <2>3, <3>1, StaysPut
  <2>5. CASE p \notin SendOnly
    <3>1. Pos(p)' = total BY <2>2, <2>5 DEF Pos
    <3>2. resets' = [resets EXCEPT ![p] = resets[p]] BY <1>2, <2>1
    <3>3. Log!Next BY <1>1, <1>2, <1>3, <2>3, <3>1, <3>2, LogMove
    <3> QED BY <3>3
  <2> QED BY <2>4, <2>5
<1>5. CASE CleanupInvalidationState(p)
  <2>1. pc[p] = "out" /\ pc' = [pc EXCEPT ![p] = "gone"] /\ resets' = [resets EXCEPT ![p] = 0]
    BY <1>5, Zenon DEF CleanupInvalidationState, Goto
  <2>2. pc'[p] = "gone" BY <1>2, <2>1
  <2>3. Pos(p)' = -1 BY <2>2 DEF Pos
  <2>4. CASE p \in SendOnly
    <3>1. Pos(p) = -1 BY <2>4 DEF Pos
    <3>2. resets[p] = 0 BY <1>2, <2>4 DEF Shape
    <3>3. resets' = resets BY <1>2, <2>1, <3>2
    <3> QED BY <1>1, <1>3, <2>3, <3>1, <3>3, StaysPut
  <2>5. CASE p \notin SendOnly
    <3>1. Pos(p) = seen[p] BY <2>1, <2>5 DEF Pos
    <3>2. Pos(p) # -1 BY <1>2, <3>1
    <3>3. Log!Next BY <1>1, <1>2, <1>3, <2>1, <2>3, <3>2, LogMove
    <3> QED BY <3>3
  <2> QED BY <2>4, <2>5
<1> QED BY <1>4, <1>5

\* Messages are sent when they are published, not when they are stored or announced.
LEMMA InsertLog ==
    ASSUME SIInv, NEW p \in Procs, InsertWrite(p) \/ InsertPublish(p) \/ InsertFlag(p)
    PROVE  Log!Next \/ UNCHANGED Log!logvars
<1>0. SharedStep(p) BY DEF SharedStep
<1>1. Others(p) BY <1>0, SharedOthers
<1>2. pc \in [Procs -> PCs] BY DEF SIInv, SITypeOK
<1>3. UNCHANGED <<seen, resets>> BY Zenon DEF InsertWrite, InsertPublish, InsertFlag, history
<1>4. pc[p] \notin {"unborn", "gone"} /\ pc'[p] \notin {"unborn", "gone"}
  BY <1>2 DEF InsertWrite, InsertPublish, InsertFlag, Goto
<1>5. Pos(p)' = Pos(p) BY <1>3, <1>4 DEF Pos
<1>6. CASE InsertPublish(p)
  <2>1. total' = total + batch[p] /\ pc[p] = "publish" BY <1>6 DEF InsertPublish
  <2>2. PICK b \in Nat : b = batch[p] BY DEF SIInv, SITypeOK
  <2>3. b > 0 BY <2>1, <2>2 DEF SIInv, Shape
  <2>4. total' = total + b BY <2>1, <2>2
  <2>5. total' \in Nat /\ total' > total BY <2>3, <2>4, CounterFacts
  <2>6. \A q \in Procs : Pos(q)' = Pos(q) BY <1>1, <1>5, PosOthers
  <2>7. [q \in Procs |-> Pos(q)]' = [q \in Procs |-> Pos(q)] BY <2>6, Zenon
  <2>8. Log!Send BY <1>3, <2>5, <2>7, Zenon DEF Log!Send, Pos
  <2> QED BY <2>8 DEF Log!Next
<1>7. CASE ~InsertPublish(p)
  <2>1. total' = total BY <1>7, Zenon DEF InsertWrite, InsertFlag, history
  <2> QED BY <1>1, <1>3, <1>5, <2>1, StaysPut
<1> QED BY <1>6, <1>7

\* A cleanup is none of the log's business, nor is reading; a reset is.
LEMMA QueueLog ==
    ASSUME SIInv, NEW p \in Procs, SICleanupQueue(p) \/ ReadLock(p) \/ SIGetDataEntries(p)
    PROVE  Log!Next \/ UNCHANGED Log!logvars
<1>0. SharedStep(p) BY DEF SharedStep
<1>1. Others(p) BY <1>0, SharedOthers
<1>2. SIInv' BY CleanInv, ReadLockInv, GetDataInv
<1>3. total' = total BY Zenon DEF SICleanupQueue, ReadLock, SIGetDataEntries, history
<1>4. pc[p] \notin {"unborn", "gone"} /\ slot' = slot BY DEF SICleanupQueue, ReadLock, SIGetDataEntries
<1>5. pc'[p] \notin {"unborn", "gone"}
  <2>1. CASE SICleanupQueue(p)
    <3>1. SITypeOK /\ (pc'[p] = "signal" \/ pc'[p] = "room" \/ (frames[p] # <<>> /\ ReceiveReturn(p)))
      BY <2>1, CleanControl DEF SIInv
    <3>2. frames[p] # <<>> /\ ReceiveReturn(p) => pc'[p] \in {"out", "work"} BY <3>1, ReturnEffect
    <3> QED BY <3>1, <3>2
  <2>2. CASE ReadLock(p) BY <2>2 DEF ReadLock, Goto, SIInv, SITypeOK
  <2>3. CASE SIGetDataEntries(p) BY <2>3, ReaderFacts
  <2> QED BY <2>1, <2>2, <2>3
<1>6. CASE SIGetDataEntries(p) /\ ForceReset(p)
  <2>1. pc[p] = "read" /\ Receiver(p) /\ p \notin SendOnly BY <1>6, ReaderFacts
  <2>2. /\ resetState[slot[p]] /\ max[p] \in minMsgNum .. maxMsgNum /\ Place(max[p]) \in Nat
        /\ seen' = [seen EXCEPT ![p] = Place(max[p])] /\ resets' = [resets EXCEPT ![p] = resets[p] + 1]
    BY <1>6, <2>1, ResetEffect
  <2>3. PICK e \in Nat, m \in Nat : e = seen[p] /\ m = max[p] BY DEF SIInv, SITypeOK
  <2>4. Pos(p) = e BY <2>1, <2>3, PosValue
  <2>5. seen \in [Procs -> Nat] /\ resets \in [Procs -> Nat] BY DEF SIInv, SITypeOK
  <2>6. seen'[p] = Place(m) BY <2>2, <2>3, <2>5
  <2>7. Pos(p)' = Place(m) BY <1>5, <2>1, <2>6 DEF Pos
  <2>8. e < Place(m) BY <2>1, <2>2, <2>3, Zenon DEF SIInv, ReadInv
  <2>9. Place(m) \in Nat /\ Place(m) <= total BY <2>2, <2>3, CounterFacts DEF Place
  <2>10. Place(m) \in e + 1 .. total /\ 0 <= e BY <2>8, <2>9, CounterFacts
  <2>11. Log!Next BY <1>1, <1>3, <2>2, <2>4, <2>5, <2>7, <2>10, LogMove
  <2> QED BY <2>11
<1>7. CASE ~(SIGetDataEntries(p) /\ ForceReset(p))
  <2>1. UNCHANGED <<seen, resets>>
    BY <1>7, Zenon DEF SICleanupQueue, ReadLock, SIGetDataEntries, ReadEntries, history
  <2>2. Pos(p)' = Pos(p) BY <1>4, <1>5, <2>1 DEF Pos
  <2> QED BY <1>1, <1>3, <2>1, <2>2, StaysPut
<1> QED BY <1>6, <1>7

\* The shared invalidation queue implements one log for all backends: each of them gets every message sent
\* since it began, once and in order, or a reset that makes up for those it did not get.
THEOREM ImplementsInvalLog == Spec => ImplementsLog
<1>1. Init => Log!Init BY SMTT(60) DEF Init, Log!Init
<1>2. ASSUME SIInv, Next PROVE Log!Next \/ UNCHANGED Log!logvars
  <2>1. PICK p \in Procs : \/ PrivateStep(p) \/ SharedInvalBackendInit(p) \/ CleanupInvalidationState(p)
                           \/ InsertWrite(p) \/ InsertPublish(p) \/ InsertFlag(p) \/ SICleanupQueue(p)
                           \/ ReadLock(p) \/ SIGetDataEntries(p)
    BY <1>2, StepKinds, Zenon
  <2> QED BY <1>2, <2>1, PrivateLog, LifeLog, InsertLog, QueueLog
<1>3. UNCHANGED vars => UNCHANGED Log!logvars BY DEF vars, history, Log!logvars
<1>4. SIInv /\ [Next]_vars => [Log!Next]_(Log!logvars) BY <1>2, <1>3
<1> QED BY <1>1, <1>4, SIInvariance, PTL DEF Spec, ImplementsLog, Log!Spec
====
