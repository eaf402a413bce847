---------------------------- MODULE SInvalFacts -----------------------------
(***************************************************************************)
(* Proofs about SInval for any number of backends, of slots and of         *)
(* messages, any size of the ring and any depth of recursion.              *)
(*                                                                         *)
(* The argument: between minMsgNum and maxMsgNum the ring holds the        *)
(* messages in order, whatever the counters were decremented by (RingInv); *)
(* a backend that is not in reset state stands between the two, at the     *)
(* place where what it has dealt with and fetched ends, and its flag is    *)
(* set when insertions it has not read are over (Position); the maximum it *)
(* has read is not out of date before it lets go of SInvalReadLock         *)
(* (ReadInv); and the calls of ReceiveSharedInvalidMessages that are       *)
(* running expect no more than the innermost one (Calling).                *)
(***************************************************************************)
EXTENDS SInval, FiniteSets, WellFoundedInduction, TLAPS

PCs == {"unborn", "out", "gone", "insert", "room", "publish", "flag", "clean", "cleanup", "relock",
        "signal", "lock", "max", "read", "work", "callback"}

Frames == [phase : {"leftover", "fetched", "reset"}, due : Nat]

SITypeOK ==
    /\ minMsgNum \in Nat /\ maxMsgNum \in Nat /\ lastBackend \in 0 .. maxBackends
    /\ buffer \in [0 .. MAXNUMMESSAGES - 1 -> Nat]
    /\ procPid \in [Slots -> Procs \cup {NULL}] /\ nextMsgNum \in [Slots -> Int]
    /\ resetState \in [Slots -> BOOLEAN] /\ signaled \in [Slots -> BOOLEAN]
    /\ hasMessages \in [Slots -> BOOLEAN]
    /\ writeLock \in Procs \cup {NULL} /\ readShared \subseteq Procs
    /\ pc \in [Procs -> PCs] /\ slot \in [Procs -> 0 .. maxBackends]
    /\ left \in [Procs -> Nat] /\ batch \in [Procs -> Nat] /\ max \in [Procs -> Nat]
    /\ frames \in [Procs -> Seq(Frames)] /\ messages \in [Procs -> Seq(Nat)]
    /\ nummsgs \in [Procs -> Nat]
    /\ procsignal \in [Procs -> BOOLEAN] /\ catchupInterruptPending \in [Procs -> BOOLEAN]
    /\ total \in Nat /\ complete \in Nat /\ seen \in [Procs -> Nat] /\ resets \in [Procs -> Nat]

\* A process that has a slot, and one that receives.
Living(p) == pc[p] \notin {"unborn", "gone"}
Receiver(p) == Living(p) /\ p \notin SendOnly

\* Living processes and active slots belong to each other.
SlotInv ==
    /\ \A p \in Procs : Living(p) => slot[p] \in 1 .. lastBackend /\ procPid[slot[p]] = p
    /\ \A s \in Slots : Active(s) => Living(procPid[s]) /\ slot[procPid[s]] = s

\* What a process has and holds at each step.
Shape(p) ==
    /\ pc[p] \in {"unborn", "gone", "out", "insert", "room", "publish", "flag", "relock"} => frames[p] = <<>>
    /\ pc[p] \in {"clean", "cleanup", "lock", "max", "read", "work", "callback"} => frames[p] # <<>>
    /\ p \in SendOnly => frames[p] = <<>> /\ resets[p] = 0
    /\ pc[p] \in {"unborn", "gone", "lock", "max", "read", "clean", "cleanup"} \/ (pc[p] = "signal" /\ frames[p] # <<>>) =>
           messages[p] = <<>>
    /\ pc[p] \in {"room", "publish", "flag", "cleanup"} => writeLock = p
    /\ p \in readShared <=> pc[p] \in {"max", "read"}
    /\ pc[p] = "insert" => left[p] > 0
    /\ batch[p] <= WRITE_QUANTUM
    /\ pc[p] \in {"room", "publish", "flag", "relock"} \/ (pc[p] = "signal" /\ frames[p] = <<>>) => batch[p] > 0

\* The ring.
RingInv ==
    /\ minMsgNum <= maxMsgNum /\ maxMsgNum - minMsgNum <= MAXNUMMESSAGES
    /\ maxMsgNum <= total /\ complete <= total
    /\ (\A p \in Procs : pc[p] # "flag") => complete = total
    /\ \A n \in minMsgNum .. maxMsgNum - 1 : buffer[n % MAXNUMMESSAGES] = Place(n)
    /\ \A p \in Procs : pc[p] = "publish" =>
           /\ maxMsgNum - minMsgNum + batch[p] <= MAXNUMMESSAGES
           /\ \A j \in 0 .. batch[p] - 1 : buffer[(maxMsgNum + j) % MAXNUMMESSAGES] = total + j

\* Where a receiver stands.
Position(p) ==
    LET s == slot[p] IN
    Receiver(p) =>
        /\ ~resetState[s] => /\ minMsgNum <= nextMsgNum[s] /\ nextMsgNum[s] <= maxMsgNum
                             /\ seen[p] + Len(messages[p]) = Place(nextMsgNum[s])
        /\ resetState[s] => seen[p] + Len(messages[p]) < total
        /\ resetState[s] \/ Place(nextMsgNum[s]) < complete => hasMessages[s] \/ p \in readShared

\* What it has fetched continues what it has dealt with.
Fetched(p) == \A i \in 1 .. Len(messages[p]) : messages[p][i] = seen[p] + i - 1

\* What it read of maxMsgNum.
ReadInv(p) ==
    LET s == slot[p] IN
    pc[p] = "read" =>
        /\ max[p] \in minMsgNum .. maxMsgNum
        /\ ~resetState[s] => nextMsgNum[s] <= max[p]
        /\ resetState[s] => seen[p] < Place(max[p])
        /\ Place(max[p]) >= complete \/ hasMessages[s]
        /\ Place(max[p]) >= Top(p).due

\* The running calls; what the innermost one has achieved.
Calling(p) ==
    /\ \A i \in 1 .. Len(frames[p]) :
           /\ frames[p][i].due <= complete
           /\ \A j \in i .. Len(frames[p]) : frames[p][i].due <= frames[p][j].due
    /\ pc[p] \in {"work", "callback"} =>
           /\ Top(p).phase = "reset" => seen[p] >= Top(p).due
           /\ Top(p).phase = "fetched" /\ nummsgs[p] # MAXINVALMSGS =>
                  seen[p] + Len(messages[p]) >= Top(p).due
    /\ pc[p] \in {"lock", "max", "read"} => Top(p).phase = "fetched"
    /\ pc[p] \in {"clean", "cleanup"} \/ (pc[p] = "signal" /\ frames[p] # <<>>) => seen[p] >= Top(p).due

SIInv ==
    /\ SITypeOK /\ SlotInv /\ RingInv
    /\ \A p \in Procs : Shape(p) /\ Position(p) /\ Fetched(p) /\ ReadInv(p) /\ Calling(p)
----------------------------------------------------------------------------
(* Numbers *)

USE ZenonT(10), SMTT(60)

\* A set of natural numbers has a least element.
LEMMA LeastNat ==
    ASSUME NEW T \in SUBSET Nat, T # {}
    PROVE  Min(T) \in T /\ \A n \in T : Min(T) <= n
<1>1. PICK x \in T : \A y \in T : ~(<<y, x>> \in OpToRel(<, Nat)) BY WFMin, NatLessThanWellFounded, Zenon
<1>2. ASSUME NEW y \in Nat, NEW z \in Nat, y < z PROVE <<y, z>> \in OpToRel(<, Nat)
  <2>1. <<y, z>> \in Nat \X Nat /\ <<y, z>>[1] < <<y, z>>[2] BY <1>2
  <2> QED BY <2>1, Zenon DEF OpToRel
<1>3. \A y \in T : ~(y < x) BY <1>1, <1>2
<1>4. \A y \in T : x <= y BY <1>3
<1> QED BY <1>4 DEF Min

\* A bounded one has a greatest.
LEMMA GreatestNat ==
    ASSUME NEW k \in Nat, NEW T \in SUBSET (0 .. k), T # {}
    PROVE  Max(T) \in T /\ \A n \in T : n <= Max(T)
<1> DEFINE D == {n \in Nat : k - n \in T}
<1>1. D \in SUBSET Nat OBVIOUS
<1>2. PICK t \in T : TRUE OBVIOUS
<1>3. k - t \in Nat /\ k - (k - t) = t BY <1>2
<1>4. k - t \in D BY <1>2, <1>3
<1> HIDE DEF D
<1>5. PICK m : m \in D /\ \A n \in D : m <= n BY <1>1, <1>4, LeastNat, Zenon
<1>6. k - m \in T /\ m \in Nat BY <1>5 DEF D
<1>7. \A n \in T : k - n \in D /\ n \in Nat BY DEF D
<1>8. \A n \in T : n <= k - m BY <1>5, <1>6, <1>7
<1> QED BY <1>6, <1>8 DEF Max

\* A difference.
LEMMA SubNat == ASSUME NEW a \in Nat, NEW b \in Nat, NEW w \in Nat, b + w <= a PROVE a - w \in Nat
OBVIOUS

\* Quotient and remainder.
LEMMA DivRange ==
    ASSUME NEW N \in Nat \ {0}, NEW a \in Nat
    PROVE  (a % N) \in 0 .. (N - 1) /\ (a \div N) \in Nat /\ a = N * (a \div N) + (a % N)
<1>1. (a % N) \in 0 .. (N - 1) OBVIOUS
<1>2. (a \div N) \in Int OBVIOUS
<1>3. a = N * (a \div N) + (a % N) OBVIOUS
<1>4. (a \div N) \in Nat OBVIOUS
<1> QED BY <1>1, <1>2, <1>3, <1>4

\* Multiples of a ring size are at least one ring apart.
LEMMA Multiples ==
    ASSUME NEW N \in Nat \ {0}, NEW c \in Int, NEW d \in Int, c < d
    PROVE  N * c + N <= N * d /\ N * c \in Int /\ N * d \in Int
OBVIOUS

\* Two message numbers less than a ring apart have different places in it.
LEMMA ModUnique ==
    ASSUME NEW N \in Nat \ {0}, NEW a \in Nat, NEW b \in Nat, a < b, b < a + N
    PROVE  a % N # b % N
<1>1. SUFFICES ASSUME a % N = b % N PROVE FALSE OBVIOUS
<1> DEFINE q == a \div N
           p == b \div N
           r == a % N
<1>2. q \in Nat /\ p \in Nat /\ r \in 0 .. (N - 1) /\ a = N * q + r /\ b = N * p + r BY <1>1, DivRange
<1> HIDE DEF q, p, r
<1>3. q < p => N * q + N <= N * p /\ N * q \in Int /\ N * p \in Int BY <1>2, Multiples, SMTT(60)
<1>4. p < q => N * p + N <= N * q /\ N * q \in Int /\ N * p \in Int BY <1>2, Multiples, SMTT(60)
<1> QED BY <1>2, <1>3, <1>4

\* A message keeps its place when its number is decremented by whole rings.
LEMMA ModWrap ==
    ASSUME NEW N \in Nat \ {0}, NEW w \in Nat, w % N = 0, NEW a \in Nat
    PROVE  (a + w) % N = a % N
<1> DEFINE q == a \div N
           p == w \div N
           u == (a + w) \div N
           r == a % N
           s == (a + w) % N
<1>1. q \in Nat /\ r \in 0 .. (N - 1) /\ a = N * q + r BY DivRange
<1>2. p \in Nat /\ w = N * p BY DivRange, SMTT(60)
<1>3. a + w \in Nat OBVIOUS
<1>4. u \in Nat /\ s \in 0 .. (N - 1) /\ a + w = N * u + s BY <1>3, DivRange, Zenon
<1> HIDE DEF q, p, r, u, s
<1>5. PICK z \in Int : z = q + p BY <1>1, <1>2
<1>6. N * z = N * q + N * p /\ N * q \in Int /\ N * p \in Int /\ N * u \in Int BY <1>1, <1>2, <1>4, <1>5
<1>7. N * z + r = N * u + s BY <1>1, <1>2, <1>4, <1>6
<1>8. u \in Int BY <1>4
<1>9. ~(z < u)
  <2>1. SUFFICES ASSUME z < u PROVE FALSE OBVIOUS
  <2>2. N * z + N <= N * u BY <2>1, <1>5, <1>8, Multiples, Zenon
  <2> QED BY <2>2, <1>1, <1>4, <1>6, <1>7
<1>10. ~(u < z)
  <2>1. SUFFICES ASSUME u < z PROVE FALSE OBVIOUS
  <2>2. N * u + N <= N * z BY <2>1, <1>5, <1>8, Multiples, Zenon
  <2> QED BY <2>2, <1>1, <1>4, <1>6, <1>7
<1>11. z = u BY <1>5, <1>8, <1>9, <1>10
<1>12. r = s BY <1>1, <1>4, <1>6, <1>7, <1>11
<1> QED BY <1>12 DEF r, s
----------------------------------------------------------------------------
(* Steps *)

\* What most proofs need of the constants.
LEMMA Constants ==
    /\ NULL \notin Procs /\ SendOnly \subseteq Procs
    /\ maxBackends \in Nat \ {0} /\ MAXNUMMESSAGES \in Nat \ {0} /\ MaxSend \in Nat \ {0}
    /\ WRITE_QUANTUM \in 1 .. MAXNUMMESSAGES /\ MAXINVALMSGS \in Nat \ {0} /\ MaxTotal \in Nat
BY SInvalAssumption


\* What belongs to process q stays as it is.
Same(q) ==
    /\ pc'[q] = pc[q] /\ slot'[q] = slot[q] /\ frames'[q] = frames[q] /\ messages'[q] = messages[q]
    /\ nummsgs'[q] = nummsgs[q] /\ batch'[q] = batch[q] /\ left'[q] = left[q] /\ max'[q] = max[q]
    /\ seen'[q] = seen[q] /\ resets'[q] = resets[q]

Others(p) == \A q \in Procs \ {p} : Same(q)

\* What is shared stays as it is.
Shared == UNCHANGED <<minMsgNum, maxMsgNum, lastBackend, buffer, procPid, nextMsgNum, resetState, hasMessages,
                      total, complete>>

\* The steps that change nothing but what belongs to the process, and a lock.
PrivateStep(p) ==
    \/ SendSharedInvalidMessages(p) \/ AcceptInvalidationMessages(p) \/ Recurse(p)
    \/ InsertLock(p) \/ CleanupLock(p) \/ SendProcSignal(p) \/ FetchMax(p)
    \/ InvalFunction(p) \/ CallbackError(p) \/ Fetch(p) \/ FinishReceive(p) \/ HandleCatchupInterrupt(p)

\* The others change what is shared.
LEMMA StepKinds ==
    ASSUME Next
    PROVE  \E p \in Procs : \/ PrivateStep(p) \/ SharedInvalBackendInit(p) \/ CleanupInvalidationState(p)
                            \/ InsertWrite(p) \/ InsertPublish(p) \/ InsertFlag(p) \/ SICleanupQueue(p)
                            \/ ReadLock(p) \/ SIGetDataEntries(p)
BY Zenon DEF Next, Calls, Step, PrivateStep

\* Private steps leave what is shared alone.
LEMMA PrivateShared == ASSUME NEW p \in Procs, PrivateStep(p) PROVE Shared /\ readShared' = readShared
<1> USE DEF Shared, seg, procstate, history, locks
<1>1. ASSUME SendSharedInvalidMessages(p) PROVE Shared /\ readShared' = readShared
  BY <1>1, Zenon DEF SendSharedInvalidMessages
<1>2. ASSUME AcceptInvalidationMessages(p) PROVE Shared /\ readShared' = readShared
  BY <1>2, Zenon DEF AcceptInvalidationMessages
<1>3. ASSUME Recurse(p) PROVE Shared /\ readShared' = readShared BY <1>3, Zenon DEF Recurse
<1>4. ASSUME InsertLock(p) PROVE Shared /\ readShared' = readShared BY <1>4, Zenon DEF InsertLock
<1>5. ASSUME CleanupLock(p) PROVE Shared /\ readShared' = readShared BY <1>5, Zenon DEF CleanupLock
<1>6. ASSUME SendProcSignal(p) PROVE Shared /\ readShared' = readShared BY <1>6, Zenon DEF SendProcSignal
<1>7. ASSUME FetchMax(p) PROVE Shared /\ readShared' = readShared BY <1>7, Zenon DEF FetchMax
<1>8. ASSUME InvalFunction(p) PROVE Shared /\ readShared' = readShared BY <1>8, Zenon DEF InvalFunction
<1>9. ASSUME Fetch(p) PROVE Shared /\ readShared' = readShared BY <1>9, Zenon DEF Fetch
<1>10. ASSUME FinishReceive(p) PROVE Shared /\ readShared' = readShared BY <1>10, Zenon DEF FinishReceive
<1>11. ASSUME HandleCatchupInterrupt(p) PROVE Shared /\ readShared' = readShared
  BY <1>11, Zenon DEF HandleCatchupInterrupt
<1>12. ASSUME CallbackError(p) PROVE Shared /\ readShared' = readShared BY <1>12, Zenon DEF CallbackError
<1> HIDE DEF Shared
<1> QED BY <1>1, <1>2, <1>3, <1>4, <1>5, <1>6, <1>7, <1>8, <1>9, <1>10, <1>11, <1>12, Zenon DEF PrivateStep

\* The return from ReceiveSharedInvalidMessages.
LEMMA ReturnEffect ==
    ASSUME SITypeOK, NEW p \in Procs, ReceiveReturn(p), frames[p] # <<>>
    PROVE  /\ pc' \in [Procs -> PCs] /\ frames' \in [Procs -> Seq(Frames)] /\ nummsgs' \in [Procs -> Nat]
           /\ \A q \in Procs \ {p} : pc'[q] = pc[q] /\ frames'[q] = frames[q] /\ nummsgs'[q] = nummsgs[q]
           /\ frames'[p] = SubSeq(frames[p], 1, Len(frames[p]) - 1)
           /\ Len(frames'[p]) = Len(frames[p]) - 1 /\ Len(frames[p]) \in Nat \ {0}
           /\ \A i \in 1 .. Len(frames[p]) - 1 : frames'[p][i] = frames[p][i]
           /\ pc'[p] = (IF Len(frames[p]) = 1 THEN "out" ELSE "work")
<1>1. frames[p] \in Seq(Frames) /\ frames \in [Procs -> Seq(Frames)] /\ pc \in [Procs -> PCs]
      /\ nummsgs \in [Procs -> Nat]
  BY DEF SITypeOK
<1>2. Len(frames[p]) \in Nat \ {0} BY <1>1
<1>3. PICK k \in Nat \ {0} : k = Len(frames[p]) BY <1>2
<1>9. PICK f : f = SubSeq(frames[p], 1, k - 1) OBVIOUS
<1>4. f \in Seq(Frames) /\ Len(f) = k - 1 /\ \A i \in 1 .. k - 1 : f[i] = frames[p][i]
  BY <1>1, <1>3, <1>9
<1>5. frames' = [frames EXCEPT ![p] = f] BY <1>3, <1>9 DEF ReceiveReturn, Front
<1>6. frames' \in [Procs -> Seq(Frames)] /\ frames'[p] = f /\ \A q \in Procs \ {p} : frames'[q] = frames[q]
  BY <1>1, <1>4, <1>5
<1>7. /\ pc' \in [Procs -> PCs] /\ \A q \in Procs \ {p} : pc'[q] = pc[q]
      /\ pc'[p] = (IF Len(frames[p]) = 1 THEN "out" ELSE "work")
  BY <1>1 DEF ReceiveReturn, Goto, PCs
<1>8. nummsgs' \in [Procs -> Nat] /\ \A q \in Procs \ {p} : nummsgs'[q] = nummsgs[q]
  BY <1>1 DEF ReceiveReturn
<1> QED BY <1>3, <1>4, <1>6, <1>7, <1>8, <1>9

\* The phase of the innermost call.
LEMMA PhaseEffect ==
    ASSUME SITypeOK, NEW p \in Procs, NEW ph \in {"leftover", "fetched", "reset"}, SetPhase(p, ph), frames[p] # <<>>
    PROVE  /\ frames' \in [Procs -> Seq(Frames)] /\ \A q \in Procs \ {p} : frames'[q] = frames[q]
           /\ Len(frames'[p]) = Len(frames[p]) /\ Len(frames[p]) \in Nat \ {0}
           /\ \A i \in 1 .. Len(frames[p]) : frames'[p][i].due = frames[p][i].due
           /\ Top(p)'.phase = ph /\ Top(p)'.due = Top(p).due
<1>1. frames[p] \in Seq(Frames) /\ frames \in [Procs -> Seq(Frames)] BY DEF SITypeOK
<1>2. Len(frames[p]) \in Nat \ {0} BY <1>1
<1>3. PICK k \in Nat \ {0} : k = Len(frames[p]) BY <1>2
<1>4. Top(p) = frames[p][k] /\ Top(p) \in Frames BY <1>1, <1>3, SMTT(60) DEF Top, Last
<1>5. PICK t : t = [Top(p) EXCEPT !.phase = ph] OBVIOUS
<1>6. t \in Frames /\ t.phase = ph /\ t.due = Top(p).due BY <1>4, <1>5 DEF Frames
<1>7. PICK f : f = Append(Front(frames[p]), t) OBVIOUS
<1>8. /\ Front(frames[p]) \in Seq(Frames) /\ Len(Front(frames[p])) = k - 1
      /\ \A i \in 1 .. k - 1 : Front(frames[p])[i] = frames[p][i]
  BY <1>1, <1>3 DEF Front
<1>9. f \in Seq(Frames) /\ Len(f) = k /\ f[k] = t /\ \A i \in 1 .. k - 1 : f[i] = frames[p][i]
  BY <1>6, <1>7, <1>8
<1>10. frames' = [frames EXCEPT ![p] = f] BY <1>5, <1>7 DEF SetPhase
<1>11. frames' \in [Procs -> Seq(Frames)] /\ frames'[p] = f /\ \A q \in Procs \ {p} : frames'[q] = frames[q]
  BY <1>1, <1>9, <1>10
<1>12. Top(p)' = t BY <1>9, <1>11 DEF Top, Last
<1>13. \A i \in 1 .. k : f[i].due = frames[p][i].due BY <1>4, <1>6, <1>9
<1> QED BY <1>3, <1>6, <1>9, <1>11, <1>12, <1>13

\* Entering the routine: a new call is the innermost one.
LEMMA PushEffect ==
    ASSUME SITypeOK, NEW p \in Procs, frames' = [frames EXCEPT ![p] = Append(@, NewFrame)]
    PROVE  /\ frames' \in [Procs -> Seq(Frames)] /\ \A q \in Procs \ {p} : frames'[q] = frames[q]
           /\ Len(frames'[p]) = Len(frames[p]) + 1 /\ Len(frames[p]) \in Nat
           /\ \A i \in 1 .. Len(frames[p]) : frames'[p][i] = frames[p][i]
           /\ frames'[p][Len(frames[p]) + 1] = NewFrame /\ Top(p)' = NewFrame
<1>1. frames[p] \in Seq(Frames) /\ frames \in [Procs -> Seq(Frames)] /\ complete \in Nat BY DEF SITypeOK
<1>2. NewFrame \in Frames BY <1>1 DEF NewFrame, Frames
<1>3. PICK f : f = Append(frames[p], NewFrame) OBVIOUS
<1>4. PICK k \in Nat : k = Len(frames[p]) BY <1>1
<1>5. f \in Seq(Frames) /\ Len(f) = k + 1 /\ f[k + 1] = NewFrame /\ \A i \in 1 .. k : f[i] = frames[p][i]
  BY <1>1, <1>2, <1>3, <1>4
<1>6. frames'[p] = f /\ frames' \in [Procs -> Seq(Frames)] /\ \A q \in Procs \ {p} : frames'[q] = frames[q]
  BY <1>1, <1>3, <1>5
<1>7. Top(p)' = NewFrame BY <1>5, <1>6 DEF Top, Last
<1> QED BY <1>4, <1>5, <1>6, <1>7
\* Types: the private steps.
LEMMA PrivateTypes == ASSUME SIInv, NEW p \in Procs, PrivateStep(p) PROVE SITypeOK'
<1>0. SITypeOK /\ Shape(p) BY DEF SIInv
<1>1. UNCHANGED <<minMsgNum, maxMsgNum, lastBackend, buffer, procPid, nextMsgNum, resetState, hasMessages,
                  total, complete, readShared>>
  BY PrivateShared DEF Shared
<1>2. /\ pc \in [Procs -> PCs] /\ frames \in [Procs -> Seq(Frames)] /\ nummsgs \in [Procs -> Nat]
      /\ messages \in [Procs -> Seq(Nat)]
  BY <1>0 DEF SITypeOK
<1>3. /\ slot' = slot /\ resets' = resets /\ signaled' = signaled
  BY DEF PrivateStep, SendSharedInvalidMessages, AcceptInvalidationMessages, Recurse, InsertLock, CleanupLock,
         SendProcSignal, FetchMax, InvalFunction, CallbackError, Fetch, FinishReceive, HandleCatchupInterrupt,
         procstate, history
<1>4. /\ writeLock' \in {writeLock, p} /\ procsignal' \in [Procs -> BOOLEAN]
      /\ catchupInterruptPending' \in [Procs -> BOOLEAN]
  BY <1>0 DEF PrivateStep, SendSharedInvalidMessages, AcceptInvalidationMessages, Recurse, InsertLock, CleanupLock,
         SendProcSignal, FetchMax, InvalFunction, CallbackError, Fetch, FinishReceive, HandleCatchupInterrupt, locks,
         SITypeOK
<1>5. left' \in [Procs -> Nat] /\ batch' \in [Procs -> Nat] /\ max' \in [Procs -> Nat]
  <2>0. left \in [Procs -> Nat] /\ batch \in [Procs -> Nat] /\ max \in [Procs -> Nat] /\ maxMsgNum \in Nat
    BY <1>0 DEF SITypeOK
  <2>1. CASE SendSharedInvalidMessages(p) BY <2>0, <2>1, SMTT(60) DEF SendSharedInvalidMessages, receivevars
  <2>2. CASE InsertLock(p) BY <2>0, <2>2, Constants, SMTT(60) DEF InsertLock, receivevars
  <2>3. CASE FetchMax(p) BY <2>0, <2>3 DEF FetchMax, insertvars
  <2>4. CASE ~(SendSharedInvalidMessages(p) \/ InsertLock(p) \/ FetchMax(p))
    <3>1. UNCHANGED <<left, batch, max>>
      BY <2>4, Zenon DEF PrivateStep, AcceptInvalidationMessages, Recurse, CleanupLock, SendProcSignal, InvalFunction,
                         CallbackError, Fetch, FinishReceive, HandleCatchupInterrupt, insertvars, receivevars
    <3> QED BY <2>0, <3>1
  <2> QED BY <2>1, <2>2, <2>3, <2>4
<1> DEFINE Goal == /\ pc' \in [Procs -> PCs] /\ frames' \in [Procs -> Seq(Frames)] /\ nummsgs' \in [Procs -> Nat]
                   /\ messages' \in [Procs -> Seq(Nat)] /\ seen' \in [Procs -> Nat]
<1>6. seen \in [Procs -> Nat] BY <1>0 DEF SITypeOK
<1>7. ASSUME SendSharedInvalidMessages(p) PROVE Goal
  BY <1>7, <1>2, <1>6 DEF SendSharedInvalidMessages, Goto, PCs, receivevars, history
<1>8. ASSUME AcceptInvalidationMessages(p) PROVE Goal
  <2>1. <<NewFrame>> \in Seq(Frames) BY <1>0, SMTT(60) DEF NewFrame, Frames, SITypeOK
  <2> QED BY <1>8, <2>1, <1>2, <1>6 DEF AcceptInvalidationMessages, Goto, PCs, history
<1>9. ASSUME Recurse(p) PROVE Goal
  <2>1. frames' \in [Procs -> Seq(Frames)] BY <1>9, <1>0, PushEffect DEF Recurse
  <2> QED BY <1>9, <2>1, <1>2, <1>6 DEF Recurse, Goto, PCs, history
<1>10. ASSUME InsertLock(p) PROVE Goal BY <1>10, <1>2, <1>6 DEF InsertLock, Goto, PCs, receivevars, history
<1>11. ASSUME CleanupLock(p) PROVE Goal BY <1>11, <1>2, <1>6 DEF CleanupLock, Goto, PCs, receivevars, history
<1>12. ASSUME SendProcSignal(p) PROVE Goal
  <2>1. messages' = messages /\ seen' = seen BY <1>12 DEF SendProcSignal, history
  <2>2. CASE callerHasWriteLock(p) BY <1>12, <2>1, <2>2, <1>2, <1>6 DEF SendProcSignal, Goto, PCs
  <2>3. CASE ~callerHasWriteLock(p)
    <3>1. ReceiveReturn(p) /\ frames[p] # <<>> BY <1>12, <2>3 DEF SendProcSignal, callerHasWriteLock
    <3> QED BY <3>1, <2>1, <1>0, <1>2, <1>6, ReturnEffect
  <2> QED BY <2>2, <2>3
<1>13. ASSUME FetchMax(p) PROVE Goal BY <1>13, <1>2, <1>6 DEF FetchMax, Goto, PCs, history
<1>14. ASSUME InvalFunction(p) PROVE Goal
  <2>1. messages[p] \in Seq(Nat) /\ messages[p] # <<>> BY <1>14, <1>2 DEF InvalFunction
  <2>2. Tail(messages[p]) \in Seq(Nat) /\ Head(messages[p]) \in Nat BY <2>1
  <2> QED BY <1>14, <2>2, <1>2, <1>6, SMTT(60) DEF InvalFunction, Goto, PCs
<1>15. ASSUME Fetch(p) PROVE Goal
  <2>1. frames[p] # <<>> BY <1>15, <1>0 DEF Fetch, Working, Shape
  <2>2. frames' \in [Procs -> Seq(Frames)] BY <1>15, <2>1, <1>0, PhaseEffect DEF Fetch
  <2> QED BY <1>15, <2>2, <1>2, <1>6 DEF Fetch, Goto, PCs, history
<1>16. ASSUME FinishReceive(p) PROVE Goal
  <2>1. messages' = messages /\ seen' = seen /\ frames[p] # <<>>
    BY <1>16, <1>0 DEF FinishReceive, CaughtUp, Working, Shape, history
  <2>2. CASE catchupInterruptPending[p] BY <1>16, <2>1, <2>2, <1>2, <1>6 DEF FinishReceive, Goto, PCs
  <2>3. CASE ~catchupInterruptPending[p]
    <3>1. ReceiveReturn(p) BY <1>16, <2>3 DEF FinishReceive
    <3> QED BY <3>1, <2>1, <1>0, <1>2, <1>6, ReturnEffect
  <2> QED BY <2>2, <2>3
<1>17. ASSUME HandleCatchupInterrupt(p) PROVE Goal
  BY <1>17, <1>2, <1>6 DEF HandleCatchupInterrupt, receivevars, history
<1>18. ASSUME CallbackError(p) PROVE Goal
  <2>1. <<>> \in Seq(Frames) OBVIOUS
  <2> QED BY <1>18, <2>1, <1>2, <1>6 DEF CallbackError, Goto, PCs, history
<1> HIDE DEF Goal
<1>19. Goal
  BY <1>7, <1>8, <1>9, <1>10, <1>11, <1>12, <1>13, <1>14, <1>15, <1>16, <1>17, <1>18, Zenon DEF PrivateStep
<1> QED BY <1>0, <1>1, <1>3, <1>4, <1>5, <1>19 DEF Goal, SITypeOK

\* A backend gets a slot that is not in use.
LEMMA InitEffect ==
    ASSUME SIInv, NEW p \in Procs, SharedInvalBackendInit(p)
    PROVE  \E s \in Slots :
               /\ procPid[s] = NULL /\ lastBackend' \in 0 .. maxBackends
               /\ lastBackend <= lastBackend' /\ s <= lastBackend'
               /\ slot' = [slot EXCEPT ![p] = s] /\ procPid' = [procPid EXCEPT ![s] = p]
               /\ nextMsgNum' = [nextMsgNum EXCEPT ![s] = maxMsgNum]
               /\ resetState' = [resetState EXCEPT ![s] = FALSE] /\ signaled' = [signaled EXCEPT ![s] = FALSE]
               /\ hasMessages' = [hasMessages EXCEPT ![s] = FALSE]
<1>1. FreeSlots \in SUBSET Nat /\ FreeSlots # {} BY SMTT(60) DEF FreeSlots, Slots, SharedInvalBackendInit
<1>2. PICK s : s = Min(FreeSlots) OBVIOUS
<1>3. s \in FreeSlots BY <1>1, <1>2, LeastNat, Zenon
<1>4. lastBackend \in 0 .. maxBackends BY DEF SIInv, SITypeOK
<1>5. s \in Slots /\ procPid[s] = NULL BY <1>3 DEF FreeSlots, Active
<1>6. /\ lastBackend' = IF s > lastBackend THEN s ELSE lastBackend
      /\ slot' = [slot EXCEPT ![p] = s] /\ procPid' = [procPid EXCEPT ![s] = p]
      /\ nextMsgNum' = [nextMsgNum EXCEPT ![s] = maxMsgNum]
      /\ resetState' = [resetState EXCEPT ![s] = FALSE] /\ signaled' = [signaled EXCEPT ![s] = FALSE]
      /\ hasMessages' = [hasMessages EXCEPT ![s] = FALSE]
  BY <1>2, Zenon DEF SharedInvalBackendInit
<1>7. lastBackend' \in 0 .. maxBackends /\ lastBackend <= lastBackend' /\ s <= lastBackend'
  BY <1>4, <1>5, <1>6 DEF Slots
<1> QED BY <1>5, <1>6, <1>7, Zenon

\* When one leaves, lastBackend stays an upper bound of the slots in use.
LEMMA ExitEffect ==
    ASSUME SIInv, NEW p \in Procs, CleanupInvalidationState(p)
    PROVE  /\ lastBackend' \in 0 .. lastBackend
           /\ \A t \in 1 .. lastBackend : procPid'[t] # NULL => t <= lastBackend'
<1> DEFINE T == {0} \cup {t \in 1 .. lastBackend : procPid'[t] # NULL}
<1>1. lastBackend \in Nat BY SMTT(60) DEF SIInv, SITypeOK
<1>2. T \in SUBSET (0 .. lastBackend) /\ T # {} BY <1>1, SMTT(60)
<1>3. lastBackend' = Max(T) BY DEF CleanupInvalidationState
<1> HIDE DEF T
<1>4. Max(T) \in T /\ \A n \in T : n <= Max(T) BY <1>1, <1>2, GreatestNat, Zenon
<1> QED BY <1>2, <1>3, <1>4 DEF T

\* The cleanup moves minMsgNum up to the first message somebody still needs, forces those
\* in reset state who are too far behind, and may decrement all counters by whole rings.
Cleaned(p, w) ==
    /\ w \in Nat /\ w % MAXNUMMESSAGES = 0
    /\ minMsgNum' \in Nat /\ minMsgNum <= minMsgNum' + w /\ minMsgNum' + w <= maxMsgNum
    /\ maxMsgNum' = maxMsgNum - w
    /\ \A s \in 1 .. lastBackend :
           /\ nextMsgNum'[s] = nextMsgNum[s] - w
           /\ resetState[s] => resetState'[s]
           /\ Active(s) /\ ~sendOnly(s) /\ ~resetState'[s] => minMsgNum' <= nextMsgNum'[s]
           /\ resetState'[s] /\ ~resetState[s] => s \in Readers /\ nextMsgNum[s] < maxMsgNum
    /\ nextMsgNum' \in [Slots -> Int] /\ resetState' \in [Slots -> BOOLEAN]

\* What SICleanupQueue does, in terms of how far the queue is cut.
LEMMA CleanEffect ==
    ASSUME SIInv, NEW p \in Procs, SICleanupQueue(p)
    PROVE  \E w : Cleaned(p, w)
<1> DEFINE kept == Readers \ TooLate(p)
           T == {maxMsgNum} \cup {nextMsgNum[s] : s \in kept}
           m == Min(T)
           w == Wrap(m)
<1>0. /\ SITypeOK /\ SlotInv /\ RingInv /\ maxMsgNum \in Nat /\ minMsgNum \in Nat /\ minMsgNum <= maxMsgNum
      /\ lastBackend \in 0 .. maxBackends /\ nextMsgNum \in [Slots -> Int] /\ resetState \in [Slots -> BOOLEAN]
  BY DEF SIInv, SITypeOK, RingInv
<1>1. ASSUME NEW s \in Readers
      PROVE  s \in Slots /\ nextMsgNum[s] \in Nat /\ minMsgNum <= nextMsgNum[s] /\ nextMsgNum[s] <= maxMsgNum
  <2>1. s \in Slots /\ s \in 1 .. lastBackend /\ Active(s) /\ ~resetState[s] /\ ~sendOnly(s)
    BY <1>0, <1>1, Constants, SMTT(60) DEF Readers, Slots
  <2>2. procPid[s] \in Procs /\ Living(procPid[s]) /\ slot[procPid[s]] = s
    BY <2>1, <1>0, SMTT(60) DEF SlotInv, SITypeOK, Active
  <2>3. Position(procPid[s]) /\ Receiver(procPid[s]) BY <2>1, <2>2 DEF SIInv, Receiver, sendOnly
  <2>4. minMsgNum <= nextMsgNum[s] /\ nextMsgNum[s] <= maxMsgNum BY <2>1, <2>2, <2>3 DEF Position
  <2>5. nextMsgNum[s] \in Int BY <1>0, <2>1
  <2> QED BY <1>0, <2>1, <2>4, <2>5
<1>2. T \in SUBSET Nat /\ T # {} /\ \A n \in T : minMsgNum <= n
  <2>1. kept \subseteq Readers OBVIOUS
  <2> HIDE DEF kept
  <2> QED BY <1>0, <1>1, <2>1
<1>3. m \in T /\ \A n \in T : m <= n
  <2> HIDE DEF T
  <2> QED BY <1>2, LeastNat, Zenon
<1>4. /\ m \in Nat /\ minMsgNum <= m /\ m <= maxMsgNum /\ \A s \in kept : m <= nextMsgNum[s]
  BY <1>2, <1>3
<1>5. w \in Nat /\ w <= m /\ w % MAXNUMMESSAGES = 0
  <2>1. 0 % MAXNUMMESSAGES = 0 BY Constants
  <2> HIDE DEF m
  <2> QED BY <1>4, <2>1, SInvalAssumption DEF Wrap
<1>6. /\ resetState' = [t \in Slots |-> resetState[t] \/ t \in TooLate(p)]
      /\ minMsgNum' = m - w /\ maxMsgNum' = maxMsgNum - w
      /\ nextMsgNum' = [t \in Slots |-> IF t <= lastBackend THEN nextMsgNum[t] - w ELSE nextMsgNum[t]]
  BY Zenon DEF SICleanupQueue
<1> HIDE DEF T, m, w
<1>8. LowBound(p) <= maxMsgNum /\ LowBound(p) \in Int
  <2>1. batch[p] \in Nat /\ batch[p] <= WRITE_QUANTUM BY <1>0 DEF SIInv, Shape, SITypeOK
  <2>2. minFree(p) \in Nat /\ minFree(p) <= MAXNUMMESSAGES BY <2>1, Constants DEF minFree
  <2> QED BY <2>2, <1>0, Constants, SMTT(60) DEF LowBound
<1>9. ASSUME NEW s \in 1 .. lastBackend
      PROVE  /\ nextMsgNum'[s] = nextMsgNum[s] - w
             /\ resetState[s] => resetState'[s]
             /\ Active(s) /\ ~sendOnly(s) /\ ~resetState'[s] => minMsgNum' <= nextMsgNum'[s]
             /\ resetState'[s] /\ ~resetState[s] => s \in Readers /\ nextMsgNum[s] < maxMsgNum
  <2>1. s \in Slots /\ s <= lastBackend /\ nextMsgNum[s] \in Int BY <1>0, <1>9, Constants, SMTT(60) DEF Slots
  <2>2. nextMsgNum'[s] = nextMsgNum[s] - w /\ resetState'[s] = (resetState[s] \/ s \in TooLate(p))
    BY <1>6, <2>1
  <2>3. ASSUME Active(s), ~sendOnly(s), ~resetState'[s] PROVE minMsgNum' <= nextMsgNum'[s]
    <3>1. s \in kept BY <2>2, <2>3, <1>9 DEF Readers
    <3>2. m <= nextMsgNum[s] BY <1>4, <3>1
    <3> QED BY <3>2, <2>1, <2>2, <1>4, <1>5, <1>6
  <2>4. ASSUME resetState'[s], ~resetState[s] PROVE s \in Readers /\ nextMsgNum[s] < maxMsgNum
    <3>1. s \in TooLate(p) BY <2>2, <2>4
    <3>2. s \in Readers /\ nextMsgNum[s] < LowBound(p) BY <3>1 DEF TooLate
    <3> QED BY <3>2, <2>1, <1>0, <1>8
  <2> QED BY <2>2, <2>3, <2>4
<1>10. nextMsgNum' \in [Slots -> Int] /\ resetState' \in [Slots -> BOOLEAN] BY <1>0, <1>5, <1>6, SMTT(60)
<1>11. minMsgNum' \in Nat /\ minMsgNum <= minMsgNum' + w /\ minMsgNum' + w <= maxMsgNum BY <1>0, <1>4, <1>5, <1>6
<1>12. Cleaned(p, w) BY <1>5, <1>6, <1>9, <1>10, <1>11, Zenon DEF Cleaned
<1> QED BY <1>12

\* The end of a cleanup: the caller goes on, or a signal is to be sent.
LEMMA CleanControl ==
    ASSUME SIInv, NEW p \in Procs, SICleanupQueue(p)
    PROVE  /\ pc' \in [Procs -> PCs] /\ frames' \in [Procs -> Seq(Frames)] /\ nummsgs' \in [Procs -> Nat]
           /\ \A q \in Procs \ {p} : pc'[q] = pc[q] /\ frames'[q] = frames[q] /\ nummsgs'[q] = nummsgs[q]
           /\ writeLock = p /\ writeLock' \in {p, NULL} /\ readShared = {} /\ signaled' \in [Slots -> BOOLEAN]
           /\ pc[p] \in {"room", "cleanup"} /\ (pc[p] = "room" <=> frames[p] = <<>>)
           /\ \/ pc'[p] = "signal" /\ frames'[p] = frames[p]
              \/ pc'[p] = "room" /\ frames[p] = <<>> /\ frames'[p] = <<>> /\ writeLock' = p
              \/ frames[p] # <<>> /\ ReceiveReturn(p)
<1>0. /\ SITypeOK /\ Shape(p) /\ pc \in [Procs -> PCs] /\ frames \in [Procs -> Seq(Frames)]
      /\ nummsgs \in [Procs -> Nat] /\ signaled \in [Slots -> BOOLEAN]
  BY DEF SIInv, SITypeOK
<1>1. /\ readShared = {} /\ pc[p] \in {"room", "cleanup"} BY DEF SICleanupQueue
<1>2. writeLock = p /\ (pc[p] = "room" <=> frames[p] = <<>>) BY <1>0, <1>1 DEF Shape
<1> DEFINE s == Furthest(Behind(p))
<1>3. \/ /\ signaled' = [signaled EXCEPT ![s] = TRUE] /\ writeLock' = NULL /\ Goto(p, "signal")
         /\ UNCHANGED <<frames, nummsgs>>
      \/ /\ writeLock' = (IF callerHasWriteLock(p) THEN p ELSE NULL) /\ Resume(p) /\ UNCHANGED signaled
  BY Zenon DEF SICleanupQueue
<1> HIDE DEF s
<1>4. CASE /\ signaled' = [signaled EXCEPT ![s] = TRUE] /\ writeLock' = NULL /\ Goto(p, "signal")
           /\ UNCHANGED <<frames, nummsgs>>
  BY <1>0, <1>1, <1>2, <1>4 DEF Goto, PCs
<1>5. CASE /\ writeLock' = (IF callerHasWriteLock(p) THEN p ELSE NULL) /\ Resume(p) /\ UNCHANGED signaled
  <2>1. CASE frames[p] = <<>>
    <3>1. writeLock' = p /\ Goto(p, "room") /\ UNCHANGED <<frames, nummsgs>>
      BY <1>5, <2>1 DEF Resume, callerHasWriteLock
    <3> QED BY <3>1, <1>0, <1>1, <1>2, <1>5, <2>1 DEF Goto, PCs
  <2>2. CASE frames[p] # <<>>
    <3>1. writeLock' = NULL /\ ReceiveReturn(p) BY <1>5, <2>2 DEF Resume, callerHasWriteLock
    <3>2. /\ pc' \in [Procs -> PCs] /\ frames' \in [Procs -> Seq(Frames)] /\ nummsgs' \in [Procs -> Nat]
          /\ \A q \in Procs \ {p} : pc'[q] = pc[q] /\ frames'[q] = frames[q] /\ nummsgs'[q] = nummsgs[q]
      BY <3>1, <2>2, <1>0, ReturnEffect
    <3> QED BY <3>1, <3>2, <1>0, <1>1, <1>2, <1>5, <2>2
  <2> QED BY <2>1, <2>2
<1> QED BY <1>3, <1>4, <1>5

\* What a call of SIGetDataEntries fetches: the messages that follow.
LEMMA ReadEffect ==
    ASSUME SIInv, NEW p \in Procs, pc[p] = "read", ReadEntries(p)
    PROVE  LET s == slot[p] IN
           \E n \in 0 .. MAXINVALMSGS :
               /\ s \in Slots /\ ~resetState[s] /\ messages' \in [Procs -> Seq(Nat)] /\ Len(messages'[p]) = n
               /\ \A i \in 1 .. n : messages'[p][i] = Place(nextMsgNum[s]) + i - 1
               /\ \A q \in Procs \ {p} : messages'[q] = messages[q] /\ nummsgs'[q] = nummsgs[q]
               /\ nummsgs' \in [Procs -> Nat] /\ nummsgs'[p] = n
               /\ nextMsgNum' = [nextMsgNum EXCEPT ![s] = nextMsgNum[s] + n]
               /\ nextMsgNum[s] \in Nat /\ nextMsgNum[s] + n <= max[p]
               /\ n # MAXINVALMSGS => nextMsgNum[s] + n = max[p]
               /\ hasMessages' = [hasMessages EXCEPT ![s] = @ \/ nextMsgNum[s] + n < max[p]]
               /\ signaled' \in [Slots -> BOOLEAN] /\ UNCHANGED <<resetState, frames, seen, resets>>
<1>0. /\ SITypeOK /\ SlotInv /\ RingInv /\ Shape(p) /\ Position(p) /\ ReadInv(p) BY DEF SIInv
<1> DEFINE s == slot[p]
           x == nextMsgNum[s]
           avail == max[p] - nextMsgNum[s]
           n == IF avail < MAXINVALMSGS THEN avail ELSE MAXINVALMSGS
           f == [i \in 1 .. n |-> buffer[(nextMsgNum[s] + i - 1) % MAXNUMMESSAGES]]
<1>1. frames[p] # <<>> /\ p \notin SendOnly /\ Receiver(p) BY <1>0 DEF Shape, Receiver, Living
<1>2. s \in 1 .. lastBackend /\ s \in Slots /\ ~resetState[s]
  BY <1>0, <1>1, SMTT(60) DEF SlotInv, Receiver, SITypeOK, Slots, ReadEntries, MustReset
<1>3. /\ minMsgNum <= x /\ x <= maxMsgNum /\ max[p] \in minMsgNum .. maxMsgNum /\ x <= max[p]
      /\ x \in Int /\ minMsgNum \in Nat /\ maxMsgNum \in Nat /\ max[p] \in Nat /\ total \in Nat /\ maxMsgNum <= total
  BY <1>0, <1>1, <1>2 DEF Position, ReadInv, SITypeOK, RingInv
<1>4. x \in Nat /\ n \in 0 .. MAXINVALMSGS /\ x + n <= max[p] /\ (n # MAXINVALMSGS => x + n = max[p])
  BY <1>3, Constants
<1>5. /\ messages' = [messages EXCEPT ![p] = f] /\ nummsgs' = [nummsgs EXCEPT ![p] = n]
      /\ nextMsgNum' = [nextMsgNum EXCEPT ![s] = x + n]
      /\ hasMessages' = [hasMessages EXCEPT ![s] = @ \/ x + n < max[p]]
      /\ signaled' = [signaled EXCEPT ![s] = @ /\ ~IsCaughtUp(p, x + n)]
      /\ UNCHANGED <<resetState, frames, seen, resets>>
  BY Zenon DEF ReadEntries, HasMore
<1>6. /\ messages \in [Procs -> Seq(Nat)] /\ nummsgs \in [Procs -> Nat] /\ signaled \in [Slots -> BOOLEAN]
      /\ buffer \in [0 .. MAXNUMMESSAGES - 1 -> Nat]
  BY <1>0 DEF SITypeOK
<1>7. ASSUME NEW i \in 1 .. n
      PROVE  /\ f[i] = Place(x) + i - 1 /\ f[i] \in Nat
  <2>1. f[i] = buffer[(x + i - 1) % MAXNUMMESSAGES] BY <1>7
  <2> HIDE DEF f, n, x
  <2>2. x + i - 1 \in minMsgNum .. maxMsgNum - 1 BY <1>3, <1>4, <1>7
  <2>3. buffer[(x + i - 1) % MAXNUMMESSAGES] = Place(x + i - 1) BY <2>2, <1>0 DEF RingInv
  <2>4. Place(x + i - 1) = Place(x) + i - 1 /\ Place(x) + i - 1 \in Nat BY <2>2, <1>3, <1>4 DEF Place
  <2> QED BY <2>1, <2>3, <2>4
<1> HIDE DEF n, x
<1>8. f \in [1 .. n -> Nat] BY <1>7
<1>9. f \in Seq(Nat) /\ Len(f) = n
  <2> HIDE DEF f
  <2> QED BY <1>4, <1>8
<1> HIDE DEF f
<1>10. /\ messages' \in [Procs -> Seq(Nat)] /\ messages'[p] = f
       /\ \A q \in Procs \ {p} : messages'[q] = messages[q]
  BY <1>5, <1>6, <1>9
<1>11. /\ nummsgs' \in [Procs -> Nat] /\ nummsgs'[p] = n /\ \A q \in Procs \ {p} : nummsgs'[q] = nummsgs[q]
  BY <1>4, <1>5, <1>6, SMTT(60)
<1>12. signaled' \in [Slots -> BOOLEAN] BY <1>5, <1>6
<1>13. Len(messages'[p]) = n /\ \A i \in 1 .. n : messages'[p][i] = Place(x) + i - 1 BY <1>7, <1>9, <1>10
<1> QED BY <1>2, <1>4, <1>5, <1>10, <1>11, <1>12, <1>13, Zenon DEF x

\* What a reset does.
LEMMA ResetEffect ==
    ASSUME SIInv, NEW p \in Procs, pc[p] = "read", ForceReset(p)
    PROVE  LET s == slot[p] IN
           /\ s \in Slots /\ resetState[s] /\ max[p] \in minMsgNum .. maxMsgNum
           /\ nextMsgNum' = [nextMsgNum EXCEPT ![s] = max[p]] /\ resetState' = [resetState EXCEPT ![s] = FALSE]
           /\ signaled' = [signaled EXCEPT ![s] = FALSE] /\ UNCHANGED <<hasMessages, messages, nummsgs>>
           /\ Place(max[p]) \in Nat /\ seen' = [seen EXCEPT ![p] = Place(max[p])]
           /\ resets' = [resets EXCEPT ![p] = @ + 1]
           /\ frames' \in [Procs -> Seq(Frames)] /\ \A q \in Procs \ {p} : frames'[q] = frames[q]
           /\ Len(frames'[p]) = Len(frames[p]) /\ Len(frames[p]) \in Nat \ {0}
           /\ \A i \in 1 .. Len(frames[p]) : frames'[p][i].due = frames[p][i].due
           /\ Top(p)'.phase = "reset" /\ Top(p)'.due = Top(p).due
<1>0. /\ SITypeOK /\ SlotInv /\ RingInv /\ Shape(p) /\ ReadInv(p) BY DEF SIInv
<1>1. frames[p] # <<>> /\ Living(p) BY <1>0 DEF Shape, Living
<1>2. slot[p] \in Slots BY <1>0, <1>1, SMTT(60) DEF SlotInv, SITypeOK, Slots
<1>6. /\ max[p] \in minMsgNum .. maxMsgNum /\ maxMsgNum <= total
      /\ minMsgNum \in Nat /\ maxMsgNum \in Nat /\ total \in Nat
  BY <1>0 DEF ReadInv, RingInv, SITypeOK
<1>3. Place(max[p]) \in Nat BY <1>6 DEF Place
<1>4. SetPhase(p, "reset") BY DEF ForceReset
<1>5. /\ frames' \in [Procs -> Seq(Frames)] /\ \A q \in Procs \ {p} : frames'[q] = frames[q]
      /\ Len(frames'[p]) = Len(frames[p]) /\ Len(frames[p]) \in Nat \ {0}
      /\ \A i \in 1 .. Len(frames[p]) : frames'[p][i].due = frames[p][i].due
      /\ Top(p)'.phase = "reset" /\ Top(p)'.due = Top(p).due
  BY <1>0, <1>1, <1>4, PhaseEffect
<1> QED BY <1>2, <1>3, <1>5, <1>6, Zenon DEF ForceReset, MustReset

\* Types: the steps that change what is shared.
LEMMA InsertTypes ==
    ASSUME SIInv, NEW p \in Procs, InsertWrite(p) \/ InsertPublish(p) \/ InsertFlag(p) \/ ReadLock(p)
    PROVE  SITypeOK'
<1>0. SITypeOK /\ RingInv BY DEF SIInv
<1> USE DEF SITypeOK, Goto, PCs, seg, procstate, locks, insertvars, receivevars, history
<1>1. CASE InsertWrite(p)
  <2> DEFINE Index(j) == (maxMsgNum + j) % MAXNUMMESSAGES
             v(i) == IF \E j \in 0 .. batch[p] - 1 : i = Index(j)
                       THEN total + (CHOOSE j \in 0 .. batch[p] - 1 : i = Index(j)) ELSE buffer[i]
  <2>1. buffer' = [i \in DOMAIN buffer |-> v(i)] BY <1>1 DEF InsertWrite
  <2>2. ASSUME NEW i \in 0 .. MAXNUMMESSAGES - 1 PROVE v(i) \in Nat
    <3>1. CASE \E j \in 0 .. batch[p] - 1 : i = Index(j)
      <4>1. (CHOOSE j \in 0 .. batch[p] - 1 : i = Index(j)) \in 0 .. batch[p] - 1 BY <3>1
      <4>2. total \in Nat /\ batch[p] \in Nat BY <1>0
      <4> HIDE DEF Index
      <4> QED BY <3>1, <4>1, <4>2
    <3>2. CASE ~\E j \in 0 .. batch[p] - 1 : i = Index(j)
      <4> HIDE DEF Index
      <4> QED BY <3>2, <1>0, <2>2
    <3> QED BY <3>1, <3>2
  <2> HIDE DEF v
  <2>3. buffer' \in [0 .. MAXNUMMESSAGES - 1 -> Nat] BY <2>1, <2>2, <1>0
  <2>4. UNCHANGED <<seg, procstate, locks, slot, insertvars, receivevars, procsignal, catchupInterruptPending, history>>
        /\ pc' = [pc EXCEPT ![p] = "publish"]
    BY <1>1 DEF InsertWrite
  <2> QED BY <2>3, <2>4, <1>0
<1>2. CASE InsertPublish(p)
  <2>1. maxMsgNum' = maxMsgNum + batch[p] /\ total' = total + batch[p] /\ pc' = [pc EXCEPT ![p] = "flag"]
        /\ UNCHANGED <<minMsgNum, lastBackend, buffer, procstate, locks, slot, insertvars,
                       receivevars, procsignal, catchupInterruptPending, complete, seen, resets>>
    BY <1>2 DEF InsertPublish
  <2>2. batch[p] \in Nat /\ maxMsgNum \in Nat /\ total \in Nat BY <1>0
  <2>5. maxMsgNum' = maxMsgNum + batch[p] /\ total' = total + batch[p] BY <2>1
  <2>3. maxMsgNum' \in Nat /\ total' \in Nat BY <2>2, <2>5
  <2>4. pc' \in [Procs -> PCs] BY <1>0, <2>1
  <2> QED BY <2>1, <2>3, <2>4, <1>0
<1>3. CASE InsertFlag(p) BY <1>3, <1>0 DEF InsertFlag
<1>4. CASE ReadLock(p) BY <1>4, <1>0 DEF ReadLock
<1> QED BY <1>1, <1>2, <1>3, <1>4

\* Starting and ending as a receiver keeps the types.
LEMMA LifeTypes ==
    ASSUME SIInv, NEW p \in Procs, SharedInvalBackendInit(p) \/ CleanupInvalidationState(p)
    PROVE  SITypeOK'
<1>0. SITypeOK BY DEF SIInv
<1>1. CASE SharedInvalBackendInit(p)
  <2>1. PICK s \in Slots :
               /\ lastBackend' \in 0 .. maxBackends
               /\ slot' = [slot EXCEPT ![p] = s] /\ procPid' = [procPid EXCEPT ![s] = p]
               /\ nextMsgNum' = [nextMsgNum EXCEPT ![s] = maxMsgNum]
               /\ resetState' = [resetState EXCEPT ![s] = FALSE] /\ signaled' = [signaled EXCEPT ![s] = FALSE]
               /\ hasMessages' = [hasMessages EXCEPT ![s] = FALSE]
    BY <1>1, InitEffect, Zenon
  <2>2. /\ UNCHANGED <<minMsgNum, maxMsgNum, buffer, locks, insertvars, receivevars, procsignal,
                       catchupInterruptPending, total, complete, resets>>
        /\ pc' = [pc EXCEPT ![p] = "out"] /\ seen' = [seen EXCEPT ![p] = total]
    BY <1>1 DEF SharedInvalBackendInit, Goto
  <2>3. slot' \in [Procs -> 0 .. maxBackends] BY <2>1, <1>0, SMTT(60) DEF Slots, SITypeOK
  <2>4. /\ procPid' \in [Slots -> Procs \cup {NULL}] /\ resetState' \in [Slots -> BOOLEAN]
        /\ signaled' \in [Slots -> BOOLEAN] /\ hasMessages' \in [Slots -> BOOLEAN]
    BY <2>1, <1>0 DEF SITypeOK
  <2>5. nextMsgNum' \in [Slots -> Int] BY <2>1, <1>0, SMTT(60) DEF SITypeOK
  <2>6. pc' \in [Procs -> PCs] /\ seen' \in [Procs -> Nat] BY <2>2, <1>0 DEF SITypeOK, PCs
  <2> QED BY <2>1, <2>2, <2>3, <2>4, <2>5, <2>6, <1>0, Zenon DEF SITypeOK, locks, insertvars, receivevars
<1>2. CASE CleanupInvalidationState(p)
  <2>1. lastBackend' \in 0 .. lastBackend BY <1>2, ExitEffect
  <2>2. /\ UNCHANGED <<minMsgNum, maxMsgNum, buffer, hasMessages, locks, slot, insertvars, max, frames, nummsgs, total,
                       complete>>
        /\ messages' = [messages EXCEPT ![p] = <<>>]
        /\ pc' = [pc EXCEPT ![p] = "gone"] /\ seen' = [seen EXCEPT ![p] = 0] /\ resets' = [resets EXCEPT ![p] = 0]
        /\ procPid' = [procPid EXCEPT ![slot[p]] = NULL] /\ nextMsgNum' = [nextMsgNum EXCEPT ![slot[p]] = 0]
        /\ resetState' = [resetState EXCEPT ![slot[p]] = FALSE] /\ signaled' = [signaled EXCEPT ![slot[p]] = FALSE]
        /\ procsignal' = [procsignal EXCEPT ![p] = FALSE]
        /\ catchupInterruptPending' = [catchupInterruptPending EXCEPT ![p] = FALSE]
    BY <1>2, Zenon DEF CleanupInvalidationState, Goto
  <2>3. lastBackend' \in 0 .. maxBackends BY <2>1, <1>0, Constants, SMTT(60) DEF SITypeOK
  <2>6. /\ procPid \in [Slots -> Procs \cup {NULL}] /\ resetState \in [Slots -> BOOLEAN]
        /\ signaled \in [Slots -> BOOLEAN] /\ nextMsgNum \in [Slots -> Int]
    BY <1>0 DEF SITypeOK
  <2>4. /\ procPid' \in [Slots -> Procs \cup {NULL}] /\ resetState' \in [Slots -> BOOLEAN]
        /\ signaled' \in [Slots -> BOOLEAN]
    BY <2>2, <2>6
  <2>9. 0 \in Int OBVIOUS
  <2>7. PICK z \in Int : nextMsgNum' = [nextMsgNum EXCEPT ![slot[p]] = z] BY <2>2, <2>9, Zenon
  <2>8. nextMsgNum' \in [Slots -> Int] BY <2>6, <2>7
  <2>5. /\ pc' \in [Procs -> PCs] /\ seen' \in [Procs -> Nat] /\ resets' \in [Procs -> Nat]
        /\ procsignal' \in [Procs -> BOOLEAN] /\ catchupInterruptPending' \in [Procs -> BOOLEAN]
    BY <2>2, <1>0 DEF SITypeOK, PCs
  <2>10. messages' \in [Procs -> Seq(Nat)] BY <2>2, <1>0 DEF SITypeOK
  <2> QED BY <2>2, <2>3, <2>4, <2>5, <2>8, <2>10, <1>0, Zenon DEF SITypeOK, locks, insertvars
<1> QED BY <1>1, <1>2

\* Cleaning the queue and reading from it keep the types.
LEMMA QueueTypes ==
    ASSUME SIInv, NEW p \in Procs, SICleanupQueue(p) \/ SIGetDataEntries(p)
    PROVE  SITypeOK'
<1>0. SITypeOK /\ Shape(p) BY DEF SIInv
<1>1. CASE SICleanupQueue(p)
  <2>1. PICK w : Cleaned(p, w) BY <1>1, CleanEffect
  <2>2. /\ minMsgNum' \in Nat /\ maxMsgNum' \in Nat /\ nextMsgNum' \in [Slots -> Int]
        /\ resetState' \in [Slots -> BOOLEAN]
    <3>4. w \in Nat /\ minMsgNum' \in Nat /\ minMsgNum' + w <= maxMsgNum /\ maxMsgNum' = maxMsgNum - w
      BY <2>1, Zenon DEF Cleaned
    <3>1. minMsgNum' \in Nat /\ nextMsgNum' \in [Slots -> Int] /\ resetState' \in [Slots -> BOOLEAN]
      BY <2>1, Zenon DEF Cleaned
    <3>2. maxMsgNum \in Nat BY <1>0 DEF SITypeOK
    <3>5. maxMsgNum - w \in Nat BY <3>4, <3>2, SubNat
    <3>3. maxMsgNum' \in Nat BY <3>4, <3>5, Zenon
    <3> QED BY <3>1, <3>3
  <2>3. /\ pc' \in [Procs -> PCs] /\ frames' \in [Procs -> Seq(Frames)] /\ nummsgs' \in [Procs -> Nat]
        /\ writeLock' \in {p, NULL} /\ signaled' \in [Slots -> BOOLEAN]
    BY <1>1, CleanControl
  <2>4. UNCHANGED <<lastBackend, buffer, procPid, hasMessages, readShared, slot, insertvars, max, messages, procsignal,
                    catchupInterruptPending, history>>
    BY <1>1, Zenon DEF SICleanupQueue
  <2> QED BY <2>2, <2>3, <2>4, <1>0 DEF SITypeOK, insertvars, history
<1>2. CASE SIGetDataEntries(p)
  <2>1. /\ pc[p] = "read" /\ readShared' = readShared \ {p} /\ max' = [max EXCEPT ![p] = 0]
        /\ UNCHANGED <<seg, buffer, procPid, writeLock, slot, insertvars, procsignal, catchupInterruptPending,
                       total, complete>>
    BY <1>2, Zenon DEF SIGetDataEntries
  <2>2. pc' \in [Procs -> PCs] BY <1>2, <1>0 DEF SIGetDataEntries, Goto, PCs, SITypeOK
  <2>3. CASE ForceReset(p)
    <3>1. /\ slot[p] \in Slots /\ max[p] \in minMsgNum .. maxMsgNum
          /\ nextMsgNum' = [nextMsgNum EXCEPT ![slot[p]] = max[p]]
          /\ resetState' = [resetState EXCEPT ![slot[p]] = FALSE]
          /\ signaled' = [signaled EXCEPT ![slot[p]] = FALSE] /\ UNCHANGED <<hasMessages, messages, nummsgs>>
          /\ Place(max[p]) \in Nat /\ seen' = [seen EXCEPT ![p] = Place(max[p])]
          /\ resets' = [resets EXCEPT ![p] = @ + 1] /\ frames' \in [Procs -> Seq(Frames)]
      BY <2>1, <2>3, ResetEffect
    <3>5. nextMsgNum \in [Slots -> Int] /\ max \in [Procs -> Nat] /\ max[p] \in Int BY <1>0, SMTT(60) DEF SITypeOK
    <3>6. nextMsgNum' = [nextMsgNum EXCEPT ![slot[p]] = max[p]] /\ max' = [max EXCEPT ![p] = 0] BY <2>1, <3>1
    <3>2. nextMsgNum' \in [Slots -> Int] /\ max' \in [Procs -> Nat] BY <3>5, <3>6
    <3>3. resetState' \in [Slots -> BOOLEAN] /\ signaled' \in [Slots -> BOOLEAN] BY <3>1, <1>0 DEF SITypeOK
    <3>7. seen \in [Procs -> Nat] /\ resets \in [Procs -> Nat] /\ readShared \subseteq Procs BY <1>0 DEF SITypeOK
    <3>8. seen' = [seen EXCEPT ![p] = Place(max[p])] /\ Place(max[p]) \in Nat BY <3>1
    <3>9. resets' = [resets EXCEPT ![p] = @ + 1] BY <3>1
    <3>10. seen' \in [Procs -> Nat] BY <3>7, <3>8
    <3>11. resets' \in [Procs -> Nat] BY <3>7, <3>9, SMTT(60)
    <3>4. seen' \in [Procs -> Nat] /\ resets' \in [Procs -> Nat] /\ readShared' \subseteq Procs
      BY <3>7, <3>10, <3>11, <2>1
    <3> QED BY <3>1, <3>2, <3>3, <3>4, <2>1, <2>2, <1>0, Zenon DEF SITypeOK, seg, insertvars
  <2>4. CASE ReadEntries(p)
    <3>1. PICK n \in 0 .. MAXINVALMSGS :
              /\ slot[p] \in Slots /\ messages' \in [Procs -> Seq(Nat)] /\ nummsgs' \in [Procs -> Nat]
              /\ nextMsgNum' = [nextMsgNum EXCEPT ![slot[p]] = nextMsgNum[slot[p]] + n]
              /\ hasMessages' = [hasMessages EXCEPT ![slot[p]] = @ \/ nextMsgNum[slot[p]] + n < max[p]]
              /\ signaled' \in [Slots -> BOOLEAN] /\ UNCHANGED <<resetState, frames, seen, resets>>
      BY <2>1, <2>4, ReadEffect, Zenon
    <3>5. nextMsgNum \in [Slots -> Int] /\ max \in [Procs -> Nat] BY <1>0 DEF SITypeOK
    <3>6. /\ nextMsgNum' = [nextMsgNum EXCEPT ![slot[p]] = nextMsgNum[slot[p]] + n] /\ max' = [max EXCEPT ![p] = 0]
          /\ slot[p] \in Slots
      BY <2>1, <3>1
    <3>7. nextMsgNum[slot[p]] + n \in Int BY <3>5, <3>6
    <3>2. nextMsgNum' \in [Slots -> Int] /\ max' \in [Procs -> Nat] BY <3>5, <3>6, <3>7
    <3>3. hasMessages' \in [Slots -> BOOLEAN] BY <3>1, <1>0 DEF SITypeOK
    <3>4. readShared' \subseteq Procs BY <2>1, <1>0 DEF SITypeOK
    <3> QED BY <3>1, <3>2, <3>3, <3>4, <2>1, <2>2, <1>0, Zenon DEF SITypeOK, seg, insertvars
  <2> QED BY <1>2, <2>3, <2>4 DEF SIGetDataEntries
<1> QED BY <1>1, <1>2
----------------------------------------------------------------------------
(* What a step leaves alone *)

\* The counters, and what stands in the slot of q.
Counters == UNCHANGED <<minMsgNum, maxMsgNum, total, complete>>
At(q) == LET s == slot[q] IN
         nextMsgNum'[s] = nextMsgNum[s] /\ resetState'[s] = resetState[s] /\ hasMessages'[s] = hasMessages[s]

\* The locks, as q sees them.
Locks(q) == (q \in readShared' <=> q \in readShared) /\ (writeLock = q => writeLock' = q)

\* A position is kept when neither the counters nor the slot change.
LEMMA PositionKeep ==
    ASSUME NEW q \in Procs, Position(q), Counters, Living(q) => At(q), slot'[q] = slot[q],
           Living(q)' => Living(q), seen'[q] + Len(messages'[q]) = seen[q] + Len(messages[q]),
           q \in readShared => q \in readShared'
    PROVE  Position(q)'
<1>1. SUFFICES ASSUME Receiver(q)' PROVE Position(q)' BY Zenon DEF Position
<1>2. Receiver(q) /\ Living(q) BY <1>1 DEF Receiver
<1>3. PICK s : s = slot[q] /\ s = slot'[q] OBVIOUS
<1>4. /\ nextMsgNum'[s] = nextMsgNum[s] /\ resetState'[s] = resetState[s] /\ hasMessages'[s] = hasMessages[s]
  BY <1>2, <1>3, Zenon DEF At
<1>6. PICK x : x = nextMsgNum[s] OBVIOUS
<1>7. Place(nextMsgNum[s])' = Place(x) BY <1>3, <1>4, <1>6 DEF Place, Counters
<1>8. /\ ~resetState[s] => /\ minMsgNum <= x /\ x <= maxMsgNum
                           /\ seen[q] + Len(messages[q]) = Place(x)
      /\ resetState[s] => seen[q] + Len(messages[q]) < total
      /\ resetState[s] \/ Place(x) < complete => hasMessages[s] \/ q \in readShared
  BY <1>2, <1>3, <1>6, Zenon DEF Position
<1>9. minMsgNum' = minMsgNum /\ maxMsgNum' = maxMsgNum /\ total' = total /\ complete' = complete BY DEF Counters
<1> QED BY <1>3, <1>4, <1>6, <1>7, <1>8, <1>9, Zenon DEF Position

\* So is what a reader relies on.
LEMMA ReadKeep ==
    ASSUME NEW q \in Procs, ReadInv(q), Same(q), Counters, Living(q) => At(q)
    PROVE  ReadInv(q)'
<1>1. SUFFICES ASSUME pc'[q] = "read" PROVE ReadInv(q)' BY Zenon DEF ReadInv
<1>2. pc[q] = "read" /\ Living(q) BY <1>1 DEF Same, Living
<1>3. PICK s : s = slot[q] /\ s = slot'[q] BY DEF Same
<1>4. /\ nextMsgNum'[s] = nextMsgNum[s] /\ resetState'[s] = resetState[s] /\ hasMessages'[s] = hasMessages[s]
  BY <1>2, <1>3, Zenon DEF At
<1>5. max'[q] = max[q] /\ seen'[q] = seen[q] /\ Top(q)' = Top(q) BY DEF Same, Top
<1>6. Place(max[q])' = Place(max[q]) BY <1>5 DEF Place, Counters
<1>7. minMsgNum' = minMsgNum /\ maxMsgNum' = maxMsgNum /\ total' = total /\ complete' = complete BY DEF Counters
<1>8. /\ max[q] \in minMsgNum .. maxMsgNum
      /\ ~resetState[s] => nextMsgNum[s] <= max[q]
      /\ resetState[s] => seen[q] < Place(max[q])
      /\ Place(max[q]) >= complete \/ hasMessages[s]
      /\ Place(max[q]) >= Top(q).due
  BY <1>2, <1>3, Zenon DEF ReadInv
<1> QED BY <1>3, <1>4, <1>5, <1>6, <1>7, <1>8, Zenon DEF ReadInv

\* What belongs to q stays in order when others move.
LEMMA OtherKeep ==
    ASSUME SIInv, NEW q \in Procs, Same(q), Locks(q), complete' \in Nat, complete <= complete'
    PROVE  Shape(q)' /\ Fetched(q)' /\ Calling(q)'
<1>0. Shape(q) /\ Fetched(q) /\ Calling(q) BY DEF SIInv
<1>1. Shape(q)' BY <1>0, Zenon DEF Shape, Same, Locks
<1>2. Fetched(q)' BY <1>0, Zenon DEF Fetched, Same
<1>3. frames[q] \in Seq(Frames) /\ complete \in Nat BY DEF SIInv, SITypeOK
<1>4. PICK k \in Nat : k = Len(frames[q]) BY <1>3
<1>10. \A i \in 1 .. k : frames[q][i] \in Frames BY <1>3, <1>4
<1>5. \A i \in 1 .. k : frames[q][i].due \in Nat BY <1>10 DEF Frames
<1>6. \A i \in 1 .. k : frames[q][i].due <= complete BY <1>0, <1>4 DEF Calling
<1>7. \A i \in 1 .. k : frames[q][i].due <= complete' BY <1>3, <1>5, <1>6
<1>8. Top(q)' = Top(q) /\ frames'[q] = frames[q] BY DEF Top, Same
<1>9. Calling(q)'
  <2>1. /\ \A i \in 1 .. k : \A j \in i .. k : frames[q][i].due <= frames[q][j].due
        /\ pc[q] \in {"work", "callback"} =>
               /\ Top(q).phase = "reset" => seen[q] >= Top(q).due
               /\ Top(q).phase = "fetched" /\ nummsgs[q] # MAXINVALMSGS =>
                      seen[q] + Len(messages[q]) >= Top(q).due
        /\ pc[q] \in {"lock", "max", "read"} => Top(q).phase = "fetched"
        /\ pc[q] \in {"clean", "cleanup"} \/ (pc[q] = "signal" /\ frames[q] # <<>>) => seen[q] >= Top(q).due
    BY <1>0, <1>4, Zenon DEF Calling
  <2>2. /\ pc'[q] = pc[q] /\ messages'[q] = messages[q] /\ nummsgs'[q] = nummsgs[q] /\ seen'[q] = seen[q]
    BY DEF Same
  <2> QED BY <2>1, <2>2, <1>4, <1>7, <1>8, Zenon DEF Calling
<1> QED BY <1>1, <1>2, <1>9

\* Slots are kept when nobody comes or goes.
LEMMA SlotKeep ==
    ASSUME SlotInv, UNCHANGED <<slot, procPid, lastBackend>>, \A q \in Procs : Living(q)' <=> Living(q),
           procPid \in [Slots -> Procs \cup {NULL}]
    PROVE  SlotInv'
<1>1. \A s \in Slots : Active(s) => procPid[s] \in Procs BY DEF Active
<1>2. \A s \in Slots : Active(s)' <=> Active(s) BY DEF Active
<1> QED BY <1>1, <1>2, Zenon DEF SlotInv

\* The ring is kept when the counters and the buffer are.
LEMMA RingKeep ==
    ASSUME RingInv, Counters, buffer' = buffer,
           \A q \in Procs : /\ pc'[q] = "flag" <=> pc[q] = "flag"
                            /\ pc'[q] = "publish" => pc[q] = "publish" /\ batch'[q] = batch[q]
    PROVE  RingInv'
<1>1. minMsgNum' = minMsgNum /\ maxMsgNum' = maxMsgNum /\ total' = total /\ complete' = complete BY DEF Counters
<1>2. \A n : Place(n)' = Place(n) BY <1>1 DEF Place
<1> QED BY <1>1, <1>2, Zenon DEF RingInv

\* A step of p leaves what belongs to the others alone.
LEMMA PrivateOthers == ASSUME SIInv, NEW p \in Procs, PrivateStep(p) PROVE Others(p) /\ \A q \in Procs \ {p} : Locks(q)
<1>0. SITypeOK /\ Shape(p) BY DEF SIInv
<1>1. /\ pc \in [Procs -> PCs] /\ frames \in [Procs -> Seq(Frames)] /\ nummsgs \in [Procs -> Nat]
      /\ messages \in [Procs -> Seq(Nat)] /\ seen \in [Procs -> Nat] /\ left \in [Procs -> Nat]
      /\ batch \in [Procs -> Nat] /\ max \in [Procs -> Nat] /\ writeLock \in Procs \cup {NULL}
  BY <1>0 DEF SITypeOK
<1>2. SUFFICES ASSUME NEW q \in Procs \ {p} PROVE Same(q) /\ Locks(q) BY Zenon DEF Others
<1>3. readShared' = readShared BY PrivateShared
<1> USE DEF Same, Locks, Goto, locks, insertvars, receivevars, history
<1>4. ASSUME SendSharedInvalidMessages(p) PROVE Same(q) /\ Locks(q) BY <1>4, <1>1, <1>3 DEF SendSharedInvalidMessages
<1>5. ASSUME AcceptInvalidationMessages(p) PROVE Same(q) /\ Locks(q)
  BY <1>5, <1>1, <1>3 DEF AcceptInvalidationMessages
<1>6. ASSUME Recurse(p) PROVE Same(q) /\ Locks(q) BY <1>6, <1>1, <1>3 DEF Recurse
<1>7. ASSUME InsertLock(p) PROVE Same(q) /\ Locks(q) BY <1>7, <1>1, <1>3, Constants DEF InsertLock
<1>8. ASSUME CleanupLock(p) PROVE Same(q) /\ Locks(q) BY <1>8, <1>1, <1>3, Constants DEF CleanupLock
<1>9. ASSUME SendProcSignal(p) PROVE Same(q) /\ Locks(q)
  <2>1. UNCHANGED <<locks, slot, insertvars, max, messages, history>> BY <1>9 DEF SendProcSignal
  <2>2. CASE callerHasWriteLock(p)
    <3>1. Goto(p, "relock") /\ UNCHANGED <<frames, nummsgs>> BY <1>9, <2>2 DEF SendProcSignal
    <3> QED BY <3>1, <2>1, <1>1, <1>3
  <2>3. CASE ~callerHasWriteLock(p)
    <3>1. ReceiveReturn(p) /\ frames[p] # <<>> BY <1>9, <2>3 DEF SendProcSignal, callerHasWriteLock
    <3>2. pc'[q] = pc[q] /\ frames'[q] = frames[q] /\ nummsgs'[q] = nummsgs[q] BY <3>1, <1>0, ReturnEffect
    <3> QED BY <3>2, <2>1, <1>3
  <2> QED BY <2>2, <2>3
<1>10. ASSUME FetchMax(p) PROVE Same(q) /\ Locks(q) BY <1>10, <1>1, <1>3 DEF FetchMax
<1>11. ASSUME InvalFunction(p) PROVE Same(q) /\ Locks(q) BY <1>11, <1>1, <1>3 DEF InvalFunction
<1>12. ASSUME Fetch(p) PROVE Same(q) /\ Locks(q) BY <1>12, <1>1, <1>3 DEF Fetch, SetPhase
<1>13. ASSUME FinishReceive(p) PROVE Same(q) /\ Locks(q)
  <2>1. UNCHANGED <<locks, slot, insertvars, max, messages, history>> /\ frames[p] # <<>>
    BY <1>13, <1>0 DEF FinishReceive, CaughtUp, Working, Shape
  <2>2. CASE catchupInterruptPending[p]
    <3>1. Goto(p, "clean") /\ UNCHANGED <<frames, nummsgs>> BY <1>13, <2>2 DEF FinishReceive
    <3> QED BY <3>1, <2>1, <1>1, <1>3
  <2>3. CASE ~catchupInterruptPending[p]
    <3>1. ReceiveReturn(p) BY <1>13, <2>3 DEF FinishReceive
    <3>2. pc'[q] = pc[q] /\ frames'[q] = frames[q] /\ nummsgs'[q] = nummsgs[q] BY <3>1, <2>1, <1>0, ReturnEffect
    <3> QED BY <3>2, <2>1, <1>3
  <2> QED BY <2>2, <2>3
<1>14. ASSUME HandleCatchupInterrupt(p) PROVE Same(q) /\ Locks(q) BY <1>14, <1>3 DEF HandleCatchupInterrupt
<1>15. ASSUME CallbackError(p) PROVE Same(q) /\ Locks(q) BY <1>15, <1>1, <1>3 DEF CallbackError
<1> HIDE DEF Same, Locks
<1> QED BY <1>4, <1>5, <1>6, <1>7, <1>8, <1>9, <1>10, <1>11, <1>12, <1>13, <1>14, <1>15, Zenon DEF PrivateStep

\* The steps that change what is shared.
SharedStep(p) ==
    \/ SharedInvalBackendInit(p) \/ CleanupInvalidationState(p) \/ InsertWrite(p) \/ InsertPublish(p) \/ InsertFlag(p)
    \/ SICleanupQueue(p) \/ ReadLock(p) \/ SIGetDataEntries(p)

\* A step on the shared queue keeps the invariant of the other processes.
LEMMA SharedOthers == ASSUME SIInv, NEW p \in Procs, SharedStep(p) PROVE Others(p) /\ \A q \in Procs \ {p} : Locks(q)
<1>0. SITypeOK /\ Shape(p) BY DEF SIInv
<1>1. /\ pc \in [Procs -> PCs] /\ frames \in [Procs -> Seq(Frames)] /\ nummsgs \in [Procs -> Nat]
      /\ messages \in [Procs -> Seq(Nat)] /\ seen \in [Procs -> Nat] /\ resets \in [Procs -> Nat]
      /\ batch \in [Procs -> Nat] /\ max \in [Procs -> Nat] /\ slot \in [Procs -> 0 .. maxBackends]
  BY <1>0 DEF SITypeOK
<1>2. SUFFICES ASSUME NEW q \in Procs \ {p} PROVE Same(q) /\ Locks(q) BY Zenon DEF Others
<1> USE DEF Same, Locks, Goto, locks, insertvars, receivevars, history
<1>3. ASSUME SharedInvalBackendInit(p) PROVE Same(q) /\ Locks(q)
  <2>1. PICK s \in Slots : procPid[s] = NULL /\ slot' = [slot EXCEPT ![p] = s] BY <1>3, InitEffect, SMTT(60)
  <2>2. /\ UNCHANGED <<locks, insertvars, receivevars, resets>>
        /\ pc' = [pc EXCEPT ![p] = "out"] /\ seen' = [seen EXCEPT ![p] = total]
    BY <1>3 DEF SharedInvalBackendInit
  <2> QED BY <2>1, <2>2, <1>1
<1>4. ASSUME CleanupInvalidationState(p) PROVE Same(q) /\ Locks(q)
  <2>1. /\ UNCHANGED <<locks, slot, insertvars, max, frames, nummsgs>> /\ pc' = [pc EXCEPT ![p] = "gone"]
        /\ messages' = [messages EXCEPT ![p] = <<>>] /\ seen' = [seen EXCEPT ![p] = 0] /\ resets' = [resets EXCEPT ![p] = 0]
    BY <1>4, Zenon DEF CleanupInvalidationState
  <2> QED BY <2>1, <1>1
<1>5. ASSUME InsertWrite(p) PROVE Same(q) /\ Locks(q)
  <2>1. UNCHANGED <<locks, slot, insertvars, receivevars, history>> /\ pc' = [pc EXCEPT ![p] = "publish"]
    BY <1>5, Zenon DEF InsertWrite
  <2> QED BY <2>1, <1>1
<1>6. ASSUME InsertPublish(p) PROVE Same(q) /\ Locks(q) BY <1>6, <1>1 DEF InsertPublish
<1>7. ASSUME InsertFlag(p) PROVE Same(q) /\ Locks(q)
  <2>1. writeLock = p BY <1>7, <1>0 DEF InsertFlag, Shape
  <2>2. /\ UNCHANGED <<readShared, slot, left, receivevars, seen, resets>> /\ batch' = [batch EXCEPT ![p] = 0]
        /\ \E x : pc' = [pc EXCEPT ![p] = x]
    BY <1>7, Zenon DEF InsertFlag
  <2> QED BY <2>1, <2>2, <1>1
<1>8. ASSUME SICleanupQueue(p) PROVE Same(q) /\ Locks(q)
  <2>1. UNCHANGED <<readShared, slot, insertvars, max, messages, history>> BY <1>8, Zenon DEF SICleanupQueue
  <2>2. /\ pc'[q] = pc[q] /\ frames'[q] = frames[q] /\ nummsgs'[q] = nummsgs[q] /\ writeLock = p
    BY <1>8, CleanControl
  <2> QED BY <2>1, <2>2
<1>9. ASSUME ReadLock(p) PROVE Same(q) /\ Locks(q) BY <1>9, <1>1 DEF ReadLock
<1>10. ASSUME SIGetDataEntries(p) PROVE Same(q) /\ Locks(q)
  <2>1. /\ pc[p] = "read" /\ readShared' = readShared \ {p} /\ max' = [max EXCEPT ![p] = 0]
        /\ UNCHANGED <<writeLock, slot, insertvars>> /\ \E x : pc' = [pc EXCEPT ![p] = x]
    BY <1>10, Zenon DEF SIGetDataEntries
  <2>2. CASE ForceReset(p)
    <3>1. /\ UNCHANGED <<messages, nummsgs>> /\ seen' = [seen EXCEPT ![p] = Place(max[p])]
          /\ resets' = [resets EXCEPT ![p] = @ + 1] /\ frames'[q] = frames[q]
      BY <2>1, <2>2, ResetEffect
    <3> QED BY <3>1, <2>1, <1>1
  <2>3. CASE ReadEntries(p)
    <3>1. UNCHANGED <<frames, seen, resets>> /\ messages'[q] = messages[q] /\ nummsgs'[q] = nummsgs[q]
      BY <2>1, <2>3, ReadEffect, Zenon
    <3> QED BY <3>1, <2>1, <1>1
  <2> QED BY <1>10, <2>2, <2>3 DEF SIGetDataEntries
<1> HIDE DEF Same, Locks
<1> QED BY <1>3, <1>4, <1>5, <1>6, <1>7, <1>8, <1>9, <1>10, Zenon DEF SharedStep
----------------------------------------------------------------------------
(* The process that moves *)

\* The innermost call is one of the calls.
LEMMA TopFacts ==
    ASSUME SIInv, NEW p \in Procs, frames[p] # <<>>
    PROVE  /\ Len(frames[p]) \in Nat \ {0} /\ Top(p) = frames[p][Len(frames[p])]
           /\ Top(p).phase \in {"leftover", "fetched", "reset"} /\ Top(p).due \in Nat /\ Top(p).due <= complete
           /\ \A i \in 1 .. Len(frames[p]) : frames[p][i].due \in Nat /\ frames[p][i].due <= Top(p).due
<1>1. frames[p] \in Seq(Frames) /\ complete \in Nat BY DEF SIInv, SITypeOK
<1>2. Len(frames[p]) \in Nat \ {0} BY <1>1
<1>3. PICK k \in Nat \ {0} : k = Len(frames[p]) BY <1>2
<1>4. Top(p) = frames[p][k] BY <1>3 DEF Top, Last
<1>5. \A i \in 1 .. k : frames[p][i] \in Frames BY <1>1, <1>3
<1>6. \A i \in 1 .. k : frames[p][i].due \in Nat BY <1>5 DEF Frames
<1>7. k \in 1 .. k /\ \A i \in 1 .. k : k \in i .. k OBVIOUS
<1>8. Top(p) \in Frames BY <1>4, <1>5, <1>7
<1>9. Calling(p) BY DEF SIInv
<1>10. \A i \in 1 .. k : frames[p][i].due <= frames[p][k].due BY <1>3, <1>7, <1>9, Zenon DEF Calling
<1>11. frames[p][k].due <= complete BY <1>3, <1>7, <1>9, Zenon DEF Calling
<1>12. Top(p).phase \in {"leftover", "fetched", "reset"} /\ Top(p).due \in Nat BY <1>8 DEF Frames
<1> QED BY <1>2, <1>3, <1>4, <1>6, <1>10, <1>11, <1>12

\* A process that is not inside ReceiveSharedInvalidMessages has nothing to get right there.
LEMMA IdleOwn ==
    ASSUME NEW p \in Procs, frames'[p] = <<>>,
           messages'[p] = <<>> \/ (SIInv /\ messages'[p] = messages[p] /\ seen'[p] = seen[p]),
           pc'[p] \notin {"work", "callback", "clean", "cleanup", "lock", "max", "read"}
    PROVE  Fetched(p)' /\ ReadInv(p)' /\ Calling(p)'
<1>1. Len(frames'[p]) = 0 OBVIOUS
<1>2. Fetched(p)'
  <2>1. CASE messages'[p] = <<>>
    <3>1. Len(messages'[p]) = 0 BY <2>1
    <3> QED BY <3>1 DEF Fetched
  <2>2. CASE SIInv /\ messages'[p] = messages[p] /\ seen'[p] = seen[p] BY <2>2, Zenon DEF SIInv, Fetched
  <2> QED BY <2>1, <2>2
<1>3. ReadInv(p)' BY DEF ReadInv
<1>4. Calling(p)'
  <2>1. \A i \in 1 .. Len(frames'[p]) : FALSE BY <1>1
  <2> QED BY <2>1, Zenon DEF Calling
<1> QED BY <1>2, <1>3, <1>4

\* "We are now caught up": whatever was due when the innermost call began has been dealt with.
LEMMA CaughtUpDone == ASSUME SIInv, NEW p \in Procs, CaughtUp(p) PROVE frames[p] # <<>> /\ seen[p] >= Top(p).due
<1>1. pc[p] \in {"work", "callback"} /\ messages[p] = <<>> /\ ~FetchAgain(p) BY DEF CaughtUp, Working
<1>2. frames[p] # <<>> BY <1>1 DEF SIInv, Shape
<1>3. Top(p).phase \in {"leftover", "fetched", "reset"} BY <1>2, TopFacts
<1>4. Calling(p) /\ seen[p] \in Nat BY DEF SIInv, SITypeOK
<1>5. CASE Top(p).phase = "reset" BY <1>1, <1>2, <1>4, <1>5 DEF Calling
<1>6. CASE Top(p).phase = "fetched"
  <2>1. nummsgs[p] # MAXINVALMSGS BY <1>1, <1>6 DEF FetchAgain
  <2>2. seen[p] + Len(messages[p]) >= Top(p).due BY <1>1, <1>4, <1>6, <2>1, Zenon DEF Calling
  <2>3. Len(messages[p]) = 0 BY <1>1
  <2> QED BY <2>2, <2>3, <1>2, <1>4
<1> QED BY <1>1, <1>3, <1>5, <1>6 DEF FetchAgain

\* What a return leaves behind: the call that goes on expects no more.
LEMMA ReturnOwn ==
    ASSUME SIInv, NEW p \in Procs, ReceiveReturn(p), frames[p] # <<>>, messages'[p] = <<>>, seen'[p] = seen[p],
           seen[p] >= Top(p).due, complete' = complete
    PROVE  /\ Fetched(p)' /\ ReadInv(p)' /\ Calling(p)'
           /\ pc'[p] \in {"out", "work"} /\ (pc'[p] = "out" <=> frames'[p] = <<>>)
<1>0. SITypeOK /\ frames[p] \in Seq(Frames) /\ seen[p] \in Nat /\ complete \in Nat BY DEF SIInv, SITypeOK
<1>1. /\ frames' \in [Procs -> Seq(Frames)] /\ Len(frames'[p]) = Len(frames[p]) - 1 /\ Len(frames[p]) \in Nat \ {0}
      /\ \A i \in 1 .. Len(frames[p]) - 1 : frames'[p][i] = frames[p][i]
      /\ pc'[p] = (IF Len(frames[p]) = 1 THEN "out" ELSE "work")
  BY <1>0, ReturnEffect
<1>2. PICK k \in Nat \ {0} : k = Len(frames[p]) BY <1>1
<1>3. Len(frames'[p]) = k - 1 /\ \A i \in 1 .. k - 1 : frames'[p][i] = frames[p][i] BY <1>1, <1>2
<1>4. frames'[p] \in Seq(Frames) BY <1>1
<1>5. frames'[p] = <<>> <=> k = 1 BY <1>3, <1>4
<1>6. pc'[p] \in {"out", "work"} /\ (pc'[p] = "out" <=> frames'[p] = <<>>) BY <1>1, <1>2, <1>5
<1>7. Len(messages'[p]) = 0 OBVIOUS
<1>8. Fetched(p)' BY <1>7 DEF Fetched
<1>9. ReadInv(p)' BY <1>6 DEF ReadInv
<1>10. \A i \in 1 .. k : frames[p][i].due \in Nat /\ frames[p][i].due <= Top(p).due BY <1>2, TopFacts
<1>11. /\ \A i \in 1 .. k : frames[p][i].due <= complete
       /\ \A i \in 1 .. k : \A j \in i .. k : frames[p][i].due <= frames[p][j].due
  BY <1>2, Zenon DEF SIInv, Calling
<1>12. \A i \in 1 .. k - 1 : i \in 1 .. k /\ \A j \in i .. k - 1 : j \in i .. k /\ j \in 1 .. k - 1 BY SMTT(60)
<1>13. \A i \in 1 .. Len(frames'[p]) :
           /\ frames'[p][i].due <= complete'
           /\ \A j \in i .. Len(frames'[p]) : frames'[p][i].due <= frames'[p][j].due
  BY <1>3, <1>11, <1>12
<1>14. ASSUME pc'[p] = "work" PROVE seen'[p] >= Top(p)'.due /\ seen'[p] + Len(messages'[p]) >= Top(p)'.due
  <2>1. k # 1 BY <1>5, <1>6, <1>14
  <2>2. k - 1 \in 1 .. k - 1 /\ k - 1 \in 1 .. k BY <2>1
  <2>3. Top(p)' = frames[p][k - 1] BY <1>3, <2>2 DEF Top, Last
  <2>4. PICK d \in Nat : d = Top(p)'.due /\ d <= Top(p).due BY <1>10, <2>2, <2>3
  <2>5. Top(p).due \in Nat BY TopFacts
  <2>6. seen[p] >= d BY <1>0, <2>4, <2>5
  <2> QED BY <2>4, <2>6, <1>0, <1>7
<1>15. Calling(p)' BY <1>6, <1>13, <1>14, Zenon DEF Calling
<1> QED BY <1>6, <1>8, <1>9, <1>15

\* Entering the routine.
LEMMA PushOwn ==
    ASSUME SIInv, NEW p \in Procs, frames' = [frames EXCEPT ![p] = Append(@, NewFrame)], pc'[p] = "work",
           messages'[p] = messages[p], seen'[p] = seen[p], complete' = complete
    PROVE  Fetched(p)' /\ ReadInv(p)' /\ Calling(p)' /\ frames'[p] # <<>>
<1>0. SITypeOK /\ frames[p] \in Seq(Frames) /\ complete \in Nat BY DEF SIInv, SITypeOK
<1>1. /\ frames' \in [Procs -> Seq(Frames)]
      /\ Len(frames'[p]) = Len(frames[p]) + 1 /\ Len(frames[p]) \in Nat
      /\ \A i \in 1 .. Len(frames[p]) : frames'[p][i] = frames[p][i]
      /\ frames'[p][Len(frames[p]) + 1] = NewFrame /\ Top(p)' = NewFrame
  BY <1>0, PushEffect
<1>2. PICK k \in Nat : k = Len(frames[p]) BY <1>1
<1>3. Len(frames'[p]) = k + 1 /\ (\A i \in 1 .. k : frames'[p][i] = frames[p][i]) /\ frames'[p][k + 1] = NewFrame
  BY <1>1, <1>2
<1>4. Fetched(p)' BY Zenon DEF SIInv, Fetched
<1>5. ReadInv(p)' BY DEF ReadInv
<1>6. NewFrame.due = complete /\ NewFrame.phase = "leftover" BY DEF NewFrame
<1>7. /\ \A i \in 1 .. k : frames[p][i].due <= complete
      /\ \A i \in 1 .. k : \A j \in i .. k : frames[p][i].due <= frames[p][j].due
  BY <1>2, Zenon DEF SIInv, Calling
<1>8. complete <= complete BY <1>0
<1>9. \A i \in 1 .. k + 1 : /\ i \in 1 .. k \/ i = k + 1
                            /\ \A j \in i .. k + 1 : j = k + 1 \/ (i \in 1 .. k /\ j \in i .. k /\ j \in 1 .. k)
  OBVIOUS
<1>10. \A i \in 1 .. k + 1 : frames'[p][i].due <= complete BY <1>3, <1>6, <1>7, <1>8, <1>9
<1>11. \A i \in 1 .. k + 1 : \A j \in i .. k + 1 : frames'[p][i].due <= frames'[p][j].due
  BY <1>3, <1>6, <1>7, <1>9, <1>10
<1>12. Top(p)'.phase = "leftover" BY <1>1, <1>6
<1>13. Calling(p)' BY <1>3, <1>10, <1>11, <1>12, Zenon DEF Calling
<1>14. frames'[p] # <<>> BY <1>1, <1>2, <1>3, SMTT(60)
<1> QED BY <1>4, <1>5, <1>13, <1>14

\* What all private steps have in common.
LEMMA PrivateFrame ==
    ASSUME SIInv, NEW p \in Procs, PrivateStep(p)
    PROVE  /\ UNCHANGED <<slot, resets>> /\ Counters /\ \A q \in Procs : At(q)
           /\ HandleCatchupInterrupt(p) \/ Living(p)
           /\ InvalFunction(p) \/ UNCHANGED <<messages, seen>>
<1>1. UNCHANGED <<slot, resets>>
  BY DEF PrivateStep, SendSharedInvalidMessages, AcceptInvalidationMessages, Recurse, InsertLock, CleanupLock,
         SendProcSignal, FetchMax, InvalFunction, CallbackError, Fetch, FinishReceive, HandleCatchupInterrupt, history
<1>2. Counters /\ \A q \in Procs : At(q) BY PrivateShared, Zenon DEF Shared, Counters, At
<1>3. HandleCatchupInterrupt(p) \/ Living(p)
  BY DEF PrivateStep, SendSharedInvalidMessages, AcceptInvalidationMessages, Recurse, InsertLock, CleanupLock,
         SendProcSignal, FetchMax, InvalFunction, CallbackError, Fetch, FinishReceive, CaughtUp, Working, Living
<1>4. InvalFunction(p) \/ UNCHANGED <<messages, seen>>
  BY DEF PrivateStep, SendSharedInvalidMessages, AcceptInvalidationMessages, Recurse, InsertLock, CleanupLock,
         SendProcSignal, FetchMax, CallbackError, Fetch, FinishReceive, HandleCatchupInterrupt, receivevars, history
<1> QED BY <1>1, <1>2, <1>3, <1>4

\* The first message that was fetched is the next one to be dealt with.
LEMMA InvalEffect ==
    ASSUME SIInv, NEW p \in Procs, InvalFunction(p)
    PROVE  /\ Len(messages[p]) \in Nat \ {0} /\ seen'[p] = seen[p] + 1 /\ seen[p] \in Nat
           /\ Len(messages'[p]) = Len(messages[p]) - 1
           /\ \A i \in 1 .. Len(messages[p]) - 1 : messages'[p][i] = messages[p][i + 1]
<1>1. /\ messages[p] # <<>> /\ messages \in [Procs -> Seq(Nat)] /\ seen \in [Procs -> Nat] /\ messages[p] \in Seq(Nat)
      /\ seen' = [seen EXCEPT ![p] = Head(messages[p]) + 1]
      /\ messages' = [messages EXCEPT ![p] = Tail(messages[p])]
  BY DEF SIInv, SITypeOK, InvalFunction
<1>2. PICK m : m = messages[p] OBVIOUS
<1>3. m \in Seq(Nat) /\ m # <<>> BY <1>1, <1>2
<1>4. PICK k \in Nat \ {0} : k = Len(m) BY <1>3
<1>5. Head(m) = m[1] /\ Len(Tail(m)) = k - 1 /\ \A i \in 1 .. k - 1 : Tail(m)[i] = m[i + 1] BY <1>3, <1>4
<1>6. 1 \in 1 .. k BY <1>4
<1>7. m[1] = seen[p] + 1 - 1 BY <1>2, <1>4, <1>6 DEF SIInv, Fetched
<1>8. seen[p] \in Nat /\ seen'[p] = Head(m) + 1 /\ messages'[p] = Tail(m) BY <1>1, <1>2
<1>9. seen'[p] = seen[p] + 1 BY <1>5, <1>7, <1>8, SMTT(60)
<1> QED BY <1>2, <1>4, <1>5, <1>8, <1>9

\* A private step keeps its process where it stands.
LEMMA PrivatePosition == ASSUME SIInv, NEW p \in Procs, PrivateStep(p) PROVE Position(p)'
<1>1. Position(p) BY DEF SIInv
<1>2. /\ UNCHANGED <<slot, resets>> /\ Counters /\ At(p) /\ (HandleCatchupInterrupt(p) \/ Living(p))
      /\ (InvalFunction(p) \/ UNCHANGED <<messages, seen>>)
  BY PrivateFrame
<1>3. readShared' = readShared BY PrivateShared
<1>4. Living(p)' => Living(p) BY <1>2 DEF HandleCatchupInterrupt, Living
<1>5. seen'[p] + Len(messages'[p]) = seen[p] + Len(messages[p])
  <2>1. CASE InvalFunction(p)
    <3>1. PICK k \in Nat : k = Len(messages[p]) BY <2>1, InvalEffect
    <3>2. seen'[p] = seen[p] + 1 /\ seen[p] \in Nat /\ Len(messages'[p]) = k - 1 BY <2>1, <3>1, InvalEffect
    <3> QED BY <3>1, <3>2
  <2>2. CASE UNCHANGED <<messages, seen>> BY <2>2
  <2> QED BY <1>2, <2>1, <2>2
<1>6. slot'[p] = slot[p] /\ (p \in readShared => p \in readShared') BY <1>2, <1>3
<1> QED BY <1>1, <1>2, <1>4, <1>5, <1>6, PositionKeep

\* What belongs to one process.
Own(p) == Shape(p) /\ Fetched(p) /\ ReadInv(p) /\ Calling(p)

\* The private steps of a writer.
LEMMA WriterOwn ==
    ASSUME SIInv, NEW p \in Procs, SendSharedInvalidMessages(p) \/ InsertLock(p) \/ CleanupLock(p)
    PROVE  Own(p)'
<1>0. SITypeOK /\ Shape(p) /\ Calling(p) BY DEF SIInv
<1>1. /\ pc \in [Procs -> PCs] /\ left \in [Procs -> Nat] /\ batch \in [Procs -> Nat] BY <1>0 DEF SITypeOK
<1>2. CASE SendSharedInvalidMessages(p)
  <2>1. /\ pc[p] = "out" /\ pc'[p] = "insert" /\ left'[p] > 0
        /\ UNCHANGED <<frames, messages, seen, resets, writeLock, readShared, batch>>
    BY <1>1, <1>2, SMTT(60) DEF SendSharedInvalidMessages, Goto, locks, receivevars, history
  <2>2. frames'[p] = <<>> /\ messages'[p] = messages[p] /\ seen'[p] = seen[p] BY <2>1, <1>0 DEF Shape
  <2>3. Shape(p)' BY <2>1, <2>2, <1>0, Zenon DEF Shape
  <2> QED BY <2>1, <2>2, <2>3, IdleOwn DEF Own
<1>3. CASE InsertLock(p)
  <2>1. /\ pc[p] = "insert" /\ pc'[p] = "room" /\ writeLock' = p
        /\ UNCHANGED <<frames, messages, seen, resets, readShared>>
    BY <1>1, <1>3 DEF InsertLock, Goto, receivevars, history
  <2>2. /\ frames'[p] = <<>> /\ messages'[p] = messages[p] /\ seen'[p] = seen[p]
        /\ left[p] > 0 /\ left[p] \in Nat
    BY <2>1, <1>0, <1>1 DEF Shape
  <2>3. batch'[p] = IF left[p] < WRITE_QUANTUM THEN left[p] ELSE WRITE_QUANTUM BY <1>1, <1>3 DEF InsertLock
  <2>4. batch'[p] > 0 /\ batch'[p] <= WRITE_QUANTUM BY <2>2, <2>3, Constants
  <2>5. Shape(p)' BY <2>1, <2>2, <2>4, <1>0, Zenon DEF Shape
  <2> QED BY <2>1, <2>2, <2>5, IdleOwn DEF Own
<1>4. CASE CleanupLock(p)
  <2>1. /\ writeLock' = p /\ UNCHANGED <<frames, messages, nummsgs, resets, readShared, batch, left, seen, complete>>
    BY <1>1, <1>4 DEF CleanupLock, insertvars, receivevars, history
  <2>2. (pc[p] = "relock" /\ pc'[p] = "room") \/ (pc[p] = "clean" /\ pc'[p] = "cleanup")
    BY <1>1, <1>4 DEF CleanupLock, Goto
  <2>3. messages'[p] = messages[p] /\ seen'[p] = seen[p] /\ (pc[p] = "clean" => messages'[p] = <<>>)
    BY <2>1, <2>2, <1>0 DEF Shape
  <2>4. Shape(p)' BY <2>1, <2>2, <2>3, <1>0, Zenon DEF Shape
  <2>5. CASE pc[p] = "relock"
    <3>1. frames'[p] = <<>> /\ pc'[p] = "room" BY <2>1, <2>2, <2>5, <1>0 DEF Shape
    <3> QED BY <3>1, <2>3, <2>4, IdleOwn DEF Own
  <2>6. CASE pc[p] = "clean"
    <3>1. pc'[p] = "cleanup" BY <2>2, <2>6
    <3>2. Len(messages'[p]) = 0 BY <2>3, <2>6
    <3>3. Fetched(p)' BY <3>2 DEF Fetched
    <3>4. ReadInv(p)' BY <3>1 DEF ReadInv
    <3>5. Top(p)' = Top(p) /\ frames'[p] = frames[p] /\ seen'[p] = seen[p] /\ complete' = complete BY <2>1 DEF Top
    <3>6. Calling(p)' BY <3>1, <3>5, <2>6, <1>0, Zenon DEF Calling
    <3> QED BY <3>3, <3>4, <3>6, <2>4 DEF Own
  <2> QED BY <2>2, <2>5, <2>6
<1> QED BY <1>2, <1>3, <1>4

\* A signal is sent, or the interrupt handled.
LEMMA SignalOwn == ASSUME SIInv, NEW p \in Procs, SendProcSignal(p) \/ HandleCatchupInterrupt(p) PROVE Own(p)'
<1>0. SITypeOK /\ Shape(p) /\ Calling(p) /\ ReadInv(p) BY DEF SIInv
<1>1. CASE HandleCatchupInterrupt(p)
  <2>1. Same(p) /\ Locks(p) /\ Counters /\ At(p)
    BY <1>1, Zenon DEF HandleCatchupInterrupt, Same, Locks, Counters, At, seg, procstate, locks, insertvars, receivevars,
                history
  <2>2. complete' \in Nat /\ complete <= complete' BY <2>1, <1>0 DEF Counters, SITypeOK
  <2> QED BY <2>1, <2>2, <1>0, OtherKeep, ReadKeep DEF Own
<1>2. CASE SendProcSignal(p)
  <2>1. /\ pc[p] = "signal" /\ UNCHANGED <<messages, resets, writeLock, readShared, batch, left, seen, complete>>
    BY <1>2 DEF SendProcSignal, locks, insertvars, history
  <2>2. messages'[p] = messages[p] /\ seen'[p] = seen[p] /\ (frames[p] # <<>> => messages'[p] = <<>>)
    BY <2>1, <1>0 DEF Shape
  <2>3. CASE frames[p] = <<>>
    <3>1. pc' = [pc EXCEPT ![p] = "relock"] /\ frames' = frames
      BY <1>2, <2>3 DEF SendProcSignal, callerHasWriteLock, Goto
    <3>2. pc'[p] = "relock" /\ frames'[p] = <<>> BY <3>1, <2>3, <1>0 DEF SITypeOK
    <3>3. Shape(p)' BY <3>2, <2>1, <2>2, <2>3, <1>0, Zenon DEF Shape
    <3> QED BY <3>2, <3>3, <2>2, IdleOwn DEF Own
  <2>4. CASE frames[p] # <<>>
    <3>1. ReceiveReturn(p) BY <1>2, <2>4 DEF SendProcSignal, callerHasWriteLock
    <3>2. seen[p] >= Top(p).due BY <2>1, <2>4, <1>0 DEF Calling
    <3>3. /\ Fetched(p)' /\ ReadInv(p)' /\ Calling(p)'
          /\ pc'[p] \in {"out", "work"} /\ (pc'[p] = "out" <=> frames'[p] = <<>>)
      BY <3>1, <3>2, <2>1, <2>2, <2>4, ReturnOwn
    <3>4. Shape(p)' BY <3>3, <2>1, <2>2, <2>4, <1>0, Zenon DEF Shape
    <3> QED BY <3>3, <3>4 DEF Own
  <2> QED BY <2>3, <2>4
<1> QED BY <1>1, <1>2

\* ReceiveSharedInvalidMessages is called, by a client or by a callback.
LEMMA EnterOwn == ASSUME SIInv, NEW p \in Procs, AcceptInvalidationMessages(p) \/ Recurse(p) PROVE Own(p)'
<1>0. SITypeOK /\ Shape(p) BY DEF SIInv
<1>1. /\ UNCHANGED <<messages, resets, writeLock, readShared, batch, left, seen, complete>>
      /\ pc' = [pc EXCEPT ![p] = "work"] /\ pc[p] \in {"out", "callback"} /\ (pc[p] = "out" => p \notin SendOnly)
  BY DEF AcceptInvalidationMessages, Recurse, Goto, locks, insertvars, history
<1>2. pc'[p] = "work" BY <1>1, <1>0 DEF SITypeOK
<1>3. frames' = [frames EXCEPT ![p] = Append(@, NewFrame)]
  <2>1. CASE AcceptInvalidationMessages(p)
    <3>1. frames[p] = <<>> BY <2>1, <1>0 DEF AcceptInvalidationMessages, Shape
    <3>2. Append(<<>>, NewFrame) = <<NewFrame>> OBVIOUS
    <3>3. frames' = [frames EXCEPT ![p] = <<NewFrame>>] BY <2>1 DEF AcceptInvalidationMessages
    <3> QED BY <3>1, <3>2, <3>3
  <2>2. CASE Recurse(p) BY <2>2 DEF Recurse
  <2> QED BY <2>1, <2>2
<1>4. Fetched(p)' /\ ReadInv(p)' /\ Calling(p)' /\ frames'[p] # <<>> BY <1>1, <1>2, <1>3, PushOwn
<1>5. p \notin SendOnly BY <1>0, <1>1 DEF Shape
<1>6. Shape(p)' BY <1>0, <1>1, <1>2, <1>4, <1>5, Zenon DEF Shape
<1> QED BY <1>4, <1>6 DEF Own

\* The number of messages is determined.
LEMMA FetchMaxOwn == ASSUME SIInv, NEW p \in Procs, FetchMax(p) PROVE Own(p)'
<1>0. SITypeOK /\ Shape(p) /\ Position(p) /\ Calling(p) /\ RingInv BY DEF SIInv
<1>1. /\ UNCHANGED <<minMsgNum, maxMsgNum, nextMsgNum, resetState, hasMessages, total, slot, frames, nummsgs, messages,
                     resets, writeLock, readShared, batch, left, seen, complete>>
      /\ pc[p] = "max" /\ pc' = [pc EXCEPT ![p] = "read"] /\ max' = [max EXCEPT ![p] = maxMsgNum]
  BY Zenon DEF FetchMax, Goto, seg, procstate, locks, insertvars, history
<1>2. pc'[p] = "read" /\ max'[p] = maxMsgNum BY <1>1, <1>0 DEF SITypeOK
<1>3. frames[p] # <<>> /\ messages[p] = <<>> /\ p \notin SendOnly BY <1>0, <1>1 DEF Shape
<1>4. Shape(p)' BY <1>0, <1>1, <1>2, Zenon DEF Shape
<1>5. Len(messages'[p]) = 0 /\ Len(messages[p]) = 0 BY <1>1, <1>3
<1>6. Fetched(p)' BY <1>5 DEF Fetched
<1>7. Top(p)' = Top(p) /\ frames'[p] = frames[p] /\ complete' = complete BY <1>1 DEF Top
<1>8. Calling(p)' BY <1>0, <1>1, <1>2, <1>7, Zenon DEF Calling
<1>9. PICK s : s = slot[p] /\ s = slot'[p] BY <1>1
<1>10. Receiver(p) BY <1>1, <1>3 DEF Receiver, Living
<1>11. /\ ~resetState[s] => nextMsgNum[s] <= maxMsgNum
       /\ resetState[s] => seen[p] + Len(messages[p]) < total
  BY <1>0, <1>9, <1>10, Zenon DEF Position
<1>12. /\ minMsgNum \in Nat /\ maxMsgNum \in Nat /\ total \in Nat /\ complete \in Nat /\ seen[p] \in Nat
       /\ minMsgNum <= maxMsgNum /\ complete <= total
  BY <1>0 DEF SITypeOK, RingInv
<1>13. Top(p).due \in Nat /\ Top(p).due <= complete BY <1>3, TopFacts
<1>14. maxMsgNum + total - maxMsgNum = total BY <1>12
<1>15. Place(max[p])' = total BY <1>1, <1>2, <1>14 DEF Place
<1>16. resetState[s] => seen[p] < total BY <1>5, <1>11, <1>12
<1>17. maxMsgNum \in minMsgNum .. maxMsgNum /\ total >= complete /\ total >= Top(p).due BY <1>12, <1>13
<1>18. ReadInv(p)' BY <1>1, <1>2, <1>7, <1>9, <1>11, <1>15, <1>16, <1>17, Zenon DEF ReadInv
<1> QED BY <1>4, <1>6, <1>8, <1>18 DEF Own

\* A message is dealt with.
LEMMA InvalOwn == ASSUME SIInv, NEW p \in Procs, InvalFunction(p) PROVE Own(p)'
<1>0. SITypeOK /\ Shape(p) /\ Calling(p) /\ Fetched(p) BY DEF SIInv
<1>1. /\ UNCHANGED <<frames, nummsgs, resets, writeLock, readShared, batch, left, complete>>
      /\ pc[p] \in {"work", "callback"} /\ pc' = [pc EXCEPT ![p] = "callback"]
  BY DEF InvalFunction, Working, Goto, locks, insertvars
<1>2. pc'[p] = "callback" BY <1>0, <1>1 DEF SITypeOK
<1>3. Shape(p)' BY <1>0, <1>1, <1>2, Zenon DEF Shape
<1>4. PICK k \in Nat \ {0} : k = Len(messages[p]) BY InvalEffect
<1>5. /\ seen'[p] = seen[p] + 1 /\ seen[p] \in Nat /\ Len(messages'[p]) = k - 1
      /\ \A i \in 1 .. k - 1 : messages'[p][i] = messages[p][i + 1]
  BY <1>4, InvalEffect
<1>6. \A i \in 1 .. k : messages[p][i] = seen[p] + i - 1 BY <1>0, <1>4 DEF Fetched
<1>7. ASSUME NEW i \in 1 .. k - 1 PROVE messages'[p][i] = seen'[p] + i - 1
  <2>1. i + 1 \in 1 .. k OBVIOUS
  <2>2. messages[p][i + 1] = seen[p] + (i + 1) - 1 BY <1>6, <2>1
  <2> QED BY <2>2, <1>5, SMTT(60)
<1>8. Fetched(p)' BY <1>5, <1>7 DEF Fetched
<1>9. ReadInv(p)' BY <1>2 DEF ReadInv
<1>10. Top(p)' = Top(p) /\ frames'[p] = frames[p] /\ complete' = complete /\ nummsgs'[p] = nummsgs[p] BY <1>1 DEF Top
<1>11. frames[p] # <<>> BY <1>0, <1>1 DEF Shape
<1>12. Top(p).due \in Nat BY <1>11, TopFacts
<1>13. seen'[p] + Len(messages'[p]) = seen[p] + Len(messages[p]) BY <1>4, <1>5, SMTT(60)
<1>14. Top(p).phase = "reset" => seen'[p] >= Top(p).due
  <2>1. Top(p).phase = "reset" => seen[p] >= Top(p).due BY <1>0, <1>1 DEF Calling
  <2> QED BY <2>1, <1>5, <1>12, SMTT(60)
<1>15. /\ Top(p).phase = "fetched" /\ nummsgs[p] # MAXINVALMSGS => seen[p] + Len(messages[p]) >= Top(p).due
       /\ \A i \in 1 .. Len(frames[p]) :
              /\ frames[p][i].due <= complete
              /\ \A j \in i .. Len(frames[p]) : frames[p][i].due <= frames[p][j].due
  BY <1>0, <1>1, Zenon DEF Calling
<1>16. Calling(p)' BY <1>2, <1>10, <1>13, <1>14, <1>15, Zenon DEF Calling
<1> QED BY <1>3, <1>8, <1>9, <1>16 DEF Own

\* The flag says whether there is anything to read: without it, all that was due has been read.
LEMMA FetchOwn == ASSUME SIInv, NEW p \in Procs, Fetch(p) PROVE Own(p)'
<1>0. SITypeOK /\ Shape(p) /\ Calling(p) /\ Position(p) /\ SlotInv BY DEF SIInv
<1>1. /\ UNCHANGED <<messages, seen, resets, writeLock, readShared, batch, left, complete>>
      /\ pc[p] \in {"work", "callback"} /\ messages[p] = <<>> /\ SetPhase(p, "fetched")
      /\ pc' = [pc EXCEPT ![p] = IF hasMessages[slot[p]] THEN "lock" ELSE "work"]
      /\ nummsgs' = [nummsgs EXCEPT ![p] = 0]
  BY DEF Fetch, Working, Goto, locks, insertvars, history
<1>2. pc'[p] = (IF hasMessages[slot[p]] THEN "lock" ELSE "work") /\ nummsgs'[p] = 0 BY <1>0, <1>1 DEF SITypeOK
<1>3. frames[p] # <<>> /\ p \notin SendOnly /\ p \notin readShared BY <1>0, <1>1 DEF Shape
<1>4. /\ frames' \in [Procs -> Seq(Frames)] /\ Len(frames'[p]) = Len(frames[p]) /\ Len(frames[p]) \in Nat \ {0}
      /\ \A i \in 1 .. Len(frames[p]) : frames'[p][i].due = frames[p][i].due
      /\ Top(p)'.phase = "fetched" /\ Top(p)'.due = Top(p).due
  BY <1>0, <1>1, <1>3, PhaseEffect
<1>5. frames'[p] # <<>>
  <2>1. Len(frames[p]) # 0 BY <1>4
  <2>2. Len(frames'[p]) # 0 BY <1>4, <2>1, Zenon
  <2>3. Len(<<>>) = 0 OBVIOUS
  <2> QED BY <2>2, <2>3
<1>6. Shape(p)'
  <2>1. pc'[p] = "lock" \/ pc'[p] = "work" BY <1>2
  <2>2. /\ messages'[p] = <<>> /\ p \notin readShared' /\ p \notin SendOnly /\ batch'[p] = batch[p]
        /\ batch[p] <= WRITE_QUANTUM
    BY <1>0, <1>1, <1>3, Zenon DEF Shape
  <2>3. CASE pc'[p] = "lock" BY <1>5, <2>2, <2>3, Zenon DEF Shape
  <2>4. CASE pc'[p] = "work" BY <1>5, <2>2, <2>4, Zenon DEF Shape
  <2> QED BY <2>1, <2>3, <2>4
<1>7. Len(messages'[p]) = 0 /\ Len(messages[p]) = 0 BY <1>1
<1>8. Fetched(p)' BY <1>7 DEF Fetched
<1>9. ReadInv(p)' BY <1>2 DEF ReadInv
<1>10. PICK k \in Nat \ {0} : k = Len(frames[p]) /\ k = Len(frames'[p]) BY <1>4
<1>11. \A i \in 1 .. k : frames[p][i].due <= complete /\ \A j \in i .. k : frames[p][i].due <= frames[p][j].due
  BY <1>0, <1>10, Zenon DEF Calling
<1>12. \A i \in 1 .. k : \A j \in i .. k : j \in 1 .. k BY SMTT(60)
<1>13. \A i \in 1 .. k : frames'[p][i].due = frames[p][i].due BY <1>4, <1>10
<1>14. \A i \in 1 .. k : frames'[p][i].due <= complete' /\ \A j \in i .. k : frames'[p][i].due <= frames'[p][j].due
  BY <1>1, <1>11, <1>12, <1>13, Zenon
<1>15. ASSUME ~hasMessages[slot[p]] PROVE seen'[p] + Len(messages'[p]) >= Top(p)'.due
  <2>1. Receiver(p) BY <1>1, <1>3 DEF Receiver, Living
  <2>2. ~resetState[slot[p]] /\ ~(Place(nextMsgNum[slot[p]]) < complete)
    BY <1>0, <1>3, <1>15, <2>1, Zenon DEF Position
  <2>3. seen[p] + Len(messages[p]) = Place(nextMsgNum[slot[p]]) BY <1>0, <2>1, <2>2, Zenon DEF Position
  <2>4. seen[p] \in Nat /\ complete \in Nat BY <1>0 DEF SITypeOK
  <2>5. seen[p] = Place(nextMsgNum[slot[p]]) BY <1>7, <2>3, <2>4
  <2>6. seen[p] >= complete BY <2>2, <2>4, <2>5
  <2>7. Top(p).due \in Nat /\ Top(p).due <= complete BY <1>3, TopFacts
  <2>8. seen[p] >= Top(p).due BY <2>4, <2>6, <2>7
  <2>9. Top(p)'.due = Top(p).due /\ seen'[p] = seen[p] BY <1>1, <1>4
  <2> QED BY <2>4, <2>8, <2>9, <1>7
<1>16. Calling(p)' BY <1>2, <1>4, <1>10, <1>14, <1>15, Zenon DEF Calling
<1> QED BY <1>6, <1>8, <1>9, <1>16 DEF Own

\* ReceiveSharedInvalidMessages is done with the messages.
LEMMA FinishOwn == ASSUME SIInv, NEW p \in Procs, FinishReceive(p) PROVE Own(p)'
<1>0. SITypeOK /\ Shape(p) /\ Calling(p) BY DEF SIInv
<1>1. /\ CaughtUp(p) /\ pc[p] \in {"work", "callback"} /\ messages[p] = <<>>
      /\ UNCHANGED <<messages, resets, writeLock, readShared, batch, left, seen, complete>>
  BY DEF FinishReceive, CaughtUp, Working, locks, insertvars, history
<1>2. frames[p] # <<>> /\ seen[p] >= Top(p).due BY <1>1, CaughtUpDone
<1>3. messages'[p] = <<>> /\ seen'[p] = seen[p] BY <1>1
<1>4. CASE catchupInterruptPending[p]
  <2>1. pc' = [pc EXCEPT ![p] = "clean"] /\ UNCHANGED <<frames, nummsgs>> BY <1>4 DEF FinishReceive, Goto
  <2>2. pc'[p] = "clean" BY <2>1, <1>0 DEF SITypeOK
  <2>3. Shape(p)' BY <2>1, <2>2, <1>0, <1>1, <1>2, <1>3, Zenon DEF Shape
  <2>4. Len(messages'[p]) = 0 BY <1>3
  <2>5. Fetched(p)' BY <2>4 DEF Fetched
  <2>6. ReadInv(p)' BY <2>2 DEF ReadInv
  <2>7. Top(p)' = Top(p) /\ frames'[p] = frames[p] /\ complete' = complete BY <1>1, <2>1 DEF Top
  <2>8. Calling(p)' BY <2>2, <2>7, <1>0, <1>2, <1>3, Zenon DEF Calling
  <2> QED BY <2>3, <2>5, <2>6, <2>8 DEF Own
<1>5. CASE ~catchupInterruptPending[p]
  <2>1. ReceiveReturn(p) BY <1>5 DEF FinishReceive
  <2>2. /\ Fetched(p)' /\ ReadInv(p)' /\ Calling(p)'
        /\ pc'[p] \in {"out", "work"} /\ (pc'[p] = "out" <=> frames'[p] = <<>>)
    BY <2>1, <1>1, <1>2, <1>3, ReturnOwn
  <2>3. Shape(p)' BY <2>2, <1>0, <1>1, <1>2, <1>3, Zenon DEF Shape
  <2> QED BY <2>2, <2>3 DEF Own
<1> QED BY <1>4, <1>5

\* An error ends all calls; what they had fetched stays for the next one.
LEMMA ErrorOwn == ASSUME SIInv, NEW p \in Procs, CallbackError(p) PROVE Own(p)'
<1>0. SITypeOK /\ Shape(p) BY DEF SIInv
<1>1. /\ UNCHANGED <<messages, resets, writeLock, readShared, batch, left, seen>>
      /\ pc[p] = "callback" /\ pc' = [pc EXCEPT ![p] = "out"] /\ frames' = [frames EXCEPT ![p] = <<>>]
  BY Zenon DEF CallbackError, Goto, locks, insertvars, history
<1>2. pc'[p] = "out" /\ frames'[p] = <<>> /\ messages'[p] = messages[p] /\ seen'[p] = seen[p]
  BY <1>0, <1>1 DEF SITypeOK
<1>3. Shape(p)' BY <1>0, <1>1, <1>2, Zenon DEF Shape
<1> QED BY <1>2, <1>3, IdleOwn DEF Own

\* A step outside the shared queue keeps the invariant of its own process.
LEMMA PrivateOwn == ASSUME SIInv, NEW p \in Procs, PrivateStep(p) PROVE Own(p)'
BY WriterOwn, SignalOwn, EnterOwn, FetchMaxOwn, InvalOwn, ErrorOwn, FetchOwn, FinishOwn, Zenon DEF PrivateStep

\* No private step publishes messages or brings a process to life.
LEMMA PrivateMove ==
    ASSUME SIInv, NEW p \in Procs, PrivateStep(p)
    PROVE  \/ pc'[p] = pc[p] /\ batch'[p] = batch[p]
           \/ /\ pc[p] \notin {"unborn", "gone", "flag", "publish"}
              /\ pc'[p] \notin {"unborn", "gone", "flag", "publish"}
<1>0. SITypeOK /\ Shape(p) /\ pc \in [Procs -> PCs] BY DEF SIInv, SITypeOK
<1> DEFINE Quiet(x) == x \notin {"unborn", "gone", "flag", "publish"}
<1>1. CASE HandleCatchupInterrupt(p) BY <1>1, Zenon DEF HandleCatchupInterrupt, insertvars
<1>2. CASE SendSharedInvalidMessages(p) \/ AcceptInvalidationMessages(p) \/ Recurse(p)
  BY <1>0, <1>2 DEF SendSharedInvalidMessages, AcceptInvalidationMessages, Recurse, Goto
<1>3. CASE InsertLock(p) \/ CleanupLock(p) \/ FetchMax(p) \/ InvalFunction(p) \/ CallbackError(p) \/ Fetch(p)
  BY <1>0, <1>3 DEF InsertLock, CleanupLock, FetchMax, InvalFunction, CallbackError, Fetch, Working, Goto
<1>4. ASSUME ReceiveReturn(p) PROVE Quiet(pc'[p]) BY <1>0, <1>4 DEF ReceiveReturn, Goto
<1>5. CASE SendProcSignal(p)
  <2>1. pc[p] = "signal" /\ (Goto(p, "relock") \/ ReceiveReturn(p)) BY <1>5, Zenon DEF SendProcSignal
  <2>2. Quiet(pc[p]) BY <2>1
  <2>3. Goto(p, "relock") => Quiet(pc'[p]) BY <1>0 DEF Goto
  <2> QED BY <2>1, <2>2, <2>3, <1>4
<1>6. CASE FinishReceive(p)
  <2>1. pc[p] \in {"work", "callback"} /\ (Goto(p, "clean") \/ ReceiveReturn(p))
    BY <1>6, Zenon DEF FinishReceive, CaughtUp, Working
  <2>2. Quiet(pc[p]) BY <2>1
  <2>3. Goto(p, "clean") => Quiet(pc'[p]) BY <1>0 DEF Goto
  <2> QED BY <2>1, <2>2, <2>3, <1>4
<1> QED BY <1>1, <1>2, <1>3, <1>5, <1>6 DEF PrivateStep

\* Private steps preserve the invariant.
LEMMA PrivateInv == ASSUME SIInv, NEW p \in Procs, PrivateStep(p) PROVE SIInv'
<1>1. SITypeOK' BY PrivateTypes
<1>2. Others(p) /\ \A q \in Procs \ {p} : Locks(q) BY PrivateOthers
<1>3. UNCHANGED <<slot, resets>> /\ Counters /\ \A q \in Procs : At(q) BY PrivateFrame
<1>4. Shared BY PrivateShared
<1>5. \/ pc'[p] = pc[p] /\ batch'[p] = batch[p]
      \/ /\ pc[p] \notin {"unborn", "gone", "flag", "publish"}
         /\ pc'[p] \notin {"unborn", "gone", "flag", "publish"}
  BY PrivateMove
<1>6. \A q \in Procs \ {p} : pc'[q] = pc[q] /\ batch'[q] = batch[q] BY <1>2, Zenon DEF Others, Same
<1>7. SlotInv'
  <2>1. \A q \in Procs : Living(q)' <=> Living(q) BY <1>5, <1>6 DEF Living
  <2>2. SlotInv /\ procPid \in [Slots -> Procs \cup {NULL}] BY DEF SIInv, SITypeOK
  <2> QED BY <1>3, <1>4, <2>1, <2>2, SlotKeep DEF Shared
<1>8. RingInv'
  <2>1. \A q \in Procs : /\ pc'[q] = "flag" <=> pc[q] = "flag"
                         /\ pc'[q] = "publish" => pc[q] = "publish" /\ batch'[q] = batch[q]
    BY <1>5, <1>6
  <2> QED BY <1>3, <1>4, <2>1, RingKeep DEF SIInv, Shared
<1>9. Own(p)' /\ Position(p)' BY PrivateOwn, PrivatePosition
<1>10. complete' \in Nat /\ complete <= complete' BY <1>3 DEF SIInv, SITypeOK, Counters
<1>11. ASSUME NEW q \in Procs \ {p} PROVE Own(q)' /\ Position(q)'
  <2>1. Same(q) /\ Locks(q) /\ At(q) BY <1>2, <1>3, <1>11, Zenon DEF Others
  <2>2. Shape(q)' /\ Fetched(q)' /\ Calling(q)' BY <2>1, <1>10, OtherKeep
  <2>3. ReadInv(q)' BY <2>1, <1>3, ReadKeep DEF SIInv
  <2>4. /\ slot'[q] = slot[q] /\ seen'[q] + Len(messages'[q]) = seen[q] + Len(messages[q])
        /\ (q \in readShared => q \in readShared') /\ (Living(q)' => Living(q))
    BY <2>1, Zenon DEF Same, Locks, Living
  <2>5. Position(q)' BY <2>1, <2>4, <1>3, PositionKeep DEF SIInv
  <2> QED BY <2>2, <2>3, <2>5 DEF Own
<1> QED BY <1>1, <1>7, <1>8, <1>9, <1>11, Zenon DEF SIInv, Own
----------------------------------------------------------------------------
(* Insertion *)

\* Only one process is between taking SInvalWriteLock and releasing it.
LEMMA OneWriter ==
    ASSUME SIInv, NEW p \in Procs, pc[p] \in {"room", "publish", "flag", "cleanup"}
    PROVE  /\ \A q \in Procs \ {p} : pc[q] \notin {"room", "publish", "flag", "cleanup"}
           /\ pc[p] # "flag" => complete = total
<1>1. writeLock = p BY DEF SIInv, Shape
<1>2. \A q \in Procs \ {p} : pc[q] \notin {"room", "publish", "flag", "cleanup"} BY <1>1, Zenon DEF SIInv, Shape
<1> QED BY <1>2, Zenon DEF SIInv, RingInv

\* A writer's own state, while it holds the lock.
LEMMA InsertOwn ==
    ASSUME SIInv, NEW p \in Procs, InsertWrite(p) \/ InsertPublish(p) \/ InsertFlag(p)
    PROVE  Own(p)'
<1>0. SITypeOK /\ Shape(p) BY DEF SIInv
<1>1. UNCHANGED <<readShared, left, receivevars, seen, resets>> BY Zenon DEF InsertWrite, InsertPublish, InsertFlag, locks,
                                                                insertvars, history
<1>2. pc[p] \in {"room", "publish", "flag"} BY DEF InsertWrite, InsertPublish, InsertFlag
<1>3. frames'[p] = <<>> /\ messages'[p] = messages[p] /\ seen'[p] = seen[p]
  BY <1>0, <1>1, <1>2 DEF Shape, receivevars
<1>4. CASE InsertWrite(p)
  <2>1. writeLock' = writeLock /\ batch' = batch /\ pc' = [pc EXCEPT ![p] = "publish"] /\ pc[p] = "room"
    BY <1>4, Zenon DEF InsertWrite, Goto, locks, insertvars
  <2>2. pc'[p] = "publish" BY <1>0, <2>1 DEF SITypeOK
  <2>3. Shape(p)' BY <1>0, <1>1, <1>3, <2>1, <2>2, Zenon DEF Shape
  <2> QED BY <1>3, <2>2, <2>3, IdleOwn DEF Own
<1>5. CASE InsertPublish(p)
  <2>1. writeLock' = writeLock /\ batch' = batch /\ pc' = [pc EXCEPT ![p] = "flag"] /\ pc[p] = "publish"
    BY <1>5, Zenon DEF InsertPublish, Goto, locks, insertvars
  <2>2. pc'[p] = "flag" BY <1>0, <2>1 DEF SITypeOK
  <2>3. Shape(p)' BY <1>0, <1>1, <1>3, <2>1, <2>2, Zenon DEF Shape
  <2> QED BY <1>3, <2>2, <2>3, IdleOwn DEF Own
<1>6. CASE InsertFlag(p)
  <2>1. /\ batch' = [batch EXCEPT ![p] = 0] /\ pc[p] = "flag" /\ left' = left
        /\ pc' = [pc EXCEPT ![p] = IF left[p] > 0 THEN "insert" ELSE "out"]
    BY <1>6, Zenon DEF InsertFlag, Goto
  <2>2. pc'[p] = (IF left[p] > 0 THEN "insert" ELSE "out") /\ batch'[p] = 0 BY <1>0, <2>1 DEF SITypeOK
  <2>3. batch'[p] <= WRITE_QUANTUM BY <2>2, Constants
  <2>4. (pc'[p] = "insert" /\ left'[p] > 0) \/ pc'[p] = "out" BY <2>1, <2>2
  <2>5. (p \in SendOnly => resets'[p] = 0) /\ p \notin readShared' BY <1>0, <1>1, <2>1, Zenon DEF Shape
  <2>6. Shape(p)' BY <1>3, <2>3, <2>4, <2>5, Zenon DEF Shape
  <2> QED BY <1>3, <2>4, <2>6, IdleOwn DEF Own
<1> QED BY <1>4, <1>5, <1>6
====
