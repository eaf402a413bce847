--------------------------- MODULE BarrierProofs ---------------------------
(***************************************************************************)
(* Condition variables never lose a signal, use a process's single link    *)
(* once, and a Broadcast wakes everybody it found, for any number of       *)
(* processes and condition variables.  The invariant says, besides types:  *)
(* which cv_sleep_target and which sentinel a process has at each step of  *)
(* its routine (Phase), that a listed process is there as a sleeper or as  *)
(* a sentinel (Placed), at one place only (Once), and that whoever a       *)
(* Broadcast still owes a wakeup is listed in front of its sentinel        *)
(* (Ahead): so no other process can remove the sentinel, which would end   *)
(* the Broadcast, before it has removed all those.                         *)
(***************************************************************************)
(* Barriers keep their processes in step and elect one of them per phase,  *)
(* for any number of processes and phases.  Counting carries the argument: *)
(* participants and arrived count the attached and the waiting processes,  *)
(* so when an idle process finds arrived = participants - 1 all the others *)
(* are waiting, nobody is still leaving the previous phase, and the phase  *)
(* may advance.                                                            *)
(***************************************************************************)
EXTENDS Barrier, FiniteSetTheorems, TLAPS

USE CVAssumption, ZenonT(10), SMTT(60)

PCs == {"out", "cancel", "prepCancel", "prepReset", "prepPush", "wait", "reset", "check",
        "signal", "setLatch", "bcCancel", "bcFirst", "bcLoop"}

CVTypeOK ==
    /\ cvWakeup \in [CVs -> Seq(Procs)] /\ cv_sleep_target \in [Procs -> CVs \cup {NULL}]
    /\ latch \in [Procs -> BOOLEAN] /\ cvpc \in [Procs -> PCs] /\ cvarg \in [Procs -> CVs]
    /\ found \in [Procs -> Procs \cup {NULL}] /\ have_sentinel \in [Procs -> BOOLEAN]
    /\ owed \in [Procs -> SUBSET Procs]

\* What a process is prepared for, and whether it has a sentinel, by its step.
Phase(p) ==
    /\ cvpc[p] \in {"cancel", "prepCancel", "bcCancel"} => cv_sleep_target[p] # NULL
    /\ cvpc[p] \in {"prepReset", "bcFirst", "bcLoop"} => cv_sleep_target[p] = NULL
    /\ cvpc[p] \in {"prepPush", "wait", "reset", "check"} => cv_sleep_target[p] = cvarg[p]
    /\ have_sentinel[p] => cvpc[p] \in {"setLatch", "bcLoop"} /\ cv_sleep_target[p] = NULL
    /\ cvpc[p] = "bcLoop" => have_sentinel[p]
    /\ found[p] # NULL => cvpc[p] = "setLatch"

In(s, q) == \E i \in 1 .. Len(s) : s[i] = q
Before(s, a, b) == \E i, j \in 1 .. Len(s) : i < j /\ s[i] = a /\ s[j] = b
Distinct(s) == \A i, j \in 1 .. Len(s) : s[i] = s[j] => i = j

\* A listed process is a sleeper that has entered the list, or a sentinel.
Placed(cv) ==
    \A q \in Procs : In(cvWakeup[cv], q) =>
        \/ cv_sleep_target[q] = cv /\ cvpc[q] # "prepPush"
        \/ have_sentinel[q] /\ cvarg[q] = cv

\* Nobody is listed twice in a list; by Placed nobody is in two lists.
Once(cv) == Distinct(cvWakeup[cv])

\* Whoever a Broadcast still has to wake is in front of its sentinel.
Ahead(p) == \A q \in owed[p] : have_sentinel[p] /\ Before(cvWakeup[cvarg[p]], q, p)

CVInv ==
    /\ CVTypeOK
    /\ \A p \in Procs : Phase(p) /\ Ahead(p)
    /\ \A cv \in CVs : Placed(cv) /\ Once(cv)
    /\ SignalNotLost

-----------------------------------------------------------------------------
(* Lists *)

\* A list of processes as a function.
LEMMA Listing == ASSUME NEW s \in Seq(Procs) PROVE /\ Len(s) \in Nat /\ DOMAIN s = 1 .. Len(s)
                                                 /\ \A i \in 1 .. Len(s) : s[i] \in Procs
OBVIOUS

\* Entering a list adds the process behind the others.
LEMMA Pushed ==
    ASSUME NEW s \in Seq(Procs), NEW p \in Procs
    PROVE  /\ Append(s, p) \in Seq(Procs) /\ Len(Append(s, p)) = Len(s) + 1
           /\ \A i \in 1 .. Len(s) : Append(s, p)[i] = s[i]
           /\ Append(s, p)[Len(s) + 1] = p
OBVIOUS

\* Taking the first entry moves the others one place ahead.
LEMMA Popped ==
    ASSUME NEW s \in Seq(Procs), s # <<>>
    PROVE  /\ Tail(s) \in Seq(Procs) /\ Len(Tail(s)) = Len(s) - 1 /\ Len(s) \in Nat \ {0}
           /\ Head(s) = s[1] /\ s[1] \in Procs
           /\ \A i \in 1 .. Len(s) - 1 : Tail(s)[i] = s[i + 1]
OBVIOUS

\* Deleting an entry keeps the order of the others.
LEMMA Deleted ==
    ASSUME NEW s \in Seq(Procs), NEW p \in Procs
    PROVE  /\ Without(s, p) \in Seq(Procs)
           /\ \/ Without(s, p) = s /\ \A i \in 1 .. Len(s) : s[i] # p
              \/ \E k \in 1 .. Len(s) :
                    /\ s[k] = p /\ Len(Without(s, p)) = Len(s) - 1
                    /\ \A i \in 1 .. Len(s) - 1 :
                          Without(s, p)[i] = IF i < k THEN s[i] ELSE s[i + 1]
<1>0. Len(s) \in Nat /\ DOMAIN s = 1 .. Len(s) /\ \A i \in 1 .. Len(s) : s[i] \in Procs BY Listing
<1>1. CASE \E i \in DOMAIN s : s[i] = p
  <2> DEFINE k == CHOOSE i \in DOMAIN s : s[i] = p
             w == [i \in 1 .. Len(s) - 1 |-> IF i < k THEN s[i] ELSE s[i + 1]]
  <2>1. k \in 1 .. Len(s) /\ s[k] = p BY <1>0, <1>1
  <2>2. Without(s, p) = w BY <1>1 DEF Without
  <2> HIDE DEF k
  <2>3. Len(s) - 1 \in Nat BY <2>1, <1>0
  <2>4. w \in Seq(Procs) /\ Len(w) = Len(s) - 1 BY <2>1, <2>3, <1>0
  <2>5. \A i \in 1 .. Len(s) - 1 : w[i] = IF i < k THEN s[i] ELSE s[i + 1] OBVIOUS
  <2> HIDE DEF w
  <2> QED BY <2>1, <2>2, <2>4, <2>5
<1>2. CASE ~\E i \in DOMAIN s : s[i] = p
  <2>1. Without(s, p) = s BY <1>2 DEF Without
  <2> QED BY <2>1, <1>2, <1>0
<1> QED BY <1>1, <1>2

\* What entering a list does to it.
LEMMA PushMove ==
    ASSUME NEW s \in Seq(Procs), NEW p \in Procs
    PROVE  /\ \A q : In(Append(s, p), q) => In(s, q) \/ q = p
           /\ \A q : In(s, q) => In(Append(s, p), q)
           /\ \A a, b : Before(s, a, b) => Before(Append(s, p), a, b)
           /\ \A a : In(s, a) => Before(Append(s, p), a, p)
           /\ Distinct(s) /\ ~In(s, p) => Distinct(Append(s, p))
<1> DEFINE t == Append(s, p)
<1>1. /\ Len(s) \in Nat /\ Len(t) = Len(s) + 1 /\ \A i \in 1 .. Len(s) : t[i] = s[i]
      /\ t[Len(s) + 1] = p
  BY Pushed, SMTT(60)
<1> HIDE DEF t
<1>2. \A i \in 1 .. Len(s) : i \in 1 .. Len(t) /\ i < Len(s) + 1 BY <1>1, SMTT(60)
<1>3. \A i \in 1 .. Len(t) : i \in 1 .. Len(s) \/ i = Len(s) + 1 BY <1>1
<1>4. Len(s) + 1 \in 1 .. Len(t) BY <1>1
<1>5. \A q : In(t, q) => In(s, q) \/ q = p BY <1>1, <1>3 DEF In
<1>6. \A q : In(s, q) => In(t, q) BY <1>1, <1>2 DEF In
<1>7. \A a, b : Before(s, a, b) => Before(t, a, b) BY <1>1, <1>2 DEF Before
<1>8. \A a : In(s, a) => Before(t, a, p) BY <1>1, <1>2, <1>4 DEF Before, In
<1>9. Distinct(s) /\ ~In(s, p) => Distinct(t) BY <1>1, <1>3 DEF Distinct, In
<1> QED BY <1>5, <1>6, <1>7, <1>8, <1>9 DEF t

\* What taking the first entry of a list does to it.
LEMMA PopMove ==
    ASSUME NEW s \in Seq(Procs), s # <<>>, Distinct(s)
    PROVE  /\ \A q : In(Tail(s), q) => In(s, q) /\ q # s[1]
           /\ \A q : In(s, q) /\ q # s[1] => In(Tail(s), q)
           /\ \A a, b : Before(s, a, b) /\ a # s[1] => Before(Tail(s), a, b)
           /\ \A a : ~Before(s, a, s[1])
           /\ In(s, s[1]) /\ Distinct(Tail(s))
<1> DEFINE t == Tail(s)
<1>1. /\ Len(s) \in Nat \ {0} /\ Len(t) = Len(s) - 1
      /\ \A i \in 1 .. Len(s) - 1 : t[i] = s[i + 1]
  BY Popped
<1> HIDE DEF t
<1>2. \A i \in 1 .. Len(t) : i + 1 \in 1 .. Len(s) /\ t[i] = s[i + 1] /\ i + 1 # 1 BY <1>1, SMTT(60)
<1>3. \A i \in 1 .. Len(s) : i # 1 => i - 1 \in 1 .. Len(t) /\ t[i - 1] = s[i] BY <1>1
<1>4. 1 \in 1 .. Len(s) BY <1>1
<1>5. \A q : In(t, q) => In(s, q) /\ q # s[1] BY <1>2, <1>4 DEF In, Distinct
<1>6. \A q : In(s, q) /\ q # s[1] => In(t, q) BY <1>3 DEF In
<1>7. ASSUME NEW a, NEW b, Before(s, a, b), a # s[1] PROVE Before(t, a, b)
  <2>1. PICK i, j \in 1 .. Len(s) : i < j /\ s[i] = a /\ s[j] = b BY <1>7 DEF Before
  <2>2. i # 1 /\ j # 1 /\ i - 1 < j - 1 BY <2>1, <1>7, <1>1, SMTT(60)
  <2> QED BY <2>1, <2>2, <1>3 DEF Before
<1>8. \A a : ~Before(s, a, s[1]) BY <1>1, <1>4, SMTT(60) DEF Before, Distinct
<1>9. In(s, s[1]) BY <1>4 DEF In
<1>10. Distinct(t)
  <2> SUFFICES ASSUME NEW i \in 1 .. Len(t), NEW j \in 1 .. Len(t), t[i] = t[j] PROVE i = j
    BY DEF Distinct
  <2>1. i + 1 = j + 1 BY <1>2 DEF Distinct
  <2> QED BY <2>1, <1>1
<1> QED BY <1>5, <1>6, <1>7, <1>8, <1>9, <1>10 DEF t

\* What deleting an entry of a list does to it.
LEMMA DeleteMove ==
    ASSUME NEW s \in Seq(Procs), NEW p \in Procs, Distinct(s)
    PROVE  /\ \A q : In(Without(s, p), q) => In(s, q) /\ q # p
           /\ \A q : In(s, q) /\ q # p => In(Without(s, p), q)
           /\ \A a, b : Before(s, a, b) /\ a # p /\ b # p => Before(Without(s, p), a, b)
           /\ Distinct(Without(s, p))
<1> DEFINE t == Without(s, p)
<1>0. Len(s) \in Nat BY Listing
<1>1. CASE t = s /\ \A i \in 1 .. Len(s) : s[i] # p BY <1>1 DEF In
<1>2. ASSUME NEW k \in 1 .. Len(s), s[k] = p, Len(t) = Len(s) - 1,
             \A i \in 1 .. Len(s) - 1 : t[i] = IF i < k THEN s[i] ELSE s[i + 1]
      PROVE  /\ \A q : In(t, q) => In(s, q) /\ q # p
             /\ \A q : In(s, q) /\ q # p => In(t, q)
             /\ \A a, b : Before(s, a, b) /\ a # p /\ b # p => Before(t, a, b)
             /\ Distinct(t)
  <2> HIDE DEF t
  <2> DEFINE up(i) == IF i < k THEN i ELSE i + 1
             down(i) == IF i < k THEN i ELSE i - 1
  <2>1. \A i \in 1 .. Len(t) : up(i) \in 1 .. Len(s) /\ up(i) # k /\ t[i] = s[up(i)] BY <1>0, <1>2
  <2>2. \A i, j \in 1 .. Len(t) : up(i) = up(j) => i = j BY <1>0, <1>2, SMTT(60)
  <2>3. \A i \in 1 .. Len(s) : i # k => down(i) \in 1 .. Len(t) /\ t[down(i)] = s[i] BY <1>0, <1>2
  <2>4. \A i, j \in 1 .. Len(s) : i # k /\ j # k /\ i < j => down(i) < down(j) BY <1>0, <1>2
  <2> HIDE DEF up, down
  <2>5. \A q : In(t, q) => In(s, q) /\ q # p BY <2>1, <1>2, SMTT(60) DEF In, Distinct
  <2>6. \A q : In(s, q) /\ q # p => In(t, q) BY <2>3, <1>2 DEF In
  <2>7. ASSUME NEW a, NEW b, Before(s, a, b), a # p, b # p PROVE Before(t, a, b)
    <3>1. PICK i, j \in 1 .. Len(s) : i < j /\ s[i] = a /\ s[j] = b BY <2>7 DEF Before
    <3>2. i # k /\ j # k BY <3>1, <2>7, <1>2
    <3>3. down(i) \in 1 .. Len(t) /\ t[down(i)] = a BY <3>1, <3>2, <2>3
    <3>4. down(j) \in 1 .. Len(t) /\ t[down(j)] = b BY <3>1, <3>2, <2>3
    <3>5. down(i) < down(j) BY <3>1, <3>2, <2>4
    <3> QED BY <3>3, <3>4, <3>5 DEF Before
  <2>8. Distinct(t) BY <2>1, <2>2 DEF Distinct
  <2> QED BY <2>5, <2>6, <2>7, <2>8
<1>3. Distinct(t) \/ t # s OBVIOUS
<1> QED BY <1>1, <1>2, <1>3, Deleted, ZenonT(30)
-----------------------------------------------------------------------------
(* Types *)

\* The steps of a process p, in the routines or between them.
Step(p) == CVStep(p) \/ CVCaller(p, CVFns \X CVs)

\* What calling a function of condition_variable.c does: it notes the argument and goes to
\* the first step of the function, which depends on the condition variable being slept on.
LEMMA Entries ==
    ASSUME CVInv, NEW p \in Procs, NEW c \in CVFns \X CVs, Enter(p, c[1], c[2])
    PROVE  /\ c[2] \in CVs /\ cvpc[p] = "out" /\ cvarg' = [cvarg EXCEPT ![p] = c[2]]
           /\ UNCHANGED <<cvWakeup, cv_sleep_target, latch, found, have_sentinel, owed>>
           /\ \E e \in {"out", "cancel", "prepCancel", "prepReset", "wait", "signal", "bcCancel", "bcFirst"} :
                /\ cvpc' = [cvpc EXCEPT ![p] = e]
                /\ e \in {"cancel", "prepCancel", "bcCancel"} => cv_sleep_target[p] # NULL
                /\ e \in {"prepReset", "bcFirst"} => cv_sleep_target[p] = NULL
                /\ e = "wait" => cv_sleep_target[p] = c[2]
<1>1. c[1] \in CVFns /\ c[2] \in CVs OBVIOUS
<1> USE <1>1 DEF Enter, CVFns, PrepareEntry, SleepEntry, CancelEntry, BroadcastEntry
<1>2. CASE c[1] = "PrepareToSleep" BY <1>2
<1>3. CASE c[1] = "Sleep" BY <1>3
<1>4. CASE c[1] = "CancelSleep" BY <1>4
<1>5. CASE c[1] = "Signal" BY <1>5
<1>6. CASE c[1] = "Broadcast" BY <1>6
<1> QED BY <1>1, <1>2, <1>3, <1>4, <1>5, <1>6

\* What a Signal does if somebody is listed.
LEMMA SignalPops ==
    ASSUME NEW p \in Procs, Signal(p), cvWakeup[cvarg[p]] # <<>>
    PROVE  LET s == cvWakeup[cvarg[p]] IN
           /\ cvWakeup' = [cvWakeup EXCEPT ![cvarg[p]] = Tail(s)]
           /\ found' = [found EXCEPT ![p] = Head(s)]
           /\ cvpc' = [cvpc EXCEPT ![p] = "setLatch"]
           /\ owed' = [q \in Procs |-> owed[q] \ {Head(s)}]
           /\ UNCHANGED <<cv_sleep_target, latch, cvarg, have_sentinel>>
BY DEF Signal

\* What the first section of a Broadcast does if somebody is listed.
LEMMA FirstPops ==
    ASSUME NEW p \in Procs, BroadcastFirst(p), cvWakeup[cvarg[p]] # <<>>
    PROVE  LET s == cvWakeup[cvarg[p]] IN
           /\ cvWakeup' = [cvWakeup EXCEPT ![cvarg[p]] =
                               IF Tail(s) = <<>> THEN Tail(s) ELSE AddSentinel(Tail(s), p)]
           /\ found' = [found EXCEPT ![p] = Head(s)]
           /\ have_sentinel' = [have_sentinel EXCEPT ![p] = Tail(s) # <<>>]
           /\ cvpc' = [cvpc EXCEPT ![p] = "setLatch"]
           /\ owed' = [q \in Procs |-> IF q = p THEN {Tail(s)[i] : i \in DOMAIN Tail(s)}
                                       ELSE owed[q] \ {Head(s)}]
           /\ UNCHANGED <<cv_sleep_target, latch, cvarg>>
BY DEF BroadcastFirst

\* What a turn of a Broadcast does if somebody is listed.
LEMMA LoopPops ==
    ASSUME NEW p \in Procs, BroadcastLoop(p), cvWakeup[cvarg[p]] # <<>>
    PROVE  LET s == cvWakeup[cvarg[p]] IN
           /\ cvWakeup' = [cvWakeup EXCEPT ![cvarg[p]] = Tail(s)]
           /\ found' = [found EXCEPT ![p] = IF s[1] = p THEN NULL ELSE s[1]]
           /\ have_sentinel' = [have_sentinel EXCEPT ![p] = SentinelListed(Tail(s), p)]
           /\ cvpc' = [cvpc EXCEPT ![p] = "setLatch"]
           /\ owed' = [q \in Procs |-> owed[q] \ {s[1]}]
           /\ UNCHANGED <<cv_sleep_target, latch, cvarg>>
BY DEF BroadcastLoop

\* Every step of condition_variable.c keeps the types.
LEMMA TypeStep == ASSUME CVInv, NEW p \in Procs, Step(p) PROVE CVTypeOK'
<1>0. CVTypeOK /\ Phase(p) BY DEF CVInv
<1>1. cvarg[p] \in CVs /\ cvWakeup[cvarg[p]] \in Seq(Procs) /\ cvpc[p] \in PCs BY <1>0 DEF CVTypeOK
<1> DEFINE s == cvWakeup[cvarg[p]]
<1>2. Append(s, p) \in Seq(Procs) BY <1>1
<1>3. s # <<>> => Head(s) \in Procs /\ s[1] \in Procs /\ Tail(s) \in Seq(Procs) BY <1>1, Popped
<1> HIDE DEF s
<1> USE <1>0 DEF CVTypeOK, PCs
<1>4. CASE CancelSleep(p)
  <2>1. cv_sleep_target[p] \in CVs BY <1>4 DEF CancelSleep, Phase
  <2>2. Without(cvWakeup[cv_sleep_target[p]], p) \in Seq(Procs) BY <2>1, Deleted
  <2> QED BY <1>4, <2>2 DEF CancelSleep
<1>5. CASE PrepareReset(p) BY <1>5, <1>1 DEF PrepareReset
<1>6. CASE PreparePush(p) BY <1>6, <1>2 DEF PreparePush, s
<1>7. CASE WaitLatch(p) \/ SleepReset(p) \/ Interrupt(p) \/ ForeignSetLatch(p)
  <2>1. CASE WaitLatch(p) BY <2>1 DEF WaitLatch, SleepOrder
  <2>2. CASE SleepReset(p) BY <2>2 DEF SleepReset, SleepOrder
  <2>3. CASE Interrupt(p) BY <2>3 DEF Interrupt
  <2>4. CASE ForeignSetLatch(p) BY <2>4 DEF ForeignSetLatch
  <2> QED BY <1>7, <2>1, <2>2, <2>3, <2>4
<1>8. CASE SleepCheck(p)
  <2>1. CASE Listed(p, cvarg[p]) BY <1>8, <2>1 DEF SleepCheck, SleepOrder
  <2>2. CASE ~Listed(p, cvarg[p])
    <3>1. cvWakeup' = [cvWakeup EXCEPT ![cvarg[p]] = Append(s, p)] BY <1>8, <2>2 DEF SleepCheck, s
    <3> QED BY <1>8, <2>2, <3>1, <1>2 DEF SleepCheck
  <2> QED BY <2>1, <2>2
<1>9. CASE Signal(p)
  <2>1. CASE s = <<>> BY <1>9, <2>1 DEF Signal, s
  <2>2. CASE s # <<>>
    <3>1. /\ cvWakeup' = [cvWakeup EXCEPT ![cvarg[p]] = Tail(s)] /\ found' = [found EXCEPT ![p] = Head(s)]
          /\ cvpc' = [cvpc EXCEPT ![p] = "setLatch"] /\ owed' = [q \in Procs |-> owed[q] \ {Head(s)}]
          /\ UNCHANGED <<cv_sleep_target, latch, cvarg, have_sentinel>>
      BY <1>9, <2>2, SignalPops DEF s
    <3> QED BY <2>2, <3>1, <1>3
  <2> QED BY <2>1, <2>2
<1>10. CASE BroadcastFirst(p)
  <2>1. CASE s = <<>> BY <1>10, <2>1 DEF BroadcastFirst, s
  <2>2. CASE s # <<>>
    <3>1. AddSentinel(Tail(s), p) \in Seq(Procs) BY <1>3, <2>2, SMTT(60) DEF AddSentinel
    <3>2. {Tail(s)[i] : i \in DOMAIN Tail(s)} \in SUBSET Procs BY <1>3, <2>2, Listing, SMTT(60)
    <3> DEFINE all == {Tail(s)[i] : i \in DOMAIN Tail(s)}
               list == IF Tail(s) = <<>> THEN Tail(s) ELSE AddSentinel(Tail(s), p)
    <3>3. /\ cvWakeup' = [cvWakeup EXCEPT ![cvarg[p]] = list]
          /\ found' = [found EXCEPT ![p] = Head(s)]
          /\ have_sentinel' = [have_sentinel EXCEPT ![p] = Tail(s) # <<>>]
          /\ cvpc' = [cvpc EXCEPT ![p] = "setLatch"]
          /\ owed' = [q \in Procs |-> IF q = p THEN all ELSE owed[q] \ {Head(s)}]
          /\ UNCHANGED <<cv_sleep_target, latch, cvarg>>
      BY <1>10, <2>2, FirstPops DEF s
    <3>4. list \in Seq(Procs) BY <1>3, <2>2, <3>1
    <3> HIDE DEF all, list
    <3> QED BY <2>2, <1>3, <3>2, <3>3, <3>4 DEF all
  <2> QED BY <2>1, <2>2
<1>11. CASE BroadcastLoop(p) BY <1>11, <1>3 DEF BroadcastLoop, SentinelListed, s
<1>12. CASE SetFoundLatch(p) BY <1>12 DEF SetFoundLatch
<1>13. ASSUME NEW c \in CVFns \X CVs, Enter(p, c[1], c[2]) PROVE CVTypeOK'
  <2>1. c[2] \in CVs /\ cvarg' = [cvarg EXCEPT ![p] = c[2]] BY <1>13, Entries, SMTT(60)
  <2>2. UNCHANGED <<cvWakeup, cv_sleep_target, latch, found, have_sentinel, owed>> BY <1>13, Entries
  <2>3. PICK e \in PCs : cvpc' = [cvpc EXCEPT ![p] = e] BY <1>13, Entries, SMTT(60)
  <2> QED BY <2>1, <2>2, <2>3
<1> HIDE DEF CVTypeOK, PCs
<1> QED BY <1>4, <1>5, <1>6, <1>7, <1>8, <1>9, <1>10, <1>11, <1>12, <1>13, Zenon DEF Step, CVStep, CVCaller
-----------------------------------------------------------------------------
(* The other processes *)

\* A step of p leaves the local variables of the others alone, and their latches
\* set.
LEMMA Others ==
    ASSUME CVInv, NEW p \in Procs, Step(p), NEW q \in Procs, q # p
    PROVE  /\ cvpc'[q] = cvpc[q] /\ cv_sleep_target'[q] = cv_sleep_target[q] /\ cvarg'[q] = cvarg[q]
           /\ found'[q] = found[q] /\ have_sentinel'[q] = have_sentinel[q]
           /\ latch[q] => latch'[q]
<1>0. CVTypeOK BY DEF CVInv
<1> USE <1>0 DEF CVTypeOK
<1>4. CASE CancelSleep(p) BY <1>4 DEF CancelSleep
<1>5. CASE PrepareReset(p) BY <1>5 DEF PrepareReset
<1>6. CASE PreparePush(p) BY <1>6 DEF PreparePush
<1>7. CASE WaitLatch(p) \/ SleepReset(p) \/ Interrupt(p) \/ ForeignSetLatch(p)
  BY <1>7 DEF WaitLatch, SleepReset, Interrupt, ForeignSetLatch
<1>8. CASE SleepCheck(p) BY <1>8 DEF SleepCheck
<1>9. CASE Signal(p) BY <1>9 DEF Signal
<1>10. CASE BroadcastFirst(p) BY <1>10 DEF BroadcastFirst
<1>11. CASE BroadcastLoop(p) BY <1>11 DEF BroadcastLoop
<1>12. CASE SetFoundLatch(p) BY <1>12 DEF SetFoundLatch
<1>13. CASE \E c \in CVFns \X CVs : Enter(p, c[1], c[2]) BY <1>13 DEF Enter
<1> HIDE DEF CVTypeOK
<1> QED BY <1>4, <1>5, <1>6, <1>7, <1>8, <1>9, <1>10, <1>11, <1>12, <1>13, Zenon DEF Step, CVStep, CVCaller

\* Every step keeps what each process has at its own step.
LEMMA PhaseStep == ASSUME CVInv, NEW p \in Procs, Step(p) PROVE \A q \in Procs : Phase(q)'
<1>0. CVTypeOK /\ Phase(p) BY DEF CVInv
<1>1. ASSUME NEW q \in Procs, q # p PROVE Phase(q)'
  <2>1. Phase(q) BY DEF CVInv
  <2>2. /\ cvpc'[q] = cvpc[q] /\ cv_sleep_target'[q] = cv_sleep_target[q] /\ cvarg'[q] = cvarg[q]
        /\ found'[q] = found[q] /\ have_sentinel'[q] = have_sentinel[q]
    BY <1>1, Others
  <2> QED BY <2>1, <2>2 DEF Phase
<1>2. Phase(p)'
  <2> USE <1>0 DEF CVTypeOK, Phase
  <2>4. CASE CancelSleep(p) BY <2>4 DEF CancelSleep
  <2>5. CASE PrepareReset(p) BY <2>5 DEF PrepareReset
  <2>6. CASE PreparePush(p) BY <2>6 DEF PreparePush
  <2>7. CASE WaitLatch(p) \/ SleepReset(p) \/ Interrupt(p) \/ ForeignSetLatch(p)
    BY <2>7, SMTT(60) DEF WaitLatch, SleepReset, Interrupt, ForeignSetLatch, SleepOrder
  <2>8. CASE SleepCheck(p) BY <2>8 DEF SleepCheck, SleepOrder
  <2>9. CASE Signal(p) BY <2>9, SMTT(60) DEF Signal
  <2>10. CASE BroadcastFirst(p) BY <2>10, SMTT(60) DEF BroadcastFirst
  <2>11. CASE BroadcastLoop(p) BY <2>11 DEF BroadcastLoop
  <2>12. CASE SetFoundLatch(p) BY <2>12 DEF SetFoundLatch
  <2>13. ASSUME NEW c \in CVFns \X CVs, Enter(p, c[1], c[2]) PROVE Phase(p)' BY <2>13, Entries, SMTT(60)
  <2> HIDE DEF CVTypeOK, Phase
  <2> QED BY <2>4, <2>5, <2>6, <2>7, <2>8, <2>9, <2>10, <2>11, <2>12, <2>13, Zenon DEF Step, CVStep, CVCaller
<1> QED BY <1>1, <1>2
-----------------------------------------------------------------------------
(* Lists *)

\* Only p may enter a list, only x may leave one, and the order is kept.
Lists(p, x) ==
    /\ \A cv \in CVs : \A q \in Procs : In(cvWakeup'[cv], q) => In(cvWakeup[cv], q) \/ q = p
    /\ \A cv \in CVs : \A q \in Procs : In(cvWakeup[cv], q) /\ q # x => In(cvWakeup'[cv], q)
    /\ \A cv \in CVs : \A a, b \in Procs :
           Before(cvWakeup[cv], a, b) /\ a # x /\ b # x => Before(cvWakeup'[cv], a, b)
    /\ \A cv \in CVs : Once(cv)'

\* The processes that other Broadcasts owe a wakeup, and what becomes of x: unless
\* it is p itself its latch is about to be set and it owes nobody.
Debts(p, x) ==
    /\ \A q \in Procs : q # p => owed'[q] = owed[q] \ {x}
    /\ x # NULL => x = p \/ (found'[p] = x /\ owed[x] = {})

\* A step that touches no wait list.
LEMMA SameLists ==
    ASSUME CVInv, NEW p \in Procs, cvWakeup' = cvWakeup
    PROVE  Lists(p, NULL) 
BY DEF Lists, Once, CVInv

\* A step that changes one list.
LEMMA OneList ==
    ASSUME CVInv, NEW p \in Procs, NEW x, NEW k \in CVs, NEW t,
           cvWakeup' = [cvWakeup EXCEPT ![k] = t],
           \A q \in Procs : In(t, q) => In(cvWakeup[k], q) \/ q = p,
           \A q \in Procs : In(cvWakeup[k], q) /\ q # x => In(t, q),
           \A a, b \in Procs : Before(cvWakeup[k], a, b) /\ a # x /\ b # x => Before(t, a, b),
           Distinct(t)
    PROVE  Lists(p, x)
<1>1. cvWakeup'[k] = t BY DEF CVInv, CVTypeOK
<1>2. \A cv \in CVs : cv # k => cvWakeup'[cv] = cvWakeup[cv] BY DEF CVInv, CVTypeOK
<1>3. \A cv \in CVs : Distinct(cvWakeup[cv]) BY DEF CVInv, Once
<1> QED BY <1>1, <1>2, <1>3 DEF Lists, Once

\* A process without target and sentinel, or about to enter a list, is in none.
LEMMA Unlisted ==
    ASSUME CVInv, NEW p \in Procs, cvpc[p] = "prepPush" \/ cvpc[p] = "bcFirst"
    PROVE  \A cv \in CVs : ~In(cvWakeup[cv], p)
<1>1. Phase(p) BY DEF CVInv
<1>2. ~have_sentinel[p] /\ \/ cvpc[p] = "prepPush" \/ cv_sleep_target[p] = NULL BY <1>1 DEF Phase
<1>3. \A cv \in CVs : cv # NULL OBVIOUS
<1> QED BY <1>2, <1>3 DEF CVInv, Placed

\* The first process of a list owes nobody: its sentinel has nobody in front.
LEMMA FirstOwes ==
    ASSUME CVInv, NEW k \in CVs, cvWakeup[k] # <<>>
    PROVE  owed[cvWakeup[k][1]] = {}
<1> DEFINE s == cvWakeup[k]
           x == s[1]
<1>1. s \in Seq(Procs) /\ Distinct(s) BY DEF CVInv, CVTypeOK, Once
<1>2. x \in Procs BY <1>1, Popped
<1>3. In(s, x) /\ \A a : ~Before(s, a, x) BY <1>1, PopMove
<1> SUFFICES ASSUME NEW q \in owed[x] PROVE FALSE OBVIOUS
<1>4. have_sentinel[x] /\ Before(cvWakeup[cvarg[x]], q, x) BY <1>2 DEF CVInv, Ahead
<1>5. cv_sleep_target[x] = NULL BY <1>2, <1>4 DEF CVInv, Phase
<1>6. cvarg[x] = k BY <1>2, <1>3, <1>5 DEF CVInv, Placed
<1> QED BY <1>3, <1>4, <1>6

\* Every step moves at most one process in and at most one out.
LEMMA Moves ==
    ASSUME CVInv, NEW p \in Procs, Step(p)
    PROVE  \E x \in Procs \cup {NULL} : Lists(p, x) /\ Debts(p, x)
<1>0. CVTypeOK /\ Phase(p) BY DEF CVInv
<1> DEFINE k == cvarg[p]
           s == cvWakeup[k]
<1>1. k \in CVs /\ s \in Seq(Procs) /\ Distinct(s) BY DEF CVInv, CVTypeOK, Once
<1>2. s # <<>> => /\ Head(s) = s[1] /\ s[1] \in Procs /\ Tail(s) \in Seq(Procs)
                  /\ owed[s[1]] = {} /\ s[1] # NULL
  BY <1>1, Popped, FirstOwes
<1>3. owed \in [Procs -> SUBSET Procs] /\ \A q \in Procs : owed[q] \ {NULL} = owed[q]
  BY <1>0, SMTT(60) DEF CVTypeOK
<1>s. ASSUME cvWakeup' = cvWakeup, owed' = owed PROVE Lists(p, NULL) /\ Debts(p, NULL)
  BY <1>s, <1>3, SameLists DEF Debts
<1>p. ASSUME cvWakeup' = [cvWakeup EXCEPT ![k] = Append(s, p)], owed' = owed, ~In(s, p)
      PROVE  Lists(p, NULL) /\ Debts(p, NULL)
  <2> HIDE DEF k, s
  <2>1. Lists(p, NULL) BY <1>p, <1>1, PushMove, OneList DEF s
  <2> QED BY <2>1, <1>p, <1>3 DEF Debts
<1>q. ASSUME s # <<>>, cvWakeup' = [cvWakeup EXCEPT ![k] = Tail(s)] PROVE Lists(p, s[1])
  <2> HIDE DEF k, s
  <2> QED BY <1>q, <1>1, PopMove, OneList DEF s
<1>4. CASE CancelSleep(p)
  <2> DEFINE c == cv_sleep_target[p]
             t == Without(cvWakeup[c], p)
  <2>1. c \in CVs BY <1>4, <1>0 DEF CancelSleep, Phase, CVTypeOK
  <2>2. cvWakeup[c] \in Seq(Procs) /\ Distinct(cvWakeup[c]) BY <2>1 DEF CVInv, CVTypeOK, Once
  <2>3. cvWakeup' = [cvWakeup EXCEPT ![c] = t] /\ owed' = [q \in Procs |-> owed[q] \ {p}]
    BY <1>4 DEF CancelSleep
  <2> HIDE DEF c
  <2>4. Lists(p, p) BY <2>1, <2>2, <2>3, DeleteMove, OneList
  <2>5. Debts(p, p) BY <2>3 DEF Debts
  <2> QED BY <2>4, <2>5
<1>5. CASE PrepareReset(p) BY <1>5, <1>s DEF PrepareReset
<1>6. CASE PreparePush(p)
  <2>1. ~In(s, p) BY <1>6, <1>1, Unlisted DEF PreparePush
  <2> QED BY <1>6, <1>p, <2>1 DEF PreparePush
<1>7. CASE WaitLatch(p) \/ SleepReset(p) \/ Interrupt(p) \/ ForeignSetLatch(p)
  BY <1>7, <1>s DEF WaitLatch, SleepReset, Interrupt, ForeignSetLatch
<1>8. CASE SleepCheck(p)
  <2>1. CASE Listed(p, cvarg[p]) BY <1>8, <2>1, <1>s DEF SleepCheck
  <2>2. CASE ~Listed(p, cvarg[p])
    <3>1. ~In(s, p) BY <2>2, <1>1, Listing DEF Listed, In
    <3> QED BY <1>8, <2>2, <3>1, <1>p DEF SleepCheck
  <2> QED BY <2>1, <2>2
<1>9. CASE Signal(p)
  <2>1. CASE s = <<>> BY <1>9, <2>1, <1>s DEF Signal
  <2>2. CASE s # <<>>
    <3>1. /\ cvWakeup' = [cvWakeup EXCEPT ![k] = Tail(s)] /\ found' = [found EXCEPT ![p] = Head(s)]
          /\ owed' = [q \in Procs |-> owed[q] \ {Head(s)}]
      BY <1>9, <2>2, SignalPops
    <3>2. Debts(p, s[1]) BY <3>1, <2>2, <1>2, <1>0 DEF Debts, CVTypeOK
    <3> QED BY <3>1, <3>2, <2>2, <1>q, <1>2
  <2> QED BY <2>1, <2>2
<1>10. CASE BroadcastFirst(p)
  <2>1. CASE s = <<>> BY <1>10, <2>1, <1>s DEF BroadcastFirst
  <2>2. CASE s # <<>>
    <3> DEFINE t == IF Tail(s) = <<>> THEN Tail(s) ELSE AddSentinel(Tail(s), p)
               all == {Tail(s)[i] : i \in DOMAIN Tail(s)}
    <3>1. /\ cvWakeup' = [cvWakeup EXCEPT ![k] = t] /\ found' = [found EXCEPT ![p] = Head(s)]
          /\ owed' = [q \in Procs |-> IF q = p THEN all ELSE owed[q] \ {Head(s)}]
      BY <1>10, <2>2, FirstPops
    <3>2. ~In(Tail(s), p)
      <4>1. ~In(s, p) BY <1>10, <1>1, Unlisted DEF BroadcastFirst
      <4> QED BY <4>1, <2>2, <1>1, PopMove
    <3>3. /\ \A q \in Procs : In(t, q) => In(Tail(s), q) \/ q = p
          /\ \A q \in Procs : In(Tail(s), q) => In(t, q)
          /\ \A a, b \in Procs : Before(Tail(s), a, b) => Before(t, a, b)
          /\ Distinct(t)
      <4>0. Distinct(Tail(s)) BY <2>2, <1>1, PopMove
      <4>1. CASE Tail(s) = <<>> BY <4>1, <4>0
      <4>2. CASE t = Append(Tail(s), p) 
        <5>1. /\ \A q : In(Append(Tail(s), p), q) => In(Tail(s), q) \/ q = p
              /\ \A q : In(Tail(s), q) => In(Append(Tail(s), p), q)
              /\ \A a, b : Before(Tail(s), a, b) => Before(Append(Tail(s), p), a, b)
              /\ Distinct(Append(Tail(s), p))
          <6> HIDE DEF s
          <6> QED BY <4>0, <2>2, <1>2, <3>2, PushMove
        <5> HIDE DEF t, s
        <5> QED BY <4>2, <5>1
      <4> QED BY <4>1, <4>2 DEF AddSentinel
    <3> HIDE DEF t, all
    <3>4. Lists(p, s[1])
      <4> HIDE DEF k, s
      <4>1. /\ \A q : In(Tail(s), q) => In(s, q)
            /\ \A q : In(s, q) /\ q # s[1] => In(Tail(s), q)
            /\ \A a, b : Before(s, a, b) /\ a # s[1] => Before(Tail(s), a, b)
        BY <2>2, <1>1, PopMove
      <4>2. /\ \A q \in Procs : In(t, q) => In(s, q) \/ q = p
            /\ \A q \in Procs : In(s, q) /\ q # s[1] => In(t, q)
            /\ \A a, b \in Procs : Before(s, a, b) /\ a # s[1] /\ b # s[1] => Before(t, a, b)
        BY <4>1, <3>3
      <4> QED BY <3>1, <3>3, <4>2, <1>1, OneList DEF s
    <3>5. Debts(p, s[1]) BY <3>1, <2>2, <1>2, <1>0 DEF Debts, CVTypeOK
    <3> QED BY <3>4, <3>5, <2>2, <1>2
  <2> QED BY <2>1, <2>2
<1>11. CASE BroadcastLoop(p)
  <2>1. CASE s = <<>>
    <3>1. cvWakeup' = [cvWakeup EXCEPT ![k] = s] /\ owed' = [q \in Procs |-> owed[q]]
      BY <1>11, <2>1 DEF BroadcastLoop
    <3>2. cvWakeup' = cvWakeup /\ owed' = owed BY <3>1, <1>0, <1>1 DEF CVTypeOK
    <3> QED BY <3>2, <1>s
  <2>2. CASE s # <<>>
    <3>1. /\ cvWakeup' = [cvWakeup EXCEPT ![k] = Tail(s)]
          /\ found' = [found EXCEPT ![p] = IF s[1] = p THEN NULL ELSE s[1]]
          /\ owed' = [q \in Procs |-> owed[q] \ {s[1]}]
      BY <1>11, <2>2, LoopPops
    <3>2. Debts(p, s[1]) BY <3>1, <2>2, <1>2, <1>0 DEF Debts, CVTypeOK
    <3> QED BY <3>1, <3>2, <2>2, <1>q, <1>2
  <2> QED BY <2>1, <2>2
<1>12. CASE SetFoundLatch(p) BY <1>12, <1>s DEF SetFoundLatch
<1>13. CASE \E c \in CVFns \X CVs : Enter(p, c[1], c[2]) BY <1>13, <1>s DEF Enter
<1> QED BY <1>4, <1>5, <1>6, <1>7, <1>8, <1>9, <1>10, <1>11, <1>12, <1>13, Zenon DEF Step, CVStep, CVCaller
-----------------------------------------------------------------------------
(* Places, signals and debts *)

\* Every step leaves in the lists only those that sleep there and sentinels of broadcasts.
LEMMA PlacedStep == ASSUME CVInv, NEW p \in Procs, Step(p) PROVE \A cv \in CVs : Placed(cv)'
<1>0. CVTypeOK /\ Phase(p) BY DEF CVInv
<1>1. PICK x : Lists(p, x) BY Moves
<1> SUFFICES ASSUME NEW cv \in CVs, NEW q \in Procs, In(cvWakeup'[cv], q)
             PROVE  \/ cv_sleep_target'[q] = cv /\ cvpc'[q] # "prepPush"
                    \/ have_sentinel'[q] /\ cvarg'[q] = cv
  BY DEF Placed
<1>2. Placed(cv) /\ cv # NULL BY DEF CVInv
<1>3. CASE q # p
  <2>1. In(cvWakeup[cv], q) BY <1>1, <1>3 DEF Lists
  <2> QED BY <2>1, <1>2, <1>3, Others DEF Placed
<1>4. CASE q = p
  <2>1. In(cvWakeup[cv], p) => \/ cv_sleep_target[p] = cv /\ cvpc[p] # "prepPush"
                               \/ have_sentinel[p] /\ cvarg[p] = cv
    BY <1>2 DEF Placed
  <2> USE <1>0, <1>2, <1>4, <2>1 DEF CVTypeOK, Phase
  <2>4. CASE CancelSleep(p)
    <3> DEFINE c == cv_sleep_target[p]
    <3>1. c \in CVs /\ ~have_sentinel[p] BY <2>4 DEF CancelSleep
    <3>2. cvWakeup[c] \in Seq(Procs) /\ Distinct(cvWakeup[c]) BY <3>1 DEF CVInv, Once
    <3>3. ~In(cvWakeup'[c], p)
      <4>1. cvWakeup'[c] = Without(cvWakeup[c], p) BY <2>4, <3>1 DEF CancelSleep
      <4> QED BY <4>1, <3>2, DeleteMove, SMTT(60)
    <3>4. cvWakeup'[cv] = cvWakeup[cv] BY <2>4, <3>3 DEF CancelSleep
    <3> QED BY <3>1, <3>3, <3>4
  <2>5. CASE PrepareReset(p)
    <3>1. In(cvWakeup[cv], p) /\ cv_sleep_target[p] = NULL /\ ~have_sentinel[p]
      BY <2>5 DEF PrepareReset
    <3> QED BY <3>1
  <2>6. CASE PreparePush(p)
    <3>1. ~In(cvWakeup[cv], p) /\ cv_sleep_target'[p] = cvarg[p] /\ cvpc'[p] = "out"
      BY <2>6 DEF PreparePush
    <3>2. cv = cvarg[p] BY <2>6, <3>1 DEF PreparePush
    <3> QED BY <3>1, <3>2
  <2>7. CASE WaitLatch(p) \/ SleepReset(p) \/ Interrupt(p) \/ ForeignSetLatch(p)
    BY <2>7 DEF WaitLatch, SleepReset, Interrupt, ForeignSetLatch, SleepOrder
  <2>8. CASE SleepCheck(p)
    <3>1. cv_sleep_target'[p] = cvarg[p] /\ cvpc'[p] # "prepPush" /\ ~have_sentinel[p]
      BY <2>8 DEF SleepCheck, SleepOrder
    <3>2. cv # cvarg[p] => cvWakeup'[cv] = cvWakeup[cv] BY <2>8 DEF SleepCheck
    <3> QED BY <3>1, <3>2, <2>8 DEF SleepCheck
  <2>9. CASE Signal(p)
    <3>1. In(cvWakeup[cv], p)
      <4>1. CASE cvWakeup[cvarg[p]] = <<>> BY <2>9, <4>1 DEF Signal
      <4>2. CASE cv # cvarg[p] BY <2>9, <4>2 DEF Signal
      <4>3. CASE cvWakeup[cvarg[p]] # <<>> /\ cv = cvarg[p]
        <5>1. cvWakeup'[cv] = Tail(cvWakeup[cv]) BY <4>3, <2>9, SignalPops, SMTT(60)
        <5>2. cvWakeup[cv] \in Seq(Procs) /\ Distinct(cvWakeup[cv]) BY DEF CVInv, Once
        <5> QED BY <5>1, <5>2, <4>3, PopMove, SMTT(60)
      <4> QED BY <4>1, <4>2, <4>3
    <3>2. cv_sleep_target' = cv_sleep_target /\ ~have_sentinel[p] BY <2>9 DEF Signal
    <3>3. cvpc'[p] # "prepPush" BY <2>9 DEF Signal
    <3> QED BY <3>1, <3>2, <3>3
  <2>10. CASE BroadcastFirst(p)
    <3>1. ~In(cvWakeup[cv], p) BY <2>10, Unlisted DEF BroadcastFirst
    <3>2. cv = cvarg[p] /\ cvWakeup[cvarg[p]] # <<>> BY <2>10, <3>1 DEF BroadcastFirst
    <3> DEFINE s == cvWakeup[cv]
    <3>3. s \in Seq(Procs) /\ Distinct(s) BY DEF CVInv, Once
    <3>4. ~In(Tail(s), p) BY <3>1, <3>2, <3>3, PopMove
    <3>5. Tail(s) # <<>>
      <4> DEFINE t == IF Tail(s) = <<>> THEN Tail(s) ELSE AddSentinel(Tail(s), p)
      <4>1. cvWakeup' = [cvWakeup EXCEPT ![cv] = t] BY <2>10, <3>2, FirstPops
      <4> HIDE DEF t
      <4>2. cvWakeup'[cv] = t BY <4>1
      <4> QED BY <4>2, <3>4 DEF t
    <3>6. /\ have_sentinel' = [have_sentinel EXCEPT ![p] = Tail(cvWakeup[cvarg[p]]) # <<>>]
          /\ cvarg' = cvarg
      BY <2>10, <3>2, FirstPops
    <3>7. have_sentinel'[p] BY <3>6, <3>5, <3>2 DEF CVInv, CVTypeOK
    <3> QED BY <3>6, <3>7, <3>2
  <2>11. CASE BroadcastLoop(p)
    <3>1. cvarg' = cvarg /\ have_sentinel[p] /\ cv_sleep_target[p] = NULL BY <2>11 DEF BroadcastLoop
    <3>2. cv = cvarg[p]
      <4>1. cv # cvarg[p] => cvWakeup'[cv] = cvWakeup[cv] BY <2>11 DEF BroadcastLoop
      <4> QED BY <4>1, <3>1
    <3>3. have_sentinel'[p] = SentinelListed(cvWakeup'[cv], p) BY <2>11, <3>2 DEF BroadcastLoop
    <3>4. cvWakeup'[cv] \in Seq(Procs) BY TypeStep
    <3>5. have_sentinel'[p] BY <3>3, <3>4, Listing DEF SentinelListed, In
    <3> QED BY <3>1, <3>2, <3>5
  <2>12. CASE SetFoundLatch(p) BY <2>12 DEF SetFoundLatch
  <2>13. ASSUME NEW c \in CVFns \X CVs, Enter(p, c[1], c[2])
         PROVE  cv_sleep_target'[p] = cv /\ cvpc'[p] # "prepPush"
    <3>1. cvpc[p] = "out" /\ cvWakeup' = cvWakeup /\ cv_sleep_target' = cv_sleep_target
      BY <2>13, Entries
    <3>2. PICK e : e # "prepPush" /\ cvpc' = [cvpc EXCEPT ![p] = e] BY <2>13, Entries, SMTT(60)
    <3> QED BY <3>1, <3>2
  <2> HIDE DEF CVTypeOK, Phase
  <2> QED BY <2>4, <2>5, <2>6, <2>7, <2>8, <2>9, <2>10, <2>11, <2>12, <2>13, Zenon DEF Step, CVStep, CVCaller
<1> QED BY <1>3, <1>4

\* cvWakeupListed, as an index of the list.
LEMMA ListedIn ==
    ASSUME CVTypeOK, NEW q \in Procs, NEW cv \in CVs
    PROVE  Listed(q, cv) <=> In(cvWakeup[cv], q)
<1>1. cvWakeup[cv] \in Seq(Procs) BY DEF CVTypeOK
<1> QED BY <1>1, Listing DEF Listed, In

\* No step takes a sleeper off its list without setting its latch or being about to.
LEMMA SignalStep == ASSUME CVInv, NEW p \in Procs, Step(p) PROVE SignalNotLost'
<1>0. CVTypeOK /\ Phase(p) /\ CVTypeOK' BY TypeStep DEF CVInv
<1>1. PICK x : Lists(p, x) /\ Debts(p, x) BY Moves
<1> DEFINE open(q) == cvpc[q] \in {"out", "wait", "signal", "setLatch"}
           woken(q) == latch[q] \/ \E r \in Procs : found[r] = q
<1>2. \A q \in Procs : /\ cv_sleep_target[q] # NULL /\ ~In(cvWakeup[cv_sleep_target[q]], q) /\ open(q)
                       => woken(q)
  BY <1>0, ListedIn, SMTT(60) DEF CVInv, SignalNotLost, CVTypeOK
<1> SUFFICES ASSUME NEW q \in Procs, NEW cv \in CVs, cv_sleep_target'[q] = cv,
                    ~In(cvWakeup'[cv], q), open(q)'
             PROVE  woken(q)'
  <2>1. ASSUME NEW q \in Procs, cv_sleep_target'[q] # NULL,
               ~Listed(q, cv_sleep_target[q])', open(q)'
        PROVE  woken(q)'
    <3>1. cv_sleep_target'[q] \in CVs BY <1>0, <2>1 DEF CVTypeOK
    <3>2. ~In(cvWakeup'[cv_sleep_target'[q]], q)
      <4>1. cvWakeup'[cv_sleep_target'[q]] \in Seq(Procs) BY <1>0, <3>1 DEF CVTypeOK
      <4> QED BY <4>1, <2>1, Listing DEF Listed, In
    <3> QED BY <3>1, <3>2, <2>1
  <2> QED BY <2>1 DEF SignalNotLost
<1>3. CASE q # p
  <2>1. cvpc'[q] = cvpc[q] /\ cv_sleep_target[q] = cv /\ cv # NULL /\ (latch[q] => latch'[q])
    BY <1>3, Others
  <2>2. CASE In(cvWakeup[cv], q)
    <3>1. q = x BY <2>2, <1>1 DEF Lists
    <3> QED BY <3>1, <1>1, <1>3 DEF Debts
  <2>3. CASE ~In(cvWakeup[cv], q)
    <3>1. latch[q] \/ \E r \in Procs : found[r] = q BY <2>1, <2>3, <1>2
    <3>2. ASSUME NEW r \in Procs, found[r] = q, r # p PROVE woken(q)' BY <3>2, Others
    <3>3. CASE found[p] = q
      <4>1. cvpc[p] = "setLatch" BY <3>3, <1>0 DEF Phase
      <4>2. SetFoundLatch(p) \/ ForeignSetLatch(p)
        BY <4>1, Zenon DEF Step, CVStep, CVCaller, CancelSleep, PrepareReset, PreparePush, WaitLatch,
           SleepReset, SleepCheck, Signal, BroadcastFirst, BroadcastLoop, Interrupt, Enter
      <4>3. CASE SetFoundLatch(p) BY <4>3, <3>3 DEF SetFoundLatch
      <4>4. CASE ForeignSetLatch(p) BY <4>4, <3>3 DEF ForeignSetLatch
      <4> QED BY <4>2, <4>3, <4>4
    <3> QED BY <3>1, <3>2, <3>3, <2>1
  <2> QED BY <2>2, <2>3
<1>4. CASE q = p
  <2>1. cv_sleep_target[p] = cv /\ ~In(cvWakeup[cv], p) /\ open(p) => woken(p) BY <1>2
  <2> USE <1>0, <1>4, <2>1 DEF CVTypeOK, Phase
  <2>4. CASE CancelSleep(p) BY <2>4 DEF CancelSleep
  <2>5. CASE PrepareReset(p) BY <2>5 DEF PrepareReset
  <2>6. CASE PreparePush(p)
    <3>1. cv = cvarg[p] /\ cvWakeup'[cv] = Append(cvWakeup[cv], p) BY <2>6 DEF PreparePush
    <3>2. In(cvWakeup'[cv], p)
      <4>1. cvWakeup[cv] \in Seq(Procs) OBVIOUS
      <4>2. Len(cvWakeup[cv]) + 1 \in 1 .. Len(cvWakeup'[cv]) /\ cvWakeup'[cv][Len(cvWakeup[cv]) + 1] = p
        BY <4>1, <3>1, Pushed, SMTT(60)
      <4> QED BY <4>2 DEF In
    <3> QED BY <3>2
  <2>7. CASE WaitLatch(p) \/ SleepReset(p)
    BY <2>7 DEF WaitLatch, SleepReset, SleepOrder
  <2>14. CASE Interrupt(p) BY <2>14 DEF Interrupt
  <2>15. CASE ForeignSetLatch(p) BY <2>15 DEF ForeignSetLatch
  <2>8. CASE SleepCheck(p)
    <3>1. cv = cvarg[p] BY <2>8 DEF SleepCheck
    <3>2. CASE Listed(p, cv)
      <4>1. cvWakeup' = cvWakeup /\ In(cvWakeup[cv], p) BY <2>8, <3>1, <3>2, ListedIn DEF SleepCheck
      <4> QED BY <4>1
    <3>3. CASE ~Listed(p, cv)
      <4>0. cvWakeup' = [cvWakeup EXCEPT ![cv] = Append(cvWakeup[cv], p)]
        BY <2>8, <3>1, <3>3 DEF SleepCheck
      <4>1. cvWakeup'[cv] = Append(cvWakeup[cv], p) BY <4>0
      <4>2. cvWakeup[cv] \in Seq(Procs) OBVIOUS
      <4>3. Len(cvWakeup[cv]) + 1 \in 1 .. Len(cvWakeup'[cv]) /\ cvWakeup'[cv][Len(cvWakeup[cv]) + 1] = p
        BY <4>1, <4>2, Pushed, SMTT(60)
      <4> QED BY <4>3 DEF In
    <3> QED BY <3>2, <3>3
  <2>9. CASE Signal(p)
    <3>0. cv_sleep_target[p] = cv /\ open(p) /\ latch' = latch BY <2>9 DEF Signal
    <3>1. CASE In(cvWakeup[cv], p)
      <4>1. p = x BY <3>1, <1>1 DEF Lists
      <4>2. cvWakeup[cvarg[p]] # <<>> BY <2>9, <3>1 DEF Signal
      <4> DEFINE s == cvWakeup[cvarg[p]]
      <4>3. s \in Seq(Procs) /\ Distinct(s) BY DEF CVInv, Once
      <4>4. cvWakeup' = [cvWakeup EXCEPT ![cvarg[p]] = Tail(s)] /\ found'[p] = Head(s)
        BY <2>9, <4>2, SignalPops, SMTT(60)
      <4>5. cv = cvarg[p] BY <4>4, <3>1
      <4>6. Head(s) = p
        <5>1. ~In(Tail(s), p) BY <4>4, <4>5
        <5> QED BY <5>1, <3>1, <4>2, <4>3, <4>5, PopMove, Popped, SMTT(60)
      <4> QED BY <4>4, <4>6
    <3>2. CASE ~In(cvWakeup[cv], p)
      <4>1. woken(p) /\ found[p] = NULL /\ p # NULL BY <3>0, <3>2, <2>9 DEF Signal
      <4> QED BY <4>1, <3>0, Others, SMTT(60)
    <3> QED BY <3>1, <3>2
  <2>10. CASE BroadcastFirst(p) BY <2>10 DEF BroadcastFirst
  <2>11. CASE BroadcastLoop(p) BY <2>11 DEF BroadcastLoop
  <2>12. CASE SetFoundLatch(p)
    <3>1. cvWakeup' = cvWakeup /\ cv_sleep_target' = cv_sleep_target /\ cvpc[p] = "setLatch"
          /\ (latch[p] \/ found[p] = p => latch'[p])
      BY <2>12 DEF SetFoundLatch
    <3>2. woken(p) BY <3>1
    <3> QED BY <3>1, <3>2, Others, SMTT(60)
  <2>13. ASSUME NEW c \in CVFns \X CVs, Enter(p, c[1], c[2]) PROVE woken(p)'
    <3>1. /\ cvpc[p] = "out" /\ cvWakeup' = cvWakeup /\ cv_sleep_target' = cv_sleep_target
          /\ latch' = latch /\ found' = found
      BY <2>13, Entries
    <3> QED BY <3>1
  <2> HIDE DEF CVTypeOK, Phase, woken
  <2> QED BY <2>4, <2>5, <2>6, <2>7, <2>8, <2>9, <2>10, <2>11, <2>12, <2>13, <2>14, <2>15, <1>4, Zenon DEF Step, CVStep, CVCaller
<1> QED BY <1>3, <1>4

\* Every step leaves those a broadcast still owes a wakeup ahead of its sentinel.
LEMMA AheadStep == ASSUME CVInv, NEW p \in Procs, Step(p) PROVE \A q \in Procs : Ahead(q)'
<1>0. CVTypeOK /\ Phase(p) /\ Ahead(p) BY DEF CVInv
<1>1. PICK x : Lists(p, x) /\ Debts(p, x) BY Moves
<1>2. \A q \in Procs : owed[q] \in SUBSET Procs /\ cvarg[q] \in CVs BY <1>0 DEF CVTypeOK
<1>3. ASSUME NEW q \in Procs, q # p PROVE Ahead(q)'
  <2>1. cvarg'[q] = cvarg[q] /\ have_sentinel'[q] = have_sentinel[q] /\ owed'[q] = owed[q] \ {x}
    BY <1>1, <1>3, Others DEF Debts
  <2> SUFFICES ASSUME NEW a \in owed[q], a # x
               PROVE  have_sentinel[q] /\ Before(cvWakeup'[cvarg[q]], a, q)
    BY <2>1 DEF Ahead
  <2>2. have_sentinel[q] /\ Before(cvWakeup[cvarg[q]], a, q) BY DEF CVInv, Ahead
  <2>3. q # x BY <1>1, <1>3 DEF Debts
  <2>4. a \in Procs /\ cvarg[q] \in CVs BY <1>2
  <2> QED BY <2>2, <2>3, <2>4, <1>1 DEF Lists
<1>4. Ahead(p)'
  <2>1. ASSUME cvarg' = cvarg, have_sentinel' = have_sentinel, cvWakeup' = cvWakeup, owed' = owed
        PROVE  Ahead(p)'
    BY <2>1, <1>0 DEF Ahead
  <2>2. ASSUME ~have_sentinel[p], owed'[p] \subseteq owed[p] PROVE Ahead(p)'
    BY <2>2, <1>0 DEF Ahead
  <2> USE <1>0 DEF CVTypeOK, Phase
  <2>4. CASE CancelSleep(p) BY <2>4, <2>2 DEF CancelSleep
  <2>5. CASE PrepareReset(p) BY <2>5, <2>1 DEF PrepareReset
  <2>6. CASE PreparePush(p) BY <2>6, <2>2 DEF PreparePush
  <2>7. CASE WaitLatch(p) \/ SleepReset(p) \/ Interrupt(p) \/ ForeignSetLatch(p)
    BY <2>7, <2>1 DEF WaitLatch, SleepReset, Interrupt, ForeignSetLatch
  <2>8. CASE SleepCheck(p) BY <2>8, <2>2 DEF SleepCheck
  <2>9. CASE Signal(p) BY <2>9, <2>2, SMTT(60) DEF Signal
  <2>10. CASE BroadcastFirst(p)
    <3> DEFINE s == cvWakeup[cvarg[p]]
               t == IF Tail(s) = <<>> THEN Tail(s) ELSE AddSentinel(Tail(s), p)
               all == {Tail(s)[i] : i \in DOMAIN Tail(s)}
    <3>1. CASE s = <<>> BY <2>10, <3>1, <2>1 DEF BroadcastFirst
    <3>2. CASE s # <<>>
      <4>1. /\ cvWakeup' = [cvWakeup EXCEPT ![cvarg[p]] = t] /\ cvarg' = cvarg
            /\ have_sentinel' = [have_sentinel EXCEPT ![p] = Tail(s) # <<>>]
            /\ owed' = [q \in Procs |-> IF q = p THEN all ELSE owed[q] \ {Head(s)}]
        BY <2>10, <3>2, FirstPops
      <4>2. Tail(s) \in Seq(Procs) BY <3>2, Popped
      <4>3. \A a \in all : In(Tail(s), a) BY <4>2, Listing DEF In
      <4>4. Tail(s) # <<>> => \A a \in all : Before(t, a, p)
        <5>1. Tail(s) # <<>> => t = Append(Tail(s), p) BY DEF AddSentinel
        <5>2. \A a : In(Tail(s), a) => Before(Append(Tail(s), p), a, p) BY <4>2, PushMove
        <5>3. ASSUME Tail(s) # <<>>, NEW a \in all PROVE Before(t, a, p)
          <6>1. In(Tail(s), a) BY <4>3, <5>3, Zenon
          <6>2. Before(Append(Tail(s), p), a, p) BY <6>1, <5>2, Zenon
          <6> HIDE DEF t
          <6> QED BY <6>2, <5>1, <5>3, Zenon
        <5> QED BY <5>3, Zenon
      <4>5. Tail(s) = <<>> => all = {} BY <4>2, Listing, SMTT(60)
      <4> HIDE DEF s, t, all
      <4>6. cvWakeup'[cvarg'[p]] = t /\ owed'[p] = all BY <4>1
      <4>7. Tail(s) # <<>> => have_sentinel'[p] BY <4>1
      <4> QED BY <4>4, <4>5, <4>6, <4>7, Zenon DEF Ahead
    <3> QED BY <3>1, <3>2
  <2>11. CASE BroadcastLoop(p)
    <3> DEFINE s == cvWakeup[cvarg[p]]
    <3>1. cvarg' = cvarg /\ cvarg[p] \in CVs BY <2>11 DEF BroadcastLoop
    <3>2. have_sentinel'[p] = SentinelListed(cvWakeup'[cvarg[p]], p) BY <2>11 DEF BroadcastLoop
    <3>3. s # <<>> => owed'[p] = owed[p] \ {s[1]} BY <2>11, LoopPops, SMTT(60)
    <3>4. s = <<>> => owed'[p] = owed[p] BY <2>11 DEF BroadcastLoop
    <3>5. ASSUME NEW a \in owed'[p] PROVE have_sentinel'[p] /\ Before(cvWakeup'[cvarg[p]], a, p)
      <4>1. a \in owed[p] BY <3>3, <3>4, <3>5
      <4>2. Before(s, a, p) BY <4>1 DEF Ahead
      <4>3. s # <<>> BY <4>2, SMTT(60) DEF Before
      <4>4. a # s[1] BY <3>3, <3>5, <4>3
      <4>5. cvWakeup'[cvarg[p]] = Tail(s)
        <5>1. cvWakeup' = [cvWakeup EXCEPT ![cvarg[p]] = Tail(s)] BY <2>11, <4>3, LoopPops
        <5> QED BY <5>1, <3>1
      <4>6. s \in Seq(Procs) /\ Distinct(s) BY DEF CVInv, Once
      <4>7. Before(Tail(s), a, p) BY <4>2, <4>3, <4>4, <4>6, PopMove
      <4>8. SentinelListed(Tail(s), p)
        <5>1. Tail(s) \in Seq(Procs) BY <4>3, <4>6, Popped
        <5> QED BY <5>1, <4>7, Listing DEF Before, SentinelListed
      <4> QED BY <3>2, <4>5, <4>7, <4>8
    <3> QED BY <3>1, <3>5 DEF Ahead
  <2>12. CASE SetFoundLatch(p) BY <2>12, <2>1 DEF SetFoundLatch
  <2>13. CASE \E c \in CVFns \X CVs : Enter(p, c[1], c[2]) BY <2>13, <2>2 DEF Enter
  <2> HIDE DEF CVTypeOK, Phase
  <2> QED BY <2>4, <2>5, <2>6, <2>7, <2>8, <2>9, <2>10, <2>11, <2>12, <2>13, Zenon DEF Step, CVStep, CVCaller
<1> QED BY <1>3, <1>4
-----------------------------------------------------------------------------
(* The theorems *)

\* The invariant holds before any call.
LEMMA CVInitInv == ASSUME CVInit PROVE CVInv
<1>0. AnyCV \in CVs BY DEF AnyCV
<1>1. CVTypeOK BY <1>0 DEF CVInit, CVTypeOK, PCs
<1>2. \A p \in Procs : Phase(p) /\ Ahead(p) BY DEF CVInit, Phase, Ahead
<1>3. \A cv \in CVs : cvWakeup[cv] = <<>> /\ Len(<<>>) = 0 BY DEF CVInit
<1>4. \A cv \in CVs : Placed(cv) /\ Once(cv) BY <1>3, SMTT(60) DEF Placed, Once, In, Distinct
<1>5. SignalNotLost BY DEF CVInit, SignalNotLost
<1> QED BY <1>1, <1>2, <1>4, <1>5 DEF CVInv

\* Every step of the routines, and every step of their callers.
LEMMA CVStepInv == ASSUME CVInv, NEW p \in Procs, Step(p) PROVE CVInv'
<1>1. \A cv \in CVs : Once(cv)' BY Moves DEF Lists
<1> QED BY <1>1, TypeStep, PhaseStep, PlacedStep, SignalStep, AheadStep DEF CVInv

\* The invariant depends on nothing but the variables of the module.
LEMMA CVStutter == ASSUME CVInv, UNCHANGED cvvars PROVE CVInv'
BY DEF cvvars, CVInv, CVTypeOK, Phase, Placed, Once, Ahead, SignalNotLost, Listed

\* The inductive invariant of the condition variables holds in every state of every
\* behaviour of condition_variable.c.
THEOREM CVInvariance == CVSpec => []CVInv
<1>1. CVInit => CVInv BY CVInitInv
<1>2. CVInv /\ [CVNext]_cvvars => CVInv' BY CVStepInv, CVStutter DEF CVNext, Step
<1> QED BY <1>1, <1>2, PTL DEF CVSpec

\* The invariant gives the properties that the runs check.
LEMMA CVSafe == ASSUME CVInv PROVE LinkOnce /\ BroadcastWakesAll
<1>0. CVTypeOK BY DEF CVInv
<1>1. ASSUME NEW p \in Procs, NEW e \in Links(p)
      PROVE  /\ e = <<e[1], e[2]>> /\ e[1] \in CVs /\ e[2] \in 1 .. Len(cvWakeup[e[1]])
             /\ cvWakeup[e[1]][e[2]] = p
             /\ \/ cv_sleep_target[p] = e[1]
                \/ have_sentinel[p] /\ cvarg[p] = e[1]
  <2>1. PICK cv \in CVs : e \in {cv} \X DOMAIN cvWakeup[cv] BY DEF Links
  <2>2. e = <<cv, e[2]>> /\ e[1] = cv /\ e[2] \in DOMAIN cvWakeup[cv] BY <2>1, SMTT(60)
  <2>3. cvWakeup[cv] \in Seq(Procs) BY <1>0 DEF CVTypeOK
  <2>4. e[2] \in 1 .. Len(cvWakeup[cv]) BY <2>2, <2>3, Listing
  <2>5. cvWakeup[e[1]][e[2]] = p BY DEF Links
  <2>6. In(cvWakeup[cv], p) BY <2>2, <2>4, <2>5 DEF In
  <2> QED BY <2>2, <2>4, <2>5, <2>6 DEF CVInv, Placed
<1>2. ASSUME NEW p \in Procs, NEW e \in Links(p), NEW f \in Links(p) PROVE e = f
  <2>1. Phase(p) BY DEF CVInv
  <2>2. e[1] # NULL /\ f[1] # NULL BY <1>1
  <2>3. e[1] = f[1] BY <1>1, <2>1, <2>2, SMTT(60) DEF Phase
  <2>4. e[2] = f[2] BY <1>1, <2>3, SMTT(60) DEF CVInv, Once, Distinct
  <2> QED BY <1>1, <2>3, <2>4, SMTT(60)
<1>3. LinkOnce BY <1>1, <1>2 DEF LinkOnce
<1>4. BroadcastWakesAll BY DEF CVInv, Ahead, BroadcastWakesAll
<1> QED BY <1>3, <1>4

\* A process's single cvWaitLink is never used twice: whatever processes do, in
\* whatever order, each is in one wait list at most and there once, as a sleeper
\* or as the sentinel of its Broadcast.
THEOREM LinkUsedOnce == CVSpec => []LinkOnce
BY CVInvariance, CVSafe, PTL

\* No signal is lost: a process prepared to sleep that is off the list has its latch
\* set or about to be set, whatever latch resets and removals interleave.
THEOREM NoLostSignal == CVSpec => []SignalNotLost
<1>1. CVInv => SignalNotLost BY DEF CVInv
<1> QED BY <1>1, CVInvariance, PTL

\* ConditionVariableBroadcast returns only when nobody it found listed is listed
\* still, also when other processes take its sentinel off the list.
THEOREM BroadcastComplete == CVSpec => []BroadcastWakesAll
BY CVInvariance, CVSafe, PTL

-----------------------------------------------------------------------------
(* Barriers *)

USE BarrierAssumption

\* Where a process stands relative to the phase.
InStep(p) ==
    /\ bpc[p] # "idle" => p \in attached /\ start_phase[p] < MaxPhase
    /\ bpc[p] = "leave" => phase = start_phase[p] + 1
    /\ bpc[p] = "check" => phase \in {start_phase[p], start_phase[p] + 1}
    /\ p \in attached /\ bpc[p] = "idle" => phase = known_phase[p]
    /\ bpc[p] = "leave" /\ ~won_it[p] => elected = phase

Winning(p) == bpc[p] = "leave" /\ won_it[p]

\* The process elected for the current phase, if there is one, is about to return
\* or has returned; earlier phases are settled.
Election ==
    /\ \A p, q \in Procs : Winning(p) /\ Winning(q) => p = q
    /\ \A p \in Procs : Winning(p) => winners[phase] = 0 /\ elected = phase
    /\ \A n \in Phases : winners[n] \in {0, 1} /\ (n > phase => winners[n] = 0)
    /\ winners[phase] = 1 => elected = phase
    /\ elected = phase /\ phase > 0 => winners[phase] = 1 \/ \E p \in Procs : Winning(p)
    /\ \A n \in lost : /\ 0 < n /\ n <= phase /\ (n < phase => winners[n] = 1)
                       /\ n = phase => elected = phase

BInv == BarrierTypeOK /\ (\A p \in Procs : InStep(p)) /\ Election

\* BarrierTypeOK in two parts: the counters and the rest.
Counts ==
    /\ participants = Cardinality(attached) /\ arrived = Cardinality(Waiting)
    /\ arrived > 0 => arrived < participants
Shapes ==
    /\ attached \subseteq Procs /\ phase \in Phases /\ elected \in 0 .. phase /\ static_party \in BOOLEAN
    /\ bpc \in [Procs -> {"idle", "check", "leave"}]
    /\ start_phase \in [Procs -> Phases] /\ known_phase \in [Procs -> Phases]
    /\ won_it \in [Procs -> BOOLEAN]
    /\ winners \in [Phases -> Nat] /\ lost \subseteq Phases

\* The type invariant in two parts, one on the counters and one on the rest.
LEMMA TypeParts == BarrierTypeOK <=> Counts /\ Shapes
BY Zenon DEF BarrierTypeOK, Counts, Shapes

\* The same in the next state.
LEMMA TypePartsNext == Counts' /\ Shapes' => BarrierTypeOK'
BY Zenon DEF BarrierTypeOK, Counts, Shapes

\* The invariant taken apart for a process p.
LEMMA Parts ==
    ASSUME BInv, NEW p \in Procs
    PROVE  /\ Counts /\ Shapes /\ InStep(p) /\ Election /\ MaxPhase \in Nat
           /\ phase \in Nat /\ phase <= MaxPhase /\ elected \in Nat /\ elected <= phase
           /\ start_phase[p] \in Nat /\ start_phase[p] <= MaxPhase
           /\ bpc[p] \in {"idle", "check", "leave"} /\ won_it[p] \in BOOLEAN
BY TypeParts, SMTT(60) DEF BInv, Shapes, Phases

\* The participants and those waiting are finite sets.
LEMMA Finite ==
    ASSUME Shapes
    PROVE  /\ IsFiniteSet(attached) /\ IsFiniteSet(Waiting) /\ Waiting \subseteq attached
           /\ Cardinality(attached) \in Nat /\ Cardinality(Waiting) \in Nat
<1>1. attached \in SUBSET Procs BY DEF Shapes
<1>2. Waiting \in SUBSET attached BY DEF Waiting
<1>3. IsFiniteSet(attached) BY <1>1, FS_Subset
<1>4. IsFiniteSet(Waiting) BY <1>2, <1>3, FS_Subset
<1> QED BY <1>2, <1>3, <1>4, FS_CardinalityType

\* An attached process that does not wait leaves room in the count of arrivals; if
\* it is the only one, all the others wait for the current phase to end.
LEMMA LastOne ==
    ASSUME BInv, NEW p \in attached, bpc[p] = "idle"
    PROVE  /\ arrived \in Nat /\ participants \in Nat /\ arrived <= participants - 1
           /\ participants - 1 = Cardinality(attached \ {p})
           /\ arrived + 1 = participants => Waiting = attached \ {p}
<1>1. Counts /\ Shapes BY TypeParts DEF BInv
<1>2. IsFiniteSet(attached) /\ IsFiniteSet(attached \ {p}) /\ Cardinality(attached) \in Nat
      /\ Cardinality(Waiting) \in Nat
  BY <1>1, Finite, FS_RemoveElement
<1>3. Cardinality(attached \ {p}) = Cardinality(attached) - 1 BY <1>2, FS_RemoveElement
<1>4. Waiting \in SUBSET (attached \ {p}) BY DEF Waiting
<1>5. /\ Cardinality(Waiting) <= Cardinality(attached \ {p})
      /\ Cardinality(attached \ {p}) = Cardinality(Waiting) => attached \ {p} = Waiting
  BY <1>2, <1>4, FS_Subset
<1>6. participants = Cardinality(attached) /\ arrived = Cardinality(Waiting) BY <1>1 DEF Counts
<1> QED BY <1>2, <1>3, <1>5, <1>6, SMTT(60)

\* A phase ends: nobody waits for the new one.
LEMMA NoneWaiting ==
    ASSUME BInv, phase' = phase + 1, NEW p \in attached, Waiting = attached \ {p},
           attached' \subseteq attached, start_phase'[p] = phase \/ bpc'[p] # "check",
           \A q \in Procs : q # p => start_phase'[q] = start_phase[q]
    PROVE  Waiting' = {} /\ Cardinality(Waiting)' = 0
<1>1. phase \in Nat /\ attached \subseteq Procs BY Parts, TypeParts DEF BInv, Shapes
<1>2. ASSUME NEW q \in attached', bpc'[q] = "check", start_phase'[q] = phase' PROVE FALSE
  <2>1. CASE q = p BY <2>1, <1>1, <1>2
  <2>2. CASE q # p
    <3>1. q \in Waiting /\ q \in Procs BY <2>2, <1>1
    <3> QED BY <3>1, <2>2, <1>1, <1>2, SMTT(60) DEF Waiting
  <2> QED BY <2>1, <2>2
<1>3. Waiting' = {} BY <1>2 DEF Waiting
<1> QED BY <1>3, FS_EmptySet

\* BarrierAttach.
LEMMA AttachInv == ASSUME BInv, NEW p \in Procs, BarrierAttach(p) PROVE BInv'
<1>0. Counts /\ Shapes /\ Election /\ InStep(p) /\ phase \in Nat BY Parts
<1>1. /\ bpc[p] = "idle" /\ p \notin attached /\ participants' = participants + 1
      /\ attached' = attached \cup {p} /\ known_phase' = [known_phase EXCEPT ![p] = phase]
      /\ UNCHANGED <<arrived, phase, elected, static_party, localvars, history>>
  BY DEF BarrierAttach, Idle
<1>2. UNCHANGED <<bpc, start_phase, won_it, winners, lost>> BY <1>1 DEF localvars, history
<1>3. Shapes' BY <1>0, <1>1, <1>2 DEF Shapes
<1>4. Counts'
  <2>1. Waiting' = Waiting BY <1>1, <1>2 DEF Waiting
  <2>2. Cardinality(attached \cup {p}) = Cardinality(attached) + 1 /\ Cardinality(attached) \in Nat
        /\ Cardinality(Waiting) \in Nat
    BY <1>0, <1>1, Finite, FS_AddElement
  <2> QED BY <1>0, <1>1, <2>1, <2>2, SMTT(60) DEF Counts
<1>5. ASSUME NEW q \in Procs PROVE InStep(q)'
  <2>1. InStep(q) BY Parts
  <2> QED BY <2>1, <1>0, <1>1, <1>2 DEF InStep, Shapes
<1>6. Election' BY <1>0, <1>1, <1>2 DEF Election, Winning
<1> QED BY <1>3, <1>4, <1>5, <1>6, TypePartsNext DEF BInv

\* A phase that ends has its election settled: nobody is leaving it any more.
LEMMA Settled ==
    ASSUME BInv, NEW p \in attached, bpc[p] = "idle", Waiting = attached \ {p}
    PROVE  /\ \A q \in Procs : bpc[q] # "leave"
           /\ \A q \in attached : q # p => bpc[q] = "check" /\ start_phase[q] = phase
           /\ \A n \in lost : 0 < n /\ n <= phase /\ winners[n] = 1
<1>1. Shapes /\ Election /\ attached \subseteq Procs BY TypeParts DEF BInv, Shapes
<1>2. phase \in Nat /\ lost \subseteq Nat BY <1>1, SMTT(60) DEF Shapes, Phases
<1>3. \A q \in attached : q # p => bpc[q] = "check" /\ start_phase[q] = phase BY DEF Waiting
<1>4. ASSUME NEW q \in Procs, bpc[q] = "leave" PROVE FALSE
  <2>1. q \in attached BY <1>4 DEF BInv, InStep
  <2> QED BY <2>1, <1>3, <1>4
<1>5. ASSUME NEW n \in lost PROVE 0 < n /\ n <= phase /\ winners[n] = 1
  <2>1. 0 < n /\ n <= phase /\ (n < phase => winners[n] = 1) /\ (n = phase => elected = phase)
    BY <1>1 DEF Election
  <2>2. CASE n = phase
    <3>1. phase > 0 BY <2>1, <2>2
    <3> QED BY <3>1, <2>1, <2>2, <1>1, <1>4 DEF Election, Winning
  <2> QED BY <2>1, <2>2, <1>2
<1> QED BY <1>3, <1>4, <1>5

\* BarrierArriveAndWait, the last to arrive.
LEMMA ReleaseInv ==
    ASSUME BInv, NEW p \in Procs, BarrierArriveAndWait(p), arrived + 1 = participants
    PROVE  BInv'
<1>0. Counts /\ Shapes /\ Election /\ phase \in Nat /\ MaxPhase \in Nat BY Parts
<1>1. /\ bpc[p] = "idle" /\ p \in attached /\ phase < MaxPhase
      /\ start_phase' = [start_phase EXCEPT ![p] = phase] /\ won_it' = [won_it EXCEPT ![p] = TRUE]
      /\ arrived' = 0 /\ phase' = phase + 1 /\ elected' = phase + 1
      /\ bpc' = [bpc EXCEPT ![p] = "leave"]
      /\ UNCHANGED <<participants, static_party, attached, known_phase, winners, lost>>
  BY DEF BarrierArriveAndWait, Idle, callervars, history
<1>2. Waiting = attached \ {p} BY <1>1, LastOne
<1>3. /\ \A q \in Procs : bpc[q] # "leave"
      /\ \A q \in attached : q # p => bpc[q] = "check" /\ start_phase[q] = phase
      /\ \A n \in lost : 0 < n /\ n <= phase /\ winners[n] = 1
  BY <1>1, <1>2, Settled
<1>4. Shapes' BY <1>0, <1>1, SMTT(60) DEF Shapes, Phases
<1>5. Counts'
  <2>1. Cardinality(Waiting)' = 0 BY <1>0, <1>1, <1>2, NoneWaiting DEF Shapes
  <2> QED BY <1>0, <1>1, <2>1 DEF Counts
<1>6. ASSUME NEW q \in Procs PROVE InStep(q)'
  <2>1. CASE q = p BY <2>1, <1>0, <1>1 DEF InStep, Shapes
  <2>2. CASE q # p
    <3>1. InStep(q) BY Parts
    <3>2. bpc'[q] = bpc[q] /\ start_phase'[q] = start_phase[q] BY <2>2, <1>0, <1>1 DEF Shapes
    <3>3. start_phase[q] < MaxPhase \/ bpc[q] = "idle" BY <3>1 DEF InStep
    <3> QED BY <3>1, <3>2, <3>3, <2>2, <1>1, <1>3 DEF InStep
  <2> QED BY <2>1, <2>2
<1>7. Election'
  <2>1. \A q \in Procs : Winning(q)' <=> q = p BY <1>0, <1>1, <1>3 DEF Winning, Shapes
  <2>2. phase + 1 \in Phases /\ phase + 1 > phase BY <1>0, <1>1 DEF Phases
  <2>3. winners'[phase'] = 0 /\ elected' = phase' BY <2>2, <1>0, <1>1 DEF Election
  <2>4. \A n \in Phases : winners'[n] \in {0, 1} /\ (n > phase' => winners'[n] = 0)
    BY <1>0, <1>1, SMTT(60) DEF Election, Phases
  <2>5. \A n \in lost' : 0 < n /\ n <= phase' /\ (n < phase' => winners'[n] = 1) /\ (n = phase' => elected' = phase')
    BY <1>0, <1>1, <1>3, SMTT(60) DEF Shapes, Phases
  <2> QED BY <2>1, <2>3, <2>4, <2>5, Zenon DEF Election
<1> QED BY <1>4, <1>5, <1>6, <1>7, TypePartsNext DEF BInv

\* BarrierArriveAndWait, anybody else.
LEMMA ArriveInv ==
    ASSUME BInv, NEW p \in Procs, BarrierArriveAndWait(p), arrived + 1 # participants
    PROVE  BInv'
<1>0. Counts /\ Shapes /\ Election /\ phase \in Nat /\ MaxPhase \in Nat BY Parts
<1>1. /\ bpc[p] = "idle" /\ p \in attached /\ phase < MaxPhase
      /\ start_phase' = [start_phase EXCEPT ![p] = phase] /\ won_it' = [won_it EXCEPT ![p] = FALSE]
      /\ arrived' = arrived + 1 /\ phase' = phase /\ elected' = elected
      /\ bpc' = [bpc EXCEPT ![p] = "check"]
      /\ UNCHANGED <<participants, static_party, attached, known_phase, winners, lost>>
  BY DEF BarrierArriveAndWait, Idle, callervars, history
<1>4. Shapes' BY <1>0, <1>1 DEF Shapes, Phases
<1>5. Counts'
  <2>1. Waiting' = Waiting \cup {p} /\ p \notin Waiting BY <1>0, <1>1, SMTT(60) DEF Waiting, Shapes
  <2>2. IsFiniteSet(Waiting) BY <1>0, Finite
  <2>3. Cardinality(Waiting \cup {p}) = Cardinality(Waiting) + 1 BY <2>1, <2>2, FS_AddElement
  <2>4. arrived \in Nat /\ participants \in Nat /\ arrived <= participants - 1 BY <1>1, LastOne
  <2> QED BY <1>0, <1>1, <2>1, <2>3, <2>4, SMTT(60) DEF Counts
<1>6. ASSUME NEW q \in Procs PROVE InStep(q)'
  <2>1. InStep(q) BY Parts
  <2> QED BY <2>1, <1>0, <1>1 DEF InStep, Shapes
<1>7. Election'
  <2>1. \A q \in Procs : Winning(q)' <=> Winning(q) BY <1>0, <1>1 DEF Winning, Shapes
  <2> QED BY <2>1, <1>0, <1>1 DEF Election
<1> QED BY <1>4, <1>5, <1>6, <1>7, TypePartsNext DEF BInv

\* BarrierArriveAndWait, a turn of the loop.
LEMMA CheckInv == ASSUME BInv, NEW p \in Procs, CheckPhase(p) PROVE BInv'
<1>0. Counts /\ Shapes /\ Election /\ phase \in Nat /\ MaxPhase \in Nat BY Parts
<1>p. InStep(p) /\ start_phase[p] \in Nat /\ elected \in Nat /\ elected <= phase BY Parts
<1> DEFINE release == phase = start_phase[p] + 1
           elect == release /\ elected # start_phase[p] + 1
<1>1. /\ bpc[p] = "check" /\ elected' = IF elect THEN phase ELSE elected
      /\ won_it' = [won_it EXCEPT ![p] = elect]
      /\ bpc' = [bpc EXCEPT ![p] = IF release THEN "leave" ELSE "check"]
      /\ UNCHANGED <<participants, arrived, phase, static_party, start_phase, attached, known_phase, winners, lost>>
  BY DEF CheckPhase, Unelected, callervars, history
<1>2. elect => elected' = phase /\ elected # phase BY <1>1
<1>3. ~elect => elected' = elected /\ (release => elected = phase) BY <1>1
<1>4. release \in BOOLEAN /\ elect \in BOOLEAN OBVIOUS
<1>5. Shapes' BY <1>0, <1>1, <1>p, SMTT(60) DEF Shapes
<1>6. release => phase # start_phase[p] BY <1>p
<1> HIDE DEF elect
<1>7. Counts'
  <2>1. Waiting' = Waiting BY <1>0, <1>1, <1>6 DEF Waiting, Shapes
  <2> QED BY <2>1, <1>0, <1>1 DEF Counts
<1>8. ASSUME NEW q \in Procs PROVE InStep(q)'
  <2>0. InStep(q) BY Parts
  <2>1. CASE q = p BY <2>1, <1>0, <1>1, <1>2, <1>3, <1>p DEF InStep, Shapes
  <2>2. CASE q # p
    <3>1. bpc'[q] = bpc[q] /\ won_it'[q] = won_it[q] BY <2>2, <1>0, <1>1 DEF Shapes
    <3> QED BY <2>0, <3>1, <1>1, <1>2, <1>3 DEF InStep
  <2> QED BY <2>1, <2>2
<1>9. Election'
  <2>1. CASE elect
    <3>1. \A q \in Procs : ~Winning(q) /\ winners[phase] = 0
      BY <2>1, <1>0, <1>2 DEF Election, Shapes
    <3>2. \A q \in Procs : Winning(q)' <=> q = p
      BY <3>1, <2>1, <1>0, <1>1 DEF Winning, Shapes, elect
    <3> QED BY <2>1, <3>1, <3>2, <1>0, <1>1, <1>2 DEF Election
  <2>2. CASE ~elect
    <3>1. \A q \in Procs : Winning(q)' <=> Winning(q) BY <2>2, <1>0, <1>1 DEF Winning, Shapes
    <3> QED BY <2>2, <3>1, <1>0, <1>1, <1>3 DEF Election
  <2> QED BY <2>1, <2>2
<1> QED BY <1>5, <1>7, <1>8, <1>9, TypePartsNext DEF BInv

\* BarrierArriveAndWait returns.
LEMMA ReturnInv == ASSUME BInv, NEW p \in Procs, ReturnFromWait(p) PROVE BInv'
<1>0. Counts /\ Shapes /\ Election /\ phase \in Nat /\ MaxPhase \in Nat BY Parts
<1>p. InStep(p) BY Parts
<1>1. /\ bpc[p] = "leave" /\ bpc' = [bpc EXCEPT ![p] = "idle"]
      /\ known_phase' = [known_phase EXCEPT ![p] = start_phase[p] + 1]
      /\ start_phase' = [start_phase EXCEPT ![p] = 0] /\ won_it' = [won_it EXCEPT ![p] = FALSE]
      /\ winners' = [winners EXCEPT ![start_phase[p] + 1] = IF won_it[p] THEN @ + 1 ELSE @]
      /\ lost' = IF won_it[p] THEN lost ELSE lost \cup {start_phase[p] + 1}
      /\ UNCHANGED <<participants, arrived, phase, elected, static_party, attached>>
  BY DEF ReturnFromWait, bvars
<1>2. start_phase[p] + 1 = phase /\ phase > 0 /\ p \in attached /\ phase \in Phases
  BY <1>0, <1>1, <1>p, SMTT(60) DEF InStep, Shapes, Phases
<1>w. won_it[p] => winners[phase] = 0 /\ winners' = [winners EXCEPT ![phase] = 1] /\ lost' = lost
  <2> SUFFICES ASSUME won_it[p]
               PROVE  winners[phase] = 0 /\ winners' = [winners EXCEPT ![phase] = 1] /\ lost' = lost
    OBVIOUS
  <2>1. winners[phase] = 0 BY <1>0, <1>1 DEF Election, Winning
  <2>2. winners' = [winners EXCEPT ![phase] = winners[phase] + 1] /\ lost' = lost BY <1>1, <1>2
  <2>3. winners[phase] + 1 = 1 BY <2>1
  <2> QED BY <2>1, <2>2, <2>3, Zenon
<1>l. ~won_it[p] => winners' = winners /\ lost' = lost \cup {phase} /\ elected = phase
  BY <1>0, <1>1, <1>2, <1>p DEF InStep, Shapes
<1>3. Shapes'
  <2>1. winners' \in [Phases -> Nat] /\ lost' \subseteq Phases
    <3>1. winners \in [Phases -> Nat] /\ lost \subseteq Phases BY <1>0 DEF Shapes
    <3>2. CASE won_it[p] BY <3>1, <3>2, <1>w, <1>2, SMTT(60)
    <3>3. CASE ~won_it[p] BY <3>1, <3>3, <1>l, <1>2
    <3> QED BY <3>2, <3>3
  <2>2. 0 \in Phases BY <1>0 DEF Phases
  <2> QED BY <2>1, <2>2, <1>0, <1>1, <1>2 DEF Shapes
<1>4. Counts'
  <2>1. Waiting' = Waiting BY <1>0, <1>1 DEF Waiting, Shapes
  <2> QED BY <2>1, <1>0, <1>1 DEF Counts
<1>5. ASSUME NEW q \in Procs PROVE InStep(q)'
  <2>0. InStep(q) BY Parts
  <2> QED BY <2>0, <1>0, <1>1, <1>2 DEF InStep, Shapes
<1>6. Election'
  <2>1. \A q \in Procs : Winning(q)' <=> Winning(q) /\ q # p BY <1>0, <1>1 DEF Winning, Shapes
  <2>2. CASE won_it[p]
    <3>1. Winning(p) BY <2>2, <1>1 DEF Winning
    <3>2. elected = phase /\ \A q \in Procs : ~Winning(q)' BY <3>1, <2>1, <1>0 DEF Election
    <3>3. winners'[phase] = 1 /\ \A n \in Phases : n # phase => winners'[n] = winners[n]
      BY <2>2, <1>w, <1>0, <1>2, SMTT(60) DEF Shapes
    <3>4. \A n \in Phases : winners'[n] \in {0, 1} /\ (n > phase => winners'[n] = 0)
      BY <3>3, <1>0, SMTT(60) DEF Election
    <3>5. \A n \in lost : 0 < n /\ n <= phase /\ (n < phase => winners'[n] = 1)
      BY <3>3, <1>0 DEF Election, Shapes
    <3> QED BY <2>2, <3>2, <3>3, <3>4, <3>5, <1>1, <1>w DEF Election
  <2>3. CASE ~won_it[p]
    <3>1. \A q \in Procs : Winning(q)' <=> Winning(q) BY <2>1, <2>3 DEF Winning
    <3>2. \A n \in lost' : n \in lost \/ n = phase BY <2>3, <1>l, SMTT(60)
    <3> QED BY <2>3, <3>1, <3>2, <1>0, <1>1, <1>2, <1>l, SMTT(60) DEF Election
  <2> QED BY <2>2, <2>3
<1> QED BY <1>3, <1>4, <1>5, <1>6, TypePartsNext DEF BInv

\* BarrierDetach and BarrierArriveAndDetach.
LEMMA DetachInv ==
    ASSUME BInv, NEW p \in Procs, NEW arrive \in BOOLEAN, BarrierDetach(p, arrive)
    PROVE  BInv'
<1>0. Counts /\ Shapes /\ Election /\ phase \in Nat /\ MaxPhase \in Nat BY Parts
<1>1. /\ bpc[p] = "idle" /\ p \in attached /\ participants' = participants - 1
      /\ attached' = attached \ {p} /\ known_phase' = [known_phase EXCEPT ![p] = 0]
      /\ UNCHANGED <<elected, static_party, bpc, start_phase, won_it, winners, lost>>
  BY DEF BarrierDetach, Idle, localvars, history
<1>2. /\ arrived \in Nat /\ participants \in Nat /\ arrived <= participants - 1
      /\ participants - 1 = Cardinality(attached \ {p})
      /\ arrived + 1 = participants => Waiting = attached \ {p}
  BY <1>1, LastOne
<1>3. CASE DetachReleases(arrive, participants - 1)
  <2>1. phase < MaxPhase /\ arrived' = 0 /\ phase' = phase + 1 /\ arrived = participants - 1
    BY <1>3 DEF BarrierDetach, DetachReleases
  <2>2. Waiting = attached \ {p} BY <2>1, <1>2, SMTT(60)
  <2>3. /\ \A q \in Procs : bpc[q] # "leave"
        /\ \A q \in attached : q # p => bpc[q] = "check" /\ start_phase[q] = phase
        /\ \A n \in lost : 0 < n /\ n <= phase /\ winners[n] = 1
    BY <1>1, <2>2, Settled
  <2>4. Shapes' BY <1>0, <1>1, <2>1, SMTT(60) DEF Shapes, Phases
  <2>5. Counts'
    <3>1. Cardinality(Waiting)' = 0 BY <1>0, <1>1, <2>1, <2>2, NoneWaiting
    <3> QED BY <1>1, <1>2, <2>1, <3>1, SMTT(60) DEF Counts
  <2>6. ASSUME NEW q \in Procs PROVE InStep(q)'
    <3>1. InStep(q) BY Parts
    <3> QED BY <3>1, <1>0, <1>1, <2>1, <2>3 DEF InStep
  <2>7. Election'
    <3>1. \A q \in Procs : ~Winning(q)' BY <2>3, <1>1 DEF Winning
    <3>2. phase + 1 \in Phases /\ phase + 1 > phase BY <1>0, <2>1 DEF Phases
    <3>3. winners'[phase'] = 0 /\ elected' # phase'
      BY <3>2, <1>0, <1>1, <2>1, SMTT(60) DEF Election, Shapes
    <3>4. \A n \in Phases : winners'[n] \in {0, 1} /\ (n > phase' => winners'[n] = 0)
      BY <1>0, <1>1, <2>1, SMTT(60) DEF Election, Phases
    <3>5. \A n \in lost' : 0 < n /\ n <= phase' /\ (n < phase' => winners'[n] = 1) /\ (n = phase' => elected' = phase')
      BY <1>0, <1>1, <2>1, <2>3, SMTT(60) DEF Shapes, Phases
    <3>6. winners'[phase'] # 1 BY <3>3
    <3> QED BY <3>1, <3>3, <3>4, <3>5, <3>6, Zenon DEF Election
  <2> QED BY <2>4, <2>5, <2>6, <2>7, TypePartsNext DEF BInv
<1>4. CASE ~DetachReleases(arrive, participants - 1)
  <2>1. UNCHANGED <<arrived, phase>> BY <1>4 DEF BarrierDetach
  <2>2. arrived > 0 => arrived < participants - 1 BY <1>2, <1>4, SMTT(60) DEF DetachReleases
  <2>4. Shapes'
    <3>1. 0 \in Phases BY <1>0, SMTT(60) DEF Phases
    <3> QED BY <3>1, <1>0, <1>1, <2>1 DEF Shapes
  <2>5. Counts'
    <3>1. Waiting' = Waiting BY <1>1, <2>1 DEF Waiting
    <3> QED BY <3>1, <1>0, <1>1, <1>2, <2>1, <2>2 DEF Counts
  <2>6. ASSUME NEW q \in Procs PROVE InStep(q)'
    <3>1. InStep(q) BY Parts
    <3> QED BY <3>1, <1>0, <1>1, <2>1 DEF InStep, Shapes
  <2>7. Election' BY <1>0, <1>1, <2>1 DEF Election, Winning
  <2> QED BY <2>4, <2>5, <2>6, <2>7, TypePartsNext DEF BInv
<1> QED BY <1>3, <1>4

\* A step of the condition variable, or none.
LEMMA BarrierStutter ==
    ASSUME BInv, UNCHANGED <<bvars, localvars, callervars, history>>
    PROVE  BInv'
<1>1. /\ UNCHANGED <<participants, arrived, phase, elected, static_party>>
      /\ UNCHANGED <<bpc, start_phase, won_it, attached, known_phase, winners, lost>>
  BY DEF bvars, localvars, callervars, history
<1>2. Counts /\ Shapes BY TypeParts DEF BInv
<1>3. Counts' BY <1>1, <1>2 DEF Counts, Waiting
<1>4. Shapes' BY <1>1, <1>2 DEF Shapes
<1>5. \A p \in Procs : InStep(p)' BY <1>1 DEF BInv, InStep
<1>6. Election' BY <1>1 DEF BInv, Election, Winning
<1> QED BY <1>3, <1>4, <1>5, <1>6, TypePartsNext DEF BInv

\* The invariant holds after BarrierInit.
LEMMA BarrierInitInv == ASSUME BarrierInit PROVE BInv
<1>0. MaxPhase \in Nat /\ 0 \in Phases /\ (Cardinality(Procs) \in Nat) BY FS_CardinalityType DEF Phases
<1>1. /\ arrived = 0 /\ phase = 0 /\ elected = 0 /\ bpc = [p \in Procs |-> "idle"]
      /\ start_phase = [p \in Procs |-> 0] /\ won_it = [p \in Procs |-> FALSE]
      /\ known_phase = [p \in Procs |-> 0] /\ winners = [n \in Phases |-> 0] /\ lost = {}
  BY DEF BarrierInit
<1>2. attached \subseteq Procs /\ participants = Cardinality(attached) /\ static_party \in BOOLEAN
  <2>1. PICK n \in {0, Cardinality(Procs)} :
          participants = n /\ static_party = (n > 0) /\ attached = IF n > 0 THEN Procs ELSE {}
    BY DEF BarrierInit
  <2>2. CASE n > 0 BY <2>1, <2>2
  <2>3. CASE ~(n > 0)
    <3>1. n = 0 BY <2>1, <2>3, <1>0
    <3> QED BY <2>1, <2>3, <3>1, FS_EmptySet, SMTT(60)
  <2> QED BY <2>2, <2>3
<1>3. Counts
  <2>1. Waiting = {} BY <1>1, <1>2 DEF Waiting
  <2> QED BY <2>1, <1>1, <1>2, FS_EmptySet, SMTT(60) DEF Counts
<1>4. Shapes BY <1>0, <1>1, <1>2, SMTT(60) DEF Shapes
<1>5. \A p \in Procs : InStep(p) BY <1>1 DEF InStep
<1>6. Election BY <1>0, <1>1 DEF Election, Winning
<1> QED BY <1>3, <1>4, <1>5, <1>6, TypeParts DEF BInv

\* The inductive invariant of the barrier holds in every state of every behaviour of
\* barrier.c on top of condition_variable.c.
THEOREM BarrierInvariance == BarrierSpec => []BInv
<1>1. BarrierInit => BInv BY BarrierInitInv
<1>2. BInv /\ [BarrierNext]_allvars => BInv'
  <2> SUFFICES ASSUME BInv, [BarrierNext]_allvars PROVE BInv' OBVIOUS
  <2>1. ASSUME NEW p \in Procs, CVOnly(p) \/ LatchOnly(p) PROVE BInv'
    BY <2>1, BarrierStutter DEF CVOnly, LatchOnly
  <2>2. ASSUME NEW p \in Procs, BarrierArriveAndWait(p) PROVE BInv' BY <2>2, ReleaseInv, ArriveInv
  <2>3. CASE UNCHANGED allvars BY <2>3, BarrierStutter DEF allvars
  <2>4. CASE BarrierNext
    BY <2>1, <2>2, <2>4, AttachInv, CheckInv, ReturnInv, DetachInv, Zenon DEF BarrierNext, BarrierStep
  <2> QED BY <2>3, <2>4
<1> QED BY <1>1, <1>2, PTL DEF BarrierSpec

\* The counters of struct Barrier are exact: participants counts the attached
\* processes, arrived those that wait, and never all of them wait.
THEOREM BarrierCounts == BarrierSpec => []BarrierTypeOK
<1>1. BInv => BarrierTypeOK BY DEF BInv
<1> QED BY <1>1, BarrierInvariance, PTL

\* Nobody is overtaken: the phase an attached process knows stays the current one
\* until it arrives, and while it waits the phase advances by one at most.
THEOREM BarrierInStep == BarrierSpec => []PhaseInStep
<1>1. BInv => PhaseInStep
  <2> SUFFICES ASSUME BInv, NEW p \in attached
               PROVE  /\ bpc[p] = "idle" => phase = known_phase[p]
                      /\ bpc[p] # "idle" => phase \in {start_phase[p], start_phase[p] + 1}
    BY DEF PhaseInStep
  <2>1. p \in Procs BY TypeParts DEF BInv, Shapes
  <2> QED BY <2>1, Parts DEF InStep
<1> QED BY <1>1, BarrierInvariance, PTL

\* BarrierArriveAndWait returns true to one process per phase, and returns false
\* only if somebody is elected for that phase.
THEOREM BarrierElection == BarrierSpec => []OneElected
<1>1. BInv => OneElected
  <2> SUFFICES ASSUME BInv PROVE OneElected OBVIOUS
  <2>0. Shapes /\ Election BY TypeParts DEF BInv
  <2>1. \A n \in Phases : winners[n] <= 1 BY <2>0 DEF Election
  <2>2. ASSUME NEW n \in lost
        PROVE  winners[n] = 1 \/ \E p \in Procs : bpc[p] = "leave" /\ won_it[p] /\ start_phase[p] + 1 = n
    <3>1. 0 < n /\ n <= phase /\ (n < phase => winners[n] = 1) /\ (n = phase => elected = phase)
      BY <2>0 DEF Election
    <3>2. n \in Nat /\ phase \in Nat BY <2>0, SMTT(60) DEF Shapes, Phases
    <3>3. CASE n = phase
      <4>1. winners[phase] = 1 \/ \E p \in Procs : Winning(p) BY <3>1, <3>3, <2>0 DEF Election
      <4>2. \A p \in Procs : Winning(p) => start_phase[p] + 1 = n BY <3>3, Parts DEF Winning, InStep
      <4> QED BY <3>3, <4>1, <4>2, Zenon DEF Winning
    <3> QED BY <3>1, <3>2, <3>3
  <2> QED BY <2>1, <2>2 DEF OneElected
<1> QED BY <1>1, BarrierInvariance, PTL

\* A barrier is a proper client of its condition variable: in every behaviour of
\* barriers the condition variable's own guarantees hold.
THEOREM BarrierUsesCV == BarrierSpec => [](LinkOnce /\ SignalNotLost /\ BroadcastWakesAll)
<1>0. BarrierCV \in CVs BY CVAssumption DEF BarrierCV, AnyCV
<1>1. BarrierInit => CVInv BY CVInitInv DEF BarrierInit
<1>2. CVInv /\ [BarrierNext]_allvars => CVInv'
  <2> SUFFICES ASSUME CVInv, [BarrierNext]_allvars PROVE CVInv' OBVIOUS
  <2>1. ASSUME NEW p \in Procs, NEW fn \in CVFns, Enter(p, fn, BarrierCV) PROVE CVInv'
    <3>1. <<fn, BarrierCV>> \in CVFns \X CVs /\ Enter(p, <<fn, BarrierCV>>[1], <<fn, BarrierCV>>[2])
      BY <1>0, <2>1
    <3> QED BY <3>1, CVStepInv DEF Step, CVCaller
  <2>2. ASSUME NEW p \in Procs, CVOnly(p) PROVE CVInv' BY <2>2, CVStepInv DEF CVOnly, Step
  <2>3. ASSUME NEW p \in Procs, LatchOnly(p) PROVE CVInv' BY <2>3, CVStepInv DEF LatchOnly, Step, CVCaller
  <2>4. CASE UNCHANGED cvvars BY <2>4, CVStutter
  <2>5. ASSUME NEW p \in Procs, BarrierArriveAndWait(p) PROVE CVInv'
    <3>1. "Broadcast" \in CVFns /\ "PrepareToSleep" \in CVFns BY DEF CVFns
    <3> QED BY <2>1, <2>5, <3>1 DEF BarrierArriveAndWait
  <2>6. ASSUME NEW p \in Procs, CheckPhase(p) PROVE CVInv'
    <3>1. "CancelSleep" \in CVFns /\ "Sleep" \in CVFns BY DEF CVFns
    <3>2. Enter(p, IF phase = start_phase[p] + 1 THEN "CancelSleep" ELSE "Sleep", BarrierCV)
      BY <2>6 DEF CheckPhase
    <3> QED BY <2>1, <3>1, <3>2
  <2>7. ASSUME NEW p \in Procs, NEW arrive \in BOOLEAN, BarrierDetach(p, arrive) PROVE CVInv'
    <3>1. "Broadcast" \in CVFns BY DEF CVFns
    <3> QED BY <2>1, <2>4, <2>7, <3>1 DEF BarrierDetach
  <2>8. ASSUME NEW p \in Procs, BarrierAttach(p) \/ ReturnFromWait(p) PROVE CVInv'
    BY <2>8, <2>4 DEF BarrierAttach, ReturnFromWait
  <2>9. CASE UNCHANGED allvars BY <2>9, <2>4 DEF allvars
  <2> QED BY <2>2, <2>3, <2>5, <2>6, <2>7, <2>8, <2>9, Zenon DEF BarrierNext, BarrierStep
<1>3. CVInv => LinkOnce /\ SignalNotLost /\ BroadcastWakesAll BY CVSafe DEF CVInv
<1> QED BY <1>1, <1>2, <1>3, PTL DEF BarrierSpec
====
