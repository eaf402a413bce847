---------------------------- MODULE ShmMqProofs ----------------------------
(***************************************************************************)
(* What is proved of ShmMq for every ring size, message length and number  *)
(* of messages: that the ring is never overrun, that a message returned as *)
(* a pointer stays intact, and that the queue implements MsgQueue with the *)
(* mapping of ShmMq!Queue.                                                 *)
(*                                                                         *)
(* First comes the inductive invariant IInv, then what a step leaves alone *)
(* (Move) and what follows from IInv in the states where a side reads or   *)
(* writes the ring; then that every step keeps IInv, part by part.         *)
(* Besides TypeOK and RingIntact, IInv says where the messages lie in the  *)
(* stream of cells (SendShape), which cell the receiver is at (RecvShape), *)
(* that a message returned as a pointer has not been given back            *)
(* (HeldShape), and who has left (EndShape).  They need each other: that   *)
(* the receiver reads a length word where it expects one follows from its  *)
(* place, its place from the lengths it has read, and that these are right *)
(* from the ring.                                                          *)
(***************************************************************************)
EXTENDS ShmMq, TLAPS

\* The receiver's place in the ring, and the cell of its next message it is at.
Pos == mq_bytes_read + pending
NextCell == IF expected = NONE THEN 0 ELSE 1 + Len(partial)

Gone(p) == pc[p] \in {"dead", "detached"}
Results == {"none", "SUCCESS", "WOULD_BLOCK", "DETACHED"}

\* Messages lie one behind the other, the complete ones within mq_bytes_written; the
\* sender is in the first incomplete one, unless it gave it up for a detach.
SendShape ==
    /\ Len(begin) = Len(msgs) /\ complete <= Len(msgs)
    /\ pc[S] # "count" => put = 0
    /\ \A k \in DOMAIN msgs :
           /\ k <= complete <=> begin[k] + 1 + msgs[k] <= mq_bytes_written
           /\ k <= complete /\ k < Len(msgs) => begin[k + 1] = begin[k] + 1 + msgs[k]
    /\ complete = Len(msgs) =>
           mq_bytes_written = IF complete = 0 THEN 0 ELSE begin[complete] + 1 + msgs[complete]
    /\ InCall(S) => Len(msgs) > 0
    /\ InCall(S) /\ pc[S] \notin {"finish", "notify"} /\ (mq_detached => pc[S] = "count") =>
           /\ complete = Len(msgs) - 1 /\ begin[Len(msgs)] + sent = mq_bytes_written
           /\ sent <= Len0 /\ sent + put <= 1 + Len0
    /\ pc[S] \in {"finish", "notify"} \/ (~InCall(S) /\ ~mq_detached) => complete = Len(msgs)
    /\ ~InCall(S) \/ pc[S] = "notify" => sent = 0 \/ pc[S] = "detached"

\* The receiver is at the place that follows from what it has received so far.
RecvShape ==
    /\ received.count <= complete
    /\ received.count = Len(msgs) => Pos = mq_bytes_written /\ expected = NONE
    /\ received.count < Len(msgs) => Pos = begin[received.count + 1] + NextCell
    /\ expected = NONE => partial = <<>>
    /\ expected # NONE => /\ expected = msgs[received.count + 1] /\ Len(partial) < expected
                          /\ \A j \in DOMAIN partial : partial[j] = <<received.count + 1, j>>

\* A message returned as a pointer has not been given back.
HeldShape ==
    pc[R] = "out" /\ result[R] = "SUCCESS" /\ received.msg.at # NONE =>
        /\ received.count > 0 /\ received.msg.len = msgs[received.count]
        /\ mq_bytes_read <= begin[received.count] + 1
        /\ \A i \in 1 .. received.msg.len :
               received.msg.at + i - 1 = (begin[received.count] + i) % mq_ring_size

\* Who has left, and who has been told.
EndShape ==
    /\ \A p \in Sides : attached[p] <=> pc[p] \notin {"new", "dead"}
    /\ pc[S] \in {"new", "dead"} => Len(msgs) = 0
    /\ mq_detached => Gone(S) \/ Gone(R)
    /\ \A p \in Sides : result[p] = "DETACHED" => mq_detached /\ Gone(Other(p))
    /\ result[R] = "DETACHED" => complete = received.count /\ pc[R] # "notgone"
    /\ pc[R] = "gone" => mq_detached
    /\ pc[R] = "again" => mq_detached /\ ~Enough
    /\ pc[S] \in {"peer", "notify"} => result[S] # "DETACHED"
    /\ pc[S] \notin {"test", "gone", "notgone", "flush", "receive", "look", "again"}
    /\ pc[R] \notin {"send", "check", "peergone", "peer", "count", "finish", "notify"}
    /\ pc[R] = "new" => result[R] = "none"

\* TypeOK in two halves.
ControlType ==
    /\ mqh_handle \in Launchers /\ attached \in [Sides -> BOOLEAN] /\ mq_detached \in BOOLEAN
    /\ latch \in [Sides -> BOOLEAN] /\ foreign \in 0 .. MaxForeign
    /\ pc \in [Sides -> PCs] /\ nowait \in [Sides -> BOOLEAN]
    /\ result \in [Sides -> Results]
    /\ known \in [Sides -> BOOLEAN]
DataType ==
    /\ mq_bytes_read \in Nat /\ mq_bytes_written \in Nat
    /\ mq_ring \in [0 .. mq_ring_size - 1 -> Nat \X Nat]
    /\ rb \in Nat /\ put \in 0 .. mq_ring_size /\ sent \in Nat
    /\ written \in Nat /\ pending \in 0 .. mq_ring_size
    /\ partial \in Seq(Nat \X Nat) /\ expected \in Nat \cup {NONE}
    /\ msgs \in Seq(Nat) /\ begin \in Seq(Nat) /\ complete \in Nat
    /\ received \in [count : Nat, msg : [at : Nat \cup {NONE}, len : Nat, data : Seq(Nat \X Nat)]]

\* The inductive invariant.
IInv == TypeOK /\ RingIntact /\ SendShape /\ RecvShape /\ HeldShape /\ EndShape

USE ShmMqAssumption, ZenonT(10), SMTT(60)

\* TypeOK is its two halves.
LEMMA TypeHalves == (TypeOK <=> ControlType /\ DataType) /\ (TypeOK' <=> ControlType' /\ DataType')
BY Zenon DEF TypeOK, ControlType, DataType, Results

\* The two sides.
LEMMA SidesTwo == S \in Sides /\ R \in Sides /\ Other(S) = R /\ Other(R) = S /\ (\A p \in Sides : Other(p) \in Sides)
BY DEF Sides, Other

\* Where a side can be once it has moved.
Places(p) ==
    {"dead", "out", "detached", "blocked", "asleep", "awaiting", "await"} \cup
    (IF p = S THEN {"send", "check", "peergone", "peer", "count", "finish", "notify"}
              ELSE {"test", "gone", "notgone", "flush", "receive", "look", "again"})

\* What belongs to the sender and what to the receiver.
Senders == <<mq_bytes_written, mq_ring, sender, msgs, begin, complete>>
Receivers == <<mq_bytes_read, receiver, received>>

\* A step of side p: the other side and what belongs to it stay as they are, a side
\* that has left does not move, one that has not attached or leaves is told nothing,
\* and mq_detached is only set, by a side that leaves or finds the other one dead.
Move(p) ==
    /\ \A q \in Sides : q # p => pc'[q] = pc[q] /\ result'[q] = result[q] /\ attached'[q] = attached[q]
    /\ IF p = S THEN UNCHANGED Receivers ELSE UNCHANGED Senders
    /\ ~Gone(p) /\ pc'[p] \in Places(p)
    /\ pc[p] = "new" \/ pc'[p] \in {"dead", "detached"} => result'[p] = result[p]
    /\ pc[p] = "new" => (attached'[p] <=> attached[p] \/ pc'[p] # "dead")
    /\ pc[p] # "new" => attached'[p] = attached[p] /\ pc'[p] # "dead"
    /\ mq_detached => mq_detached'
    /\ mq_detached' => mq_detached \/ pc'[p] = "detached" \/ HandleDead(p)
    /\ p = R /\ pc'[R] = "out" /\ result'[R] = "SUCCESS" => pc[R] = "new" \/ ReceiveLength \/ ReceiveData
    /\ p = R /\ pc'[R] \in {"gone", "notgone"} => ReceiveTest
    /\ p = R /\ pc'[R] = "again" => ReceiveDetached
    /\ p = S /\ pc'[S] \in {"peer", "notify"} => ~mq_detached /\ result'[S] = result[S]

\* A step of neither.
Still == UNCHANGED <<pc, result, attached, mq_detached>> /\ UNCHANGED Senders /\ UNCHANGED Receivers

\* Every step is one of one side, or sets a latch from outside.
LEMMA Moves == ASSUME IInv, Next PROVE Still \/ \E p \in Sides : Move(p)
<1>0. /\ S \in Sides /\ R \in Sides /\ S # R /\ Sides = {S, R} /\ Other(S) = R /\ Other(R) = S
      /\ attached \in [Sides -> BOOLEAN] /\ pc \in [Sides -> PCs] /\ result \in [Sides -> Results]
  BY SidesTwo DEF Sides, IInv, TypeOK, Results
<1> USE <1>0 DEF Move, Places, Gone, Senders, Receivers, Goto, Return, sender, receiver, history
<1>1. ASSUME NEW p \in Sides, Attach(p) PROVE Move(p) BY <1>1, Zenon DEF Attach
<1>2. ASSUME NEW p \in Sides, Die(p) PROVE Move(p) BY <1>2 DEF Die, ends
<1>3. ASSUME NEW p \in Sides, shm_mq_detach_internal(p) PROVE Move(p) BY <1>3 DEF shm_mq_detach_internal, ends
<1>4. ASSUME NEW p \in Sides, ForeignSetLatch(p) PROVE Still BY <1>4 DEF ForeignSetLatch, Still, ends
<1>5. ASSUME NEW p \in Sides, Wake(p) PROVE Move(p) BY <1>5 DEF Wake, Entry, ends
<1>6. ASSUME NEW n \in Lens, NEW b \in BOOLEAN, shm_mq_sendv(n, b) PROVE Move(S) BY <1>6 DEF shm_mq_sendv, ends
<1>7. ASSUME ReadBytesRead PROVE Move(S) BY <1>7 DEF ReadBytesRead, ends
<1>8. ASSUME SendDetached PROVE Move(S) BY <1>8 DEF SendDetached, ends
<1>9. ASSUME SendUnattached PROVE Move(S) BY <1>9 DEF SendUnattached, ends
<1>10. ASSUME SendFull PROVE Move(S) BY <1>10 DEF SendFull, ends
<1>11. ASSUME SendCopy PROVE Move(S) BY <1>11 DEF SendCopy, ends
<1>12. ASSUME shm_mq_inc_bytes_written PROVE Move(S) BY <1>12 DEF shm_mq_inc_bytes_written, ends
<1>13. ASSUME SendFinish PROVE Move(S) BY <1>13 DEF SendFinish, ends
<1>14. ASSUME Await(S) PROVE Move(S) BY <1>14, SMTT(60) DEF Await, shm_mq_counterparty_gone, ends
<1>15. ASSUME Await(R) PROVE Move(R) BY <1>15, SMTT(60) DEF Await, shm_mq_counterparty_gone, ends
<1>16. ASSUME NEW b \in BOOLEAN, shm_mq_receive(b) PROVE Move(R) BY <1>16 DEF shm_mq_receive, Entry, ends
<1>17. ASSUME ReceiveTest PROVE Move(R) BY <1>17, Zenon DEF ReceiveTest, shm_mq_counterparty_gone, ends
<1>18. ASSUME ReceiveUnattached PROVE Move(R) BY <1>18, SMTT(60) DEF ReceiveUnattached, ends
<1>19. ASSUME ReceiveFlush PROVE Move(R) BY <1>19 DEF ReceiveFlush, ends
<1>20. ASSUME ReadBytesWritten PROVE Move(R) BY <1>20 DEF ReadBytesWritten, ends
<1>21. ASSUME ReceiveLength PROVE Move(R) BY <1>21, SMTT(60) DEF ReceiveLength, ReturnInRing, ends
<1>22. ASSUME ReceiveData PROVE Move(R) BY <1>22, SMTT(60) DEF ReceiveData, ReturnInRing, ReturnCopy, ends
<1>23. ASSUME ReceiveDetached PROVE Move(R) BY <1>23 DEF ReceiveDetached, ends
<1>24. ASSUME ReceiveEmpty PROVE Move(R) BY <1>24 DEF ReceiveEmpty, ends
<1>25. ASSUME SendTest PROVE Move(S)
  <2>1. CASE shm_mq_counterparty_gone(S) BY <1>25, <2>1, ZenonT(30) DEF SendTest, shm_mq_counterparty_gone, ends
  <2>2. CASE ~shm_mq_counterparty_gone(S) BY <1>25, <2>2, ZenonT(30) DEF SendTest, shm_mq_counterparty_gone, ends
  <2> QED BY <2>1, <2>2
<1>26. ASSUME SendPeer PROVE Move(S) BY <1>26, SMTT(60) DEF SendPeer, ends
<1>27. ASSUME SendNotify PROVE Move(S) BY <1>27 DEF SendNotify, ends
<1>28. ASSUME ReceiveAgain PROVE Move(R) BY <1>28, SMTT(60) DEF ReceiveAgain, ends
<1> HIDE DEF Move, Still
<1> QED BY <1>1, <1>2, <1>3, <1>4, <1>5, <1>6, <1>7, <1>8, <1>9, <1>10, <1>11, <1>12, <1>13, <1>14, <1>15, <1>16,
           <1>17, <1>18, <1>19, <1>20, <1>21, <1>22, <1>23, <1>24,
           <1>25, <1>26, <1>27, <1>28, Zenon DEF Next, Calls, SendStep, ReceiveStep

\* Every step keeps the types of the control state.
LEMMA ControlTypes == ASSUME IInv, Next PROVE ControlType'
<1>0. ControlType /\ S \in Sides /\ R \in Sides /\ \A p \in Sides : Other(p) \in Sides
  BY SidesTwo, TypeHalves DEF IInv
<1> USE <1>0 DEF ControlType, PCs, Results, Goto, Return, SetLatch, ends, wait
<1>1. ASSUME NEW p \in Sides, Attach(p) PROVE ControlType' BY <1>1, Zenon DEF Attach
<1>2. ASSUME NEW p \in Sides, Die(p) PROVE ControlType' BY <1>2, Zenon DEF Die
<1>3. ASSUME NEW p \in Sides, shm_mq_detach_internal(p) PROVE ControlType' BY <1>3, Zenon DEF shm_mq_detach_internal
<1>4. ASSUME NEW p \in Sides, ForeignSetLatch(p) PROVE ControlType' BY <1>4, SMTT(60) DEF ForeignSetLatch
<1>5. ASSUME NEW p \in Sides, Wake(p) PROVE ControlType' BY <1>5, SMTT(60) DEF Wake, Entry
<1>6. ASSUME NEW n \in Lens, NEW b \in BOOLEAN, shm_mq_sendv(n, b) PROVE ControlType' BY <1>6 DEF shm_mq_sendv
<1>7. ASSUME ReadBytesRead PROVE ControlType' BY <1>7 DEF ReadBytesRead
<1>8. ASSUME SendDetached PROVE ControlType' BY <1>8 DEF SendDetached
<1>9. ASSUME SendUnattached PROVE ControlType' BY <1>9 DEF SendUnattached
<1>10. ASSUME SendFull PROVE ControlType' BY <1>10, Zenon DEF SendFull
<1>11. ASSUME SendCopy PROVE ControlType' BY <1>11 DEF SendCopy
<1>12. ASSUME shm_mq_inc_bytes_written PROVE ControlType' BY <1>12 DEF shm_mq_inc_bytes_written
<1>13. ASSUME SendFinish PROVE ControlType' BY <1>13 DEF SendFinish
<1>14. ASSUME NEW p \in Sides, Await(p) PROVE ControlType' BY <1>14, ZenonT(30) DEF Await
<1>15. ASSUME NEW b \in BOOLEAN, shm_mq_receive(b) PROVE ControlType' BY <1>15 DEF shm_mq_receive, Entry
<1>16. ASSUME ReceiveTest PROVE ControlType' BY <1>16 DEF ReceiveTest, shm_mq_counterparty_gone, HandleDead
<1>17. ASSUME ReceiveUnattached PROVE ControlType' BY <1>17, ZenonT(30) DEF ReceiveUnattached
<1>18. ASSUME ReceiveFlush PROVE ControlType' BY <1>18, Zenon DEF ReceiveFlush, shm_mq_inc_bytes_read, IncLatch
<1>19. ASSUME ReadBytesWritten PROVE ControlType' BY <1>19 DEF ReadBytesWritten
<1>20. ASSUME ReceiveLength PROVE ControlType' BY <1>20, ZenonT(30) DEF ReceiveLength, ReturnInRing, Consume
<1>21. ASSUME ReceiveData PROVE ControlType' BY <1>21, Zenon DEF ReceiveData, ReturnInRing, ReturnCopy, Consume
<1>22. ASSUME ReceiveDetached PROVE ControlType' BY <1>22, Zenon DEF ReceiveDetached
<1>23. ASSUME ReceiveEmpty PROVE ControlType' BY <1>23, Zenon DEF ReceiveEmpty, shm_mq_inc_bytes_read, IncLatch
<1>24. ASSUME SendTest PROVE ControlType'
  <2>1. pc' \in [Sides -> PCs] BY <1>24, SMTT(60) DEF SendTest
  <2>2. result' \in [Sides -> Results] /\ nowait' \in [Sides -> BOOLEAN] BY <1>24, Zenon DEF SendTest
  <2>3. mq_detached' \in BOOLEAN BY <1>24, Zenon DEF SendTest, shm_mq_counterparty_gone, HandleDead
  <2> QED BY <1>24, <2>1, <2>2, <2>3 DEF SendTest
<1>25. ASSUME SendPeer PROVE ControlType'
  <2>1. known' \in [Sides -> BOOLEAN] BY <1>25, Zenon DEF SendPeer
  <2>2. pc' \in [Sides -> PCs] BY <1>25, SMTT(60) DEF SendPeer
  <2>3. result' \in [Sides -> Results] /\ nowait' \in [Sides -> BOOLEAN] BY <1>25, Zenon DEF SendPeer
  <2> QED BY <1>25, <2>1, <2>2, <2>3 DEF SendPeer
<1>26. ASSUME SendNotify PROVE ControlType'
  <2>1. known' \in [Sides -> BOOLEAN] BY <1>26, Zenon DEF SendNotify
  <2>2. latch' \in [Sides -> BOOLEAN] /\ foreign' = foreign BY <1>26, Zenon DEF SendNotify, Notify
  <2>3. /\ pc' \in [Sides -> PCs] /\ result' \in [Sides -> Results] /\ nowait' \in [Sides -> BOOLEAN]
        /\ UNCHANGED <<ends, mq_detached>>
    BY <1>26, Zenon DEF SendNotify
  <2> QED BY <2>1, <2>2, <2>3, Zenon
<1>27. ASSUME ReceiveAgain PROVE ControlType' BY <1>27, ZenonT(30) DEF ReceiveAgain
<1> HIDE DEF ControlType
<1> QED BY <1>1, <1>2, <1>3, <1>4, <1>5, <1>6, <1>7, <1>8, <1>9, <1>10, <1>11, <1>12, <1>13, <1>14, <1>15, <1>16, <1>17, <1>18, <1>19, <1>20, <1>21, <1>22, <1>23,
           <1>24, <1>25, <1>26, <1>27, Zenon DEF Next, Calls, SendStep, ReceiveStep

\* A step that moves no cell and reads no counter.
Idle ==
    /\ UNCHANGED <<mq_bytes_read, mq_bytes_written, mq_ring, put, pending, partial, expected, history>>
    /\ rb' \in {rb, 0} /\ written' \in {written, 0}
    /\ pc'[S] = "check" => pc[S] = "check" /\ rb' = rb
    /\ pc'[R] \in {"look", "again"} => pc[R] \in {"look", "again"} /\ written' = written

\* A step of the receiver that gives back what it has consumed, or not.
Give ==
    /\ (mq_bytes_read' = mq_bytes_read /\ pending' = pending) \/ (mq_bytes_read' = Pos /\ pending' = 0)
    /\ UNCHANGED <<mq_bytes_written, mq_ring, sender, partial, expected, history, mq_detached, attached>>
    /\ written' \in {written, 0} /\ pc'[S] = pc[S] /\ pc'[R] \notin {"look", "again"} /\ pc[R] \in {"flush", "look"}

\* The two steps that may give cells back.
LEMMA GiveSteps == ASSUME IInv, ReceiveFlush \/ ReceiveEmpty PROVE Give
<1>0. S \in Sides /\ R \in Sides /\ S # R /\ pc \in [Sides -> PCs] BY SidesTwo DEF IInv, TypeOK
<1>1. pc'[S] = pc[S] /\ pc'[R] \notin {"look", "again"} /\ pc[R] \in {"flush", "look"}
  BY <1>0 DEF ReceiveFlush, ReceiveEmpty, Goto, Return
<1>2. shm_mq_inc_bytes_read \/ UNCHANGED <<mq_bytes_read, pending, wait>>
  BY DEF ReceiveFlush, ReceiveEmpty
<1>3. (mq_bytes_read' = mq_bytes_read /\ pending' = pending) \/ (mq_bytes_read' = Pos /\ pending' = 0)
  BY <1>2 DEF shm_mq_inc_bytes_read, Pos
<1>4. UNCHANGED <<mq_bytes_written, mq_ring, sender, partial, expected, history, mq_detached, attached>>
      /\ written' \in {written, 0}
  BY DEF ReceiveFlush, ReceiveEmpty, ends
<1> QED BY <1>1, <1>3, <1>4 DEF Give

IdleStep ==
    \/ \E p \in Sides : Attach(p) \/ Die(p) \/ shm_mq_detach_internal(p) \/ ForeignSetLatch(p)
                            \/ Wake(p) \/ Await(p)
    \/ \E b \in BOOLEAN : shm_mq_receive(b)
    \/ SendDetached \/ SendUnattached \/ SendTest \/ SendPeer \/ SendFull \/ SendFinish \/ SendNotify
    \/ ReceiveTest \/ ReceiveUnattached \/ ReceiveDetached \/ ReceiveAgain

\* The steps that leave ring and counters alone.
LEMMA IdleSteps == ASSUME IInv, IdleStep PROVE Idle
<1>0. S \in Sides /\ R \in Sides /\ S # R /\ Sides = {S, R} /\ pc \in [Sides -> PCs] BY SidesTwo DEF IInv, TypeOK, Sides
<1> USE <1>0 DEF Idle, Goto, Return, sender, receiver
<1>1. ASSUME NEW p \in Sides, Attach(p) PROVE Idle BY <1>1 DEF Attach
<1>2. ASSUME NEW p \in Sides, Die(p) PROVE Idle BY <1>2 DEF Die
<1>3. ASSUME NEW p \in Sides, shm_mq_detach_internal(p) PROVE Idle BY <1>3 DEF shm_mq_detach_internal
<1>4. ASSUME NEW p \in Sides, ForeignSetLatch(p) PROVE Idle BY <1>4 DEF ForeignSetLatch
<1>5. ASSUME NEW p \in Sides, Wake(p) PROVE Idle BY <1>5 DEF Wake, Entry
<1>6. ASSUME NEW p \in Sides, Await(p) PROVE Idle BY <1>6 DEF Await
<1>7. ASSUME NEW b \in BOOLEAN, shm_mq_receive(b) PROVE Idle BY <1>7 DEF shm_mq_receive, Entry
<1>8. ASSUME SendDetached PROVE Idle BY <1>8 DEF SendDetached
<1>9. ASSUME SendUnattached PROVE Idle BY <1>9 DEF SendUnattached
<1>10. ASSUME SendFull PROVE Idle BY <1>10 DEF SendFull
<1>11. ASSUME SendFinish PROVE Idle BY <1>11 DEF SendFinish
<1>12. ASSUME ReceiveTest PROVE Idle BY <1>12 DEF ReceiveTest
<1>13. ASSUME ReceiveUnattached PROVE Idle BY <1>13 DEF ReceiveUnattached
<1>14. ASSUME ReceiveDetached PROVE Idle BY <1>14 DEF ReceiveDetached
<1>15. ASSUME SendTest PROVE Idle BY <1>15 DEF SendTest
<1>16. ASSUME SendPeer PROVE Idle BY <1>16 DEF SendPeer
<1>17. ASSUME SendNotify PROVE Idle BY <1>17 DEF SendNotify
<1>18. ASSUME ReceiveAgain PROVE Idle BY <1>18 DEF ReceiveAgain
<1> HIDE DEF Idle
<1> QED BY <1>1, <1>2, <1>3, <1>4, <1>5, <1>6, <1>7, <1>8, <1>9, <1>10, <1>11, <1>12, <1>13, <1>14,
           <1>15, <1>16, <1>17, <1>18, Zenon DEF IdleStep

\* The other steps move cells or read counters.
LEMMA StepKinds ==
    ASSUME Next
    PROVE  \/ IdleStep \/ ReceiveFlush \/ ReceiveEmpty \/ ReadBytesRead \/ SendCopy
           \/ shm_mq_inc_bytes_written \/ ReadBytesWritten \/ ReceiveLength \/ ReceiveData
           \/ \E n \in Lens, b \in BOOLEAN : shm_mq_sendv(n, b)
BY SidesTwo, Zenon DEF Next, Calls, SendStep, ReceiveStep, IdleStep

\* Quotient and remainder.
LEMMA DivRange ==
    ASSUME NEW N \in Nat \ {0}, NEW a \in Nat
    PROVE  (a % N) \in 0 .. (N - 1) /\ (a \div N) \in Nat /\ a = N * (a \div N) + (a % N)
<1>1. (a % N) \in 0 .. (N - 1) OBVIOUS
<1>2. (a \div N) \in Int OBVIOUS
<1>3. a = N * (a \div N) + (a % N) OBVIOUS
<1>4. (a \div N) \in Nat BY SMTT(60)
<1> QED BY <1>1, <1>2, <1>3, <1>4

\* Multiples of a ring size are at least one ring apart.
LEMMA Multiples ==
    ASSUME NEW N \in Nat \ {0}, NEW c \in Int, NEW d \in Int, c < d
    PROVE  N * c + N <= N * d /\ N * c \in Int /\ N * d \in Int
OBVIOUS

\* Quotient and remainder are unique.
LEMMA DivUnique ==
    ASSUME NEW N \in Nat \ {0}, NEW q \in Int, NEW r \in 0 .. (N - 1), NEW p \in Int, NEW s \in 0 .. (N - 1),
           N * q + r = N * p + s
    PROVE  q = p /\ r = s
<1>1. ~(q < p) BY Multiples, SMTT(60)
<1>2. ~(p < q) BY Multiples, SMTT(60)
<1> QED BY <1>1, <1>2

\* Two counters less than a ring apart are at different offsets.
LEMMA ModUnique ==
    ASSUME NEW N \in Nat \ {0}, NEW a \in Nat, NEW b \in Nat, a < b, b < a + N
    PROVE  a % N # b % N
<1>1. SUFFICES ASSUME a % N = b % N PROVE FALSE OBVIOUS
<1> DEFINE q == a \div N
           p == b \div N
           r == a % N
<1>2. q \in Nat /\ p \in Nat /\ r \in 0 .. (N - 1) /\ a = N * q + r /\ b = N * p + r BY <1>1, DivRange
<1> HIDE DEF q, p, r
<1>3. q < p => N * q + N <= N * p /\ N * q \in Int /\ N * p \in Int BY <1>2, Multiples, SMTT(60)
<1>4. p < q => N * p + N <= N * q /\ N * q \in Int /\ N * p \in Int BY <1>2, Multiples, SMTT(60)
<1> QED BY <1>2, <1>3, <1>4

\* As long as the end of the ring is not reached, offsets grow with the counter.
LEMMA ModAdd ==
    ASSUME NEW N \in Nat \ {0}, NEW a \in Nat, NEW i \in Nat, (a % N) + i < N
    PROVE  (a + i) % N = (a % N) + i
<1> DEFINE q == a \div N
           p == (a + i) \div N
           r == a % N
           s == (a + i) % N
<1>2. q \in Nat /\ r \in 0 .. (N - 1) /\ a = N * q + r BY DivRange
<1>1. a + i \in Nat BY SMTT(60)
<1>3. p \in Nat /\ s \in 0 .. (N - 1) /\ a + i = N * p + s BY <1>1, DivRange, Zenon
<1>4. r + i \in 0 .. (N - 1) BY <1>2, SMTT(60)
<1> HIDE DEF q, p, r, s
<1>6. N * q \in Int /\ N * p \in Int BY <1>2, <1>3
<1>5. N * q + (r + i) = N * p + s BY <1>2, <1>3, <1>6
<1>7. s = r + i BY <1>2, <1>3, <1>4, <1>5, DivUnique, SMTT(60)
<1> QED BY <1>7 DEF s, r

\* Cells read from the ring make a sequence.
LEMMA AtSeq ==
    ASSUME TypeOK, NEW f \in Nat, NEW n \in Nat, f + n <= mq_ring_size
    PROVE  /\ At(f, n) \in Seq(Nat \X Nat) /\ Len(At(f, n)) = n
           /\ \A i \in 1 .. n : At(f, n)[i] = mq_ring[f + i - 1]
<1>1. At(f, n) \in [1 .. n -> Nat \X Nat] BY SMTT(60) DEF At, TypeOK
<1>2. At(f, n) \in Seq(Nat \X Nat) BY <1>1, SMTT(60)
<1>3. Len(At(f, n)) = n BY <1>1
<1> QED BY <1>2, <1>3 DEF At

\* The counters, lengths and places are numbers.
LEMMA Numbers ==
    ASSUME IInv
    PROVE  /\ mq_bytes_read \in Nat /\ mq_bytes_written \in Nat /\ rb \in Nat /\ put \in Nat /\ sent \in Nat
           /\ written \in Nat /\ pending \in Nat /\ complete \in Nat /\ received.count \in Nat
           /\ Len(msgs) \in Nat /\ DOMAIN msgs = 1 .. Len(msgs) /\ Len(partial) \in Nat
           /\ Pos \in Nat /\ \A k \in 1 .. Len(msgs) : msgs[k] \in Nat /\ begin[k] \in Nat
<1>1. TypeOK /\ Len(begin) = Len(msgs) BY DEF IInv, SendShape
<1>2. msgs \in Seq(Nat) /\ begin \in Seq(Nat) /\ partial \in Seq(Nat \X Nat) BY <1>1 DEF TypeOK
<1>3. \A k \in 1 .. Len(msgs) : msgs[k] \in Nat /\ begin[k] \in Nat BY <1>1, <1>2, SMTT(60)
<1>4. received.count \in Nat BY <1>1 DEF TypeOK
<1> QED BY <1>1, <1>2, <1>3, <1>4, SMTT(60) DEF TypeOK, Pos

\* What shm_mq_receive_bytes computes from the counters: a piece that does not wrap
\* around and lies within what has been written.
LEMMA LookFacts ==
    ASSUME IInv, pc[R] \in {"look", "again"}
    PROVE  /\ offset \in 0 .. mq_ring_size - 1 /\ used \in Nat /\ chunk \in Nat
           /\ chunk <= used /\ offset + chunk <= mq_ring_size
           /\ Pos \in Nat /\ Pos + used = written /\ written <= mq_bytes_written
           /\ bytes_needed \in Nat \ {0} /\ (Enough => chunk > 0)
<1>1. Pos \in Nat /\ Pos <= written /\ written \in Nat /\ written <= mq_bytes_written
  BY SMTT(60) DEF IInv, TypeOK, RecvShape, RingIntact, Pos
<1>2. offset \in 0 .. mq_ring_size - 1 BY <1>1, DivRange DEF offset, Pos
<1>3. used \in Nat /\ Pos + used = written BY <1>1, SMTT(60) DEF used, Pos, IInv, TypeOK
<1>4. bytes_needed \in Nat \ {0}
  BY SMTT(60) DEF bytes_needed, IInv, TypeOK, RecvShape, NONE
<1> QED BY <1>1, <1>2, <1>3, <1>4 DEF chunk, Enough

\* The cells in front of the receiver are those of its next message.
LEMMA CellsAhead ==
    ASSUME IInv, pc[R] = "look", used > 0
    PROVE  LET k == received.count + 1 IN
           /\ k \in DOMAIN msgs /\ Pos = begin[k] + NextCell /\ NextCell \in 0 .. msgs[k]
           /\ \A j \in Nat : j < chunk /\ NextCell + j <= msgs[k] =>
                  mq_ring[offset + j] = Cell(k, NextCell + j)
<1> DEFINE k == received.count + 1
<1>0. /\ used \in Nat /\ Pos \in Nat /\ chunk \in Nat /\ offset \in Nat
      /\ Pos + used = written /\ written <= mq_bytes_written
      /\ chunk <= used /\ offset + chunk <= mq_ring_size
  BY LookFacts, SMTT(60)
<1>n. /\ mq_bytes_read \in Nat /\ mq_bytes_written \in Nat /\ written \in Nat /\ put \in Nat
      /\ pending \in Nat /\ Len(partial) \in Nat
  BY Numbers
<1>1. Pos < mq_bytes_written BY <1>0, <1>n
<1>2. received.count \in Nat /\ Len(msgs) \in Nat /\ DOMAIN msgs = 1 .. Len(msgs) BY SMTT(60) DEF IInv, TypeOK
<1>3. received.count <= Len(msgs) BY <1>2, SMTT(60) DEF IInv, TypeOK, RecvShape, SendShape
<1>4. k \in DOMAIN msgs BY <1>1, <1>2, <1>3, LookFacts, SMTT(60) DEF IInv, RecvShape
<1>5. Pos = begin[k] + NextCell BY <1>2, <1>4 DEF IInv, RecvShape
<1>6. msgs[k] \in Nat /\ begin[k] \in Nat BY <1>2, <1>4, Numbers
<1>7. NextCell \in 0 .. msgs[k] BY <1>6, <1>n DEF IInv, RecvShape, NextCell, NONE
<1>8. ASSUME NEW j \in Nat, j < chunk, NextCell + j <= msgs[k]
      PROVE  mq_ring[offset + j] = Cell(k, NextCell + j)
  <2>1. offset + j < mq_ring_size BY <1>8, <1>0
  <2>2. (Pos + j) % mq_ring_size = offset + j BY <2>1, <1>0, ModAdd DEF offset, Pos
  <2>3. NextCell + j \in 0 .. msgs[k] BY <1>6, <1>7, <1>8, SMTT(60)
  <2>4. begin[k] + (NextCell + j) = Pos + j BY <1>5, <1>6, <1>7, <1>0
  <2>5. Pos + j \in mq_bytes_read .. mq_bytes_written + put - 1
    BY <1>8, <1>0, <1>n DEF Pos
  <2>6. begin[k] + (NextCell + j) \in mq_bytes_read .. mq_bytes_written + put - 1 BY <2>4, <2>5
  <2>7. mq_ring[(begin[k] + (NextCell + j)) % mq_ring_size] = Cell(k, NextCell + j)
    BY <1>4, <2>3, <2>6 DEF IInv, RingIntact
  <2> QED BY <2>2, <2>4, <2>7
<1> QED BY <1>4, <1>5, <1>7, <1>8

\* What the sender copies fits into the free part of the ring and does not wrap around.
LEMMA SendFacts ==
    ASSUME IInv, pc[S] = "check", ~mq_detached
    PROVE  /\ Len(msgs) \in DOMAIN msgs /\ Len0 \in Nat /\ put = 0
           /\ complete = Len(msgs) - 1 /\ begin[Len(msgs)] \in Nat
           /\ begin[Len(msgs)] + sent = mq_bytes_written /\ sent <= Len0
           /\ available \in Nat /\ mq_bytes_written % mq_ring_size \in 0 .. mq_ring_size - 1
           /\ available > 0 =>
                  /\ sendnow \in 1 .. mq_ring_size /\ mq_bytes_written + sendnow <= rb + mq_ring_size
                  /\ (mq_bytes_written % mq_ring_size) + sendnow <= mq_ring_size
                  /\ sent + sendnow <= 1 + Len0
<1>1. Len(msgs) \in DOMAIN msgs /\ Len0 \in Nat /\ begin[Len(msgs)] \in Nat
  BY Numbers, SMTT(60) DEF IInv, SendShape, InCall, Len0
<1>2. put = 0 /\ complete = Len(msgs) - 1 /\ begin[Len(msgs)] + sent = mq_bytes_written /\ sent <= Len0
  BY DEF IInv, SendShape, InCall
<1>n. sent \in Nat BY Numbers
<1>3. nbytes \in Nat \ {0} /\ sent + nbytes <= 1 + Len0 BY <1>1, <1>2, <1>n DEF nbytes
<1>4. rb \in Nat /\ mq_bytes_written \in Nat /\ mq_bytes_read \in Nat /\ rb <= mq_bytes_read
      /\ mq_bytes_written <= rb + mq_ring_size
  BY <1>2, Numbers DEF IInv, RingIntact
<1>5. mq_bytes_written % mq_ring_size \in 0 .. mq_ring_size - 1 BY <1>4, DivRange
<1>6. available \in Int /\ available <= nbytes /\ available <= mq_ring_size - (mq_bytes_written - rb)
  BY <1>3, <1>4 DEF available
<1>7. available \in Nat BY <1>2, <1>3, <1>4, <1>6, SMTT(60) DEF available
<1>8. ASSUME available > 0
      PROVE  /\ sendnow \in 1 .. mq_ring_size /\ sendnow <= available
             /\ (mq_bytes_written % mq_ring_size) + sendnow <= mq_ring_size
  <2> DEFINE r == mq_bytes_written % mq_ring_size
  <2>1. r \in 0 .. mq_ring_size - 1 BY <1>5
  <2>2. sendnow = IF available < mq_ring_size - r THEN available ELSE mq_ring_size - r BY DEF sendnow
  <2> HIDE DEF r
  <2>3. sendnow \in 1 .. mq_ring_size /\ sendnow <= available /\ r + sendnow <= mq_ring_size
    BY <2>1, <2>2, <1>7, <1>8
  <2> QED BY <2>3 DEF r
<1> QED BY <1>1, <1>2, <1>3, <1>4, <1>5, <1>6, <1>7, <1>8, <1>n

\* A message that lies within what has been written is complete.
LEMMA WholeComplete ==
    ASSUME IInv, NEW k \in DOMAIN msgs, begin[k] + 1 + msgs[k] <= mq_bytes_written
    PROVE  k <= complete
BY DEF IInv, SendShape

\* The length word in front of the receiver, and a message all of which is in front of it.
LEMMA LengthFacts ==
    ASSUME IInv, pc[R] = "look", Enough, expected = NONE
    PROVE  LET k == received.count + 1
               n == mq_ring[offset][2]
           IN  /\ k \in DOMAIN msgs /\ n = msgs[k] /\ Pos = begin[k] /\ chunk \in Nat \ {0}
               /\ Pos + chunk <= mq_bytes_written /\ offset \in Nat /\ n \in Nat
               /\ chunk >= 1 + n => /\ k <= complete /\ offset + 1 + n <= mq_ring_size
                                    /\ At(offset + 1, n) = Payload(k)
                                    /\ \A i \in 1 .. n : offset + i = (begin[k] + i) % mq_ring_size
<1> DEFINE k == received.count + 1
           n == mq_ring[offset][2]
<1>0. /\ used \in Nat /\ Pos \in Nat /\ chunk \in Nat \ {0} /\ offset \in Nat
      /\ Pos + used = written /\ written <= mq_bytes_written
      /\ chunk <= used /\ offset + chunk <= mq_ring_size
  BY LookFacts, SMTT(60)
<1>n. mq_bytes_written \in Nat /\ written \in Nat /\ DOMAIN msgs = 1 .. Len(msgs) BY Numbers
<1>1. NextCell = 0 BY DEF NextCell
<1>2. used > 0 BY <1>0
<1>3. /\ k \in DOMAIN msgs /\ Pos = begin[k] + NextCell
      /\ \A j \in Nat : j < chunk /\ NextCell + j <= msgs[k] => mq_ring[offset + j] = Cell(k, NextCell + j)
  BY <1>2, CellsAhead
<1>k. k \in 1 .. Len(msgs) BY <1>n, <1>3
<1>4. msgs[k] \in Nat /\ begin[k] \in Nat BY <1>k, Numbers, Zenon
<1>5. Pos = begin[k] BY <1>1, <1>3, <1>4, SMTT(60)
<1>6. \A j \in Nat : j < chunk /\ j <= msgs[k] => mq_ring[offset + j] = Cell(k, j) BY <1>1, <1>3, SMTT(60)
<1> HIDE DEF k
<1>7. n = msgs[k]
  <2>1. mq_ring[offset + 0] = Cell(k, 0) BY <1>0, <1>4, <1>6, SMTT(60)
  <2>2. mq_ring[offset] = <<0, msgs[k]>> BY <1>0, <2>1 DEF Cell
  <2> QED BY <2>2
<1>8. Pos + chunk <= mq_bytes_written BY <1>0, <1>n
<1> HIDE DEF n
<1>9. ASSUME chunk >= 1 + n
      PROVE  /\ k <= complete /\ offset + 1 + n <= mq_ring_size /\ At(offset + 1, n) = Payload(k)
             /\ \A i \in 1 .. n : offset + i = (begin[k] + i) % mq_ring_size
  <2>1. begin[k] + 1 + msgs[k] <= mq_bytes_written
    <3> DEFINE b == begin[k]
    <3>1. b \in Nat /\ n \in Nat /\ b + chunk <= mq_bytes_written BY <1>4, <1>5, <1>7, <1>8
    <3> HIDE DEF b
    <3>2. b + 1 + n <= mq_bytes_written BY <3>1, <1>9, <1>0, <1>n
    <3> QED BY <3>2, <1>7 DEF b
  <2>2. k <= complete BY <1>3, <2>1, WholeComplete DEF k
  <2>3. offset + 1 + n <= mq_ring_size BY <1>0, <1>4, <1>7, <1>9
  <2>4. ASSUME NEW i \in 1 .. n PROVE offset + i = (begin[k] + i) % mq_ring_size
    <3>1. offset = begin[k] % mq_ring_size BY <1>5 DEF offset, Pos
    <3>2. (begin[k] % mq_ring_size) + i < mq_ring_size BY <3>1, <2>3, <1>0, <1>4, <1>7
    <3> QED BY <3>1, <3>2, <1>4, <1>7, ModAdd, SMTT(60)
  <2>5. ASSUME NEW i \in 1 .. n PROVE mq_ring[offset + 1 + i - 1] = <<k, i>>
    <3>1. mq_ring[offset + i] = Cell(k, i) BY <1>4, <1>6, <1>7, <1>9, <1>0, SMTT(60)
    <3>2. offset + 1 + i - 1 = offset + i /\ i # 0 BY <1>0, <1>4, <1>7
    <3> QED BY <3>1, <3>2 DEF Cell
  <2>6. At(offset + 1, n) = Payload(k) BY <2>5, <1>7 DEF At, Payload
  <2> QED BY <2>2, <2>3, <2>4, <2>6
<1> QED BY <1>0, <1>3, <1>4, <1>5, <1>7, <1>8, <1>9 DEF k, n

\* The next piece of a message of known length.
LEMMA DataFacts ==
    ASSUME IInv, pc[R] = "look", Enough, expected # NONE,
           NEW n, n = IF chunk < expected - Len(partial) THEN chunk ELSE expected - Len(partial)
    PROVE  LET k == received.count + 1
           IN  /\ k \in DOMAIN msgs /\ expected = msgs[k] /\ Pos = begin[k] + 1 + Len(partial)
               /\ n \in Nat \ {0} /\ Len(partial) + n <= expected /\ Pos + n <= mq_bytes_written
               /\ offset \in Nat /\ offset + n <= mq_ring_size
               /\ partial \o At(offset, n) \in Seq(Nat \X Nat) /\ Len(partial \o At(offset, n)) = Len(partial) + n
               /\ \A j \in 1 .. Len(partial) + n : (partial \o At(offset, n))[j] = <<k, j>>
               /\ n = expected - Len(partial) => k <= complete
               /\ n = expected => /\ partial = <<>> /\ At(offset, n) = Payload(k)
                                  /\ \A i \in 1 .. n : offset + i - 1 = (begin[k] + i) % mq_ring_size
               /\ n = expected - Len(partial) => partial \o At(offset, n) = Payload(k)
<1> DEFINE k == received.count + 1
<1>0. /\ used \in Nat /\ Pos \in Nat /\ chunk \in Nat \ {0} /\ offset \in Nat
      /\ Pos + used = written /\ written <= mq_bytes_written
      /\ chunk <= used /\ offset + chunk <= mq_ring_size
  BY LookFacts, SMTT(60)
<1>n. mq_bytes_written \in Nat /\ written \in Nat /\ DOMAIN msgs = 1 .. Len(msgs) /\ Len(partial) \in Nat BY Numbers
<1>1. NextCell = 1 + Len(partial) BY DEF NextCell
<1>2. used > 0 BY <1>0
<1>3. /\ k \in DOMAIN msgs /\ Pos = begin[k] + NextCell
      /\ \A j \in Nat : j < chunk /\ NextCell + j <= msgs[k] => mq_ring[offset + j] = Cell(k, NextCell + j)
  BY <1>2, CellsAhead
<1>4. msgs[k] \in Nat /\ begin[k] \in Nat BY <1>n, <1>3, Numbers
<1>5. Pos = begin[k] + 1 + Len(partial)
  <2>1. Pos = begin[k] + (1 + Len(partial)) BY <1>1, <1>3
  <2> QED BY <2>1, <1>4, <1>n
<1>6. expected = msgs[k] /\ Len(partial) < expected /\ \A j \in DOMAIN partial : partial[j] = <<k, j>>
  BY DEF IInv, RecvShape
<1>7. partial \in Seq(Nat \X Nat) /\ TypeOK BY DEF IInv, TypeOK
<1> HIDE DEF k
<1>8. n \in Nat \ {0} /\ Len(partial) + n <= expected /\ n <= chunk /\ n <= expected
  BY <1>0, <1>4, <1>6, <1>n
<1>9. Pos + n <= mq_bytes_written /\ offset + n <= mq_ring_size BY <1>0, <1>8, <1>n
<1>10. /\ At(offset, n) \in Seq(Nat \X Nat) /\ Len(At(offset, n)) = n
       /\ \A i \in 1 .. n : At(offset, n)[i] = mq_ring[offset + i - 1]
  <2>1. offset \in Nat /\ n \in Nat /\ offset + n <= mq_ring_size /\ TypeOK BY <1>0, <1>7, <1>8, <1>9
  <2> QED BY <2>1, AtSeq, Zenon
<1>11. ASSUME NEW i \in 1 .. n PROVE At(offset, n)[i] = <<k, Len(partial) + i>>
  <2>1. i - 1 \in Nat /\ i - 1 < chunk /\ NextCell + (i - 1) <= msgs[k] /\ NextCell + (i - 1) = Len(partial) + i
        /\ Len(partial) + i # 0 /\ offset + (i - 1) = offset + i - 1
    BY <1>0, <1>1, <1>4, <1>6, <1>8, <1>n, SMTT(60)
  <2>2. mq_ring[offset + (i - 1)] = Cell(k, NextCell + (i - 1)) BY <2>1, <1>3
  <2> QED BY <2>1, <2>2, <1>10 DEF Cell
<1> DEFINE all == partial \o At(offset, n)
<1>12. all \in Seq(Nat \X Nat) /\ Len(all) = Len(partial) + n BY <1>7, <1>10
<1>13. ASSUME NEW j \in 1 .. Len(partial) + n PROVE all[j] = <<k, j>>
  <2>1. CASE j <= Len(partial) BY <2>1, <1>6, <1>7, <1>10, <1>n, SMTT(60)
  <2>2. CASE j > Len(partial)
    <3>1. j - Len(partial) \in 1 .. n /\ Len(partial) + (j - Len(partial)) = j BY <2>2, <1>n, <1>8, SMTT(60)
    <3> DEFINE a == At(offset, n)
    <3>2. a \in Seq(Nat \X Nat) /\ Len(a) = n BY <1>10
    <3>3. \A i \in 1 .. n : a[i] = <<k, Len(partial) + i>> BY <1>11
    <3> HIDE DEF a
    <3>4. (partial \o a)[j] = a[j - Len(partial)] BY <2>2, <3>1, <3>2, <1>7, <1>n, <1>8, SMTT(60)
    <3>5. a[j - Len(partial)] = <<k, j>> BY <3>1, <3>3
    <3> QED BY <3>4, <3>5, Zenon DEF a
  <2>3. j <= Len(partial) \/ j > Len(partial) BY <1>n, <1>8, SMTT(60)
  <2> QED BY <2>1, <2>2, <2>3, Zenon
<1>14. ASSUME n = expected - Len(partial) PROVE k <= complete
  <2> DEFINE b == begin[k]
  <2>0. b \in Nat /\ Pos = b + 1 + Len(partial) /\ msgs[k] = Len(partial) + n /\ Pos + n <= mq_bytes_written
    <3>1. msgs[k] = Len(partial) + n BY <1>14, <1>4, <1>6, <1>8, <1>n
    <3> QED BY <3>1, <1>4, <1>5, <1>9
  <2> HIDE DEF b
  <2>2. b + 1 + (Len(partial) + n) <= mq_bytes_written BY <2>0, <1>n, <1>8
  <2>1. begin[k] + 1 + msgs[k] <= mq_bytes_written BY <2>0, <2>2 DEF b
  <2> QED BY <2>1, <1>3, WholeComplete DEF k
<1>15. ASSUME n = expected - Len(partial) PROVE all = Payload(k)
  <2>0. Len(partial) + n = msgs[k] BY <1>15, <1>6, <1>4, <1>8, <1>n
  <2>1. Len(all) = msgs[k] BY <2>0, <1>12
  <2>2. all = [j \in 1 .. msgs[k] |-> all[j]] BY <2>1, <1>12
  <2> HIDE DEF all
  <2>3. \A j \in 1 .. msgs[k] : all[j] = <<k, j>> BY <1>13, <2>0, Zenon
  <2> QED BY <2>2, <2>3, Zenon DEF Payload
<1>16. ASSUME n = expected
       PROVE  /\ partial = <<>> /\ At(offset, n) = Payload(k)
              /\ \A i \in 1 .. n : offset + i - 1 = (begin[k] + i) % mq_ring_size
  <2>1. Len(partial) = 0 BY <1>16, <1>8, <1>n, <1>6, <1>4
  <2>2. partial = <<>> BY <2>1, <1>7
  <2>3. ASSUME NEW i \in 1 .. n PROVE At(offset, n)[i] = <<k, i>> BY <1>11, <2>1, <1>8, SMTT(60)
  <2>4. At(offset, n) = [i \in 1 .. n |-> At(offset, n)[i]] BY DEF At
  <2>5. At(offset, n) = Payload(k)
    <3> DEFINE a == At(offset, n)
    <3>1. a = [i \in 1 .. n |-> a[i]] /\ (\A i \in 1 .. n : a[i] = <<k, i>>) /\ n = msgs[k]
      BY <2>3, <2>4, <1>16, <1>6
    <3> HIDE DEF a
    <3>2. a = Payload(k) BY <3>1, Zenon DEF Payload
    <3> QED BY <3>2 DEF a
  <2>6. ASSUME NEW i \in 1 .. n PROVE offset + i - 1 = (begin[k] + i) % mq_ring_size
    <3>1. offset = (begin[k] + 1) % mq_ring_size BY <1>5, <2>1, <1>4 DEF offset, Pos
    <3>2. i - 1 \in Nat /\ ((begin[k] + 1) % mq_ring_size) + (i - 1) < mq_ring_size BY <3>1, <1>8, <1>9, <1>0
    <3>3. (begin[k] + 1 + (i - 1)) % mq_ring_size = offset + (i - 1) BY <3>1, <3>2, <1>4, ModAdd, SMTT(60)
    <3>4. begin[k] + 1 + (i - 1) = begin[k] + i /\ offset + (i - 1) = offset + i - 1 BY <1>4, <1>0, <1>8
    <3> QED BY <3>3, <3>4
  <2> QED BY <2>2, <2>5, <2>6
<1> HIDE DEF all
<1> QED BY <1>3, <1>5, <1>6, <1>8, <1>9, <1>0, <1>12, <1>13, <1>14, <1>15, <1>16, Zenon DEF k, all

\* Every step keeps the types of the data: here the sender must not overrun the ring
\* and the receiver must not consume what is not there.
LEMMA DataTypes == ASSUME IInv, Next PROVE DataType'
<1>t. DataType BY TypeHalves DEF IInv
<1>0. CASE UNCHANGED <<mq_bytes_read, mq_bytes_written, mq_ring, sender, receiver, history>>
  BY <1>0, <1>t DEF DataType, sender, receiver, history
<1>1. CASE \E n \in Lens, b \in BOOLEAN : shm_mq_sendv(n, b)
  BY <1>1, <1>t, SMTT(60) DEF DataType, shm_mq_sendv, sender, receiver
<1>2. CASE \/ ReadBytesRead \/ SendDetached \/ SendUnattached \/ SendTest \/ SendFull \/ SendFinish
           \/ Await(S) \/ Await(R)
  <2>1. rb' \in Nat /\ sent' \in Nat
    <3>1. CASE ReadBytesRead BY <3>1, <1>t DEF DataType, ReadBytesRead
    <3>2. CASE SendDetached \/ SendFinish
      <4>1. rb' \in {0, rb} /\ sent' = 0 BY <3>2 DEF SendDetached, SendFinish
      <4> QED BY <4>1, <1>t, SMTT(60) DEF DataType
    <3>3. CASE SendUnattached BY <3>3, <1>t, SMTT(60) DEF DataType, SendUnattached
    <3>7. CASE SendTest
      <4>1. rb' = rb /\ sent' \in {0, sent} BY <3>7 DEF SendTest
      <4> QED BY <4>1, <1>t, SMTT(60) DEF DataType
    <3>4. CASE SendFull BY <3>4, <1>t DEF DataType, SendFull
    <3>5. ASSUME NEW p \in Sides, Await(p) PROVE rb' = rb /\ sent' \in {0, sent} BY <3>5 DEF Await
    <3>6. rb \in Nat /\ sent \in Nat BY <1>t DEF DataType
    <3> QED BY <1>2, <3>1, <3>2, <3>3, <3>4, <3>5, <3>6, <3>7, SidesTwo, SMTT(60)
  <2>2. UNCHANGED <<mq_bytes_read, mq_bytes_written, mq_ring, put, receiver, history>>
    BY <1>2 DEF ReadBytesRead, SendDetached, SendUnattached, SendTest, SendFull, SendFinish, Await, sender
  <2> QED BY <2>1, <2>2, <1>t DEF DataType, receiver, history
<1>3. CASE SendCopy
  <2>1. put' \in 0 .. mq_ring_size BY <1>3, SendFacts DEF SendCopy
  <2>2. mq_ring' \in [0 .. mq_ring_size - 1 -> Nat \X Nat]
    <3> DEFINE off == mq_bytes_written % mq_ring_size
    <3>0. off \in Int /\ sent \in Nat /\ Len(msgs) \in Nat /\ Len0 \in Nat
      BY <1>3, SendFacts, Numbers, SMTT(60) DEF SendCopy
    <3>1. mq_ring' = [i \in DOMAIN mq_ring |->
                         IF i - off \in 0 .. sendnow - 1 THEN Cell(Len(msgs), sent + i - off) ELSE mq_ring[i]]
      BY <1>3 DEF SendCopy
    <3>4. sendnow \in Nat BY <1>3, SendFacts, SMTT(60) DEF SendCopy
    <3> HIDE DEF off
    <3>2. ASSUME NEW i \in Int, i - off \in 0 .. sendnow - 1 PROVE Cell(Len(msgs), sent + i - off) \in Nat \X Nat
      BY <3>0, <3>2, <3>4, SMTT(60) DEF Cell, Len0
    <3>3. mq_ring \in [0 .. mq_ring_size - 1 -> Nat \X Nat] BY <1>t DEF DataType
    <3> QED BY <3>1, <3>2, <3>3, SMTT(60)
  <2> QED BY <1>3, <1>t, <2>1, <2>2 DEF DataType, SendCopy, receiver, history
<1>4. CASE shm_mq_inc_bytes_written
  BY <1>4, <1>t, SMTT(60) DEF DataType, shm_mq_inc_bytes_written, receiver
<1>5. CASE ReceiveFlush \/ ReceiveEmpty
  <2>1. mq_bytes_read' \in Nat /\ pending' \in 0 .. mq_ring_size
    <3>1. mq_bytes_read \in Nat /\ pending \in 0 .. mq_ring_size BY <1>t DEF DataType
    <3>2. shm_mq_inc_bytes_read \/ UNCHANGED <<mq_bytes_read, pending, wait>>
      BY <1>5 DEF ReceiveFlush, ReceiveEmpty
    <3> QED BY <3>1, <3>2, SMTT(60) DEF shm_mq_inc_bytes_read
  <2>2. written' \in Nat
    <3>1. written' = written \/ written' = 0 BY <1>5 DEF ReceiveFlush, ReceiveEmpty
    <3> QED BY <3>1, <1>t, SMTT(60) DEF DataType
  <2>3. UNCHANGED <<mq_bytes_written, mq_ring, sender, partial, expected, history>>
    BY <1>5 DEF ReceiveFlush, ReceiveEmpty
  <2> QED BY <2>1, <2>2, <2>3, <1>t DEF DataType, sender, history
<1>6. CASE ReadBytesWritten \/ ReceiveAgain
  <2>1. written' \in Nat BY <1>6, <1>t, SMTT(60) DEF DataType, ReadBytesWritten, ReceiveAgain
  <2>2. UNCHANGED <<mq_bytes_read, mq_bytes_written, mq_ring, sender, pending, partial, expected, history>>
    BY <1>6 DEF ReadBytesWritten, ReceiveAgain
  <2> QED BY <2>1, <2>2, <1>t DEF DataType, sender, history
<1>n. /\ mq_bytes_read \in Nat /\ mq_bytes_written \in Nat /\ pending \in Nat /\ put \in Nat
      /\ mq_bytes_written + put <= mq_bytes_read + mq_ring_size /\ Pos = mq_bytes_read + pending
  BY Numbers DEF IInv, RingIntact, Pos
<1>r. received \in [count : Nat, msg : [at : Nat \cup {NONE}, len : Nat, data : Seq(Nat \X Nat)]]
  BY <1>t DEF DataType
<1>7. CASE ReceiveLength
  <2> DEFINE n == mq_ring[offset][2]
  <2>1. /\ n \in Nat /\ offset \in Nat /\ chunk \in Nat \ {0} /\ Pos + chunk <= mq_bytes_written
        /\ chunk >= 1 + n => offset + 1 + n <= mq_ring_size
    BY <1>7, LengthFacts DEF ReceiveLength
  <2>2. UNCHANGED <<mq_bytes_read, mq_bytes_written, mq_ring, sender, partial, msgs, begin, complete>> /\ written' = 0
    BY <1>7 DEF ReceiveLength, ReturnInRing, Consume
  <2>3. CASE chunk >= 1 + n
    <3>1. /\ expected' = NONE /\ pending' = pending + (1 + n)
          /\ received' = [count |-> received.count + 1,
                          msg |-> [at |-> offset + 1, len |-> n, data |-> At(offset + 1, n)]]
      BY <1>7, <2>3 DEF ReceiveLength, ReturnInRing, Consume
    <3>2. At(offset + 1, n) \in Seq(Nat \X Nat)
      <4>1. offset + 1 \in Nat /\ offset + 1 + n <= mq_ring_size /\ TypeOK BY <2>1, <2>3, SMTT(60) DEF IInv
      <4> HIDE DEF n
      <4> QED BY <2>1, <4>1, AtSeq, Zenon
    <3> HIDE DEF n
    <3>3. pending' \in 0 .. mq_ring_size BY <3>1, <2>1, <2>3, <1>n
    <3>4. received' \in [count : Nat, msg : [at : Nat \cup {NONE}, len : Nat, data : Seq(Nat \X Nat)]]
      BY <3>1, <3>2, <2>1, <1>r, SMTT(60)
    <3>5. expected' \in Nat \cup {NONE} /\ written' \in Nat BY <3>1, <2>2
    <3> QED BY <2>2, <3>3, <3>4, <3>5, <1>t, Zenon DEF DataType, sender
  <2>4. CASE ~(chunk >= 1 + n)
    <3>1. expected' = n /\ pending' = pending + 1 /\ received' = received
      BY <1>7, <2>4 DEF ReceiveLength, Consume
    <3> HIDE DEF n
    <3>3. pending' \in 0 .. mq_ring_size BY <3>1, <2>1, <1>n
    <3> QED BY <2>1, <2>2, <3>1, <3>3, <1>t DEF DataType, sender
  <2> QED BY <2>3, <2>4
<1>8. CASE ReceiveData
  <2> DEFINE n == IF chunk < expected - Len(partial) THEN chunk ELSE expected - Len(partial)
             all == partial \o At(offset, n)
  <2>1. /\ n \in Nat \ {0} /\ Pos + n <= mq_bytes_written /\ offset \in Nat /\ offset + n <= mq_ring_size
        /\ all \in Seq(Nat \X Nat) /\ expected \in Nat
    <3>1. pc[R] = "look" /\ Enough /\ expected # NONE BY <1>8 DEF ReceiveData
    <3>2. expected \in Nat BY <3>1, <1>t DEF DataType
    <3> HIDE DEF n
    <3> QED BY <3>1, <3>2, DataFacts DEF n
  <2>2. UNCHANGED <<mq_bytes_read, mq_bytes_written, mq_ring, sender, msgs, begin, complete>>
        /\ written' = 0 /\ pending' = pending + n
    BY <1>8 DEF ReceiveData, Consume
  <2>3. \/ /\ expected' = NONE /\ partial' = partial
           /\ received' = [count |-> received.count + 1, msg |-> [at |-> offset, len |-> n, data |-> At(offset, n)]]
        \/ /\ expected' = NONE /\ partial' = <<>>
           /\ received' = [count |-> received.count + 1, msg |-> [at |-> NONE, len |-> expected, data |-> all]]
        \/ expected' = expected /\ partial' = all /\ received' = received
    BY <1>8 DEF ReceiveData, ReturnInRing, ReturnCopy
  <2>4. At(offset, n) \in Seq(Nat \X Nat)
    <3> HIDE DEF n
    <3> QED BY <2>1, AtSeq, Zenon DEF IInv
  <2> HIDE DEF n, all
  <2>5. pending' \in 0 .. mq_ring_size BY <2>1, <2>2, <1>n
  <2>6. received' \in [count : Nat, msg : [at : Nat \cup {NONE}, len : Nat, data : Seq(Nat \X Nat)]]
    BY <2>1, <2>3, <2>4, <1>r, SMTT(60)
  <2>7. partial' \in Seq(Nat \X Nat) /\ expected' \in Nat \cup {NONE}
    <3>1. partial' \in {partial, <<>>, all} /\ expected' \in {NONE, expected} BY <2>3
    <3>2. partial \in Seq(Nat \X Nat) /\ <<>> \in Seq(Nat \X Nat) BY <1>t, SMTT(60) DEF DataType
    <3>3. expected' \in Nat \cup {NONE} BY <3>1, <2>1
    <3>4. all \in Seq(Nat \X Nat) BY <2>1
    <3>5. partial' \in Seq(Nat \X Nat) BY <3>1, <3>2, <3>4, Zenon
    <3> QED BY <3>3, <3>5
  <2>8. written' \in Nat BY <2>2
  <2> QED BY <2>2, <2>5, <2>6, <2>7, <2>8, <1>t, Zenon DEF DataType, sender
<1>9. ASSUME NEW p \in Sides, Attach(p) \/ Die(p) \/ shm_mq_detach_internal(p) \/ ForeignSetLatch(p) \/ Wake(p)
      PROVE UNCHANGED <<mq_bytes_read, mq_bytes_written, mq_ring, sender, receiver, history>>
  BY <1>9 DEF Attach, Die, shm_mq_detach_internal, ForeignSetLatch, Wake
<1>10. ASSUME (\E b \in BOOLEAN : shm_mq_receive(b)) \/ ReceiveTest \/ ReceiveUnattached \/ ReceiveDetached
              \/ SendPeer \/ SendNotify
       PROVE UNCHANGED <<mq_bytes_read, mq_bytes_written, mq_ring, sender, receiver, history>>
  BY <1>10 DEF shm_mq_receive, ReceiveTest, ReceiveUnattached, ReceiveDetached, SendPeer, SendNotify
<1> QED BY <1>0, <1>1, <1>2, <1>3, <1>4, <1>5, <1>6, <1>7, <1>8, <1>9, <1>10, SidesTwo, Zenon
        DEF Next, Calls, SendStep, ReceiveStep

-----------------------------------------------------------------------------
(* The ring *)

\* RingIntact without its last conjunct, and its last conjunct.
Counters ==
    /\ rb <= mq_bytes_read /\ mq_bytes_read + pending <= mq_bytes_written
    /\ written <= mq_bytes_written /\ mq_bytes_written + put <= mq_bytes_read + mq_ring_size
    /\ pc[S] = "check" => mq_bytes_written <= rb + mq_ring_size
    /\ pc[R] \in {"look", "again"} => mq_bytes_read + pending <= written
InRing(k, i) ==
    begin[k] + i \in mq_bytes_read .. mq_bytes_written + put - 1 =>
        mq_ring[(begin[k] + i) % mq_ring_size] = Cell(k, i)
Cells == \A k \in DOMAIN msgs : \A i \in 0 .. msgs[k] : InRing(k, i)

\* RingIntact is its two halves.
LEMMA RingHalves == (RingIntact <=> Counters /\ Cells) /\ (RingIntact' <=> Counters' /\ Cells')
BY DEF RingIntact, Counters, Cells, InRing

\* The receiver consumes only what has been written.
LEMMA ConsumeFacts ==
    ASSUME IInv, ReceiveLength \/ ReceiveData
    PROVE  \E m \in Nat : pending' = pending + m /\ Pos + m <= mq_bytes_written
<1>n. Pos \in Nat /\ mq_bytes_written \in Nat BY Numbers
<1>1. CASE ReceiveLength
  <2> DEFINE n == mq_ring[offset][2]
  <2>1. n \in Nat /\ chunk \in Nat \ {0} /\ Pos + chunk <= mq_bytes_written
    BY <1>1, LengthFacts DEF ReceiveLength
  <2>2. IF chunk >= 1 + n THEN pending' = pending + (1 + n) ELSE pending' = pending + 1
    BY <1>1 DEF ReceiveLength, Consume
  <2> HIDE DEF n
  <2>3. CASE chunk >= 1 + n
    <3>1. Pos + (1 + n) <= mq_bytes_written /\ 1 + n \in Nat BY <2>1, <2>3, <1>n, SMTT(60)
    <3> QED BY <3>1, <2>2, <2>3
  <2>4. CASE ~(chunk >= 1 + n)
    <3>1. Pos + 1 <= mq_bytes_written /\ 1 \in Nat BY <2>1, <1>n
    <3> QED BY <3>1, <2>2, <2>4
  <2> QED BY <2>3, <2>4
<1>2. CASE ReceiveData
  <2> DEFINE n == IF chunk < expected - Len(partial) THEN chunk ELSE expected - Len(partial)
  <2>1. pending' = pending + n /\ pc[R] = "look" /\ Enough /\ expected # NONE
    BY <1>2 DEF ReceiveData, Consume
  <2>2. n \in Nat /\ Pos + n <= mq_bytes_written
    <3> HIDE DEF n
    <3> QED BY <2>1, DataFacts DEF n
  <2> QED BY <2>1, <2>2
<1> QED BY <1>1, <1>2

\* Every step keeps the order of the counters.
LEMMA CountersStep == ASSUME IInv, Next PROVE Counters'
<1>0. S \in Sides /\ R \in Sides /\ S # R /\ pc \in [Sides -> PCs] BY SidesTwo DEF IInv, TypeOK
<1>c. Counters BY RingHalves DEF IInv
<1>n. /\ mq_bytes_read \in Nat /\ mq_bytes_written \in Nat /\ rb \in Nat /\ put \in Nat
      /\ written \in Nat /\ pending \in Nat
  BY Numbers
<1>1. CASE IdleStep
  <2>1. Idle BY <1>1, IdleSteps
  <2>2. UNCHANGED <<mq_bytes_read, mq_bytes_written, put, pending>> BY <2>1 DEF Idle
  <2>3. rb' \in {rb, 0} /\ written' \in {written, 0} /\ (pc'[S] = "check" => pc[S] = "check" /\ rb' = rb)
        /\ (pc'[R] \in {"look", "again"} => pc[R] \in {"look", "again"} /\ written' = written)
    BY <2>1 DEF Idle
  <2>4. rb' \in Nat /\ rb' <= rb /\ written' \in Nat /\ written' <= written BY <2>3, <1>n
  <2>5. rb' <= mq_bytes_read' /\ written' <= mq_bytes_written' BY <2>2, <2>4, <1>c, <1>n DEF Counters
  <2>6. /\ mq_bytes_read' + pending' <= mq_bytes_written'
        /\ mq_bytes_written' + put' <= mq_bytes_read' + mq_ring_size
        /\ pc'[S] = "check" => mq_bytes_written' <= rb' + mq_ring_size
        /\ pc'[R] \in {"look", "again"} => mq_bytes_read' + pending' <= written'
    BY <2>2, <2>3, <1>c DEF Counters
  <2> QED BY <2>5, <2>6, Zenon DEF Counters
<1>2. CASE ReceiveFlush \/ ReceiveEmpty
  <2>1. Give BY <1>2, GiveSteps
  <2> QED BY <2>1, <1>c, <1>n, SMTT(60) DEF Counters, Give, Pos, sender
<1>3. CASE \E n \in Lens, b \in BOOLEAN : shm_mq_sendv(n, b)
  <2>1. pc' = [pc EXCEPT ![S] = "send"] /\ UNCHANGED <<mq_bytes_read, mq_bytes_written, sender, receiver>>
    BY <1>3 DEF shm_mq_sendv, Goto
  <2> QED BY <2>1, <1>0, <1>c DEF Counters, sender, receiver
<1>4. CASE ReadBytesRead
  <2>1. pc'[R] = pc[R] /\ pc[S] = "send" /\ rb' = mq_bytes_read
        /\ UNCHANGED <<mq_bytes_read, mq_bytes_written, put, receiver>>
    BY <1>4, <1>0 DEF ReadBytesRead, Goto
  <2> QED BY <2>1, <1>c, <1>n DEF Counters, receiver
<1>5. CASE SendCopy
  <2>1. /\ pc'[R] = pc[R] /\ pc'[S] = "count" /\ rb' = 0 /\ put' = sendnow
        /\ UNCHANGED <<mq_bytes_read, mq_bytes_written, receiver>>
        /\ pc[S] = "check" /\ ~mq_detached /\ available > 0
    BY <1>5, <1>0 DEF SendCopy, Goto
  <2>2. sendnow \in 1 .. mq_ring_size /\ mq_bytes_written + sendnow <= rb + mq_ring_size BY <2>1, SendFacts
  <2> QED BY <2>1, <2>2, <1>c, <1>n DEF Counters, receiver
<1>6. CASE shm_mq_inc_bytes_written
  <2>1. /\ pc'[R] = pc[R] /\ pc'[S] # "check" /\ put' = 0 /\ mq_bytes_written' = mq_bytes_written + put
        /\ UNCHANGED <<mq_bytes_read, rb, receiver>>
    BY <1>6, <1>0 DEF shm_mq_inc_bytes_written, Goto
  <2> QED BY <2>1, <1>c, <1>n DEF Counters, receiver
<1>7. CASE ReadBytesWritten
  <2>1. pc'[S] = pc[S] /\ written' = mq_bytes_written
        /\ UNCHANGED <<mq_bytes_read, mq_bytes_written, sender, pending>>
    BY <1>7, <1>0 DEF ReadBytesWritten, Goto
  <2> QED BY <2>1, <1>c, <1>n DEF Counters, sender
<1>8. CASE ReceiveLength \/ ReceiveData
  <2>1. /\ pc'[S] = pc[S] /\ pc'[R] \notin {"look", "again"} /\ written' = 0
        /\ UNCHANGED <<mq_bytes_read, mq_bytes_written, sender>>
    BY <1>8, <1>0 DEF ReceiveLength, ReceiveData, Goto, Return, ReturnInRing, ReturnCopy, Consume
  <2>2. \E m \in Nat : pending' = pending + m /\ Pos + m <= mq_bytes_written
    BY <1>8, ConsumeFacts
  <2> QED BY <2>1, <2>2, <1>c, <1>n DEF Counters, sender, Pos
<1> QED BY StepKinds, <1>1, <1>2, <1>3, <1>4, <1>5, <1>6, <1>7, <1>8

\* Every step keeps the cells in the ring.  SendCopy overwrites only cells that were
\* given back: the cells in use lie less than a ring behind the ones it stores, so
\* they are at other offsets.
LEMMA CellsStep == ASSUME IInv, Next PROVE Cells'
<1>0. S \in Sides /\ R \in Sides /\ S # R /\ pc \in [Sides -> PCs] BY SidesTwo DEF IInv, TypeOK
<1>c. Counters /\ Cells BY RingHalves DEF IInv
<1>n. /\ mq_bytes_read \in Nat /\ mq_bytes_written \in Nat /\ rb \in Nat /\ put \in Nat
      /\ written \in Nat /\ pending \in Nat /\ Len(msgs) \in Nat /\ DOMAIN msgs = 1 .. Len(msgs)
      /\ \A k \in 1 .. Len(msgs) : msgs[k] \in Nat /\ begin[k] \in Nat
  BY Numbers
\* The ring stays, and no cell joins those that count.
<1>1. ASSUME mq_bytes_read' \in Nat, mq_bytes_read <= mq_bytes_read', mq_bytes_written' + put' = mq_bytes_written + put,
             UNCHANGED <<mq_ring, msgs, begin>>
      PROVE  Cells'
  <2>6. mq_bytes_written' + put' - 1 = mq_bytes_written + put - 1
    <3>1. mq_bytes_written' \in Nat /\ put' \in Nat BY DataTypes, SMTT(60) DEF DataType
    <3>2. mq_bytes_written \in Nat /\ put \in Nat BY <1>n
    <3>3. mq_bytes_written' + put' = mq_bytes_written + put BY <1>1
    <3>4. PICK w \in Nat : w = mq_bytes_written' BY <3>1
    <3>5. PICK u \in Nat : u = put' BY <3>1
    <3>6. w + u = mq_bytes_written + put BY <3>3, <3>4, <3>5
    <3>7. w + u - 1 = mq_bytes_written + put - 1 BY <3>2, <3>6
    <3> QED BY <3>4, <3>5, <3>7
  <2>1. SUFFICES ASSUME NEW k \in DOMAIN msgs', NEW i \in 0 .. msgs'[k] PROVE InRing(k, i)' BY DEF Cells
  <2>2. k \in DOMAIN msgs /\ i \in 0 .. msgs[k] BY <1>1
  <2>3. InRing(k, i) BY <2>2, <1>c DEF Cells
  <2>4. begin[k] \in Nat /\ i \in Nat BY <2>2, <1>n, SMTT(60)
  <2>5. Cell(k, i)' = Cell(k, i) BY <1>1 DEF Cell
  <2>7. begin'[k] + i \in mq_bytes_read' .. mq_bytes_written' + put' - 1
            => begin[k] + i \in mq_bytes_read .. mq_bytes_written + put - 1
    BY <1>1, <1>n, <2>4, <2>6, SMTT(60)
  <2> QED BY <2>3, <2>5, <2>7, <1>1 DEF InRing
<1>2. CASE IdleStep
  <2>1. UNCHANGED <<mq_bytes_read, mq_bytes_written, put, mq_ring, msgs, begin>>
    BY <1>2, IdleSteps DEF Idle, history
  <2> QED BY <2>1, <1>1, <1>n
<1>3. CASE ReceiveFlush \/ ReceiveEmpty
  <2>1. UNCHANGED <<mq_bytes_written, put, mq_ring, msgs, begin>> /\ mq_bytes_read' \in {mq_bytes_read, mq_bytes_read + pending}
    BY <1>3, GiveSteps DEF Give, history, sender, Pos
  <2>2. mq_bytes_read' \in Nat /\ mq_bytes_read <= mq_bytes_read' BY <2>1, <1>n
  <2> QED BY <2>1, <2>2, <1>1, <1>n
<1>4. CASE ReadBytesRead \/ ReadBytesWritten \/ ReceiveLength \/ ReceiveData
  <2>1. UNCHANGED <<mq_bytes_read, mq_bytes_written, put, mq_ring, msgs, begin>>
    BY <1>4 DEF ReadBytesRead, ReadBytesWritten, ReceiveLength, ReceiveData, sender, history, Consume
  <2> QED BY <2>1, <1>1, <1>n
<1>5. CASE shm_mq_inc_bytes_written
  <2>1. UNCHANGED <<mq_bytes_read, mq_ring, msgs, begin>> /\ put' = 0 /\ mq_bytes_written' = mq_bytes_written + put
    BY <1>5 DEF shm_mq_inc_bytes_written
  <2>2. mq_bytes_written' + put' = mq_bytes_written + put BY <2>1, <1>n
  <2> QED BY <2>1, <2>2, <1>1, <1>n
<1>6. CASE \E n \in Lens, b \in BOOLEAN : shm_mq_sendv(n, b)
  <2>0. PICK n \in Lens, b \in BOOLEAN : shm_mq_sendv(n, b) BY <1>6
  <2>1. /\ UNCHANGED <<mq_bytes_read, mq_bytes_written, mq_ring, put>> /\ pc[S] = "out"
        /\ msgs' = Append(msgs, n) /\ begin' = Append(begin, mq_bytes_written)
    BY <2>0 DEF shm_mq_sendv, sender
  <2>2. put = 0 /\ Len(begin) = Len(msgs) BY <2>1 DEF IInv, SendShape
  <2>3. msgs \in Seq(Nat) /\ begin \in Seq(Nat) /\ n \in Nat BY DEF IInv, TypeOK
  <2>4. SUFFICES ASSUME NEW k \in DOMAIN msgs', NEW i \in 0 .. msgs'[k] PROVE InRing(k, i)' BY DEF Cells
  <2>5. k \in 1 .. Len(msgs) + 1 BY <2>1, <2>3
  <2>6. CASE k \in 1 .. Len(msgs)
    <3>1. msgs'[k] = msgs[k] /\ begin'[k] = begin[k] BY <2>1, <2>2, <2>3, <2>6
    <3>2. InRing(k, i) BY <3>1, <2>6, <1>c, <1>n DEF Cells
    <3> QED BY <3>1, <3>2, <2>1 DEF InRing, Cell
  <2>7. CASE k = Len(msgs) + 1
    <3>1. msgs'[k] = n /\ begin'[k] = mq_bytes_written BY <2>1, <2>2, <2>3, <2>7
    <3>2. begin'[k] + i \notin mq_bytes_read' .. mq_bytes_written' + put' - 1 BY <3>1, <2>1, <2>2, <2>3, <1>n
    <3> QED BY <3>2 DEF InRing
  <2> QED BY <2>5, <2>6, <2>7, <1>n, SMTT(60)
<1>7. CASE SendCopy
  <2> DEFINE off == mq_bytes_written % mq_ring_size
             K == Len(msgs)
  <2>0. pc[S] = "check" /\ ~mq_detached /\ available > 0 BY <1>7 DEF SendCopy
  <2>1. /\ UNCHANGED <<mq_bytes_read, mq_bytes_written, msgs, begin>> /\ put' = sendnow
        /\ mq_ring' = [i \in DOMAIN mq_ring |->
                          IF i - off \in 0 .. sendnow - 1 THEN Cell(K, sent + i - off) ELSE mq_ring[i]]
    BY <1>7 DEF SendCopy, history
  <2>2. /\ K \in DOMAIN msgs /\ put = 0 /\ complete = K - 1 /\ begin[K] + sent = mq_bytes_written
        /\ off \in 0 .. mq_ring_size - 1 /\ sendnow \in 1 .. mq_ring_size
        /\ mq_bytes_written + sendnow <= rb + mq_ring_size /\ off + sendnow <= mq_ring_size
    BY <2>0, SendFacts
  <2>d. DOMAIN mq_ring = 0 .. mq_ring_size - 1 BY DEF IInv, TypeOK
  <2>s. sent \in Nat /\ complete \in Nat BY Numbers
  <2>3. SUFFICES ASSUME NEW k \in DOMAIN msgs', NEW i \in 0 .. msgs'[k],
                        begin'[k] + i \in mq_bytes_read' .. mq_bytes_written' + put' - 1
                 PROVE  mq_ring'[(begin'[k] + i) % mq_ring_size] = Cell(k, i)'
    BY DEF Cells, InRing
  <2> DEFINE x == begin[k] + i
  <2>4. k \in 1 .. Len(msgs) /\ i \in Nat /\ i <= msgs[k] /\ begin[k] \in Nat /\ msgs[k] \in Nat /\ x \in Nat
        /\ x \in mq_bytes_read .. mq_bytes_written + sendnow - 1
    BY <2>1, <2>3, <1>n, SMTT(60)
  <2>c. Cell(k, i)' = Cell(k, i) BY <2>1 DEF Cell
  <2>r. rb <= mq_bytes_read BY <1>c DEF Counters
  <2>5. CASE x < mq_bytes_written
    <3>1. mq_ring[x % mq_ring_size] = Cell(k, i)
      <4>1. x \in mq_bytes_read .. mq_bytes_written + put - 1
        <5>1. put = 0 BY <2>2
        <5> HIDE DEF x
        <5> QED BY <5>1, <2>4, <2>5, <1>n, SMTT(60)
      <4>2. i \in 0 .. msgs[k] /\ k \in DOMAIN msgs BY <2>4, <1>n, SMTT(60)
      <4> QED BY <4>1, <4>2, <1>c DEF Cells, InRing
    <3> DEFINE m == x % mq_ring_size
    <3>2. m \in 0 .. mq_ring_size - 1
      <4>1. x \in Nat /\ mq_ring_size \in Nat \ {0} BY <2>4
      <4> HIDE DEF x
      <4> QED BY <4>1, DivRange, Zenon
    <3>3. ASSUME m - off \in 0 .. sendnow - 1 PROVE FALSE
      <4> DEFINE j == m - off
      <4>1. j \in Nat /\ off + j < mq_ring_size /\ j < sendnow /\ off + j = m
        <5> HIDE DEF off, m
        <5> QED BY <3>2, <3>3, <2>2
      <4> HIDE DEF j, x
      <4>2. (mq_bytes_written + j) % mq_ring_size = off + j 
        <5>1. mq_ring_size \in Nat \ {0} /\ mq_bytes_written \in Nat /\ (mq_bytes_written % mq_ring_size) + j < mq_ring_size
          BY <4>1, <1>n
        <5> QED BY <4>1, <5>1, ModAdd, Zenon
      <4>3. x < mq_bytes_written + j /\ mq_bytes_written + j < x + mq_ring_size /\ mq_bytes_written + j \in Nat
        <5> HIDE DEF off, m
        <5> QED BY <4>1, <2>2, <2>4, <2>5, <2>r, <1>n, SMTT(60)
      <4>4. x % mq_ring_size # (mq_bytes_written + j) % mq_ring_size BY <4>3, <2>4, ModUnique
      <4> QED BY <4>1, <4>2, <4>4
    <3>4. mq_ring'[m] = mq_ring[m]
      <4> HIDE DEF m, off
      <4> QED BY <3>2, <3>3, <2>1, <2>d
    <3> QED BY <3>1, <3>4, <2>1, <2>c
  <2>6. CASE ~(x < mq_bytes_written)
    <3>1. k = K
      <4>1. k < K => k <= complete BY <2>2, <2>4, <2>s, <1>n
      <4>2. k <= complete => begin[k] + 1 + msgs[k] <= mq_bytes_written
        BY <2>4, <1>n DEF IInv, SendShape
      <4> DEFINE b == begin[k]
                 l == msgs[k]
      <4>3. b \in Nat /\ l \in Nat /\ i <= l /\ i \in Nat /\ ~(b + i < mq_bytes_written) BY <2>4, <2>6
      <4> HIDE DEF b, l
      <4>4. ~(b + 1 + l <= mq_bytes_written) BY <4>3, <1>n
      <4>5. ~(k < K) BY <4>1, <4>2, <4>4 DEF b, l
      <4> QED BY <4>5, <2>4, <1>n
    <3> DEFINE j == x - mq_bytes_written
    <3>2. j \in Nat /\ j < sendnow /\ x = mq_bytes_written + j
      <4>1. sendnow \in Nat BY <2>2, SMTT(60)
      <4> HIDE DEF x
      <4> QED BY <4>1, <2>4, <2>6, <1>n
    <3>3. i = sent + j
      <4> DEFINE b == begin[K]
      <4>1. b \in Nat /\ b + sent = mq_bytes_written /\ x = b + i BY <3>1, <2>2, <2>4
      <4> HIDE DEF b, x, j
      <4> QED BY <4>1, <3>2, <2>4, <2>s, <1>n, SMTT(60)
    <3> HIDE DEF j, x
    <3>4. off + j < mq_ring_size /\ off + j \in 0 .. mq_ring_size - 1 /\ (off + j) - off \in 0 .. sendnow - 1
          /\ sent + (off + j) - off = sent + j
      <4> HIDE DEF off
      <4> QED BY <3>2, <2>2, <2>s
    <3>5. x % mq_ring_size = off + j 
      <4>1. mq_ring_size \in Nat \ {0} /\ mq_bytes_written \in Nat /\ (mq_bytes_written % mq_ring_size) + j < mq_ring_size
        BY <3>4, <1>n
      <4> QED BY <3>2, <4>1, ModAdd, Zenon
    <3>6. mq_ring'[off + j] = Cell(K, sent + j)
      <4> HIDE DEF off
      <4> QED BY <3>4, <2>1, <2>d
    <3> QED BY <3>1, <3>3, <3>5, <3>6, <2>1, <2>c DEF x
  <2> QED BY <2>5, <2>6
<1> QED BY StepKinds, <1>2, <1>3, <1>4, <1>5, <1>6, <1>7
-----------------------------------------------------------------------------
(* The messages in the ring and the sender's place: SendShape *)

\* SendShape in two halves: where the messages lie, and where the sender is.
Layout ==
    /\ Len(begin) = Len(msgs) /\ complete <= Len(msgs)
    /\ \A k \in DOMAIN msgs :
           /\ k <= complete <=> begin[k] + 1 + msgs[k] <= mq_bytes_written
           /\ k <= complete /\ k < Len(msgs) => begin[k + 1] = begin[k] + 1 + msgs[k]
    /\ complete = Len(msgs) =>
           mq_bytes_written = IF complete = 0 THEN 0 ELSE begin[complete] + 1 + msgs[complete]
InPlace ==
    /\ complete = Len(msgs) - 1 /\ begin[Len(msgs)] + sent = mq_bytes_written
    /\ sent <= Len0 /\ sent + put <= 1 + Len0
Place ==
    /\ pc[S] # "count" => put = 0
    /\ InCall(S) => Len(msgs) > 0
    /\ InCall(S) /\ pc[S] \notin {"finish", "notify"} /\ (mq_detached => pc[S] = "count") => InPlace
    /\ pc[S] \in {"finish", "notify"} \/ (~InCall(S) /\ ~mq_detached) => complete = Len(msgs)
    /\ ~InCall(S) \/ pc[S] = "notify" => sent = 0 \/ pc[S] = "detached"

\* SendShape is its two halves.
LEMMA SendHalves == (SendShape <=> Layout /\ Place) /\ (SendShape' <=> Layout' /\ Place')
BY DEF SendShape, Layout, Place, InPlace

\* Every step keeps the layout of the messages.
LEMMA LayoutStep == ASSUME IInv, Next PROVE Layout'
<1>c. Layout /\ Place BY SendHalves DEF IInv
<1>n. /\ mq_bytes_written \in Nat /\ put \in Nat /\ complete \in Nat /\ sent \in Nat
      /\ Len(msgs) \in Nat /\ DOMAIN msgs = 1 .. Len(msgs)
      /\ \A k \in 1 .. Len(msgs) : msgs[k] \in Nat /\ begin[k] \in Nat
  BY Numbers
<1>t. msgs \in Seq(Nat) /\ begin \in Seq(Nat) /\ Len(begin) = Len(msgs) /\ complete <= Len(msgs)
  BY <1>c DEF IInv, TypeOK, Layout
<1>l. \A k \in 1 .. Len(msgs) :
          /\ k <= complete <=> begin[k] + 1 + msgs[k] <= mq_bytes_written
          /\ k <= complete /\ k < Len(msgs) => begin[k + 1] = begin[k] + 1 + msgs[k]
  <2>1. DOMAIN msgs = 1 .. Len(msgs) BY <1>n
  <2> QED BY <2>1, <1>c, Zenon DEF Layout
<1>0. CASE UNCHANGED <<mq_bytes_written, msgs, begin, complete>> BY <1>0, <1>c DEF Layout
<1>1. CASE IdleStep BY <1>0, <1>1, IdleSteps DEF Idle, history
<1>2. CASE ReceiveFlush \/ ReceiveEmpty BY <1>0, <1>2, GiveSteps DEF Give, history
<1>3. CASE ReadBytesRead \/ SendCopy \/ ReadBytesWritten \/ ReceiveLength \/ ReceiveData
  BY <1>0, <1>3 DEF ReadBytesRead, SendCopy, ReadBytesWritten, ReceiveLength, ReceiveData, history
<1>4. CASE \E n \in Lens, b \in BOOLEAN : shm_mq_sendv(n, b)
  <2>0. PICK n \in Lens, b \in BOOLEAN : shm_mq_sendv(n, b) BY <1>4
  <2> DEFINE K == Len(msgs) + 1
  <2>1. /\ UNCHANGED <<mq_bytes_written, complete>>
        /\ msgs' = Append(msgs, n) /\ begin' = Append(begin, mq_bytes_written) /\ n \in Nat
    BY <2>0 DEF shm_mq_sendv
  <2>2. /\ Len(msgs') = K /\ Len(begin') = K /\ DOMAIN msgs' = 1 .. K
        /\ msgs'[K] = n /\ begin'[K] = mq_bytes_written
        /\ \A k \in 1 .. Len(msgs) : msgs'[k] = msgs[k] /\ begin'[k] = begin[k]
    BY <2>1, <1>t, <1>n
  <2>3. ASSUME NEW k \in 1 .. K
        PROVE  /\ k <= complete <=> begin'[k] + 1 + msgs'[k] <= mq_bytes_written
               /\ k <= complete /\ k < K => begin'[k + 1] = begin'[k] + 1 + msgs'[k]
    <3>1. CASE k = K BY <3>1, <2>1, <2>2, <1>n, <1>t, SMTT(60)
    <3>2. CASE k \in 1 .. Len(msgs)
      <4>1. k <= complete <=> begin[k] + 1 + msgs[k] <= mq_bytes_written BY <3>2, <1>l, Zenon
      <4>2. k <= complete /\ k < Len(msgs) => begin'[k + 1] = begin[k] + 1 + msgs[k]
        <5>1. k < Len(msgs) => k + 1 \in 1 .. Len(msgs) BY <1>n, SMTT(60)
        <5>2. k <= complete /\ k < Len(msgs) => begin[k + 1] = begin[k] + 1 + msgs[k] BY <3>2, <1>l, Zenon
        <5>3. k < Len(msgs) => begin'[k + 1] = begin[k + 1] BY <5>1, <2>2, Zenon
        <5> QED BY <5>2, <5>3
      <4>3. k <= complete /\ k = Len(msgs) => begin'[k + 1] = begin[k] + 1 + msgs[k]
        <5>1. k <= complete /\ k = Len(msgs) => complete = Len(msgs) /\ complete # 0 BY <1>t, <1>n, SMTT(60)
        <5> QED BY <5>1, <2>2, <1>c DEF Layout
      <4>4. msgs'[k] = msgs[k] /\ begin'[k] = begin[k] BY <3>2, <2>2
      <4>5. k < Len(msgs) \/ k = Len(msgs)
        <5>1. Len(msgs) \in Nat BY <1>n
        <5> QED BY <5>1, <3>2
      <4> QED BY <4>1, <4>2, <4>3, <4>4, <4>5
    <3> QED BY <3>1, <3>2, <1>n, SMTT(60)
  <2>4. complete <= K /\ complete # K BY <1>t, <1>n
  <2> QED BY <2>1, <2>2, <2>3, <2>4 DEF Layout
<1>5. CASE shm_mq_inc_bytes_written
  <2> DEFINE K == Len(msgs)
             b == begin[K]
             l == msgs[K]
  <2>1. /\ UNCHANGED <<msgs, begin>> /\ mq_bytes_written' = mq_bytes_written + put /\ sent' = sent + put
        /\ complete' = IF sent' = 1 + Len0 THEN complete + 1 ELSE complete
        /\ pc[S] = "count"
    BY <1>5 DEF shm_mq_inc_bytes_written
  <2>2. K > 0 /\ complete = K - 1 /\ b + sent = mq_bytes_written /\ sent + put <= 1 + l
    BY <2>1, <1>c DEF Place, InPlace, InCall, Len0
  <2>3. K \in 1 .. K /\ b \in Nat /\ l \in Nat BY <2>2, <1>n, SMTT(60)
  <2>4. complete' = (IF sent + put = 1 + l THEN K ELSE K - 1) BY <2>1, <2>2, <1>n DEF Len0
  <2>5. b + 1 + l <= mq_bytes_written + put <=> sent + put = 1 + l
    <3> HIDE DEF b, l, K
    <3> QED BY <2>2, <2>3, <1>n, SMTT(60)
  <2>6. ASSUME NEW k \in 1 .. K
        PROVE  /\ k <= complete' <=> begin[k] + 1 + msgs[k] <= mq_bytes_written + put
               /\ k <= complete' /\ k < K => begin[k + 1] = begin[k] + 1 + msgs[k]
    <3>1. CASE k = K BY <3>1, <2>4, <2>5, <1>n
    <3>2. CASE k < K
      <4>1. k <= complete /\ k <= complete' BY <3>2, <2>2, <2>4, <1>n
      <4>2. begin[k] + 1 + msgs[k] <= mq_bytes_written /\ begin[k + 1] = begin[k] + 1 + msgs[k]
        BY <4>1, <3>2, <1>l, Zenon
      <4> DEFINE e == begin[k] + 1 + msgs[k]
      <4>3. e \in Nat BY <1>n, SMTT(60)
      <4> HIDE DEF e
      <4>4. e <= mq_bytes_written + put BY <4>2, <4>3, <1>n DEF e
      <4> QED BY <4>1, <4>2, <4>4 DEF e
    <3>3. k = K \/ k < K
      <4>1. K \in Nat BY <1>n
      <4> HIDE DEF K
      <4> QED BY <4>1
    <3> QED BY <3>1, <3>2, <3>3
  <2>7. complete' = K => mq_bytes_written + put = b + 1 + l
    <3>1. complete' = K => sent + put = 1 + l BY <2>4, <1>n
    <3> HIDE DEF b, l, K
    <3> QED BY <3>1, <2>2, <2>3, <1>n, SMTT(60)
  <2>8. complete' <= K /\ (complete' = K => complete' # 0) BY <2>2, <2>4, <1>n
  <2>9. Len(begin') = Len(msgs') /\ Len(msgs') = K /\ DOMAIN msgs' = 1 .. K BY <2>1, <1>t, <1>n
  <2>10. \A k \in DOMAIN msgs' :
             /\ k <= complete' <=> begin'[k] + 1 + msgs'[k] <= mq_bytes_written'
             /\ k <= complete' /\ k < Len(msgs') => begin'[k + 1] = begin'[k] + 1 + msgs'[k]
    <3> HIDE DEF K
    <3> QED BY <2>1, <2>6, <2>9, Zenon
  <2>11. complete' = K => mq_bytes_written' = IF complete' = 0 THEN 0 ELSE begin'[complete'] + 1 + msgs'[complete']
    BY <2>1, <2>7, <2>8
  <2> QED BY <2>8, <2>9, <2>10, <2>11 DEF Layout
<1> QED BY StepKinds, <1>1, <1>2, <1>3, <1>4, <1>5

\* Every step keeps the sender in place.
LEMMA PlaceStep == ASSUME IInv, Next PROVE Place'
<1>0. S \in Sides /\ R \in Sides /\ S # R /\ pc \in [Sides -> PCs] BY SidesTwo DEF IInv, TypeOK
<1>c. Layout /\ Place BY SendHalves DEF IInv
<1>n. /\ mq_bytes_written \in Nat /\ put \in Nat /\ complete \in Nat /\ sent \in Nat
      /\ Len(msgs) \in Nat /\ DOMAIN msgs = 1 .. Len(msgs)
      /\ \A k \in 1 .. Len(msgs) : msgs[k] \in Nat /\ begin[k] \in Nat
  BY Numbers
\* The sender stays where it is, or goes where it says.
<1>1. ASSUME UNCHANGED <<mq_bytes_written, msgs, begin, complete, put>>, mq_detached => mq_detached',
             \/ pc'[S] = pc[S] /\ sent' = sent
             \/ InCall(S) /\ InCall(S)' /\ pc[S] \notin {"count", "finish", "notify"}
                    /\ pc'[S] \notin {"count", "finish", "notify"} /\ sent' = sent
             \/ pc[S] = "finish" /\ pc'[S] = "notify" /\ sent' = 0
             \/ pc[S] # "count" /\ pc'[S] = "out" /\ sent' = 0 /\ (mq_detached' \/ complete = Len(msgs))
             \/ pc[S] # "count" /\ pc'[S] \in {"dead", "detached"} /\ (sent' = 0 \/ pc'[S] = "detached")
                    /\ (mq_detached' \/ complete = Len(msgs))
      PROVE  Place'
  <2>1. sent' = sent => InPlace' = InPlace BY <1>1 DEF InPlace, Len0
  <2> QED BY <2>1, <1>1, <1>c DEF Place, InCall
<1>2. ASSUME NEW p \in Sides, Attach(p) \/ Die(p) \/ shm_mq_detach_internal(p) \/ ForeignSetLatch(p) \/ Wake(p) \/ Await(p)
      PROVE  Place'
  <2>1. UNCHANGED <<mq_bytes_written, msgs, begin, complete, put>> BY <1>2, IdleSteps DEF IdleStep, Idle, history
  <2>2. mq_detached => mq_detached'
    <3>1. CASE Attach(p) \/ Die(p) \/ shm_mq_detach_internal(p) \/ ForeignSetLatch(p) \/ Wake(p)
      BY <3>1, Zenon DEF Attach, Die, shm_mq_detach_internal, ForeignSetLatch, Wake
    <3>2. CASE Await(p) BY <3>2, Zenon DEF Await
    <3> QED BY <1>2, <3>1, <3>2
  <2>3. CASE p = R
    <3>1. pc'[S] = pc[S] /\ sent' = sent
      BY <1>0, <1>2, <2>3 DEF Attach, Die, shm_mq_detach_internal, ForeignSetLatch, Wake, Await, Goto, Return, sender
    <3> QED BY <2>1, <2>2, <3>1, <1>1
  <2>4. CASE p = S
    <3>1. CASE Attach(S)
      <4>1. pc[S] = "new" /\ pc'[S] = "out" /\ sent' = sent /\ mq_detached' = mq_detached
        BY <3>1, <1>0 DEF Attach, Goto, sender
      <4>2. sent = 0 /\ (mq_detached \/ complete = Len(msgs)) BY <4>1, <1>c DEF Place, InCall
      <4> QED BY <4>1, <4>2, <2>1, <2>2, <1>1
    <3>2. CASE Die(S)
      <4>1. pc[S] = "new" /\ pc'[S] = "dead" /\ sent' = sent /\ mq_detached' = mq_detached
        BY <3>2, <1>0 DEF Die, Goto, sender
      <4>2. sent = 0 /\ (mq_detached \/ complete = Len(msgs)) BY <4>1, <1>c DEF Place, InCall
      <4> QED BY <4>1, <4>2, <2>1, <2>2, <1>1
    <3>3. CASE shm_mq_detach_internal(S)
      <4>1. pc[S] # "count" /\ pc'[S] = "detached" /\ mq_detached'
        BY <3>3, <1>0 DEF shm_mq_detach_internal, Goto
      <4> QED BY <4>1, <2>1, <2>2, <1>1
    <3>4. CASE ForeignSetLatch(S)
      <4>1. pc'[S] = pc[S] /\ sent' = sent BY <3>4 DEF ForeignSetLatch, sender
      <4> QED BY <4>1, <2>1, <2>2, <1>1
    <3>5. CASE Wake(S)
      <4>1. pc[S] \in {"asleep", "awaiting", "blocked"} /\ pc'[S] \in {"send", "await"} /\ sent' = sent
        BY <3>5, <1>0 DEF Wake, Goto, Entry, sender
      <4> QED BY <4>1, <2>1, <2>2, <1>1 DEF InCall
    <3>6. CASE Await(S)
      <4>1. pc[S] = "await" /\ \/ pc'[S] \in {"send", "awaiting"} /\ sent' = sent
                               \/ pc'[S] = "out" /\ sent' = 0 /\ mq_detached'
        BY <3>6, <1>0 DEF Await, Goto, Return
      <4> QED BY <4>1, <2>1, <2>2, <1>1 DEF InCall
    <3> QED BY <1>2, <2>4, <3>1, <3>2, <3>3, <3>4, <3>5, <3>6
  <2> QED BY <2>3, <2>4 DEF Sides
<1>3. CASE \E b \in BOOLEAN : shm_mq_receive(b)
  <2>1. UNCHANGED <<mq_bytes_written, msgs, begin, complete, put, mq_detached, sent>> /\ pc'[S] = pc[S]
    BY <1>3, <1>0 DEF shm_mq_receive, Goto, sender, history
  <2> QED BY <2>1, <1>1
<1>4. CASE ReceiveTest \/ ReceiveUnattached \/ ReceiveDetached \/ ReceiveAgain \/ ReadBytesWritten
  <2>1. UNCHANGED <<mq_bytes_written, msgs, begin, complete, put, sent>> /\ pc'[S] = pc[S]
    BY <1>4, <1>0 DEF ReceiveTest, ReceiveUnattached, ReceiveDetached, ReceiveAgain, ReadBytesWritten, Goto, Return,
                      sender, history
  <2>2. mq_detached => mq_detached'
    BY <1>4, Zenon DEF ReceiveTest, ReceiveUnattached, ReceiveDetached, ReceiveAgain, ReadBytesWritten,
                       shm_mq_counterparty_gone
  <2> QED BY <2>1, <2>2, <1>1
<1>5. CASE ReceiveLength \/ ReceiveData
  <2>1. UNCHANGED <<mq_bytes_written, msgs, begin, complete, put, mq_detached, sent>> /\ pc'[S] = pc[S]
    BY <1>5, <1>0 DEF ReceiveLength, ReceiveData, ReturnInRing, ReturnCopy, Goto, Return, sender
  <2> QED BY <2>1, <1>1
<1>6. CASE ReceiveFlush \/ ReceiveEmpty
  <2>1. UNCHANGED <<mq_bytes_written, msgs, begin, complete, put, mq_detached, sent>> /\ pc'[S] = pc[S]
    BY <1>6, GiveSteps DEF Give, sender, history
  <2> QED BY <2>1, <1>1
<1>7. CASE ReadBytesRead \/ SendDetached \/ SendUnattached \/ SendTest \/ SendPeer \/ SendFull
  <2>1. UNCHANGED <<mq_bytes_written, msgs, begin, complete, put>>
    BY <1>7, Zenon DEF ReadBytesRead, SendDetached, SendUnattached, SendTest, SendPeer, SendFull, sender, history
  <2>3. mq_detached => mq_detached'
    BY <1>7, Zenon DEF ReadBytesRead, SendDetached, SendUnattached, SendTest, SendPeer, SendFull,
                       shm_mq_counterparty_gone
  <2>2. /\ pc[S] \in {"send", "check", "peergone", "peer"}
        /\ \/ pc'[S] \in {"check", "await", "blocked", "send", "asleep", "peergone", "peer"} /\ sent' = sent
           \/ pc'[S] = "out" /\ sent' = 0 /\ mq_detached'
    <3>1. CASE ReadBytesRead BY <3>1, <1>0 DEF ReadBytesRead, Goto
    <3>2. CASE SendDetached BY <3>2, <1>0 DEF SendDetached, Goto, Return
    <3>3. CASE SendUnattached BY <3>3, <1>0 DEF SendUnattached, Goto
    <3>4. CASE SendFull BY <3>4, <1>0 DEF SendFull, Goto, Return
    <3>5. CASE SendTest BY <3>5, <1>0 DEF SendTest, Goto, Return
    <3>6. CASE SendPeer BY <3>6, <1>0 DEF SendPeer, Goto, Return, sender
    <3> QED BY <1>7, <3>1, <3>2, <3>3, <3>4, <3>5, <3>6
  <2> QED BY <2>1, <2>2, <2>3, <1>1 DEF InCall
<1>8. CASE SendFinish
  <2>1. /\ UNCHANGED <<mq_bytes_written, msgs, begin, complete, put, mq_detached>>
        /\ pc[S] = "finish" /\ pc'[S] \in {"out", "notify"} /\ sent' = 0
    BY <1>8, <1>0 DEF SendFinish, Goto, Return, history
  <2>2. complete = Len(msgs) BY <2>1, <1>c DEF Place
  <2> QED BY <2>1, <2>2, <1>1
<1>12. CASE SendNotify
  <2>1. /\ UNCHANGED <<mq_bytes_written, msgs, begin, complete, put, mq_detached, sent>>
        /\ pc[S] = "notify" /\ pc'[S] = "out"
    BY <1>12, <1>0 DEF SendNotify, Goto, Return, sender, history
  <2>2. complete = Len(msgs) /\ sent = 0 BY <2>1, <1>c DEF Place
  <2> QED BY <2>1, <2>2, <1>1
<1>9. CASE SendCopy
  <2>1. /\ UNCHANGED <<mq_bytes_written, msgs, begin, complete, sent, mq_detached>>
        /\ pc[S] = "check" /\ ~mq_detached /\ available > 0 /\ pc'[S] = "count" /\ put' = sendnow
    BY <1>9, <1>0 DEF SendCopy, Goto, history
  <2>2. /\ complete = Len(msgs) - 1 /\ begin[Len(msgs)] + sent = mq_bytes_written
        /\ sent <= Len0 /\ sent + sendnow <= 1 + Len0
    BY <2>1, SendFacts
  <2>3. Len(msgs) > 0 BY <2>1, <1>c DEF Place, InCall
  <2> QED BY <2>1, <2>2, <2>3 DEF Place, InPlace, InCall, Len0
<1>10. CASE \E n \in Lens, b \in BOOLEAN : shm_mq_sendv(n, b)
  <2>0. PICK n \in Lens, b \in BOOLEAN : shm_mq_sendv(n, b) BY <1>10
  <2>1. /\ UNCHANGED <<mq_bytes_written, complete, put, sent, mq_detached>> /\ n \in Nat
        /\ msgs' = Append(msgs, n) /\ begin' = Append(begin, mq_bytes_written)
        /\ pc[S] = "out" /\ pc'[S] = "send"
    BY <2>0, <1>0 DEF shm_mq_sendv, sender, Goto
  <2>2. put = 0 /\ sent = 0 /\ (mq_detached \/ complete = Len(msgs)) BY <2>1, <1>c DEF Place, InCall
  <2>3. msgs \in Seq(Nat) /\ begin \in Seq(Nat) /\ Len(begin) = Len(msgs) BY <1>c DEF IInv, TypeOK, Layout
  <2>4. Len(msgs') = Len(msgs) + 1 /\ msgs'[Len(msgs')] = n /\ begin'[Len(msgs')] = mq_bytes_written
    BY <2>1, <2>3, <1>n
  <2>5. ~mq_detached => InPlace'
    <3>0. Len(msgs) \in Nat BY <1>n
    <3>5. (Len(msgs) + 1) - 1 = Len(msgs) BY <3>0
    <3>1. ~mq_detached => complete = (Len(msgs) + 1) - 1 BY <2>2, <3>5, Zenon
    <3>2. mq_bytes_written + 0 = mq_bytes_written /\ 0 <= n /\ 0 + 0 <= 1 + n BY <2>1, <1>n
    <3>3. Len0' = n BY <2>4 DEF Len0
    <3>4. sent' = 0 /\ put' = 0 /\ complete' = complete /\ mq_bytes_written' = mq_bytes_written BY <2>1, <2>2
    <3> QED BY <3>1, <3>2, <3>3, <3>4, <2>4, Zenon DEF InPlace
  <2>6. Len(msgs') > 0 BY <2>4, <1>n
  <2> QED BY <2>1, <2>2, <2>5, <2>6 DEF Place, InCall
<1>11. CASE shm_mq_inc_bytes_written
  <2>1. /\ UNCHANGED <<msgs, begin>> /\ mq_bytes_written' = mq_bytes_written + put /\ sent' = sent + put /\ put' = 0
        /\ complete' = IF sent' = 1 + Len0 THEN complete + 1 ELSE complete
        /\ pc[S] = "count" /\ pc'[S] = IF sent + put = 1 + Len0 THEN "finish" ELSE "send"
    BY <1>11, <1>0 DEF shm_mq_inc_bytes_written, Goto
  <2>2. /\ Len(msgs) > 0 /\ complete = Len(msgs) - 1 /\ begin[Len(msgs)] + sent = mq_bytes_written
        /\ sent + put <= 1 + Len0
    BY <2>1, <1>c DEF Place, InPlace, InCall
  <2>3. Len0' = Len0 /\ Len0 \in Nat /\ begin[Len(msgs)] \in Nat BY <2>1, <2>2, <1>n, SMTT(60) DEF Len0
  <2>4. CASE sent + put = 1 + Len0
    <3>1. pc'[S] = "finish" /\ complete' = complete + 1 BY <2>1, <2>4
    <3>2. complete' = Len(msgs') BY <3>1, <2>1, <2>2, <1>n
    <3> QED BY <3>1, <3>2, <2>1, <2>2 DEF Place, InCall
  <2>5. CASE sent + put # 1 + Len0
    <3>1. pc'[S] = "send" /\ complete' = complete BY <2>1, <2>5
    <3> DEFINE b == begin[Len(msgs)]
    <3>2. b + (sent + put) = mq_bytes_written + put
      <4>1. b \in Nat /\ b + sent = mq_bytes_written BY <2>2, <2>3
      <4> HIDE DEF b
      <4> QED BY <4>1, <1>n
    <3>3. sent + put <= Len0 /\ (sent + put) + 0 <= 1 + Len0 BY <2>2, <2>3, <2>5, <1>n
    <3>4. InPlace' BY <3>1, <3>2, <3>3, <2>1, <2>2, <2>3 DEF InPlace
    <3> QED BY <3>1, <3>4, <2>1, <2>2 DEF Place, InCall
  <2> QED BY <2>4, <2>5
<1> QED BY StepKinds, <1>2, <1>3, <1>4, <1>5, <1>6, <1>7, <1>8, <1>9, <1>10, <1>11, <1>12 DEF IdleStep

-----------------------------------------------------------------------------
(* The receiver's place, messages returned as pointers, and who has left *)

\* A whole message consumed: the receiver is at the next one.
LEMMA Arrive ==
    ASSUME IInv, NEW m \in Nat, received.count + 1 <= complete,
           Pos + m = begin[received.count + 1] + 1 + msgs[received.count + 1],
           mq_bytes_read' = mq_bytes_read, pending' = pending + m,
           received'.count = received.count + 1, expected' = NONE, partial' = <<>>,
           UNCHANGED <<msgs, begin, complete, mq_bytes_written>>
    PROVE  RecvShape'
<1> DEFINE k == received.count + 1
<1>n. /\ mq_bytes_read \in Nat /\ pending \in Nat /\ complete \in Nat /\ received.count \in Nat
      /\ Len(msgs) \in Nat /\ DOMAIN msgs = 1 .. Len(msgs) /\ Pos = mq_bytes_read + pending
  BY Numbers DEF Pos
<1>1. k \in Nat /\ k # 0 /\ complete <= Len(msgs) /\ k <= Len(msgs) /\ k \in DOMAIN msgs
  BY <1>n, SMTT(60) DEF IInv, SendShape
<1>2. Pos' = Pos + m BY <1>n DEF Pos
<1>3. NextCell' = 0 BY DEF NextCell
<1>4. Pos' = begin[k] + 1 + msgs[k] BY <1>2
<1>5. k < Len(msgs) => begin[k + 1] = begin[k] + 1 + msgs[k]
  BY <1>1 DEF IInv, SendShape
<1>6. k = Len(msgs) => mq_bytes_written = begin[k] + 1 + msgs[k]
  <2>0. k <= complete /\ complete <= Len(msgs) /\ k \in Nat /\ complete \in Nat /\ Len(msgs) \in Nat BY <1>1, <1>n
  <2>1. k = Len(msgs) => complete = Len(msgs) /\ complete = k
    <3> HIDE DEF k
    <3> QED BY <2>0
  <2> QED BY <2>1, <1>1 DEF IInv, SendShape
<1>7. received'.count = k /\ Len(msgs') = Len(msgs) /\ k <= complete' OBVIOUS
<1>8. k < Len(msgs) => Pos' = begin'[k + 1] + NextCell'
  <2>1. k < Len(msgs) => k + 1 \in 1 .. Len(msgs) BY <1>1, <1>n, SMTT(60)
  <2>2. k < Len(msgs) => begin[k + 1] \in Nat BY <2>1, Numbers, Zenon
  <2>3. k < Len(msgs) => begin[k + 1] + 0 = begin[k + 1] BY <2>2
  <2> QED BY <2>3, <1>3, <1>4, <1>5
<1> HIDE DEF k
<1> QED BY <1>3, <1>4, <1>6, <1>7, <1>8 DEF RecvShape

\* Every step keeps the receiver in place.
LEMMA RecvStep == ASSUME IInv, Next PROVE RecvShape'
<1>n. /\ mq_bytes_read \in Nat /\ pending \in Nat /\ complete \in Nat /\ received.count \in Nat
      /\ Len(msgs) \in Nat /\ DOMAIN msgs = 1 .. Len(msgs) /\ Pos = mq_bytes_read + pending
      /\ mq_bytes_written \in Nat /\ put \in Nat /\ Len(partial) \in Nat /\ sent \in Nat
  BY Numbers DEF Pos
<1>c. RecvShape /\ complete <= Len(msgs) BY DEF IInv, SendShape
<1>0. CASE UNCHANGED <<mq_bytes_written, msgs, begin, complete, received, partial, expected>> /\ Pos' = Pos
  BY <1>0, <1>c DEF RecvShape, NextCell
<1>1. CASE IdleStep BY <1>0, <1>1, IdleSteps DEF Idle, history, Pos
<1>2. CASE ReceiveFlush \/ ReceiveEmpty
  <2>1. Pos' = Pos BY <1>2, <1>n, GiveSteps, SMTT(60) DEF Give, Pos
  <2> QED BY <2>1, <1>0, <1>2, GiveSteps DEF Give, history
<1>3. CASE ReadBytesRead \/ SendCopy \/ ReadBytesWritten
  BY <1>0, <1>3 DEF ReadBytesRead, SendCopy, ReadBytesWritten, history, receiver, Pos
<1>4. CASE shm_mq_inc_bytes_written
  <2>1. /\ UNCHANGED <<msgs, begin, received, partial, expected>> /\ Pos' = Pos
        /\ complete' \in {complete, complete + 1} /\ pc[S] = "count"
    BY <1>4 DEF shm_mq_inc_bytes_written, receiver, Pos
  <2>2. complete = Len(msgs) - 1 BY <2>1 DEF IInv, SendShape, InCall
  <2>3. received.count # Len(msgs) /\ received.count <= complete' BY <2>1, <2>2, <1>c, <1>n DEF RecvShape
  <2> QED BY <2>1, <2>3, <1>c DEF RecvShape, NextCell
<1>5. CASE \E n \in Lens, b \in BOOLEAN : shm_mq_sendv(n, b)
  <2>0. PICK n \in Lens, b \in BOOLEAN : shm_mq_sendv(n, b) BY <1>5
  <2> DEFINE k == received.count + 1
  <2>1. /\ UNCHANGED <<mq_bytes_written, complete, received, partial, expected>> /\ Pos' = Pos /\ NextCell' = NextCell
        /\ msgs' = Append(msgs, n) /\ begin' = Append(begin, mq_bytes_written)
    BY <2>0 DEF shm_mq_sendv, receiver, Pos, NextCell
  <2>2. msgs \in Seq(Nat) /\ begin \in Seq(Nat) /\ Len(begin) = Len(msgs) /\ n \in Nat
    BY DEF IInv, TypeOK, SendShape
  <2>3. Len(msgs') = Len(msgs) + 1 /\ begin'[Len(msgs) + 1] = mq_bytes_written
        /\ \A i \in 1 .. Len(msgs) : begin'[i] = begin[i] /\ msgs'[i] = msgs[i]
    BY <2>1, <2>2
  <2>4. received.count <= complete /\ received.count <= Len(msgs) /\ received.count # Len(msgs) + 1
    BY <1>c, <1>n DEF RecvShape
  <2>5. CASE received.count = Len(msgs)
    <3>1. Pos = mq_bytes_written /\ expected = NONE /\ partial = <<>> BY <2>5, <1>c DEF RecvShape
    <3>2. NextCell = 0 /\ mq_bytes_written + 0 = mq_bytes_written BY <3>1, <1>n DEF NextCell
    <3>4. Pos' = mq_bytes_written + 0 /\ NextCell' = 0 BY <3>1, <3>2, <2>1
    <3>5. begin'[received.count + 1] = mq_bytes_written BY <2>3, <2>5
    <3>3. Pos' = begin'[received.count + 1] + NextCell' BY <3>4, <3>5, Zenon
    <3> QED BY <3>1, <3>3, <2>1, <2>3, <2>4 DEF RecvShape
  <2>6. CASE received.count < Len(msgs)
    <3>1. k \in 1 .. Len(msgs) BY <2>6, <1>n, SMTT(60)
    <3>2. Pos = begin[k] + NextCell BY <2>6, <1>c DEF RecvShape
    <3>3. begin'[k] = begin[k] /\ msgs'[k] = msgs[k] BY <3>1, <2>3, Zenon
    <3>4. Pos' = begin'[k] + NextCell' BY <3>2, <3>3, <2>1, Zenon
    <3>5. received'.count = received.count /\ received.count <= complete' /\ received.count # Len(msgs') BY <2>1, <2>3, <2>4
    <3>6. expected' = NONE => partial' = <<>> BY <2>1, <1>c, Zenon DEF RecvShape
    <3>7. expected' # NONE => /\ expected' = msgs'[k] /\ Len(partial') < expected'
                              /\ \A j \in DOMAIN partial' : partial'[j] = <<k, j>>
      BY <2>1, <3>3, <1>c, Zenon DEF RecvShape
    <3> QED BY <3>4, <3>5, <3>6, <3>7 DEF RecvShape
  <2> QED BY <2>4, <2>5, <2>6, <1>n
<1>6. CASE ReceiveLength
  <2> DEFINE k == received.count + 1
             n == mq_ring[offset][2]
  <2>1. /\ k \in DOMAIN msgs /\ n = msgs[k] /\ Pos = begin[k] /\ chunk \in Nat \ {0} /\ n \in Nat
        /\ chunk >= 1 + n => k <= complete
    BY <1>6, LengthFacts DEF ReceiveLength
  <2>2. UNCHANGED <<mq_bytes_read, mq_bytes_written, msgs, begin, complete, partial>> /\ partial = <<>>
    BY <1>6, <1>c DEF ReceiveLength, Consume, ReturnInRing, RecvShape
  <2>b. begin[k] \in Nat BY <2>1, <1>n, Numbers
  <2>3. CASE chunk >= 1 + n
    <3>1. expected' = NONE /\ pending' = pending + (1 + n) /\ received'.count = k
      BY <1>6, <2>3 DEF ReceiveLength, ReturnInRing, Consume
    <3>2. Pos + (1 + n) = begin[k] + 1 + msgs[k] /\ 1 + n \in Nat
      <4> DEFINE b == begin[k]
      <4>1. Pos = b /\ b \in Nat /\ msgs[k] = n /\ n \in Nat BY <2>1, <2>b
      <4> HIDE DEF b, n
      <4>2. Pos + (1 + n) = b + 1 + n /\ 1 + n \in Nat BY <4>1, SMTT(60)
      <4> QED BY <4>1, <4>2 DEF b
    <3> HIDE DEF n
    <3>3. RecvShape' BY <3>1, <3>2, <2>1, <2>2, <2>3, Arrive
    <3> QED BY <3>3
  <2>4. CASE ~(chunk >= 1 + n)
    <3>1. expected' = n /\ pending' = pending + 1 /\ received' = received
      BY <1>6, <2>4 DEF ReceiveLength, Consume
    <3> HIDE DEF n
    <3>2. 0 < n /\ n # NONE BY <2>1, <2>4 DEF NONE
    <3>3. Pos' = Pos + 1 BY <3>1, <2>2, <1>n DEF Pos
    <3>4. NextCell' = 1 /\ Len(partial') = 0 BY <3>1, <3>2, <2>2 DEF NextCell
    <3>5. Pos' = begin'[k] + NextCell' BY <3>3, <3>4, <2>1, <2>2
    <3>6. received.count < Len(msgs) /\ received.count # Len(msgs) BY <2>1, <1>n
    <3>7. received.count <= complete BY <1>c DEF RecvShape
    <3>8. \A j \in DOMAIN partial' : FALSE BY <2>2
    <3> QED BY <3>1, <3>2, <3>4, <3>5, <3>6, <3>7, <3>8, <2>1, <2>2 DEF RecvShape
  <2> QED BY <2>3, <2>4
<1>7. CASE ReceiveData
  <2> DEFINE k == received.count + 1
             n == IF chunk < expected - Len(partial) THEN chunk ELSE expected - Len(partial)
             all == partial \o At(offset, n)
  <2>0. pc[R] = "look" /\ Enough /\ expected # NONE /\ pending' = pending + n
        /\ UNCHANGED <<mq_bytes_read, mq_bytes_written, msgs, begin, complete>>
    BY <1>7 DEF ReceiveData, Consume
  <2>1. /\ k \in DOMAIN msgs /\ expected = msgs[k] /\ Pos = begin[k] + 1 + Len(partial)
        /\ n \in Nat \ {0} /\ Len(partial) + n <= expected
        /\ all \in Seq(Nat \X Nat) /\ Len(all) = Len(partial) + n
        /\ \A j \in 1 .. Len(partial) + n : all[j] = <<k, j>>
        /\ n = expected - Len(partial) => k <= complete
        /\ n = expected => partial = <<>>
    <3>1. n = IF chunk < expected - Len(partial) THEN chunk ELSE expected - Len(partial) OBVIOUS
    <3> HIDE DEF n
    <3> QED BY <2>0, <3>1, DataFacts, ZenonT(30)
  <2>b. begin[k] \in Nat /\ msgs[k] \in Nat BY <2>1, <1>n, Numbers
  <2>3. CASE n = expected - Len(partial)
    <3>0. n = expected => partial = <<>> BY <2>1
    <3>1. expected' = NONE /\ partial' = <<>> /\ received'.count = k
      <4>1. CASE n = expected BY <1>7, <4>1, <3>0 DEF ReceiveData, ReturnInRing
      <4>2. CASE n # expected BY <1>7, <4>2, <2>3 DEF ReceiveData, ReturnCopy
      <4> QED BY <4>1, <4>2
    <3>2. Pos + n = begin[k] + 1 + msgs[k] /\ n \in Nat
      <4> DEFINE b == begin[k]
                 l == msgs[k]
      <4>1. b \in Nat /\ l \in Nat /\ n = l - Len(partial) /\ Pos = b + 1 + Len(partial) /\ n \in Nat BY <2>1, <2>b, <2>3
      <4> HIDE DEF b, l, n
      <4>2. Pos + n = b + 1 + l BY <4>1, <1>n
      <4> QED BY <4>1, <4>2 DEF b, l
    <3>3. k <= complete BY <2>1, <2>3
    <3> HIDE DEF n
    <3>4. RecvShape' BY <3>1, <3>2, <3>3, <2>0, Arrive
    <3> QED BY <3>4
  <2>4. CASE n # expected - Len(partial)
    <3>0. n # expected
      <4>1. n = expected => Len(partial) = 0 BY <2>1, SMTT(60)
      <4>2. expected \in Nat BY <2>1, <2>b
      <4>3. Len(partial) = 0 => expected - Len(partial) = expected BY <4>2
      <4> HIDE DEF n
      <4> QED BY <2>4, <4>1, <4>3
    <3>1. expected' = expected /\ partial' = all /\ received' = received
      BY <1>7, <2>4, <3>0 DEF ReceiveData
    <3> HIDE DEF n, all
    <3>e. expected \in Nat BY <2>1, <2>b
    <3>2. Len(all) < expected
      <4>1. n \in Nat /\ Len(partial) \in Nat /\ Len(partial) + n <= expected /\ Len(all) = Len(partial) + n
        BY <2>1, <1>n
      <4> QED BY <4>1, <2>4, <3>e
    <3>3. Pos' = Pos + n BY <2>0, <2>1, <1>n DEF Pos
    <3>4. NextCell' = 1 + (Len(partial) + n) BY <3>1, <2>0, <2>1 DEF NextCell
    <3>5. Pos' = begin'[k] + NextCell'
      <4> DEFINE b == begin[k]
      <4>1. b \in Nat /\ Pos = b + 1 + Len(partial) /\ n \in Nat BY <2>1, <2>b
      <4> HIDE DEF b
      <4>2. Pos + n = b + (1 + (Len(partial) + n)) BY <4>1, <1>n
      <4> QED BY <3>3, <3>4, <4>2, <2>0 DEF b
    <3>6. received.count < Len(msgs) /\ received.count # Len(msgs)
      <4>1. received.count + 1 \in 1 .. Len(msgs) BY <2>1, <1>n, Zenon
      <4> HIDE DEF n, all
      <4> QED BY <4>1, <1>n
    <3>7. received.count <= complete BY <1>c DEF RecvShape
    <3>8. \A j \in DOMAIN all : all[j] = <<k, j>>
      <4>1. DOMAIN all = 1 .. Len(partial) + n BY <2>1
      <4> QED BY <4>1, <2>1, Zenon
    <3> QED BY <3>1, <3>2, <3>5, <3>6, <3>7, <3>8, <2>0, <2>1 DEF RecvShape
  <2> QED BY <2>3, <2>4
<1> QED BY StepKinds, <1>1, <1>2, <1>3, <1>4, <1>5, <1>6, <1>7

\* Nothing but the receiver's own steps changes what it was told.
LEMMA ReceiverOnly ==
    ASSUME IInv, Next
    PROVE  \/ pc'[R] = pc[R] /\ result'[R] = result[R] /\ received' = received /\ mq_bytes_read' = mq_bytes_read
           \/ pc'[R] # "out"
           \/ pc'[R] = "out" /\ result'[R] = result[R] /\ pc[R] = "new"
           \/ result'[R] # "SUCCESS"
           \/ ReceiveLength \/ ReceiveData
<1>0. S \in Sides /\ R \in Sides /\ S # R BY SidesTwo
<1>1. CASE Still BY <1>1 DEF Still, Receivers
<1>2. CASE Move(S) BY <1>0, <1>2 DEF Move, Receivers
<1>3. CASE Move(R) BY <1>0, <1>3 DEF Move, Places
<1> QED BY <1>1, <1>2, <1>3, Moves DEF Sides

\* Messages begun stay as they are.
LEMMA HistoryGrows ==
    ASSUME IInv, Next, NEW k \in DOMAIN msgs
    PROVE  k \in DOMAIN msgs' /\ msgs'[k] = msgs[k] /\ begin'[k] = begin[k]
<1>1. CASE \E n \in Lens, b \in BOOLEAN : shm_mq_sendv(n, b)
  <2>1. \E n \in Nat : msgs' = Append(msgs, n) /\ begin' = Append(begin, mq_bytes_written) BY <1>1 DEF shm_mq_sendv
  <2>2. msgs \in Seq(Nat) /\ begin \in Seq(Nat) /\ Len(begin) = Len(msgs) BY DEF IInv, TypeOK, SendShape
  <2> QED BY <2>1, <2>2
<1>2. CASE IdleStep BY <1>2, IdleSteps DEF Idle, history
<1>3. CASE ReceiveFlush \/ ReceiveEmpty BY <1>3, GiveSteps DEF Give, history
<1>4. CASE ReadBytesRead \/ SendCopy \/ shm_mq_inc_bytes_written \/ ReadBytesWritten \/ ReceiveLength \/ ReceiveData
  BY <1>4 DEF ReadBytesRead, SendCopy, shm_mq_inc_bytes_written, ReadBytesWritten, ReceiveLength, ReceiveData, history
<1> QED BY StepKinds, <1>1, <1>2, <1>3, <1>4

\* Every step keeps the place of a message returned as a pointer.
LEMMA HeldStep == ASSUME IInv, Next PROVE HeldShape'
<1>0. /\ S \in Sides /\ R \in Sides /\ S # R /\ pc \in [Sides -> PCs]
      /\ result \in [Sides -> {"none", "SUCCESS", "WOULD_BLOCK", "DETACHED"}]
  BY SidesTwo DEF IInv, TypeOK
<1>n. /\ mq_bytes_read \in Nat /\ pending \in Nat /\ received.count \in Nat /\ complete \in Nat
      /\ Len(msgs) \in Nat /\ DOMAIN msgs = 1 .. Len(msgs) /\ Pos = mq_bytes_read + pending
      /\ \A k \in 1 .. Len(msgs) : msgs[k] \in Nat /\ begin[k] \in Nat
  BY Numbers DEF Pos
<1>1. SUFFICES ASSUME pc'[R] = "out", result'[R] = "SUCCESS", received'.msg.at # NONE
               PROVE  HeldShape'
  BY DEF HeldShape
<1>2. CASE pc'[R] = pc[R] /\ result'[R] = result[R] /\ received' = received /\ mq_bytes_read' = mq_bytes_read
  <2>1. HeldShape /\ pc[R] = "out" /\ result[R] = "SUCCESS" /\ received.msg.at # NONE BY <1>1, <1>2 DEF IInv
  <2>2. received.count > 0 /\ received.count <= Len(msgs) BY <2>1, <1>n, SMTT(60) DEF HeldShape, IInv, SendShape, RecvShape
  <2>3. received.count \in DOMAIN msgs BY <2>2, <1>n, SMTT(60)
  <2>4. msgs'[received.count] = msgs[received.count] /\ begin'[received.count] = begin[received.count]
    BY <2>3, HistoryGrows
  <2> QED BY <2>1, <2>4, <1>2 DEF HeldShape
<1>3. CASE pc'[R] = "out" /\ result'[R] = result[R] /\ pc[R] = "new"
  BY <1>1, <1>3 DEF IInv, EndShape
<1>4. CASE ReceiveLength
  <2> DEFINE k == received.count + 1
             n == mq_ring[offset][2]
  <2>1. chunk >= 1 + n BY <1>0, <1>1, <1>4 DEF ReceiveLength, Goto
  <2>2. /\ k \in DOMAIN msgs /\ n = msgs[k] /\ Pos = begin[k] /\ offset \in Nat /\ n \in Nat
        /\ \A i \in 1 .. n : offset + i = (begin[k] + i) % mq_ring_size
    BY <1>4, <2>1, LengthFacts DEF ReceiveLength
  <2>3. /\ received'.count = k /\ received'.msg.at = offset + 1 /\ received'.msg.len = n
        /\ mq_bytes_read' = mq_bytes_read /\ msgs' = msgs /\ begin' = begin
    BY <1>4, <2>1 DEF ReceiveLength, ReturnInRing, Consume
  <2>4. begin[k] \in Nat /\ k > 0 BY <2>2, <1>n
  <2>5. mq_bytes_read <= begin[k] + 1 BY <2>2, <2>4, <1>n
  <2>6. ASSUME NEW i \in 1 .. n PROVE (offset + 1) + i - 1 = (begin[k] + i) % mq_ring_size
    <3>1. offset \in Nat /\ n \in Nat BY <2>2
    <3> HIDE DEF n
    <3>2. (offset + 1) + i - 1 = offset + i BY <3>1
    <3> QED BY <3>2, <2>2
  <2> HIDE DEF k, n
  <2> QED BY <2>2, <2>3, <2>4, <2>5, <2>6 DEF HeldShape
<1>5. CASE ReceiveData
  <2> DEFINE k == received.count + 1
             n == IF chunk < expected - Len(partial) THEN chunk ELSE expected - Len(partial)
  <2>0. pc[R] = "look" /\ Enough /\ expected # NONE BY <1>5 DEF ReceiveData
  <2>1. n = expected
    <3>1. CASE n # expected /\ n = expected - Len(partial)
      BY <1>1, <1>5, <3>1 DEF ReceiveData, ReturnCopy
    <3>2. CASE n # expected /\ n # expected - Len(partial)
      BY <1>0, <1>1, <1>5, <3>2 DEF ReceiveData, Goto
    <3> QED BY <3>1, <3>2
  <2>2. /\ k \in DOMAIN msgs /\ expected = msgs[k] /\ Pos = begin[k] + 1 + Len(partial) /\ partial = <<>>
        /\ offset \in Nat /\ \A i \in 1 .. n : offset + i - 1 = (begin[k] + i) % mq_ring_size
    <3>1. n = IF chunk < expected - Len(partial) THEN chunk ELSE expected - Len(partial) OBVIOUS
    <3> HIDE DEF n
    <3> QED BY <2>0, <2>1, <3>1, DataFacts, Zenon
  <2>3. /\ received'.count = k /\ received'.msg.at = offset /\ received'.msg.len = n
        /\ mq_bytes_read' = mq_bytes_read /\ msgs' = msgs /\ begin' = begin
    BY <1>5, <2>1 DEF ReceiveData, ReturnInRing, Consume
  <2>4. begin[k] \in Nat /\ k > 0 BY <2>2, <1>n
  <2>5. mq_bytes_read <= begin[k] + 1 BY <2>2, <2>4, <1>n, SMTT(60)
  <2> HIDE DEF k, n
  <2> QED BY <2>1, <2>2, <2>3, <2>4, <2>5 DEF HeldShape
<1> QED BY ReceiverOnly, <1>1, <1>2, <1>3, <1>4, <1>5

\* A receiver that sees all there is and not enough has got every complete message.
LEMMA Drained ==
    ASSUME IInv, pc[R] = "again", ~Enough, written = mq_bytes_written
    PROVE  complete = received.count
<1> DEFINE k == received.count + 1
<1>n. /\ complete \in Nat /\ received.count \in Nat /\ Len(msgs) \in Nat /\ DOMAIN msgs = 1 .. Len(msgs)
      /\ mq_bytes_written \in Nat /\ Len(partial) \in Nat
  BY Numbers
<1>0. received.count <= complete /\ complete <= Len(msgs) BY DEF IInv, RecvShape, SendShape
<1>1. SUFFICES ASSUME received.count < complete PROVE FALSE BY <1>0, <1>n
<1>2. k \in DOMAIN msgs /\ k <= complete /\ received.count < Len(msgs) BY <1>0, <1>1, <1>n
<1>3. begin[k] + 1 + msgs[k] <= mq_bytes_written /\ Pos = begin[k] + NextCell
  BY <1>2, Zenon DEF IInv, RecvShape, SendShape
<1>4. msgs[k] \in Nat /\ begin[k] \in Nat BY <1>2, <1>n, Numbers
<1>5. used \in Nat /\ Pos \in Nat /\ Pos + used = mq_bytes_written BY LookFacts
<1>6. used < bytes_needed BY <1>5, LookFacts DEF Enough
<1>7. bytes_needed = (1 + msgs[k]) - NextCell \/ (bytes_needed = 1 /\ NextCell = 0)
  <2>1. CASE expected = NONE BY <2>1 DEF bytes_needed, NextCell
  <2>2. CASE expected # NONE
    <3>1. bytes_needed = msgs[k] - Len(partial) /\ NextCell = 1 + Len(partial)
      BY <2>2 DEF IInv, RecvShape, bytes_needed, NextCell
    <3> DEFINE l == msgs[k]
    <3>2. l \in Nat BY <1>4
    <3> HIDE DEF l
    <3>3. l - Len(partial) = (1 + l) - (1 + Len(partial)) BY <3>2, <1>n
    <3> QED BY <3>1, <3>3 DEF l
  <2> QED BY <2>1, <2>2
<1>8. NextCell \in Nat BY <1>n, SMTT(60) DEF NextCell
<1> DEFINE b == begin[k]
           l == msgs[k]
<1>9. b \in Nat /\ l \in Nat /\ b + 1 + l <= mq_bytes_written /\ Pos = b + NextCell
      /\ (bytes_needed = (1 + l) - NextCell \/ (bytes_needed = 1 /\ NextCell = 0))
  BY <1>3, <1>4, <1>7
<1> HIDE DEF b, l, k
<1> QED BY <1>5, <1>6, <1>8, <1>9, <1>n

\* Who is gone stays gone, and mq_detached stays set.
LEMMA GoneStays ==
    ASSUME IInv, Next
    PROVE  /\ mq_detached => mq_detached'
           /\ \A p \in Sides : Gone(p) => pc'[p] = pc[p] /\ result'[p] = result[p]
<1>1. CASE Still BY <1>1 DEF Still, Gone
<1>2. ASSUME NEW q \in Sides, Move(q)
      PROVE (mq_detached => mq_detached') /\ \A p \in Sides : Gone(p) => pc'[p] = pc[p] /\ result'[p] = result[p]
  BY <1>2, Zenon DEF Move
<1> QED BY <1>1, <1>2, Moves

\* A side is told that the other one is gone only when it is, the receiver only when
\* it has got every complete message.
LEMMA Told ==
    ASSUME IInv, Next
    PROVE  /\ \A p \in Sides : result[p] = "DETACHED" => result'[p] = "DETACHED"
           /\ result[S] # "DETACHED" /\ result'[S] = "DETACHED" => Gone(R) /\ mq_detached'
           /\ result[R] # "DETACHED" /\ result'[R] = "DETACHED" =>
                  /\ Gone(S) /\ mq_detached' /\ pc'[R] = "out"
                  /\ complete = received.count /\ UNCHANGED <<complete, received>>
<1>0. /\ S \in Sides /\ R \in Sides /\ S # R /\ Sides = {S, R} /\ pc \in [Sides -> PCs]
      /\ result \in [Sides -> {"none", "SUCCESS", "WOULD_BLOCK", "DETACHED"}]
  BY SidesTwo DEF IInv, TypeOK, Sides
<1>e. /\ result[S] = "DETACHED" => mq_detached /\ Gone(R)
      /\ result[R] = "DETACHED" => mq_detached /\ Gone(S) /\ complete = received.count /\ pc[R] # "notgone"
      /\ mq_detached => Gone(S) \/ Gone(R)
      /\ pc[R] = "gone" => mq_detached
      /\ pc[R] = "again" => mq_detached /\ ~Enough
      /\ pc[S] \in {"peer", "notify"} => result[S] # "DETACHED"
      /\ ~attached[S] => pc[S] \in {"new", "dead"}
  BY <1>0, SidesTwo, Zenon DEF IInv, EndShape
\* Without a sender there is no message.
<1>s. ~attached[S] => complete = received.count
  <2>1. ~attached[S] => Len(msgs) = 0 BY <1>e DEF IInv, EndShape
  <2>2. complete <= Len(msgs) /\ received.count <= complete BY DEF IInv, SendShape, RecvShape
  <2>3. complete \in Nat /\ received.count \in Nat BY Numbers
  <2>4. Len(msgs) = 0 => complete = received.count BY <2>2, <2>3
  <2> QED BY <2>1, <2>4
<1>1. CASE result' = result BY <1>1
<1>2. CASE result' = [result EXCEPT ![S] = "DETACHED"] /\ Gone(R) /\ mq_detached'
  BY <1>0, <1>2
<1>3. CASE /\ result' = [result EXCEPT ![R] = "DETACHED"] /\ Gone(S) /\ mq_detached' /\ pc'[R] = "out"
           /\ complete = received.count /\ UNCHANGED <<complete, received>>
  BY <1>0, <1>3
<1>4. CASE \E r \in {"SUCCESS", "WOULD_BLOCK"} : result' = [result EXCEPT ![S] = r] /\ result[S] # "DETACHED"
  BY <1>0, <1>4
<1>5. CASE \E r \in {"SUCCESS", "WOULD_BLOCK"} : result' = [result EXCEPT ![R] = r] /\ result[R] # "DETACHED"
  BY <1>0, <1>5
<1>10. ASSUME NEW q \in Sides, Attach(q) \/ Die(q) \/ shm_mq_detach_internal(q) \/ ForeignSetLatch(q) \/ Wake(q)
       PROVE  result' = result
  BY <1>10 DEF Attach, Die, shm_mq_detach_internal, ForeignSetLatch, Wake
<1>11. ASSUME \/ (\E n \in Lens, b \in BOOLEAN : shm_mq_sendv(n, b)) \/ (\E b \in BOOLEAN : shm_mq_receive(b))
              \/ ReadBytesRead \/ SendCopy \/ shm_mq_inc_bytes_written \/ ReadBytesWritten \/ ReceiveTest \/ ReceiveFlush
              \/ SendUnattached \/ ReceiveDetached
       PROVE  result' = result
  BY <1>11 DEF shm_mq_sendv, shm_mq_receive, ReadBytesRead, SendCopy, shm_mq_inc_bytes_written,
               ReadBytesWritten, ReceiveTest, ReceiveFlush, SendUnattached, ReceiveDetached
<1>12. CASE SendDetached
  <2>1. pc[S] = "check" /\ mq_detached /\ mq_detached' = mq_detached /\ result' = [result EXCEPT ![S] = "DETACHED"]
    BY <1>12 DEF SendDetached, Return
  <2>2. Gone(R) BY <2>1, <1>e DEF Gone
  <2> QED BY <2>1, <2>2, <1>2
<1>13. CASE SendTest
  <2>1. \/ result' = result
        \/ shm_mq_counterparty_gone(S) /\ mq_detached' /\ result' = [result EXCEPT ![S] = "DETACHED"]
    BY <1>13 DEF SendTest, Return
  <2>2. pc[S] = "peergone" BY <1>13 DEF SendTest
  <2>3. shm_mq_counterparty_gone(S) => Gone(R)
    BY <2>2, <1>e, SidesTwo DEF shm_mq_counterparty_gone, HandleDead, Gone
  <2> QED BY <2>1, <2>3, <1>1, <1>2
<1>22. CASE SendPeer
  <2>1. pc[S] = "peer" /\ (result' = result \/ result' = [result EXCEPT ![S] = "WOULD_BLOCK"])
    BY <1>22 DEF SendPeer, Return
  <2> QED BY <2>1, <1>1, <1>4, <1>e
<1>14. CASE SendFull
  <2>1. ~mq_detached /\ (result' = result \/ result' = [result EXCEPT ![S] = "WOULD_BLOCK"])
    BY <1>14 DEF SendFull, Return
  <2> QED BY <2>1, <1>1, <1>4, <1>e
<1>15. CASE SendFinish
  <2>1. CASE mq_detached
    <3>1. pc[S] = "finish" /\ mq_detached' = mq_detached /\ result' = [result EXCEPT ![S] = "DETACHED"]
      BY <1>15, <2>1 DEF SendFinish, Return
    <3>2. Gone(R) BY <3>1, <2>1, <1>e DEF Gone
    <3> QED BY <3>1, <3>2, <2>1, <1>2
  <2>2. CASE ~mq_detached BY <1>1, <1>15, <2>2 DEF SendFinish
  <2> QED BY <2>1, <2>2
<1>23. CASE SendNotify
  <2>1. pc[S] = "notify" /\ result' = [result EXCEPT ![S] = "SUCCESS"] BY <1>23 DEF SendNotify, Return
  <2> QED BY <2>1, <1>4, <1>e
<1>16. CASE Await(S)
  <2>1. \/ result' = result
        \/ shm_mq_counterparty_gone(S) /\ mq_detached' /\ result' = [result EXCEPT ![S] = "DETACHED"]
    BY <1>0, <1>16 DEF Await, Return
  <2>2. pc[S] = "await" BY <1>16 DEF Await
  <2>3. shm_mq_counterparty_gone(S) => Gone(R)
    BY <2>2, <1>e, SidesTwo DEF shm_mq_counterparty_gone, HandleDead, Gone
  <2> QED BY <2>1, <2>3, <1>1, <1>2
<1>17. CASE Await(R)
  <2>1. \/ result' = result
        \/ /\ shm_mq_counterparty_gone(R) /\ ~attached[S] /\ mq_detached'
           /\ result' = [result EXCEPT ![R] = "DETACHED"] /\ pc' = [pc EXCEPT ![R] = "out"]
    BY <1>0, <1>17, SidesTwo DEF Await, Return, Goto
  <2>2. pc[R] = "await" /\ UNCHANGED <<complete, received>> BY <1>17 DEF Await, history
  <2>3. shm_mq_counterparty_gone(R) => Gone(S)
    BY <2>2, <1>e, SidesTwo DEF shm_mq_counterparty_gone, HandleDead, Gone
  <2> QED BY <1>0, <2>1, <2>2, <2>3, <1>1, <1>3, <1>s
<1>18. CASE ReceiveUnattached
  <2>1. UNCHANGED <<complete, received, mq_detached>> /\ pc[R] \in {"gone", "notgone"}
    BY <1>18 DEF ReceiveUnattached, history
  <2>2. CASE attached[S] BY <1>1, <1>18, <2>2 DEF ReceiveUnattached
  <2>3. CASE ~attached[S] /\ pc[R] = "gone"
    <3>1. result' = [result EXCEPT ![R] = "DETACHED"] /\ pc'[R] = "out"
      BY <1>0, <1>18, <2>3 DEF ReceiveUnattached, Return, Goto
    <3>2. mq_detached /\ Gone(S) BY <2>3, <1>e DEF Gone
    <3> QED BY <3>1, <3>2, <2>1, <2>3, <1>3, <1>s
  <2>4. CASE ~attached[S] /\ pc[R] = "notgone"
    <3>1. result' = [result EXCEPT ![R] = "WOULD_BLOCK"] BY <1>18, <2>4 DEF ReceiveUnattached, Return
    <3> QED BY <3>1, <2>4, <1>5, <1>e
  <2> QED BY <2>1, <2>2, <2>3, <2>4
<1>19. CASE ReceiveAgain
  <2>0. pc[R] = "again" /\ UNCHANGED <<complete, received, mq_detached>> BY <1>19 DEF ReceiveAgain, history
  <2>1. ~Enough /\ mq_detached BY <2>0, <1>e
  <2>2. CASE ~Final BY <1>1, <1>19, <2>2 DEF ReceiveAgain
  <2>3. CASE Final
    <3>1. result' = [result EXCEPT ![R] = "DETACHED"] /\ pc'[R] = "out"
      BY <1>0, <1>19, <2>3 DEF ReceiveAgain, Return, Goto
    <3>2. complete = received.count BY <2>0, <2>1, <2>3, Drained DEF Final
    <3>3. Gone(S) BY <2>0, <2>1, <1>e DEF Gone
    <3> QED BY <3>1, <3>2, <3>3, <2>0, <2>1, <1>3
  <2> QED BY <2>2, <2>3
<1>20. CASE ReceiveEmpty
  <2>1. ~mq_detached /\ (result' = result \/ result' = [result EXCEPT ![R] = "WOULD_BLOCK"])
    BY <1>20 DEF ReceiveEmpty, Return
  <2> QED BY <2>1, <1>1, <1>5, <1>e
<1>21. CASE ReceiveLength \/ ReceiveData
  <2>1. result' = result \/ (result' = [result EXCEPT ![R] = "SUCCESS"] /\ received'.count = received.count + 1)
    <3>1. CASE ReceiveLength BY <3>1, SMTT(60) DEF ReceiveLength, ReturnInRing, Return
    <3>2. CASE ReceiveData BY <3>2, SMTT(60) DEF ReceiveData, ReturnInRing, ReturnCopy, Return
    <3> QED BY <1>21, <3>1, <3>2
  <2>2. received'.count = received.count + 1 => received.count # complete
    <3>1. RecvShape' /\ complete' = complete BY <1>21, RecvStep DEF ReceiveLength, ReceiveData
    <3>2. complete \in Nat /\ received.count \in Nat BY Numbers
    <3>3. received'.count <= complete BY <3>1 DEF RecvShape
    <3> QED BY <3>2, <3>3
  <2> QED BY <2>1, <2>2, <1>1, <1>5, <1>e
<1> QED BY <1>1, <1>10, <1>11, <1>12, <1>13, <1>14, <1>15, <1>16, <1>17, <1>18, <1>19, <1>20, <1>21, <1>22, <1>23,
        StepKinds, SidesTwo
        DEF IdleStep, Sides

\* Who has attached stays attached.
LEMMA AttachedStays == ASSUME IInv, Next PROVE \A p \in Sides : attached[p] => attached'[p]
<1>1. CASE Still BY <1>1 DEF Still
<1>2. ASSUME NEW q \in Sides, Move(q) PROVE \A p \in Sides : attached[p] => attached'[p] BY <1>2, Zenon DEF Move
<1> QED BY <1>1, <1>2, Moves

\* Where each side can get to in one step: only the test leads to its outcomes, and
\* who has not attached is told nothing.
LEMMA PlacesApart ==
    ASSUME IInv, Next
    PROVE  /\ pc'[S] \notin {"test", "gone", "notgone", "flush", "receive", "look", "again"}
           /\ pc'[R] \notin {"send", "check", "peergone", "peer", "count", "finish", "notify"}
           /\ pc'[R] \in {"gone", "notgone"} => pc'[R] = pc[R] \/ ReceiveTest
           /\ pc'[R] = "again" => pc'[R] = pc[R] \/ ReceiveDetached
           /\ pc[R] = "new" => result'[R] = result[R]
<1>0. S \in Sides /\ R \in Sides /\ S # R BY SidesTwo
<1>e. /\ pc[S] \notin {"test", "gone", "notgone", "flush", "receive", "look", "again"}
      /\ pc[R] \notin {"send", "check", "peergone", "peer", "count", "finish", "notify"}
  BY DEF IInv, EndShape
<1>1. CASE Still BY <1>1, <1>e DEF Still
<1>2. CASE Move(S) BY <1>0, <1>2, <1>e DEF Move, Places
<1>3. CASE Move(R) BY <1>0, <1>3, <1>e DEF Move, Places
<1> QED BY <1>1, <1>2, <1>3, Moves DEF Sides

\* Only the sender completes a message, and the receiver gets one at a time.
LEMMA CompleteBy == ASSUME IInv, Next PROVE complete' = complete \/ (shm_mq_inc_bytes_written /\ pc[S] = "count")
<1>1. CASE IdleStep BY <1>1, IdleSteps DEF Idle, history
<1>2. CASE ReceiveFlush \/ ReceiveEmpty BY <1>2, GiveSteps DEF Give, history
<1>3. CASE \/ ReadBytesRead \/ SendCopy \/ shm_mq_inc_bytes_written \/ ReadBytesWritten \/ ReceiveLength \/ ReceiveData
           \/ \E n \in Lens, b \in BOOLEAN : shm_mq_sendv(n, b)
  BY <1>3 DEF ReadBytesRead, SendCopy, shm_mq_inc_bytes_written, ReadBytesWritten, ReceiveLength, ReceiveData, shm_mq_sendv, history
<1> QED BY <1>1, <1>2, <1>3, StepKinds

\* The receiver gets one message at a time.
LEMMA CountBy ==
    ASSUME IInv, Next
    PROVE  received'.count \in {received.count, received.count + 1} /\ (received' = received \/ ReceiveLength \/ ReceiveData)
<1>1. CASE IdleStep BY <1>1, IdleSteps DEF Idle, history
<1>2. CASE ReceiveFlush \/ ReceiveEmpty BY <1>2, GiveSteps DEF Give, history
<1>3. CASE \/ ReadBytesRead \/ SendCopy \/ shm_mq_inc_bytes_written \/ ReadBytesWritten
           \/ \E n \in Lens, b \in BOOLEAN : shm_mq_sendv(n, b)
  BY <1>3 DEF ReadBytesRead, SendCopy, shm_mq_inc_bytes_written, ReadBytesWritten, shm_mq_sendv, history
<1>4. CASE ReceiveLength \/ ReceiveData
  <2>1. received' = received \/ \E m : received' = [count |-> received.count + 1, msg |-> m]
    BY <1>4, Zenon DEF ReceiveLength, ReceiveData, ReturnInRing, ReturnCopy
  <2> QED BY <1>4, <2>1
<1> QED BY <1>1, <1>2, <1>3, <1>4, StepKinds

\* Every step keeps what is known about who has left.
LEMMA EndStep == ASSUME IInv, Next PROVE EndShape'
<1>0. /\ S \in Sides /\ R \in Sides /\ S # R /\ Sides = {S, R} /\ Other(S) = R /\ Other(R) = S /\ pc \in [Sides -> PCs]
      /\ attached \in [Sides -> BOOLEAN]
      /\ result \in [Sides -> {"none", "SUCCESS", "WOULD_BLOCK", "DETACHED"}]
  BY SidesTwo DEF IInv, TypeOK, Sides
<1>e. EndShape BY DEF IInv
<1>g. /\ mq_detached => mq_detached'
      /\ \A p \in Sides : Gone(p) => Gone(p)'
  BY GoneStays DEF Gone
<1>h. ~mq_detached /\ mq_detached' => Gone(S)' \/ Gone(R)'
  <2>1. CASE Still BY <2>1 DEF Still
  <2>2. ASSUME NEW p \in Sides, Move(p), ~mq_detached, mq_detached' PROVE Gone(S)' \/ Gone(R)'
    <3>1. CASE pc'[p] = "detached" BY <1>0, <3>1 DEF Gone
    <3>2. CASE HandleDead(p) BY <1>0, <1>g, <3>2 DEF HandleDead, Gone
    <3> QED BY <2>2, <3>1, <3>2, Zenon DEF Move
  <2> QED BY <2>1, <2>2, Moves
<1>1. (\A p \in Sides : attached[p] <=> pc[p] \notin {"new", "dead"})'
  <2>0. \A p \in Sides : attached[p] <=> pc[p] \notin {"new", "dead"} BY <1>e DEF EndShape
  <2>1. CASE Still BY <2>0, <2>1 DEF Still
  <2>2. ASSUME NEW q \in Sides, Move(q), NEW p \in Sides PROVE attached'[p] <=> pc'[p] \notin {"new", "dead"}
    <3>1. CASE p # q BY <2>0, <2>2, <3>1 DEF Move
    <3>2. CASE p = q
      <4>1. pc'[q] # "new" BY <2>2 DEF Move, Places
      <4>2. ~Gone(q) BY <2>2 DEF Move
      <4>3. CASE pc[q] = "new" BY <2>0, <2>2, <3>2, <4>1, <4>3 DEF Move
      <4>4. CASE pc[q] # "new" BY <2>0, <2>2, <3>2, <4>1, <4>2, <4>4 DEF Move, Gone
      <4> QED BY <4>3, <4>4
    <3> QED BY <3>1, <3>2
  <2> QED BY <2>1, <2>2, Moves
<1>2. (pc[S] \in {"new", "dead"} => Len(msgs) = 0)'
  <2>1. CASE \E n \in Lens, b \in BOOLEAN : shm_mq_sendv(n, b)
    <3>1. pc'[S] = "send" BY <1>0, <2>1 DEF shm_mq_sendv, Goto
    <3> QED BY <3>1
  <2>2. CASE ~\E n \in Lens, b \in BOOLEAN : shm_mq_sendv(n, b)
    <3>1. msgs' = msgs
      <4>1. CASE IdleStep BY <4>1, IdleSteps DEF Idle, history
      <4>2. CASE ReceiveFlush \/ ReceiveEmpty BY <4>2, GiveSteps DEF Give, history
      <4>3. CASE ReadBytesRead \/ SendCopy \/ shm_mq_inc_bytes_written \/ ReadBytesWritten \/ ReceiveLength \/ ReceiveData
        BY <4>3 DEF ReadBytesRead, SendCopy, shm_mq_inc_bytes_written, ReadBytesWritten, ReceiveLength, ReceiveData, history
      <4> QED BY <2>2, <4>1, <4>2, <4>3, StepKinds
    <3>2. pc'[S] \in {"new", "dead"} => pc[S] \in {"new", "dead"}
      <4>1. pc'[S] \in {"new", "dead"} => ~attached'[S] BY <1>0, <1>1
      <4>2. ~attached'[S] => ~attached[S] BY <1>0, AttachedStays
      <4> QED BY <4>1, <4>2, <1>0, <1>e DEF EndShape
    <3> QED BY <3>1, <3>2, <1>e DEF EndShape
  <2> QED BY <2>1, <2>2
<1>3. (mq_detached => Gone(S) \/ Gone(R))' BY <1>0, <1>e, <1>g, <1>h, Zenon DEF EndShape
<1>4. (\A p \in Sides : result[p] = "DETACHED" => mq_detached /\ Gone(Other(p)))'
  <2>1. ASSUME result'[S] = "DETACHED" PROVE mq_detached' /\ Gone(R)'
    <3>1. CASE result[S] = "DETACHED" BY <3>1, <1>0, <1>e, <1>g, Zenon DEF EndShape
    <3>2. CASE result[S] # "DETACHED" BY <2>1, <3>2, <1>0, <1>g, Told, Zenon
    <3> QED BY <3>1, <3>2
  <2>2. ASSUME result'[R] = "DETACHED" PROVE mq_detached' /\ Gone(S)'
    <3>1. CASE result[R] = "DETACHED" BY <3>1, <1>0, <1>e, <1>g, Zenon DEF EndShape
    <3>2. CASE result[R] # "DETACHED" BY <2>2, <3>2, <1>0, <1>g, Told, Zenon
    <3> QED BY <3>1, <3>2
  <2> QED BY <2>1, <2>2, <1>0 DEF Gone
<1>5. (result[R] = "DETACHED" => complete = received.count /\ pc[R] # "notgone")'
  <2>1. SUFFICES ASSUME result'[R] = "DETACHED" PROVE complete' = received'.count /\ pc'[R] # "notgone" OBVIOUS
  <2>2. CASE result[R] # "DETACHED" BY <2>1, <2>2, Told
  <2>3. CASE result[R] = "DETACHED"
    <3>1. mq_detached /\ Gone(S) /\ complete = received.count /\ pc[R] # "notgone"
      BY <2>3, <1>0, <1>e, Zenon DEF EndShape
    <3>2. pc'[R] # "notgone"
      <4>1. CASE ReceiveTest
        <5>1. shm_mq_counterparty_gone(R) BY <3>1 DEF shm_mq_counterparty_gone
        <5> QED BY <1>0, <4>1, <5>1 DEF ReceiveTest, Goto
      <4>2. CASE ~ReceiveTest BY <3>1, <4>2, PlacesApart
      <4> QED BY <4>1, <4>2
    <3>3. complete' = complete BY <3>1, CompleteBy DEF Gone
    <3>4. received'.count = received.count
      <4>1. RecvShape' BY RecvStep
      <4>2. received'.count <= complete BY <4>1, <3>3 DEF RecvShape
      <4>3. received'.count \in {received.count, received.count + 1} BY CountBy
      <4>4. complete \in Nat /\ received.count \in Nat BY Numbers
      <4> QED BY <4>2, <4>3, <4>4, <3>1
    <3> QED BY <3>1, <3>2, <3>3, <3>4
  <2> QED BY <2>2, <2>3
<1>6. (pc[R] = "gone" => mq_detached)'
  <2>1. CASE ReceiveTest
    <3>1. pc'[R] = (IF shm_mq_counterparty_gone(R) THEN "gone" ELSE "notgone") /\ mq_detached' = shm_mq_counterparty_gone(R)
      BY <1>0, <2>1 DEF ReceiveTest, Goto
    <3> QED BY <3>1
  <2>2. CASE ~ReceiveTest
    <3>1. pc'[R] = "gone" => pc[R] = "gone" BY <2>2, PlacesApart
    <3> QED BY <3>1, <1>e, <1>g, Zenon DEF EndShape
  <2> QED BY <2>1, <2>2
<1>7. (/\ pc[S] \notin {"test", "gone", "notgone", "flush", "receive", "look", "again"}
       /\ pc[R] \notin {"send", "check", "peergone", "peer", "count", "finish", "notify"})'
  BY PlacesApart
<1>8. (pc[R] = "new" => result[R] = "none")'
  <2>1. SUFFICES ASSUME pc'[R] = "new" PROVE result'[R] = "none" OBVIOUS
  <2>2. ~attached'[R] BY <2>1, <1>0, <1>1
  <2>3. pc[R] \in {"new", "dead"} BY <2>2, <1>0, <1>e, AttachedStays DEF EndShape
  <2>4. CASE pc[R] = "dead" BY <2>1, <2>4, <1>0, GoneStays DEF Gone
  <2>5. CASE pc[R] = "new"
    <3>1. result'[R] = result[R] BY <2>5, PlacesApart
    <3> QED BY <2>5, <3>1, <1>e DEF EndShape
  <2> QED BY <2>3, <2>4, <2>5
<1>9. (pc[R] = "again" => mq_detached /\ ~Enough)'
  <2>1. CASE ReceiveDetached
    <3>1. mq_detached' /\ ~Enough /\ UNCHANGED <<mq_bytes_read, receiver>> BY <2>1 DEF ReceiveDetached
    <3>2. Enough' = Enough BY <3>1 DEF Enough, used, offset, bytes_needed, receiver
    <3> QED BY <3>1, <3>2
  <2>2. CASE ~ReceiveDetached
    <3>1. SUFFICES ASSUME pc'[R] = "again" PROVE mq_detached' /\ ~Enough' OBVIOUS
    <3>2. pc[R] = "again" BY <2>2, <3>1, PlacesApart
    <3>3. ~Move(R) BY <2>2, <3>1 DEF Move
    <3>4. UNCHANGED <<mq_bytes_read, receiver>>
      BY <3>3, <1>0, Moves, SMTT(60) DEF Move, Still, Receivers
    <3>5. Enough' = Enough BY <3>4 DEF Enough, used, offset, bytes_needed, receiver
    <3> QED BY <3>2, <3>5, <1>e, <1>g DEF EndShape
  <2> QED BY <2>1, <2>2
<1>10. (pc[S] \in {"peer", "notify"} => result[S] # "DETACHED")'
  <2>1. CASE Move(S)
    <3>1. pc'[S] \in {"peer", "notify"} => ~mq_detached /\ result'[S] = result[S] BY <2>1 DEF Move
    <3> QED BY <3>1, <1>0, <1>e DEF EndShape
  <2>2. CASE Move(R) \/ Still
    <3>1. pc'[S] = pc[S] /\ result'[S] = result[S] BY <2>2, <1>0 DEF Move, Still
    <3> QED BY <3>1, <1>e DEF EndShape
  <2> QED BY <2>1, <2>2, <1>0, Moves
<1> QED BY <1>1, <1>2, <1>3, <1>4, <1>5, <1>6, <1>7, <1>8, <1>9, <1>10 DEF EndShape

\* The invariant holds initially.
LEMMA InitInv == ASSUME Init PROVE IInv
<1>0. S \in Sides /\ R \in Sides BY SidesTwo
<1>1. ControlType
  <2>1. pc \in [Sides -> PCs] BY DEF Init, PCs
  <2>2. result \in [Sides -> {"none", "SUCCESS", "WOULD_BLOCK", "DETACHED"}] BY DEF Init
  <2>3. /\ attached \in [Sides -> BOOLEAN] /\ latch \in [Sides -> BOOLEAN]
        /\ nowait \in [Sides -> BOOLEAN] /\ known \in [Sides -> BOOLEAN]
    BY DEF Init
  <2>4. mqh_handle \in Launchers /\ mq_detached \in BOOLEAN BY Zenon DEF Init
  <2>5. foreign \in 0 .. MaxForeign
    <3>1. foreign = 0 BY DEF Init
    <3> QED BY <3>1
  <2> QED BY <2>1, <2>2, <2>3, <2>4, <2>5, Zenon DEF ControlType, Results
<1>2. DataType
  <2>1. mq_ring \in [0 .. mq_ring_size - 1 -> Nat \X Nat] BY DEF Init
  <2>2. received \in [count : Nat, msg : [at : Nat \cup {NONE}, len : Nat, data : Seq(Nat \X Nat)]]
    <3>1. <<>> \in Seq(Nat \X Nat) OBVIOUS
    <3> QED BY <3>1 DEF Init, None
  <2>3. msgs \in Seq(Nat) /\ begin \in Seq(Nat) /\ partial \in Seq(Nat \X Nat) BY DEF Init
  <2>4. /\ mq_bytes_read = 0 /\ mq_bytes_written = 0 /\ rb = 0 /\ put = 0 /\ sent = 0
        /\ written = 0 /\ pending = 0 /\ expected = NONE /\ complete = 0
    BY Zenon DEF Init
  <2> QED BY <2>1, <2>2, <2>3, <2>4, SMTT(60) DEF DataType
<1>3. RingIntact BY <1>0 DEF Init, RingIntact
<1>4. SendShape BY <1>0 DEF Init, SendShape, InCall
<1>5. RecvShape BY DEF Init, RecvShape, Pos, NONE
<1>6. HeldShape BY <1>0 DEF Init, HeldShape
<1>7. EndShape BY <1>0 DEF Init, EndShape, Gone
<1> QED BY <1>1, <1>2, <1>3, <1>4, <1>5, <1>6, <1>7, TypeHalves DEF IInv

\* Every step preserves the invariant.
LEMMA StepInv == ASSUME IInv, [Next]_vars PROVE IInv'
<1>1. CASE Next
  BY <1>1, TypeHalves, ControlTypes, DataTypes, RingHalves, CountersStep, CellsStep, SendHalves, LayoutStep, PlaceStep,
     RecvStep, HeldStep, EndStep, Zenon DEF IInv
<1>2. CASE UNCHANGED vars
  <2>u. /\ UNCHANGED <<mqh_handle, attached, mq_detached, mq_bytes_read, mq_bytes_written, mq_ring>>
        /\ UNCHANGED <<latch, foreign, pc, nowait, result, known, rb, put, sent, written, pending, partial, expected>>
        /\ UNCHANGED <<msgs, begin, complete, received>>
    BY <1>2 DEF vars, ends, wait, sender, receiver, history
  <2>1. TypeOK' BY <2>u DEF IInv, TypeOK
  <2>2. RingIntact' BY <2>u DEF IInv, RingIntact, Cell
  <2>3. SendShape' BY <2>u DEF IInv, SendShape, InCall, Len0
  <2>4. RecvShape' BY <2>u DEF IInv, RecvShape, Pos, NextCell
  <2>5. HeldShape' BY <2>u DEF IInv, HeldShape
  <2>6. EndShape'
    <3>1. Enough' <=> Enough BY <2>u DEF Enough, used, bytes_needed, offset
    <3> QED BY <2>u, <3>1 DEF IInv, EndShape, Gone
  <2> QED BY <2>1, <2>2, <2>3, <2>4, <2>5, <2>6 DEF IInv
<1> QED BY <1>1, <1>2

\* The inductive invariant: types, ring, and the places of sender and receiver in the
\* sequence of messages hold in every reachable state of shm_mq.c.
THEOREM Invariant == Spec => []IInv
<1>1. Init => IInv BY InitInv
<1>2. IInv /\ [Next]_vars => IInv' BY StepInv
<1> QED BY <1>1, <1>2, PTL DEF Spec

\* Every variable has its type; in particular the cells stored at once and the cells
\* consumed but not given back never exceed the ring of shm_mq_create.
THEOREM TypeCorrect == Spec => []TypeOK
<1>1. IInv => TypeOK BY DEF IInv
<1> QED BY <1>1, Invariant, PTL

\* The counters are in the order that the assertions of shm_mq_send_bytes and
\* shm_mq_receive_bytes expect, and no cell is overwritten before the receiver has
\* given it back, for every ring size, message length and number of messages.
THEOREM RingSafe == Spec => []RingIntact
<1>1. IInv => RingIntact BY DEF IInv
<1> QED BY <1>1, Invariant, PTL

\* A message returned as a pointer is still in the ring.
LEMMA HeldIntact == ASSUME IInv PROVE ReturnedIntact
<1>1. SUFFICES ASSUME pc[R] = "out", result[R] = "SUCCESS", received.msg.at # NONE
               PROVE  At(received.msg.at, received.msg.len) = Payload(received.count)
  BY DEF ReturnedIntact
<1> DEFINE k == received.count
           n == received.msg.len
           f == received.msg.at
<1>n. /\ mq_bytes_read \in Nat /\ mq_bytes_written \in Nat /\ put \in Nat /\ k \in Nat /\ complete \in Nat
      /\ Len(msgs) \in Nat /\ DOMAIN msgs = 1 .. Len(msgs)
      /\ \A j \in 1 .. Len(msgs) : msgs[j] \in Nat /\ begin[j] \in Nat
  BY Numbers
<1>2. /\ k > 0 /\ n = msgs[k] /\ mq_bytes_read <= begin[k] + 1
      /\ \A i \in 1 .. n : f + i - 1 = (begin[k] + i) % mq_ring_size
  BY <1>1 DEF IInv, HeldShape
<1>3. k <= complete /\ complete <= Len(msgs) BY DEF IInv, RecvShape, SendShape
<1>4. k \in DOMAIN msgs BY <1>2, <1>3, <1>n, SMTT(60)
<1>5. msgs[k] \in Nat /\ begin[k] \in Nat BY <1>4, <1>n
<1>6. begin[k] + 1 + msgs[k] <= mq_bytes_written BY <1>3, <1>4 DEF IInv, SendShape
<1> HIDE DEF k, n, f
<1>7. ASSUME NEW i \in 1 .. n PROVE mq_ring[f + i - 1] = <<k, i>>
  <2> DEFINE b == begin[k]
  <2>1. b \in Nat /\ n \in Nat /\ mq_bytes_read <= b + 1 /\ b + 1 + n <= mq_bytes_written BY <1>2, <1>5, <1>6
  <2> HIDE DEF b
  <2>2. b + i \in mq_bytes_read .. mq_bytes_written + put - 1 /\ i \in 0 .. n /\ i # 0 BY <2>1, <1>n
  <2>3. mq_ring[(b + i) % mq_ring_size] = Cell(k, i) BY <2>2, <1>2, <1>4 DEF IInv, RingIntact, b
  <2> QED BY <2>2, <2>3, <1>2 DEF Cell, b
<1>8. At(f, n) = Payload(k) BY <1>7, <1>2 DEF At, Payload
<1> QED BY <1>8 DEF k, n, f

\* What shm_mq_receive returned as a pointer into the ring stays as it was until the
\* next call, for every ring size, message length and number of messages.
THEOREM ReturnedSafe == Spec => []ReturnedIntact
<1>1. IInv => ReturnedIntact BY HeldIntact
<1> QED BY <1>1, Invariant, PTL

\* The queue of the refinement mapping.
queue == [i \in 1 .. complete - received.count |-> Payload(received.count + i)]

\* A step is one of one side: the other one stays where it is, with the result it has.
LEMMA OneSide ==
    ASSUME IInv, Next
    PROVE  \/ pc'[S] = pc[S] /\ result'[S] = result[S]
           \/ pc'[R] = pc[R] /\ result'[R] = result[R]
<1>0. S \in Sides /\ R \in Sides /\ S # R BY SidesTwo
<1>1. CASE Still BY <1>1 DEF Still
<1>2. CASE Move(S) BY <1>0, <1>2 DEF Move
<1>3. CASE Move(R) BY <1>0, <1>3 DEF Move
<1> QED BY <1>1, <1>2, <1>3, Moves DEF Sides

\* A side that leaves is told nothing in that step, and the other one neither.
LEMMA LeaveOnly ==
    ASSUME IInv, Next, NEW p \in Sides, ~Gone(p), Gone(p)'
    PROVE  \A q \in Sides : result'[q] = result[q]
<1>1. ~Still BY DEF Still, Gone
<1>2. ASSUME NEW q \in Sides, Move(q) PROVE \A r \in Sides : result'[r] = result[r]
  <2>1. q = p BY <1>2 DEF Move, Gone
  <2> QED BY <1>2, <2>1 DEF Move, Gone
<1> QED BY <1>1, <1>2, Moves

\* Queue and last message, when no message is completed or received.
LEMMA QueueSame ==
    ASSUME IInv, Next, UNCHANGED <<complete, received>>
    PROVE  queue' = queue /\ received'.msg.data = received.msg.data
<1>1. complete \in Nat /\ received.count \in Nat /\ Len(msgs) \in Nat /\ DOMAIN msgs = 1 .. Len(msgs) BY Numbers
<1>2. complete <= Len(msgs) BY DEF IInv, SendShape
<1>3. ASSUME NEW i \in 1 .. complete - received.count PROVE Payload(received.count + i)' = Payload(received.count + i)
  <2>1. received.count + i \in DOMAIN msgs BY <1>1, <1>2, SMTT(60)
  <2>2. msgs'[received.count + i] = msgs[received.count + i] BY <2>1, HistoryGrows
  <2> QED BY <2>2 DEF Payload
<1>4. queue' = queue BY <1>3 DEF queue
<1> QED BY <1>4

\* A step that completes and delivers nothing: a side leaves, is told so, or nothing.
LEMMA QuietStep ==
    ASSUME IInv, Next, UNCHANGED <<complete, received>>
    PROVE  [Queue!Next]_(Queue!queuevars)
<1> DEFINE sending == pc[S] \notin {"dead", "detached"}
           receiving == pc[R] \notin {"dead", "detached"}
           refused == result[S] = "DETACHED"
           ended == result[R] = "DETACHED"
           got == received.msg.data
<1>0. S \in Sides /\ R \in Sides BY SidesTwo
<1>1. queue' = queue /\ got' = got BY QueueSame
<1>2. /\ refused => refused'
      /\ ended => ended'
      /\ ~sending => ~sending'
      /\ ~receiving => ~receiving'
  BY <1>0, Told, GoneStays DEF Gone
<1>3. /\ ~refused /\ refused' => ~receiving
      /\ ~ended /\ ended' => ~sending /\ queue = <<>>
  <2>1. ~refused /\ refused' => Gone(R) BY Told, Zenon
  <2>2. ~ended /\ ended' => Gone(S) /\ complete = received.count BY Told, Zenon
  <2>3. complete = received.count => queue = <<>>
    <3>1. complete \in Nat /\ received.count \in Nat BY Numbers
    <3>2. complete = received.count => 1 .. complete - received.count = {} BY <3>1
    <3> QED BY <3>2 DEF queue
  <2> QED BY <2>1, <2>2, <2>3 DEF Gone
<1>4. sending # sending' \/ receiving # receiving' => refused' = refused /\ ended' = ended
  BY <1>0, <1>2, LeaveOnly DEF Gone
<1>5. \/ sending' = sending /\ refused' = refused
      \/ receiving' = receiving /\ ended' = ended
  BY OneSide
<1>6. CASE sending # sending'
  <2>1. sending /\ sending' = FALSE /\ receiving' = receiving BY <1>2, <1>5, <1>6
  <2>2. refused' = refused /\ ended' = ended BY <1>4, <1>6
  <2> QED BY <1>1, <2>1, <2>2 DEF Queue!Next, Queue!SenderLeaves, queue
<1>7. CASE sending' = sending /\ receiving # receiving'
  <2>1. receiving /\ receiving' = FALSE BY <1>2, <1>7
  <2>2. refused' = refused /\ ended' = ended BY <1>4, <1>7
  <2> QED BY <1>1, <1>7, <2>1, <2>2 DEF Queue!Next, Queue!ReceiverLeaves, queue
<1>8. CASE sending' = sending /\ receiving' = receiving /\ refused' # refused
  <2>1. ~refused /\ refused' BY <1>2, <1>8
  <2>2. ended' = ended BY <1>5, <1>8
  <2> QED BY <1>1, <1>3, <1>8, <2>1, <2>2 DEF Queue!Next, Queue!Refuse, queue
<1>9. CASE sending' = sending /\ receiving' = receiving /\ refused' = refused /\ ended' # ended
  <2>1. ~ended /\ ended' BY <1>2, <1>9
  <2> QED BY <1>1, <1>3, <1>9, <2>1 DEF Queue!Next, Queue!End, queue
<1>10. CASE sending' = sending /\ receiving' = receiving /\ refused' = refused /\ ended' = ended
  BY <1>1, <1>10 DEF Queue!queuevars, queue
<1> QED BY <1>6, <1>7, <1>8, <1>9, <1>10

\* The last cell of a message is counted: the message is in the queue.
LEMMA SendImplements ==
    ASSUME IInv, shm_mq_inc_bytes_written, complete' = complete + 1
    PROVE  Queue!Send
<1>n. complete \in Nat /\ received.count \in Nat /\ received.count <= complete
  BY Numbers DEF IInv, RecvShape
<1>0. S \in Sides /\ R \in Sides /\ S # R /\ pc \in [Sides -> PCs] /\ Other(R) = S BY SidesTwo DEF IInv, TypeOK
<1>1. /\ pc[S] = "count" /\ pc'[S] \in {"finish", "send"} /\ pc'[R] = pc[R]
      /\ UNCHANGED <<received, msgs, result>>
  BY <1>0 DEF shm_mq_inc_bytes_written, Goto
<1>2. result[R] # "DETACHED"
  <2>1. result[R] = "DETACHED" => Gone(S) BY <1>0 DEF IInv, EndShape
  <2> QED BY <2>1, <1>1 DEF Gone
<1> DEFINE d == complete - received.count
<1>3. d \in Nat /\ complete' - received'.count = d + 1 BY <1>1, <1>n
<1>4. queue = [i \in 1 .. d |-> Payload(received.count + i)]
      /\ queue' = [i \in 1 .. d + 1 |-> Payload(received.count + i)]
  BY <1>1, <1>3 DEF queue, Payload
<1> HIDE DEF d
<1>p. \A i \in 1 .. d + 1 : Payload(received.count + i) \in {Payload(received.count + j) : j \in 1 .. d + 1} OBVIOUS
<1> DEFINE P == {Payload(received.count + j) : j \in 1 .. d + 1}
<1>5. queue \in Seq(P) /\ Len(queue) = d
  <2>1. queue \in [1 .. d -> P] BY <1>3, <1>4
  <2> HIDE DEF P
  <2> QED BY <2>1, <1>3
<1>6. queue' \in Seq(P) /\ Len(queue') = d + 1
  <2>1. queue' \in [1 .. d + 1 -> P] BY <1>3, <1>4
  <2> HIDE DEF P
  <2> QED BY <2>1, <1>3
<1>7. SubSeq(queue', 1, Len(queue)) = queue
  <2> DEFINE f == queue
             g == queue'
  <2>1. f = [i \in 1 .. d |-> Payload(received.count + i)] /\ \A i \in 1 .. d : g[i] = f[i] BY <1>3, <1>4, SMTT(60)
  <2>2. f \in Seq(P) /\ Len(f) = d /\ g \in Seq(P) /\ Len(g) = d + 1 BY <1>5, <1>6
  <2> HIDE DEF f, g, P
  <2>3. SubSeq(g, 1, d) = f BY <2>1, <2>2, <1>3, SMTT(60)
  <2> QED BY <2>2, <2>3 DEF f, g
<1>8. Len(queue') = Len(queue) + 1 BY <1>5, <1>6
<1>9. /\ pc[S] \notin {"dead", "detached"} /\ ~(result[R] = "DETACHED")
      /\ (pc'[S] \notin {"dead", "detached"}) = (pc[S] \notin {"dead", "detached"})
      /\ (pc'[R] \notin {"dead", "detached"}) = (pc[R] \notin {"dead", "detached"})
      /\ (result'[S] = "DETACHED") = (result[S] = "DETACHED") /\ (result'[R] = "DETACHED") = (result[R] = "DETACHED")
      /\ received'.msg.data = received.msg.data
  BY <1>1, <1>2
<1> QED BY <1>7, <1>8, <1>9, Zenon DEF Queue!Send, queue

\* Sequences with the same elements are equal.
LEMMA SeqEqual ==
    ASSUME NEW T, NEW s \in Seq(T), NEW t \in Seq(T), Len(s) = Len(t), \A i \in 1 .. Len(s) : s[i] = t[i]
    PROVE  s = t
OBVIOUS

\* The receiver returns the message at the head of the queue.
LEMMA ReceiveImplements ==
    ASSUME IInv, Next, ReceiveLength \/ ReceiveData, received' # received
    PROVE  Queue!Receive
<1> DEFINE k == received.count + 1
<1>0. S \in Sides /\ R \in Sides /\ S # R /\ pc \in [Sides -> PCs] BY SidesTwo DEF IInv, TypeOK
<1>n. complete \in Nat /\ received.count \in Nat BY Numbers
<1>1. received'.count = k /\ received'.msg.data = Payload(k)
  <2>1. CASE ReceiveLength
    <3> DEFINE n == mq_ring[offset][2]
    <3>1. chunk >= 1 + n BY <2>1 DEF ReceiveLength
    <3>2. At(offset + 1, n) = Payload(k) BY <2>1, <3>1, LengthFacts DEF ReceiveLength
    <3>3. received' = [count |-> k, msg |-> [at |-> offset + 1, len |-> n, data |-> At(offset + 1, n)]]
      BY <2>1, <3>1, Zenon DEF ReceiveLength, ReturnInRing
    <3> QED BY <3>2, <3>3
  <2>2. CASE ReceiveData
    <3> DEFINE n == IF chunk < expected - Len(partial) THEN chunk ELSE expected - Len(partial)
    <3>0. pc[R] = "look" /\ Enough /\ expected # NONE BY <2>2 DEF ReceiveData
    <3>1. (n = expected => At(offset, n) = Payload(k))
          /\ (n = expected - Len(partial) => partial \o At(offset, n) = Payload(k))
      <4>1. n = IF chunk < expected - Len(partial) THEN chunk ELSE expected - Len(partial) OBVIOUS
      <4> HIDE DEF n
      <4> QED BY <3>0, <4>1, DataFacts, Zenon
    <3>2. \/ /\ n = expected
             /\ received' = [count |-> received.count + 1, msg |-> [at |-> offset, len |-> n, data |-> At(offset, n)]]
          \/ /\ n = expected - Len(partial)
             /\ received' = [count |-> received.count + 1,
                             msg |-> [at |-> NONE, len |-> expected, data |-> partial \o At(offset, n)]]
      BY <2>2 DEF ReceiveData, ReturnInRing, ReturnCopy
    <3> HIDE DEF n
    <3>3. CASE /\ n = expected
               /\ received' = [count |-> received.count + 1, msg |-> [at |-> offset, len |-> n, data |-> At(offset, n)]]
      <4>1. received'.count = received.count + 1 /\ received'.msg.data = At(offset, n) BY <3>3
      <4> QED BY <3>1, <3>3, <4>1
    <3>4. CASE /\ n = expected - Len(partial)
               /\ received' = [count |-> received.count + 1,
                               msg |-> [at |-> NONE, len |-> expected, data |-> partial \o At(offset, n)]]
      <4>1. received'.count = received.count + 1 /\ received'.msg.data = partial \o At(offset, n) BY <3>4
      <4> QED BY <3>1, <3>4, <4>1, Zenon
    <3> QED BY <3>2, <3>3, <3>4
  <2> QED BY <2>1, <2>2
<1>2. /\ pc[R] = "look" /\ UNCHANGED <<complete, msgs>> /\ pc'[S] = pc[S]
      /\ result'[S] = result[S]
  BY <1>0 DEF ReceiveLength, ReceiveData, ReturnInRing, ReturnCopy, Goto, Return, IInv, TypeOK
<1>3. result'[R] = "SUCCESS" /\ pc'[R] = "out"
  <2>1. result \in [Sides -> {"none", "SUCCESS", "WOULD_BLOCK", "DETACHED"}] BY DEF IInv, TypeOK
  <2>2. Return(R, "SUCCESS") BY DEF ReceiveLength, ReceiveData, ReturnInRing, ReturnCopy
  <2> QED BY <1>0, <2>1, <2>2 DEF Return, Goto
<1>4. k <= complete
  <2>1. RecvShape' BY RecvStep
  <2> QED BY <2>1, <1>1, <1>2 DEF RecvShape
<1>5. result[R] # "DETACHED"
  <2>1. result[R] = "DETACHED" => complete = received.count BY DEF IInv, EndShape
  <2> QED BY <2>1, <1>4, <1>n
<1> DEFINE d == complete - received.count
<1>6. d \in Nat \ {0} /\ complete' - received'.count = d - 1 BY <1>1, <1>2, <1>4, <1>n
<1>7. queue = [i \in 1 .. d |-> Payload(received.count + i)]
      /\ queue' = [i \in 1 .. d - 1 |-> Payload(k + i)]
  BY <1>1, <1>2, <1>6 DEF queue, Payload
<1> HIDE DEF d
<1> DEFINE P == {Payload(received.count + j) : j \in 1 .. d}
           f == queue
           g == queue'
<1>8. f \in Seq(P) /\ Len(f) = d
  <2>1. f \in [1 .. d -> P] BY <1>6, <1>7
  <2> HIDE DEF P, f
  <2> QED BY <2>1, <1>6
<1>9. f[1] = Payload(k) /\ \A i \in 1 .. d - 1 : g[i] = f[i + 1]
  <2>1. \A i \in 1 .. d - 1 : i + 1 \in 1 .. d /\ received.count + (i + 1) = k + i BY <1>6, <1>n
  <2> QED BY <2>1, <1>6, <1>7, SMTT(60)
<1>10. g \in [1 .. d - 1 -> P]
  <2>1. \A i \in 1 .. d - 1 : i + 1 \in 1 .. d /\ received.count + (i + 1) = k + i BY <1>6, <1>n
  <2> QED BY <2>1, <1>7
<1> HIDE DEF P, f, g
<1>11. Head(f) = Payload(k) /\ f # <<>> BY <1>6, <1>8, <1>9, SMTT(60)
<1>12. Tail(f) = g
  <2>1. /\ Tail(f) \in Seq(P) /\ Len(Tail(f)) = d - 1 /\ \A i \in 1 .. d - 1 : Tail(f)[i] = f[i + 1]
    BY <1>6, <1>8
  <2>2. g \in Seq(P) /\ Len(g) = d - 1 BY <1>6, <1>10
  <2>3. Len(Tail(f)) = Len(g) /\ \A i \in 1 .. Len(Tail(f)) : Tail(f)[i] = g[i] BY <2>1, <2>2, <1>9
  <2> QED BY <2>1, <2>2, <2>3, SeqEqual, Zenon
<1>13. /\ pc[R] \notin {"dead", "detached"} /\ ~(result[R] = "DETACHED")
       /\ (pc'[S] \notin {"dead", "detached"}) = (pc[S] \notin {"dead", "detached"})
       /\ (pc'[R] \notin {"dead", "detached"}) = (pc[R] \notin {"dead", "detached"})
       /\ (result'[S] = "DETACHED") = (result[S] = "DETACHED") /\ (result'[R] = "DETACHED") = (result[R] = "DETACHED")
  BY <1>2, <1>3, <1>5
<1>14. received'.msg.data = Head(queue) /\ queue # <<>> /\ queue' = Tail(queue) BY <1>1, <1>11, <1>12, Zenon DEF f, g
<1> QED BY <1>13, <1>14, Zenon DEF Queue!Receive, queue

\* The ring, its counters and flags implement the queue that its users see, for every
\* ring size, message length and number of messages: messages arrive whole, in order
\* and once, and a side is told that the other one has left only when it has, the
\* receiver not before it has got everything.
THEOREM QueueImplemented == Spec => ImplementsQueue
<1>1. Init => Queue!Init
  <2>1. SUFFICES ASSUME Init PROVE Queue!Init OBVIOUS
  <2>2. S \in Sides /\ R \in Sides BY SidesTwo
  <2>3. [i \in 1 .. complete - received.count |-> Payload(received.count + i)] = <<>> BY <2>1 DEF Init
  <2>4. received.msg.data = <<>> BY <2>1 DEF Init, None
  <2>5. pc[S] = "new" /\ pc[R] = "new" /\ result[S] = "none" /\ result[R] = "none" BY <2>1, <2>2 DEF Init
  <2> QED BY <2>3, <2>4, <2>5 DEF Queue!Init
<1>2. IInv /\ [Next]_vars => [Queue!Next]_(Queue!queuevars)
  <2>1. SUFFICES ASSUME IInv, [Next]_vars PROVE [Queue!Next]_(Queue!queuevars) OBVIOUS
  <2>2. CASE UNCHANGED vars
    <3>1. UNCHANGED <<complete, received, msgs, pc, result>> BY <2>2 DEF vars, history
    <3> QED BY <3>1 DEF Queue!queuevars, Payload
  <2>3. CASE Next
    <3>1. CASE UNCHANGED <<complete, received>> BY <2>1, <2>3, <3>1, QuietStep
    <3>2. CASE received' # received
      <4>1. ReceiveLength \/ ReceiveData BY <2>1, <2>3, <3>2, CountBy
      <4> QED BY <2>1, <2>3, <3>2, <4>1, ReceiveImplements DEF Queue!Next
    <3>3. CASE complete' # complete
      <4>1. shm_mq_inc_bytes_written /\ complete' = complete + 1
        <5>1. shm_mq_inc_bytes_written BY <2>1, <2>3, <3>3, CompleteBy
        <5> QED BY <5>1, <3>3 DEF shm_mq_inc_bytes_written
      <4> QED BY <2>1, <4>1, SendImplements DEF Queue!Next
    <3> QED BY <3>1, <3>2, <3>3
  <2> QED BY <2>1, <2>2, <2>3
<1> QED BY <1>1, <1>2, Invariant, PTL DEF Spec, ImplementsQueue, Queue!Spec
====
