------------------------------- MODULE ShmMq -------------------------------
(***************************************************************************)
(* Shared message queues, storage/ipc/shm_mq.c: a ring buffer between one  *)
(* sender and one receiver, who wait for each other with their latches,    *)
(* may attach in any order, may die before they do and may detach.         *)
(*                                                                         *)
(* The unit is one MAXALIGN'd cell: the length word takes one, a payload   *)
(* is counted in cells.  A read of a variable that the other side writes   *)
(* is a step, except that shm_mq_counterparty_gone and one round of        *)
(* shm_mq_wait_internal are: what they read only ever changes from FALSE   *)
(* to TRUE, so that each outcome is that of one moment.  A store and the   *)
(* SetLatch that follows it are one step, since latches may be set at any  *)
(* time anyway.  Blocking callers sleep inside the routine; after          *)
(* SHM_MQ_WOULD_BLOCK the caller waits for its latch, resets it and calls  *)
(* again, as the comments ask for.                                         *)
(***************************************************************************)
EXTENDS Integers, Sequences

CONSTANTS
    S, R,          \* the sender and the receiver
    mq_ring_size,
    Lens,          \* payload lengths
    Launchers,     \* the sides that may have started the other one as a background worker
    MaxMessages,   \* bound on the messages of a behaviour
    MaxForeign     \* bound on latch settings by others

ASSUME ShmMqAssumption ==
    /\ S # R /\ Launchers \subseteq {S, R}
    /\ mq_ring_size \in Nat \ {0} /\ Lens \subseteq Nat
    /\ MaxMessages \in Nat /\ MaxForeign \in Nat

Sides == {S, R}
Other(p) == IF p = S THEN R ELSE S

VARIABLES
    attached,                        \* mq_sender, mq_receiver: set or not
    mq_detached, mq_bytes_read, mq_bytes_written, mq_ring,
    mqh_handle,                      \* the side with a BackgroundWorkerHandle of the other one
    latch, foreign,                  \* the process latches; latch settings by others so far
    pc, nowait, result,              \* step, argument and last result of a side
    known,                           \* mqh_counterparty_attached
    rb, put,                         \* shm_mq_send_bytes: rb; cells stored but not counted
    sent,                            \* cells of the current message sent, its length word included
    written,                         \* shm_mq_receive_bytes: written
    pending, partial, expected,      \* mqh_consume_pending, mqh_buffer's contents, expected_bytes
    msgs,      \* history: the lengths of the messages begun
    begin,     \* history: the values of mq_bytes_written at which they begin
    complete,  \* history: the number of messages whose last cell has been counted
    received   \* history: the number of messages returned, and the last one

ends == <<mqh_handle, attached>>
wait == <<latch, foreign>>
sender == <<rb, put, sent>>
receiver == <<written, pending, partial, expected>>
history == <<msgs, begin, complete, received>>
vars == <<ends, mq_detached, mq_bytes_read, mq_bytes_written, mq_ring, wait, pc, nowait, result,
          known, sender, receiver, history>>

NONE == -1    \* no length word yet
None == [at |-> NONE, len |-> 0, data |-> <<>>]

Init ==
    /\ attached = [p \in Sides |-> FALSE] /\ mq_detached = FALSE
    /\ mqh_handle \in Launchers
    /\ mq_bytes_read = 0 /\ mq_bytes_written = 0
    /\ mq_ring = [i \in 0 .. mq_ring_size - 1 |-> <<0, 0>>]
    /\ latch = [p \in Sides |-> FALSE] /\ foreign = 0
    /\ pc = [p \in Sides |-> "new"] /\ nowait = [p \in Sides |-> FALSE]
    /\ result = [p \in Sides |-> "none"] /\ known = [p \in Sides |-> FALSE]
    /\ rb = 0 /\ put = 0 /\ sent = 0
    /\ written = 0 /\ pending = 0 /\ partial = <<>> /\ expected = NONE
    /\ msgs = <<>> /\ begin = <<>> /\ complete = 0
    /\ received = [count |-> 0, msg |-> None]

Goto(p, step) == pc' = [pc EXCEPT ![p] = step]
SetLatch(p) == latch' = [latch EXCEPT ![p] = TRUE] /\ UNCHANGED foreign
Return(p, res) ==
    /\ result' = [result EXCEPT ![p] = res] /\ nowait' = [nowait EXCEPT ![p] = FALSE]
    /\ Goto(p, IF res = "WOULD_BLOCK" THEN "blocked" ELSE "out")
----------------------------------------------------------------------------
(* Attaching, dying, detaching, latches *)

\* shm_mq_set_sender, shm_mq_set_receiver and shm_mq_attach.
Attach(p) ==
    /\ pc[p] = "new" /\ Goto(p, "out")
    /\ attached' = [attached EXCEPT ![p] = TRUE]
    /\ IF attached[Other(p)] THEN SetLatch(Other(p)) ELSE UNCHANGED wait
    /\ UNCHANGED <<mqh_handle, mq_detached, mq_bytes_read, mq_bytes_written, mq_ring, nowait, result, known,
                   sender, receiver, history>>

\* A worker dies before it attaches; who holds its handle is notified.
Die(p) ==
    /\ pc[p] = "new" /\ Goto(p, "dead")
    /\ IF mqh_handle = Other(p) THEN SetLatch(Other(p)) ELSE UNCHANGED wait
    /\ UNCHANGED <<ends, mq_detached, mq_bytes_read, mq_bytes_written, mq_ring, nowait, result,
                   known, sender, receiver, history>>

\* shm_mq_detach between calls, or the on_dsm_detach callback after an interrupt in
\* one of the waits.
shm_mq_detach_internal(p) ==
    /\ pc[p] \in {"out", "blocked", "asleep", "awaiting"} /\ Goto(p, "detached")
    /\ mq_detached' = TRUE
    /\ IF attached[Other(p)] THEN SetLatch(Other(p)) ELSE UNCHANGED wait
    /\ UNCHANGED <<ends, mq_bytes_read, mq_bytes_written, mq_ring, nowait, result, known, sender,
                   receiver, history>>

ForeignSetLatch(p) ==
    /\ foreign < MaxForeign /\ foreign' = foreign + 1
    /\ ~latch[p] /\ latch' = [latch EXCEPT ![p] = TRUE]
    /\ UNCHANGED <<ends, mq_detached, mq_bytes_read, mq_bytes_written, mq_ring, pc, nowait, result,
                   known, sender, receiver, history>>

\* Where a call begins.
Entry(p, b) == IF p = S THEN "send" ELSE IF known[R] THEN "flush" ELSE IF b THEN "test" ELSE "await"

\* WaitLatch and ResetLatch; then the side looks again where it was, or, after
\* SHM_MQ_WOULD_BLOCK, its caller calls again.
Wake(p) ==
    /\ latch[p] /\ latch' = [latch EXCEPT ![p] = FALSE]
    /\ \/ pc[p] = "asleep" /\ Goto(p, IF p = S THEN "send" ELSE "receive") /\ UNCHANGED nowait
       \/ pc[p] = "awaiting" /\ Goto(p, "await") /\ UNCHANGED nowait
       \/ /\ pc[p] = "blocked"
          /\ \E b \in BOOLEAN : Goto(p, Entry(p, b)) /\ nowait' = [nowait EXCEPT ![p] = b]
    /\ UNCHANGED <<ends, mq_detached, mq_bytes_read, mq_bytes_written, mq_ring, foreign, result,
                   known, sender, receiver, history>>

\* The handle tells that the other side has died.
HandleDead(p) == mqh_handle = p /\ pc[Other(p)] = "dead"

\* shm_mq_counterparty_gone
shm_mq_counterparty_gone(p) == mq_detached \/ HandleDead(p)
----------------------------------------------------------------------------
(* shm_mq_sendv and shm_mq_send_bytes *)

Len0 == msgs[Len(msgs)]                     \* the payload length of the current message
Cell(k, i) == IF i = 0 THEN <<0, msgs[k]>> ELSE <<k, i>>     \* cell i of message k
Payload(k) == [i \in 1 .. msgs[k] |-> <<k, i>>]

shm_mq_sendv(n, b) ==
    /\ pc[S] = "out" /\ Goto(S, "send")
    /\ Len(msgs) < MaxMessages
    /\ msgs' = Append(msgs, n) /\ begin' = Append(begin, mq_bytes_written)
    /\ nowait' = [nowait EXCEPT ![S] = b]
    /\ UNCHANGED <<ends, mq_detached, mq_bytes_read, mq_bytes_written, mq_ring, wait, result, known,
                   sender, receiver, complete, received>>

\* The length word and the payload are two calls of shm_mq_send_bytes.
nbytes == IF sent = 0 THEN 1 ELSE 1 + Len0 - sent

\* Mutant: what the receiver has not read is not counted.
availableAll == IF mq_ring_size < nbytes THEN mq_ring_size ELSE nbytes

available == LET free == mq_ring_size - (mq_bytes_written - rb)
             IN  IF free < nbytes THEN free ELSE nbytes

ReadBytesRead ==
    /\ pc[S] = "send" /\ Goto(S, "check")
    /\ rb' = mq_bytes_read
    /\ UNCHANGED <<ends, mq_detached, mq_bytes_read, mq_bytes_written, mq_ring, wait, nowait, result,
                   known, put, sent, receiver, history>>

SendDetached ==
    /\ pc[S] = "check" /\ mq_detached
    /\ Return(S, "DETACHED") /\ sent' = 0
    /\ rb' = 0
    /\ UNCHANGED <<ends, mq_detached, mq_bytes_read, mq_bytes_written, mq_ring, wait, known,
                   put, receiver, history>>

\* The ring is full and the receiver is not known to have attached.
SendUnattached ==
    /\ pc[S] = "check" /\ ~mq_detached /\ available = 0 /\ ~known[S]
    /\ Goto(S, IF nowait[S] THEN "peergone" ELSE "await")
    /\ rb' = 0
    /\ UNCHANGED <<ends, mq_detached, mq_bytes_read, mq_bytes_written, mq_ring, wait, nowait, result,
                   known, put, sent, receiver, history>>

\* Without waiting: is the receiver gone?
SendTest ==
    /\ pc[S] = "peergone" /\ mq_detached' = shm_mq_counterparty_gone(S)
    /\ IF shm_mq_counterparty_gone(S)
         THEN Return(S, "DETACHED") /\ sent' = 0
         ELSE Goto(S, "peer") /\ UNCHANGED <<nowait, result, sent>>
    /\ UNCHANGED <<ends, mq_bytes_read, mq_bytes_written, mq_ring, wait, known, rb, put, receiver, history>>

\* Has it attached?  Then the sender looks again.
SendPeer ==
    /\ pc[S] = "peer"
    /\ IF attached[R]
         THEN Goto(S, "send") /\ known' = [known EXCEPT ![S] = TRUE] /\ UNCHANGED <<nowait, result>>
         ELSE Return(S, "WOULD_BLOCK") /\ UNCHANGED known
    /\ UNCHANGED <<ends, mq_detached, mq_bytes_read, mq_bytes_written, mq_ring, wait, sender, receiver, history>>

\* The ring is full: the receiver is told to drain it.
SendFull ==
    /\ pc[S] = "check" /\ ~mq_detached /\ available = 0 /\ known[S]
    /\ SetLatch(R)
    /\ IF nowait[S] THEN Return(S, "WOULD_BLOCK") ELSE Goto(S, "asleep") /\ UNCHANGED <<nowait, result>>
    /\ rb' = 0
    /\ UNCHANGED <<ends, mq_detached, mq_bytes_read, mq_bytes_written, mq_ring, known,
                   put, sent, receiver, history>>

sendnow == LET toEnd == mq_ring_size - (mq_bytes_written % mq_ring_size)
           IN  IF available < toEnd THEN available ELSE toEnd

SendCopy ==
    LET offset == mq_bytes_written % mq_ring_size IN
    /\ pc[S] = "check" /\ ~mq_detached /\ available > 0 /\ Goto(S, "count")
    /\ put' = sendnow
    /\ mq_ring' = [i \in DOMAIN mq_ring |->
                       IF i - offset \in 0 .. sendnow - 1 THEN Cell(Len(msgs), sent + i - offset)
                                                          ELSE mq_ring[i]]
    /\ rb' = 0
    /\ UNCHANGED <<ends, mq_detached, mq_bytes_read, mq_bytes_written, wait, nowait, result, known,
                   sent, receiver, history>>

shm_mq_inc_bytes_written ==
    /\ pc[S] = "count" /\ Goto(S, IF sent + put = 1 + Len0 THEN "finish" ELSE "send")
    /\ mq_bytes_written' = mq_bytes_written + put
    /\ sent' = sent + put /\ put' = 0
    /\ complete' = IF sent' = 1 + Len0 THEN complete + 1 ELSE complete
    /\ UNCHANGED <<ends, mq_detached, mq_bytes_read, mq_ring, wait, nowait, result, known, rb,
                   receiver, msgs, begin, received>>

\* The message is complete, unless the queue has been detached in the meantime.
SendFinish ==
    /\ pc[S] = "finish" /\ sent' = 0
    /\ IF mq_detached THEN Return(S, "DETACHED") ELSE Goto(S, "notify") /\ UNCHANGED <<nowait, result>>
    /\ UNCHANGED <<ends, mq_detached, mq_bytes_read, mq_bytes_written, mq_ring, wait, known, rb, put,
                   receiver, history>>

\* Mutant: the receiver is not told about the new message.
NotifyNone == UNCHANGED wait

Notify == IF attached[R] THEN SetLatch(R) ELSE UNCHANGED wait

SendNotify ==
    /\ pc[S] = "notify" /\ Return(S, "SUCCESS") /\ Notify
    /\ known' = [known EXCEPT ![S] = @ \/ attached[R]]
    /\ UNCHANGED <<ends, mq_detached, mq_bytes_read, mq_bytes_written, mq_ring, sender, receiver, history>>

\* shm_mq_wait_internal, for the other side to attach.
Await(p) ==
    /\ pc[p] = "await"
    /\ \/ /\ ~mq_detached /\ attached[Other(p)]
          /\ known' = [known EXCEPT ![p] = TRUE] /\ Goto(p, IF p = S THEN "send" ELSE "flush")
          /\ UNCHANGED <<mq_detached, nowait, result, sent>>
       \/ /\ ~mq_detached /\ ~attached[Other(p)] /\ ~HandleDead(p)
          /\ Goto(p, "awaiting") /\ UNCHANGED <<mq_detached, nowait, result, known, sent>>
       \/ /\ shm_mq_counterparty_gone(p)
          /\ IF p = R /\ attached[S]
               THEN /\ known' = [known EXCEPT ![R] = TRUE] /\ Goto(R, "flush")
                    /\ UNCHANGED <<mq_detached, nowait, result, sent>>
               ELSE /\ mq_detached' = TRUE /\ Return(p, "DETACHED")
                    /\ sent' = IF p = S THEN 0 ELSE sent
                    /\ UNCHANGED known
    /\ UNCHANGED <<ends, mq_bytes_read, mq_bytes_written, mq_ring, wait, rb, put, receiver,
                   history>>
----------------------------------------------------------------------------
(* shm_mq_receive and shm_mq_receive_bytes *)

shm_mq_receive(b) ==
    /\ pc[R] = "out" /\ Goto(R, Entry(R, b))
    /\ nowait' = [nowait EXCEPT ![R] = b]
    /\ UNCHANGED <<ends, mq_detached, mq_bytes_read, mq_bytes_written, mq_ring, wait, result, known,
                   sender, receiver, history>>

\* Without waiting: is the sender gone?  That is found out before ...
ReceiveTest ==
    /\ pc[R] = "test" /\ Goto(R, IF shm_mq_counterparty_gone(R) THEN "gone" ELSE "notgone")
    /\ mq_detached' = shm_mq_counterparty_gone(R)
    /\ UNCHANGED <<ends, mq_bytes_read, mq_bytes_written, mq_ring, wait, nowait, result, known,
                   sender, receiver, history>>

\* ... whether it has ever attached.
ReceiveUnattached ==
    /\ pc[R] \in {"gone", "notgone"}
    /\ IF attached[S]
         THEN Goto(R, "flush") /\ known' = [known EXCEPT ![R] = TRUE] /\ UNCHANGED <<nowait, result>>
         ELSE Return(R, IF pc[R] = "gone" THEN "DETACHED" ELSE "WOULD_BLOCK") /\ UNCHANGED known
    /\ UNCHANGED <<ends, mq_detached, mq_bytes_read, mq_bytes_written, mq_ring, wait, sender, receiver, history>>

\* Mutant: the sender is not told that there is room.
IncLatchNone == UNCHANGED wait

IncLatch == SetLatch(S)

shm_mq_inc_bytes_read ==
    IF pending > 0
      THEN mq_bytes_read' = mq_bytes_read + pending /\ pending' = 0 /\ IncLatch
      ELSE UNCHANGED <<mq_bytes_read, pending, wait>>

ReceiveFlush ==
    /\ pc[R] = "flush" /\ Goto(R, "receive")
    /\ IF pending > mq_ring_size \div 4 THEN shm_mq_inc_bytes_read
                                        ELSE UNCHANGED <<mq_bytes_read, pending, wait>>
    /\ UNCHANGED <<ends, mq_detached, mq_bytes_written, mq_ring, nowait, result, known, sender,
                   written, partial, expected, history>>

\* What is in the ring for the receiver, as far as it has seen, and what it needs.
offset == (mq_bytes_read + pending) % mq_ring_size
used == written - (mq_bytes_read + pending)
bytes_needed == IF expected = NONE THEN 1 ELSE expected - Len(partial)
Enough == used >= bytes_needed \/ offset + used >= mq_ring_size
chunk == IF used < mq_ring_size - offset THEN used ELSE mq_ring_size - offset
At(from, n) == [i \in 1 .. n |-> mq_ring[from + i - 1]]

ReadBytesWritten ==
    /\ pc[R] = "receive" /\ Goto(R, "look")
    /\ written' = mq_bytes_written
    /\ UNCHANGED <<ends, mq_detached, mq_bytes_read, mq_bytes_written, mq_ring, wait, nowait, result,
                   known, sender, pending, partial, expected, history>>

\* Mutant: the sender may overwrite the cells at once.
ConsumeAtOnce(n) == mq_bytes_read' = mq_bytes_read + pending + n /\ pending' = 0 /\ IncLatch

\* Cells consumed are given back later.
Consume(n) == pending' = pending + n /\ UNCHANGED <<mq_bytes_read, wait>>

\* A message in one piece is returned as a pointer into the ring.
ReturnInRing(from, n) ==
    /\ received' = [count |-> received.count + 1, msg |-> [at |-> from, len |-> n, data |-> At(from, n)]]
    /\ expected' = NONE /\ Return(R, "SUCCESS") /\ UNCHANGED partial

\* The length word comes first, with or without the whole message.
ReceiveLength ==
    LET n == mq_ring[offset][2] IN
    /\ pc[R] = "look" /\ Enough /\ expected = NONE
    /\ IF chunk >= 1 + n
         THEN ReturnInRing(offset + 1, n) /\ Consume(1 + n)
         ELSE /\ expected' = n /\ Consume(1) /\ Goto(R, "receive")
              /\ UNCHANGED <<partial, nowait, result, received>>
    /\ written' = 0
    /\ UNCHANGED <<ends, mq_detached, mq_bytes_written, mq_ring, known,
                   sender, msgs, begin, complete>>

\* A message put together is returned in the backend's buffer.
ReturnCopy(data) ==
    /\ received' = [count |-> received.count + 1, msg |-> [at |-> NONE, len |-> expected, data |-> data]]
    /\ partial' = <<>> /\ expected' = NONE /\ Return(R, "SUCCESS")

\* Otherwise a message that wraps around or is too long is put together.
ReceiveData ==
    LET still == expected - Len(partial)
        n == IF chunk < still THEN chunk ELSE still
    IN
    /\ pc[R] = "look" /\ Enough /\ expected # NONE
    /\ Consume(n)
    /\ IF n = expected
         THEN ReturnInRing(offset, n)
         ELSE IF n = still
         THEN ReturnCopy(partial \o At(offset, n))
         ELSE /\ partial' = partial \o At(offset, n) /\ Goto(R, "receive")
              /\ UNCHANGED <<expected, nowait, result, received>>
    /\ written' = 0
    /\ UNCHANGED <<ends, mq_detached, mq_bytes_written, mq_ring, known,
                   sender, msgs, begin, complete>>

\* The sender has detached ...
ReceiveDetached ==
    /\ pc[R] = "look" /\ ~Enough /\ mq_detached /\ Goto(R, "again")
    /\ UNCHANGED <<ends, mq_detached, mq_bytes_read, mq_bytes_written, mq_ring, wait, nowait, result, known,
                   sender, receiver, history>>

\* Mutant: what was written just before the detach is not looked at again.
FinalNot == TRUE

\* What was seen is all there is.
Final == written = mq_bytes_written

\* ... maybe after it had written more.
ReceiveAgain ==
    /\ pc[R] = "again" /\ written' = 0
    /\ IF Final THEN Return(R, "DETACHED") ELSE Goto(R, "receive") /\ UNCHANGED <<nowait, result>>
    /\ UNCHANGED <<ends, mq_detached, mq_bytes_read, mq_bytes_written, mq_ring, wait, known,
                   sender, pending, partial, expected, history>>

\* Everything consumed is given back before the receiver waits.
ReceiveEmpty ==
    /\ pc[R] = "look" /\ ~Enough /\ ~mq_detached
    /\ shm_mq_inc_bytes_read
    /\ IF nowait[R] THEN Return(R, "WOULD_BLOCK") ELSE Goto(R, "asleep") /\ UNCHANGED <<nowait, result>>
    /\ written' = 0
    /\ UNCHANGED <<ends, mq_detached, mq_bytes_written, mq_ring, known, sender, partial, expected, history>>
----------------------------------------------------------------------------
Calls ==
    \/ \E n \in Lens, b \in BOOLEAN : shm_mq_sendv(n, b)
    \/ \E b \in BOOLEAN : shm_mq_receive(b)
    \/ \E p \in Sides : Attach(p) \/ Die(p) \/ shm_mq_detach_internal(p) \/ ForeignSetLatch(p)

SendStep ==
    \/ ReadBytesRead \/ SendDetached \/ SendUnattached \/ SendTest \/ SendPeer \/ SendFull \/ SendCopy
    \/ shm_mq_inc_bytes_written \/ SendFinish \/ SendNotify \/ Await(S) \/ Wake(S)

ReceiveStep ==
    \/ ReceiveTest \/ ReceiveUnattached \/ ReceiveFlush \/ ReadBytesWritten \/ ReceiveLength
    \/ ReceiveData \/ ReceiveDetached \/ ReceiveAgain \/ ReceiveEmpty \/ Await(R) \/ Wake(R)

Next == Calls \/ SendStep \/ ReceiveStep
Spec == Init /\ [][Next]_vars

\* A process inside a routine goes on, and after SHM_MQ_WOULD_BLOCK its caller calls
\* again once its latch is set.  Nobody has to send, to receive, to attach or to detach.
FairSpec == Spec /\ WF_vars(SendStep) /\ WF_vars(ReceiveStep)
----------------------------------------------------------------------------
(* Properties *)

PCs == {"new", "dead", "out", "detached", "blocked", "asleep", "awaiting", "await",
        "send", "check", "peergone", "peer", "count", "finish", "notify",
        "test", "gone", "notgone", "flush", "receive", "look", "again"}

TypeOK ==
    /\ mqh_handle \in Launchers /\ attached \in [Sides -> BOOLEAN] /\ mq_detached \in BOOLEAN
    /\ mq_bytes_read \in Nat /\ mq_bytes_written \in Nat
    /\ mq_ring \in [0 .. mq_ring_size - 1 -> Nat \X Nat]
    /\ latch \in [Sides -> BOOLEAN] /\ foreign \in 0 .. MaxForeign
    /\ pc \in [Sides -> PCs]
    /\ nowait \in [Sides -> BOOLEAN]
    /\ result \in [Sides -> {"none", "SUCCESS", "WOULD_BLOCK", "DETACHED"}]
    /\ known \in [Sides -> BOOLEAN]
    /\ rb \in Nat /\ put \in 0 .. mq_ring_size /\ sent \in Nat
    /\ written \in Nat /\ pending \in 0 .. mq_ring_size
    /\ partial \in Seq(Nat \X Nat) /\ expected \in Nat \cup {NONE}
    /\ msgs \in Seq(Nat) /\ begin \in Seq(Nat) /\ complete \in Nat
    /\ received \in [count : Nat, msg : [at : Nat \cup {NONE}, len : Nat, data : Seq(Nat \X Nat)]]

\* The counters are in the order that the assertions of shm_mq_send_bytes and
\* shm_mq_receive_bytes expect, also against values read earlier, and the cells
\* the receiver has not given back are in the ring: unread ones and those it has
\* returned a pointer to; so are those stored and not yet counted.
RingIntact ==
    /\ rb <= mq_bytes_read /\ mq_bytes_read + pending <= mq_bytes_written
    /\ written <= mq_bytes_written /\ mq_bytes_written + put <= mq_bytes_read + mq_ring_size
    /\ pc[S] = "check" => mq_bytes_written <= rb + mq_ring_size
    /\ pc[R] \in {"look", "again"} => mq_bytes_read + pending <= written
    /\ \A k \in DOMAIN msgs : \A i \in 0 .. msgs[k] :
           begin[k] + i \in mq_bytes_read .. mq_bytes_written + put - 1 =>
               mq_ring[(begin[k] + i) % mq_ring_size] = Cell(k, i)

\* "In either case, the return value remains valid until the next receive
\* operation is performed on the queue": the sender does not overwrite a message
\* that was returned as a pointer into the ring.
ReturnedIntact ==
    pc[R] = "out" /\ result[R] = "SUCCESS" /\ received.msg.at # NONE =>
        At(received.msg.at, received.msg.len) = Payload(received.count)

\* A side inside a routine, or waiting to call it again.
InCall(p) == pc[p] \notin {"new", "dead", "out", "detached"}

\* The two sides never wait for each other: if both are inside their routines, one
\* of them gets done.
NoMutualWait == []<>(~InCall(S) \/ ~InCall(R))

\* A side that is gone, as far as the other one can tell.
Left(p) == pc[p] = "detached" \/ HandleDead(Other(p))

\* A receiver gets done when a complete message waits for it or the sender has left,
\* and a sender does when the receiver has left.  (Inside a call, none of these
\* conditions becomes false before the call returns.)
CallReturns ==
    /\ []<>~(InCall(R) /\ (complete > received.count \/ Left(S)))
    /\ []<>~(InCall(S) /\ Left(R))

\* The queue as its users see it.
Queue == INSTANCE MsgQueue WITH
             queue <- [i \in 1 .. complete - received.count |-> Payload(received.count + i)],
             got <- received.msg.data,
             sending <- pc[S] \notin {"dead", "detached"},
             receiving <- pc[R] \notin {"dead", "detached"},
             refused <- result[S] = "DETACHED",
             ended <- result[R] = "DETACHED"

\* Ring, counters, latches and flags implement it: messages arrive whole, in order,
\* none is lost, and a side learns that the other one has left only when it has; the
\* receiver not before it has got everything.
ImplementsQueue == Queue!Spec
====
