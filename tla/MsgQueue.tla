------------------------------ MODULE MsgQueue ------------------------------
(***************************************************************************)
(* What a shared message queue promises: messages from one sender to one   *)
(* receiver, in order; after a side has left the other one is told, the    *)
(* receiver only when it has got everything that was sent.                 *)
(***************************************************************************)
EXTENDS Sequences, Naturals

VARIABLES queue,                 \* complete messages not yet received
          got,                   \* the message received last
          sending, receiving,    \* a side has not left
          refused, ended         \* the sender, the receiver was told that the other one has left

queuevars == <<queue, got, sending, receiving, refused, ended>>

Init ==
    /\ queue = <<>> /\ got = <<>>
    /\ sending = TRUE /\ receiving = TRUE /\ refused = FALSE /\ ended = FALSE

Send ==
    /\ sending /\ ~ended
    /\ Len(queue') = Len(queue) + 1 /\ SubSeq(queue', 1, Len(queue)) = queue
    /\ UNCHANGED <<got, sending, receiving, refused, ended>>

Receive ==
    /\ receiving /\ ~ended
    /\ queue # <<>> /\ got' = Head(queue) /\ queue' = Tail(queue)
    /\ UNCHANGED <<sending, receiving, refused, ended>>

SenderLeaves == sending /\ sending' = FALSE /\ UNCHANGED <<queue, got, receiving, refused, ended>>
ReceiverLeaves == receiving /\ receiving' = FALSE /\ UNCHANGED <<queue, got, sending, refused, ended>>

Refuse == ~receiving /\ refused' = TRUE /\ UNCHANGED <<queue, got, sending, receiving, ended>>
End == ~sending /\ queue = <<>> /\ ended' = TRUE /\ UNCHANGED <<queue, got, sending, receiving, refused>>

Next == Send \/ Receive \/ SenderLeaves \/ ReceiverLeaves \/ Refuse \/ End
Spec == Init /\ [][Next]_queuevars
====
