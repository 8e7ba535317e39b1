------------------------ MODULE NotificationStream ------------------------
(***************************************************************************)
(* What a subscription promises its subscriber (the doc comments of        *)
(* Client.Subscribe and ClientSubscription.Err, rpc/client.go): the        *)
(* notifications of the server, numbered 1, 2, 3, ..., arrive in order and *)
(* without a gap until the subscription has ended.  From the end on some   *)
(* of what is underway, and some of what still comes, may be lost; what is *)
(* not lost still arrives in order, and nothing arrives twice.             *)
(***************************************************************************)
EXTENDS Naturals, Sequences

VARIABLES
  last,      \* the last notification that has come in
  queue,     \* notifications on their way to the subscriber
  received,  \* what the subscriber has received
  ended      \* the subscription has ended

vars == <<last, queue, received, ended>>

Init ==
  /\ last = 0
  /\ queue = <<>>
  /\ received = <<>>
  /\ ended = FALSE

(* A notification comes in and will be passed on.                           *)
Push ==
  /\ last' = last + 1
  /\ queue' = Append(queue, last + 1)
  /\ UNCHANGED <<received, ended>>

(* The subscriber receives the oldest one.                                  *)
Pop ==
  /\ queue # <<>>
  /\ received' = Append(received, Head(queue))
  /\ queue' = Tail(queue)
  /\ UNCHANGED <<last, ended>>

(* The subscription ends, or has ended: the newest notifications underway,  *)
(* and one that comes in, are lost.                                         *)
End ==
  /\ ended' = TRUE
  /\ last' \in {last, last + 1}
  /\ \E k \in 0 .. Len(queue) : queue' = SubSeq(queue, 1, k)
  /\ UNCHANGED received

Next == Push \/ Pop \/ End

Spec == Init /\ [][Next]_vars
=============================================================================
