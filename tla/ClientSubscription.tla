------------------------ MODULE ClientSubscription ------------------------
(***************************************************************************)
(* One subscription of the client of rpc/client.go, from the moment        *)
(* handleResponse has started it: the dispatch loop that delivers          *)
(* notifications, the goroutine of forward with its buffer, the channel of *)
(* the subscriber, the goroutines that call Unsubscribe, and the end of    *)
(* the connection or of the client.                                        *)
(*                                                                         *)
(* RPCClient models the life cycle of many subscriptions and leaves out    *)
(* what they carry.  Here there is one, its notifications are numbered in  *)
(* the order the connection brings them, and the rest of the client is     *)
(* reduced to when dispatch is free and how requestUnsubscribe returns.    *)
(***************************************************************************)
EXTENDS Naturals, Sequences

CONSTANTS
  Length,     \* notifications the server sends
  Malformed,  \* those that do not decode into the channel's element type
  MaxBuffer,  \* maxClientSubscriptionBuffer
  Capacities, \* capacities the subscriber's channel may have, 0: unbuffered
  Owners      \* goroutines that may call Unsubscribe

ASSUME SubscriptionAssumption ==
  /\ Length \in Nat
  /\ MaxBuffer \in Nat \ {0}
  /\ Capacities \subseteq Nat

VARIABLES
  n,           \* notifications dispatch is done with
  dp,          \* where the dispatch goroutine is
  inSubs,      \* the subscription is in c.subs
  fwd,         \* the goroutine running sub.start
  fwdErr,      \* the error forward returned
  buffer,      \* forward's list
  cap,         \* the capacity of the subscriber's channel
  channel,     \* what is buffered in the subscriber's channel
  received,    \* history: what the subscriber has received
  once,        \* quitOnce
  quit,        \* sub.quit is closed
  call,        \* the Call of requestUnsubscribe
  serr,        \* what was sent on sub.err
  serrClosed,  \* sub.err is closed
  usr          \* the goroutines calling Unsubscribe

queueVars == <<fwd, fwdErr, buffer, cap, channel, received>>
endVars   == <<once, quit, call, serr, serrClosed, usr>>
dispVars  == <<n, dp, inSubs>>
vars      == <<dispVars, queueVars, endVars>>

(* newClientSubscription, then go op.sub.start() and the entry in c.subs.   *)
Init ==
  /\ n = 0
  /\ dp = "loop"
  /\ inSubs = TRUE
  /\ fwd = "run"
  /\ fwdErr = "nil"
  /\ buffer = <<>>
  /\ cap \in Capacities
  /\ channel = <<>>
  /\ received = <<>>
  /\ once = "free"
  /\ quit = FALSE
  /\ call = "none"
  /\ serr = "empty"
  /\ serrClosed = FALSE
  /\ usr = [u \in Owners |-> "none"]

-----------------------------------------------------------------------------
(* dispatch and forward.                                                    *)

(* handleNotification finds the subscription and stands in deliver.         *)
Notification ==
  /\ dp = "loop"
  /\ inSubs
  /\ n < Length
  /\ dp' = "deliver"
  /\ UNCHANGED <<n, inSubs, queueVars, endVars>>

(* Mutants: the limit forgotten; the limit off by one.                      *)
Overflows_Never == FALSE
Overflows_Early == Len(buffer) + 1 = MaxBuffer

Overflows == Len(buffer) = MaxBuffer

(* forward returns err: its deferred buffer.Init() drops what is buffered.  *)
ForwardFails(err) ==
  /\ fwd' = "fail"
  /\ fwdErr' = err
  /\ buffer' = <<>>

(* deliver's sub.in <- result meets forward's case <-sub.in.                *)
ForwardIn ==
  /\ dp = "deliver"
  /\ fwd = "run"
  /\ dp' = "loop"
  /\ n' = n + 1
  /\ \/ /\ n + 1 \in Malformed
        /\ ForwardFails("decode")
     \/ /\ n + 1 \notin Malformed
        /\ Overflows
        /\ ForwardFails("overflow")
     \/ /\ n + 1 \notin Malformed
        /\ ~Overflows
        /\ buffer' = Append(buffer, n + 1)
        /\ UNCHANGED <<fwd, fwdErr>>
  /\ UNCHANGED <<inSubs, cap, channel, received, endVars>>

(* Mutant: a select with a default in place of case <-sub.quit.             *)
DeliverQuit_Default ==
  /\ dp = "deliver"
  /\ dp' = "loop"
  /\ n' = n + 1
  /\ UNCHANGED <<inSubs, queueVars, endVars>>

(* deliver: case <-sub.quit; the notification is dropped.                   *)
DeliverQuit ==
  /\ dp = "deliver"
  /\ quit
  /\ dp' = "loop"
  /\ n' = n + 1
  /\ UNCHANGED <<inSubs, queueVars, endVars>>

(* Mutants: the sent value stays in the buffer; a buffer of one value is    *)
(* taken for an idle one.                                                   *)
ForwardSend_Keep ==
  /\ fwd = "run"
  /\ buffer # <<>>
  /\ Len(channel) < cap
  /\ channel' = Append(channel, Head(buffer))
  /\ UNCHANGED <<dispVars, fwd, fwdErr, buffer, cap, received, endVars>>

ForwardSend_Idle ==
  /\ fwd = "run"
  /\ Len(buffer) > 1
  /\ Len(channel) < cap
  /\ channel' = Append(channel, Head(buffer))
  /\ buffer' = Tail(buffer)
  /\ UNCHANGED <<dispVars, fwd, fwdErr, cap, received, endVars>>

(* forward: case sub.channel<- with room in a buffered channel.             *)
ForwardSend ==
  /\ fwd = "run"
  /\ buffer # <<>>
  /\ Len(channel) < cap
  /\ channel' = Append(channel, Head(buffer))
  /\ buffer' = Tail(buffer)
  /\ UNCHANGED <<dispVars, fwd, fwdErr, cap, received, endVars>>

(* forward: case sub.channel<- on an unbuffered channel, joint with the     *)
(* subscriber's receive.                                                    *)
HandOver ==
  /\ cap = 0
  /\ fwd = "run"
  /\ buffer # <<>>
  /\ received' = Append(received, Head(buffer))
  /\ buffer' = Tail(buffer)
  /\ UNCHANGED <<dispVars, fwd, fwdErr, cap, channel, endVars>>

(* The subscriber receives from a buffered channel.                         *)
Receive ==
  /\ channel # <<>>
  /\ received' = Append(received, Head(channel))
  /\ channel' = Tail(channel)
  /\ UNCHANGED <<dispVars, fwd, fwdErr, buffer, cap, endVars>>

(* forward: case <-sub.quit.  The select may take any case that is ready,   *)
(* so forward can go on for a while after quit is closed.                   *)
ForwardQuit ==
  /\ fwd = "run"
  /\ quit
  /\ fwd' = "exit"
  /\ buffer' = <<>>
  /\ UNCHANGED <<dispVars, fwdErr, cap, channel, received, endVars>>

-----------------------------------------------------------------------------
(* The end of the subscription.                                             *)

(* Mutant: quit is not closed before the server is asked.                   *)
EnterOnce_Open ==
  /\ once = "free"
  /\ once' = "busy"
  /\ call' = "send"
  /\ UNCHANGED quit

(* quitWithError(_, true) enters quitOnce, closes quit, and stands in the   *)
(* Call of requestUnsubscribe.                                              *)
EnterOnce ==
  /\ once = "free"
  /\ once' = "busy"
  /\ quit' = TRUE
  /\ call' = "send"

(* start: quitWithError(err, true) after forward failed ...                 *)
FwdFailed ==
  /\ fwd = "fail"
  /\ EnterOnce
  /\ fwd' = "unsub"
  /\ UNCHANGED <<dispVars, fwdErr, buffer, cap, channel, received, serr,
                 serrClosed, usr>>

(* ... requestUnsubscribe has returned: sub.err <- err.                     *)
FwdReport ==
  /\ fwd = "unsub"
  /\ call = "done"
  /\ serr' = fwdErr
  /\ once' = "done"
  /\ fwd' = "done"
  /\ UNCHANGED <<dispVars, fwdErr, buffer, cap, channel, received, quit,
                 call, serrClosed, usr>>

(* start: quitWithError finds quitOnce done.                                *)
FwdExit ==
  /\ fwd \in {"exit", "fail"}
  /\ once = "done"
  /\ fwd' = "done"
  /\ UNCHANGED <<dispVars, fwdErr, buffer, cap, channel, received, endVars>>

(* A goroutine calls Unsubscribe ...                                        *)
Unsubscribe(u) ==
  /\ usr[u] = "none"
  /\ usr' = [usr EXCEPT ![u] = "called"]
  /\ UNCHANGED <<dispVars, queueVars, once, quit, call, serr, serrClosed>>

(* ... which is the first to enter quitOnce ...                             *)
UnsubscribeRequest(u) ==
  /\ usr[u] = "called"
  /\ EnterOnce
  /\ usr' = [usr EXCEPT ![u] = "unsub"]
  /\ UNCHANGED <<dispVars, queueVars, serr, serrClosed>>

UnsubscribeReturned(u) ==
  /\ usr[u] = "unsub"
  /\ call = "done"
  /\ once' = "done"
  /\ usr' = [usr EXCEPT ![u] = "close"]
  /\ UNCHANGED <<dispVars, queueVars, quit, call, serr, serrClosed>>

(* Mutant: a flag in place of quitOnce, which does not wait for the runner. *)
UnsubscribeSkip_NoWait(u) ==
  /\ usr[u] = "called"
  /\ once # "free"
  /\ usr' = [usr EXCEPT ![u] = "close"]
  /\ UNCHANGED <<dispVars, queueVars, once, quit, call, serr, serrClosed>>

(* ... or waits until it is done ...                                        *)
UnsubscribeSkip(u) ==
  /\ usr[u] = "called"
  /\ once = "done"
  /\ usr' = [usr EXCEPT ![u] = "close"]
  /\ UNCHANGED <<dispVars, queueVars, once, quit, call, serr, serrClosed>>

(* ... and closes sub.err unless errOnce has been run.                      *)
UnsubscribeClose(u) ==
  /\ usr[u] = "close"
  /\ serrClosed' = TRUE
  /\ usr' = [usr EXCEPT ![u] = "done"]
  /\ UNCHANGED <<dispVars, queueVars, once, quit, call, serr>>

(* closeRequestOps ends an accepted call that waits for its answer.  One    *)
(* that is still in send, writing its message, notices it only afterwards   *)
(* and ends by CallReturns.                                                 *)
CloseRequestOps ==
  \/ call = "wait" /\ call' = "done"
  \/ UNCHANGED call

(* case err := <-c.readErr: closeRequestOps, which also takes the           *)
(* subscription out of c.subs.                                              *)
ReadFailed ==
  /\ dp = "loop"
  /\ inSubs
  /\ dp' = "readErr"
  /\ inSubs' = FALSE
  /\ CloseRequestOps
  /\ UNCHANGED <<n, queueVars, once, quit, serr, serrClosed, usr>>

(* case <-c.close: the same in dispatch's deferred function.                *)
AcceptClose ==
  /\ dp = "loop"
  /\ dp' = IF inSubs THEN "closing" ELSE "quit"
  /\ inSubs' = FALSE
  /\ CloseRequestOps
  /\ UNCHANGED <<n, queueVars, once, quit, serr, serrClosed, usr>>

(* Mutant: the subscription is ended without an error.                      *)
QuitErr_Silent == "empty"

(* quitWithError: what sub.err receives from dispatch.                      *)
QuitErr == IF dp = "closing" THEN "nil" ELSE "conn"

(* quitWithError(err, false) in dispatch, which waits for a quitOnce that   *)
(* another goroutine is running.                                            *)
QuitSub ==
  /\ dp \in {"readErr", "closing"}
  /\ dp' = IF dp = "closing" THEN "quit" ELSE "loop"
  /\ \/ /\ once = "free"
        /\ once' = "done"
        /\ quit' = TRUE
        /\ serr' = QuitErr
     \/ /\ once = "done"
        /\ UNCHANGED <<once, quit, serr>>
  /\ UNCHANGED <<n, inSubs, queueVars, call, serrClosed, usr>>

(* The Call of requestUnsubscribe: dispatch accepts it, it is answered by   *)
(* dispatch, its write fails or ends after closeRequestOps, or the client   *)
(* has quit before.                                                         *)
CallAccepted ==
  /\ dp = "loop"
  /\ call = "send"
  /\ call' = "wait"
  /\ UNCHANGED <<dispVars, queueVars, once, quit, serr, serrClosed, usr>>

CallReturns ==
  /\ \/ call = "wait"
     \/ call = "send" /\ dp = "quit"
  /\ call' = "done"
  /\ UNCHANGED <<dispVars, queueVars, once, quit, serr, serrClosed, usr>>

-----------------------------------------------------------------------------
Dispatch == ForwardIn \/ DeliverQuit \/ QuitSub \/ CallAccepted

Forward ==
  ForwardSend \/ ForwardQuit \/ FwdFailed \/ FwdReport \/ FwdExit

OwnerStep(u) ==
  \/ UnsubscribeRequest(u) \/ UnsubscribeReturned(u) \/ UnsubscribeSkip(u)
  \/ UnsubscribeClose(u)

Consume == Receive \/ HandOver

Next ==
  \/ Notification \/ ReadFailed \/ AcceptClose \/ CallReturns
  \/ Dispatch \/ Forward \/ Consume
  \/ \E u \in Owners : Unsubscribe(u) \/ OwnerStep(u)

Spec == Init /\ [][Next]_vars

(* The Go scheduler runs every goroutine that can go on.  Nothing is        *)
(* assumed of the subscriber, of the server's answer to the unsubscribe     *)
(* request, or of the connection.                                           *)
Fairness ==
  /\ WF_vars(Dispatch)
  /\ WF_vars(Forward)
  /\ \A u \in Owners : WF_vars(OwnerStep(u))

FairSpec == Spec /\ Fairness

-----------------------------------------------------------------------------
(* Properties.                                                              *)

(* The subscription has ended: quit is closed or forward has returned.      *)
Ended == quit \/ fwd # "run"

(* Everything the subscriber has or may still get, oldest first.            *)
Underway == received \o (channel \o buffer)

(* Type invariant of ClientSubscription; forward's list never grows past    *)
(* maxClientSubscriptionBuffer, the channel never past its capacity.        *)
TypeOK ==
  /\ n \in 0 .. Length
  /\ dp \in {"loop", "deliver", "readErr", "closing", "quit"}
  /\ inSubs \in BOOLEAN
  /\ fwd \in {"run", "fail", "unsub", "exit", "done"}
  /\ fwdErr \in {"nil", "decode", "overflow"}
  /\ buffer \in Seq(1 .. Length) /\ Len(buffer) <= MaxBuffer
  /\ cap \in Capacities
  /\ channel \in Seq(1 .. Length) /\ Len(channel) <= cap
  /\ received \in Seq(1 .. Length)
  /\ once \in {"free", "busy", "done"}
  /\ quit \in BOOLEAN
  /\ call \in {"none", "send", "wait", "done"}
  /\ serr \in {"empty", "nil", "conn", "decode", "overflow"}
  /\ serrClosed \in BOOLEAN
  /\ usr \in [Owners -> {"none", "called", "unsub", "close", "done"}]

(* The subscription is a notification stream (NotificationStream): in       *)
(* order, nothing twice, nothing lost before the end.                       *)
Stream == INSTANCE NotificationStream
            WITH last <- n, queue <- channel \o buffer, ended <- Ended
StreamSpec == Stream!Spec

(* Until the subscription ends every notification dispatch has handed over  *)
(* has reached the subscriber or is on its way to it, in order and without  *)
(* a gap, whatever forward's select chooses.                                *)
Gapless ==
  ~Ended => /\ Len(Underway) = n
            /\ \A i \in 1 .. n : Underway[i] = i

(* Even after quit is closed, when deliver drops some notifications while   *)
(* forward still takes others, the subscriber sees them in order and none   *)
(* twice.                                                                   *)
InOrder ==
  \A i, j \in 1 .. Len(Underway) : i < j => Underway[i] < Underway[j]

(* ErrSubscriptionQueueOverflow is only for a subscriber that is more than  *)
(* maxClientSubscriptionBuffer notifications behind.                        *)
OverflowMeansSlow ==
  [][fwdErr' = "overflow" /\ fwdErr # "overflow"
       => n' - Len(received) > MaxBuffer]_vars

(* sub.err holds one value and Unsubscribe closes it: whoever can still run *)
(* quitOnce's body finds it open and empty, however many goroutines call    *)
(* Unsubscribe.                                                             *)
ErrChannelSafe ==
  once # "done" => serr = "empty" /\ ~serrClosed

(* No silent end: when forward is gone, sub.err has received a value unless *)
(* an owner has called Unsubscribe.                                         *)
EndIsTold ==
  fwd = "done" /\ (\A u \in Owners : usr[u] = "none") => serr # "empty"

(* "Slow subscribers will be dropped eventually. [...] The subscription Err *)
(* channel will receive ErrSubscriptionQueueOverflow" (Subscribe): the      *)
(* owner of a subscription that was dropped for its queue is told so.       *)
OverflowIsTold ==
  fwd = "done" /\ fwdErr = "overflow" /\ (\A u \in Owners : usr[u] = "none")
    => serr = "overflow"

(* dispatch never stays in deliver ("Close sub.quit first because it        *)
(* unblocks deliver"), though the subscriber may have stopped reading.      *)
DeliverReturns == dp = "deliver" ~> dp # "deliver"

(* A subscriber that keeps reading gets every notification that forward has *)
(* taken, or the subscription ends.                                         *)
KeptUp ==
  WF_vars(Consume) =>
    \A k \in 1 .. Length :
      (\E i \in 1 .. Len(buffer) : buffer[i] = k)
        ~> (Ended \/ \E i \in 1 .. Len(received) : received[i] = k)
=============================================================================
