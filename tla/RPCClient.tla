----------------------------- MODULE RPCClient -----------------------------
(***************************************************************************)
(* The JSON-RPC client of rpc/client.go over a stream connection (IPC,     *)
(* websocket, in-process pipe): the goroutines of Call, BatchCall,         *)
(* Subscribe, Unsubscribe and Close, the dispatch loop, the read loops and *)
(* the forwarding goroutine of every subscription.                         *)
(*                                                                         *)
(* A step is what one goroutine does between two operations that another   *)
(* goroutine can observe (a channel operation, a sync.Once, a read or a    *)
(* write of the connection).  A send on an unbuffered channel is one joint *)
(* step of the sender and the receiver.                                    *)
(*                                                                         *)
(* Data is abstracted: a message carries the op it answers, the elements   *)
(* of the batch it answers and whether it is a success; message ids are    *)
(* pairs of an op and an element, which makes them unique as nextID's      *)
(* counter does until it wraps.                                            *)
(***************************************************************************)
EXTENDS Naturals, FiniteSets

CONSTANTS
  Calls,         \* invocations of CallContext / BatchCallContext
  Width,         \* Width[x]: number of requests in call x (1: CallContext)
  Subs,          \* invocations of Subscribe, one subscription each
  Cancellable,   \* the ops whose context can be cancelled or time out
  Unsubscribed,  \* the subscriptions whose owner may call Unsubscribe
  Faulty,        \* the subscriptions whose forward loop may fail
  MaxConns,      \* connections the peer accepts in the life of the client
  MaxExtra,      \* notifications and repeated responses the peer sends
  Closers        \* the goroutines that call Close

(* One requestOp per invocation; requestUnsubscribe makes an op of its own. *)
Op == ({"call"} \X Calls) \cup ({"sub", "unsub"} \X Subs)

SubOp(s)   == <<"sub", s>>
UnsubOp(s) == <<"unsub", s>>
NoOp       == <<"none">>
NoSub      == <<"nosub">>
Conn       == 1 .. MaxConns

ASSUME ClientAssumption ==
  /\ Width \in [Calls -> Nat]
  /\ Cancellable \subseteq ({"call"} \X Calls) \cup ({"sub"} \X Subs)
  /\ Unsubscribed \subseteq Subs
  /\ Faulty \subseteq Subs
  /\ MaxConns \in Nat \ {0}
  /\ MaxExtra \in Nat
  /\ NoSub \notin Subs

(* op.ids: what the op waits for. *)
Ids(o) == IF o[1] = "call" THEN 1 .. Width[o[2]] ELSE {1}

Msg == [kind : {"resp", "note"}, op : Op, els : SUBSET Nat, ok : BOOLEAN]

VARIABLES
  pc,          \* where the goroutine of each op is
  res,         \* what the op's caller got: "none" until it returns
  got,         \* the elements of the op the caller has taken from op.resp
  respWait,    \* c.respWait: the elements of each op still registered
  buf,         \* the responses buffered in op.resp
  respClosed,  \* op.resp is closed
  opErr,       \* op.err
  lastOp,      \* dispatch's lastOp; NoOp exactly when requestOpLock is open
  sendDone,    \* c.sendDone, a channel with a buffer of one
  writeConn,   \* c.writeConn, 0 for nil
  nconn,       \* connections dialled so far; the newest is number nconn
  closed,      \* connections closed by this side
  broken,      \* connections the peer or the network has ended
  wrote,       \* history: the connection each op's request was written to
  rd,          \* the read loop of each connection
  msg,         \* the message a read loop offers on c.readResp
  dp,          \* where the dispatch goroutine is
  conn,        \* dispatch's conn
  reading,     \* dispatch's reading
  dSub,        \* the subscription dispatch is working on
  subs,        \* c.subs
  once,        \* quitOnce of each subscription
  quit,        \* sub.quit is closed
  serr,        \* what was sent on sub.err
  serrClosed,  \* sub.err is closed
  fwd,         \* the goroutine running sub.start
  usr,         \* the owner's Unsubscribe
  closer,      \* the goroutines calling Close
  srv,         \* peer: requests received on each connection, not answered
  srvSubs,     \* peer: subscriptions live on each connection
  extra        \* notifications and repeated responses sent so far

callVars == <<pc, res, got>>
opVars   == <<respWait, buf, respClosed, opErr>>
sendVars == <<lastOp, sendDone, writeConn>>
connVars == <<nconn, closed, broken, wrote>>
readVars == <<rd, msg>>
dispVars == <<dp, conn, reading, dSub>>
subVars  == <<subs, once, quit, serr, serrClosed, fwd, usr>>
srvVars  == <<srv, srvSubs, extra>>

(* What several kinds of steps leave alone.                                 *)
clientVars == <<callVars, opVars, sendVars, connVars>>
restVars   == <<subVars, closer, srvVars>>
worldVars  == <<readVars, dispVars, restVars>>
coreVars   == <<opVars, sendVars, connVars, readVars, dispVars, subs, closer,
                srvVars>>

vars == <<clientVars, worldVars>>

NoMsg == [kind |-> "none"]

(* newClient after connectFunc succeeded: connection 1, dispatch running    *)
(* with its first read loop.                                                *)
Init ==
  /\ pc = [o \in Op |-> "idle"]
  /\ res = [o \in Op |-> "none"]
  /\ got = [o \in Op |-> {}]
  /\ respWait = [o \in Op |-> {}]
  /\ buf = [o \in Op |-> {}]
  /\ respClosed = [o \in Op |-> FALSE]
  /\ opErr = [o \in Op |-> "nil"]
  /\ lastOp = NoOp
  /\ sendDone = "empty"
  /\ writeConn = 1
  /\ nconn = 1
  /\ closed = {}
  /\ broken = {}
  /\ wrote = [o \in Op |-> 0]
  /\ rd = [c \in Conn |-> IF c = 1 THEN "reading" ELSE "none"]
  /\ msg = [c \in Conn |-> NoMsg]
  /\ dp = "loop"
  /\ conn = 1
  /\ reading = TRUE
  /\ dSub = NoSub
  /\ subs = {}
  /\ once = [s \in Subs |-> "free"]
  /\ quit = [s \in Subs |-> FALSE]
  /\ serr = [s \in Subs |-> "empty"]
  /\ serrClosed = [s \in Subs |-> FALSE]
  /\ fwd = [s \in Subs |-> "none"]
  /\ usr = [s \in Subs |-> "none"]
  /\ closer = [k \in Closers |-> "idle"]
  /\ srv = [c \in Conn |-> {}]
  /\ srvSubs = [c \in Conn |-> {}]
  /\ extra = 0

-----------------------------------------------------------------------------
(* The goroutines of Call, BatchCall, Subscribe and requestUnsubscribe.     *)

Return(o, r) ==
  /\ pc' = [pc EXCEPT ![o] = "done"]
  /\ res' = [res EXCEPT ![o] = r]

(* The caller enters CallContext, BatchCallContext or Subscribe: the        *)
(* message is built and the goroutine stands at the select of send.         *)
Start(o) ==
  /\ o[1] # "unsub"
  /\ pc[o] = "idle"
  /\ pc' = [pc EXCEPT ![o] = "send"]
  /\ UNCHANGED <<res, got, opVars, sendVars, connVars, worldVars>>

(* send: case <-ctx.Done().                                                 *)
SendCancelled(o) ==
  /\ o \in Cancellable
  /\ pc[o] = "send"
  /\ Return(o, "ctx")
  /\ UNCHANGED <<got, opVars, sendVars, connVars, worldVars>>

(* send: case <-c.didQuit.                                                  *)
SendQuit(o) ==
  /\ dp = "quit"
  /\ pc[o] = "send"
  /\ Return(o, "quit")
  /\ UNCHANGED <<got, opVars, sendVars, connVars, worldVars>>

(* write on the connection at hand.  The request may reach the peer even    *)
(* when the write is reported as failed (a deadline that expires late), and *)
(* a write to a connection that is already broken may be reported as done.  *)
Write(o) ==
  /\ pc[o] = "write"
  /\ writeConn # 0
  /\ \E ok \in BOOLEAN, reached \in BOOLEAN :
       /\ ok => writeConn \notin closed
       /\ reached => writeConn \notin closed \cup broken
       /\ ok /\ writeConn \notin broken => reached
       /\ pc' = [pc EXCEPT ![o] = IF ok THEN "sent" ELSE "unsent"]
       /\ writeConn' = IF ok THEN writeConn ELSE 0
       /\ wrote' = [wrote EXCEPT ![o] = writeConn]
       /\ srv' = IF reached
                 THEN [srv EXCEPT ![writeConn] = @ \cup {<<o, i>> : i \in Ids(o)}]
                 ELSE srv
  /\ UNCHANGED <<res, got, opVars, lastOp, sendDone, nconn, closed, broken,
                 readVars, dispVars, subVars, closer, srvSubs, extra>>

(* write with writeConn = nil: reconnect calls connectFunc, which fails.    *)
DialFails(o) ==
  /\ pc[o] = "write"
  /\ writeConn = 0
  /\ pc' = [pc EXCEPT ![o] = "unsent"]
  /\ UNCHANGED <<res, got, opVars, sendVars, connVars, worldVars>>

(* reconnect: connectFunc succeeds; the goroutine stands at the select that *)
(* hands the new connection to dispatch.                                    *)
Dial(o) ==
  /\ pc[o] = "write"
  /\ writeConn = 0
  /\ nconn < MaxConns
  /\ nconn' = nconn + 1
  /\ pc' = [pc EXCEPT ![o] = "dialed"]
  /\ UNCHANGED <<res, got, opVars, sendVars, closed, broken, wrote, worldVars>>

(* Mutant: newconn.Close() forgotten.                                       *)
DialQuit_NoClose(o) ==
  /\ dp = "quit"
  /\ pc[o] = "dialed"
  /\ pc' = [pc EXCEPT ![o] = "unsent"]
  /\ UNCHANGED <<res, got, opVars, sendVars, connVars, worldVars>>

(* reconnect: case <-c.didQuit closes the new connection and fails.         *)
DialQuit(o) ==
  /\ dp = "quit"
  /\ pc[o] = "dialed"
  /\ closed' = closed \cup {nconn}
  /\ pc' = [pc EXCEPT ![o] = "unsent"]
  /\ UNCHANGED <<res, got, opVars, sendVars, nconn, broken, wrote, worldVars>>

(* c.sendDone <- err, then send returns.  A failed op returns to its caller *)
(* at once; an empty batch has nothing to wait for.                         *)
SignalSendDone(o) ==
  /\ sendDone = "empty"
  /\ \/ /\ pc[o] = "unsent"
        /\ sendDone' = "err"
        /\ Return(o, "write")
     \/ /\ pc[o] = "sent"
        /\ sendDone' = "ok"
        /\ \/ /\ Ids(o) # {}
              /\ pc' = [pc EXCEPT ![o] = "wait"]
              /\ UNCHANGED res
           \/ /\ Ids(o) = {}
              /\ Return(o, "ok")
  /\ UNCHANGED <<got, opVars, lastOp, writeConn, connVars, worldVars>>

(* op.wait: case resp := <-op.resp with a buffered response.  The response  *)
(* is dropped when op.err is set by the time it is read.                    *)
Receive(o) ==
  /\ pc[o] = "wait"
  /\ \E i \in buf[o] :
       /\ buf' = [buf EXCEPT ![o] = @ \ {i}]
       /\ \/ /\ opErr[o] = "nil"
             /\ got' = [got EXCEPT ![o] = @ \cup {i}]
             /\ IF got[o] \cup {i} = Ids(o)
                THEN Return(o, "ok")
                ELSE UNCHANGED <<pc, res>>
          \/ /\ opErr[o] # "nil"
             /\ Return(o, opErr[o])
             /\ UNCHANGED got
  /\ UNCHANGED <<respWait, respClosed, opErr, sendVars, connVars, worldVars>>

(* op.wait: op.resp is closed and drained; the caller gets op.err, which is *)
(* nil for a subscription the server has accepted.                          *)
ReceiveClosed(o) ==
  /\ pc[o] = "wait"
  /\ respClosed[o]
  /\ buf[o] = {}
  /\ Return(o, IF opErr[o] = "nil" THEN "ok" ELSE opErr[o])
  /\ UNCHANGED <<got, opVars, sendVars, connVars, worldVars>>

(* op.wait: case <-ctx.Done().  The op stays in respWait.                   *)
WaitCancelled(o) ==
  /\ o \in Cancellable
  /\ pc[o] = "wait"
  /\ Return(o, "ctx")
  /\ UNCHANGED <<got, opVars, sendVars, connVars, worldVars>>

-----------------------------------------------------------------------------
(* The dispatch loop.                                                       *)

(* Mutants: delete(c.respWait, id), close(op.resp) forgotten.               *)
closeRequestOps_NoDelete(err) ==
  LET live == {o \in Op : respWait[o] # {}}
  IN  /\ opErr' = [o \in Op |-> IF o \in live THEN err ELSE opErr[o]]
      /\ respClosed' = [o \in Op |-> o \in live \/ respClosed[o]]
      /\ UNCHANGED <<respWait, buf>>

closeRequestOps_NoClose(err) ==
  /\ respWait' = [o \in Op |-> {}]
  /\ UNCHANGED <<opErr, respClosed, buf>>

(* Mutant: op.err = err forgotten.                                          *)
closeRequestOps_NoErr(err) ==
  LET live == {o \in Op : respWait[o] # {}}
  IN  /\ respWait' = [o \in Op |-> {}]
      /\ respClosed' = [o \in Op |-> o \in live \/ respClosed[o]]
      /\ UNCHANGED <<opErr, buf>>

(* closeRequestOps, first loop: every registered op is removed, its error   *)
(* set and its channel closed.  The second loop, over c.subs, can block and *)
(* is PickSub / QuitSub below.                                              *)
closeRequestOps(err) ==
  LET live == {o \in Op : respWait[o] # {}}
  IN  /\ respWait' = [o \in Op |-> {}]
      /\ opErr' = [o \in Op |-> IF o \in live THEN err ELSE opErr[o]]
      /\ respClosed' = [o \in Op |-> o \in live \/ respClosed[o]]
      /\ UNCHANGED buf

(* case <-c.close: dispatch returns and runs its deferred function.         *)
AcceptClose(k) ==
  /\ dp = "loop"
  /\ closer[k] = "closing"
  /\ closer' = [closer EXCEPT ![k] = "wait"]
  /\ dp' = "closing"
  /\ closeRequestOps("quit")
  /\ UNCHANGED <<callVars, sendVars, connVars, readVars, conn, reading, dSub,
                 subVars, srvVars>>

(* case err := <-c.readErr.                                                 *)
ReadFailed(c) ==
  /\ dp = "loop"
  /\ rd[c] = "err"
  /\ rd' = [rd EXCEPT ![c] = "dead"]
  /\ dp' = "readErr"
  /\ closeRequestOps("io")
  /\ UNCHANGED <<callVars, sendVars, connVars, msg, conn, reading, dSub,
                 restVars>>

(* closeRequestOps, second loop: the next subscription leaves c.subs ...    *)
PickSub ==
  /\ dp \in {"closing", "readErr"}
  /\ dSub = NoSub
  /\ \E s \in subs :
       /\ subs' = subs \ {s}
       /\ dSub' = s
  /\ UNCHANGED <<clientVars, readVars, dp, conn, reading, once, quit, serr,
                 serrClosed, fwd, usr, closer, srvVars>>

(* Mutants: ErrClientQuit passed on as it is; the error not sent.           *)
SubErr_Raw(err) == err
SubErr_Silent(err) == "empty"

(* quitWithError: what sub.err receives ("Adhere to subscription            *)
(* semantics": the end of the client is no error of the subscription).      *)
SubErr(err) == IF err = "quit" THEN "nil" ELSE "err"

(* ... and dispatch calls quitWithError(err, false) on it, which waits for  *)
(* a quitOnce that another goroutine is running.                            *)
QuitSub ==
  /\ dp \in {"closing", "readErr"}
  /\ dSub # NoSub
  /\ dSub' = NoSub
  /\ \/ /\ once[dSub] = "free"
        /\ once' = [once EXCEPT ![dSub] = "done"]
        /\ quit' = [quit EXCEPT ![dSub] = TRUE]
        /\ serr' = [serr EXCEPT ![dSub] =
                      SubErr(IF dp = "closing" THEN "quit" ELSE "io")]
     \/ /\ once[dSub] = "done"
        /\ UNCHANGED <<once, quit, serr>>
  /\ UNCHANGED <<clientVars, readVars, dp, conn, reading, subs, serrClosed,
                 fwd, usr, closer, srvVars>>

(* The rest of case <-c.readErr.                                            *)
ReadFailedDone ==
  /\ dp = "readErr"
  /\ subs = {}
  /\ dSub = NoSub
  /\ closed' = closed \cup {conn}
  /\ reading' = FALSE
  /\ dp' = "loop"
  /\ UNCHANGED <<callVars, opVars, sendVars, nconn, broken, wrote, readVars,
                 conn, dSub, restVars>>

(* The rest of the deferred function up to the loop that drains the read    *)
(* channels.                                                                *)
CloseConn ==
  /\ dp = "closing"
  /\ subs = {}
  /\ dSub = NoSub
  /\ closed' = closed \cup {conn}
  /\ dp' = IF reading THEN "drain" ELSE "quit"
  /\ UNCHANGED <<callVars, opVars, sendVars, nconn, broken, wrote, readVars,
                 conn, reading, dSub, restVars>>

(* Mutant: only readErr is drained.                                         *)
DrainRead_ErrOnly(c) ==
  /\ dp = "drain"
  /\ rd[c] = "err"
  /\ rd' = [rd EXCEPT ![c] = "dead"]
  /\ dp' = "quit"
  /\ UNCHANGED <<clientVars, msg, conn, reading, dSub, restVars>>

(* "Empty read channels until read is dead", then close(c.didQuit).         *)
DrainRead(c) ==
  /\ dp = "drain"
  /\ \/ /\ rd[c] = "resp"
        /\ rd' = [rd EXCEPT ![c] = "reading"]
        /\ msg' = [msg EXCEPT ![c] = NoMsg]
        /\ UNCHANGED dp
     \/ /\ rd[c] = "err"
        /\ rd' = [rd EXCEPT ![c] = "dead"]
        /\ dp' = "quit"
        /\ UNCHANGED msg
  /\ UNCHANGED <<clientVars, conn, reading, dSub, restVars>>

(* Mutant: the id stays registered.                                         *)
handleResponse_NoDelete(m) ==
  LET hit == m.els \cap respWait[m.op]
      s   == m.op[2]
      sub == m.op[1] = "sub" /\ hit # {}
  IN  /\ buf' = IF sub THEN buf ELSE [buf EXCEPT ![m.op] = @ \cup hit]
      /\ respClosed' = [respClosed EXCEPT ![m.op] = @ \/ sub]
      /\ fwd' = IF sub /\ m.ok THEN [fwd EXCEPT ![s] = "run"] ELSE fwd
      /\ subs' = IF sub /\ m.ok THEN subs \cup {s} ELSE subs
      /\ UNCHANGED <<respWait, opErr>>

(* handleResponse: an op no longer registered is an unsolicited response    *)
(* and changes nothing.  A response to Subscribe closes op.resp and, on     *)
(* success, starts the subscription.                                        *)
handleResponse(m) ==
  LET hit == m.els \cap respWait[m.op]
      s   == m.op[2]
  IN  /\ respWait' = [respWait EXCEPT ![m.op] = @ \ hit]
      /\ \/ /\ m.op[1] # "sub" \/ hit = {}
            /\ buf' = [buf EXCEPT ![m.op] = @ \cup hit]
            /\ UNCHANGED <<respClosed, opErr, fwd, subs>>
         \/ /\ m.op[1] = "sub" /\ hit # {}
            /\ respClosed' = [respClosed EXCEPT ![m.op] = TRUE]
            /\ opErr' = [opErr EXCEPT ![m.op] = IF m.ok THEN "nil" ELSE "srv"]
            /\ fwd' = IF m.ok THEN [fwd EXCEPT ![s] = "run"] ELSE fwd
            /\ subs' = IF m.ok THEN subs \cup {s} ELSE subs
            /\ UNCHANGED buf

(* case batch := <-c.readResp with responses.                               *)
DispatchResponse(c) ==
  /\ dp = "loop"
  /\ rd[c] = "resp"
  /\ msg[c].kind = "resp"
  /\ rd' = [rd EXCEPT ![c] = "reading"]
  /\ msg' = [msg EXCEPT ![c] = NoMsg]
  /\ handleResponse(msg[c])
  /\ UNCHANGED <<callVars, sendVars, connVars, dispVars, once, quit, serr,
                 serrClosed, usr, closer, srvVars>>

(* case batch := <-c.readResp with a notification: handleNotification       *)
(* drops it unless the subscription is in c.subs, else stands in deliver.   *)
DispatchNotification(c) ==
  LET s == msg[c].op[2]
  IN  /\ dp = "loop"
      /\ rd[c] = "resp"
      /\ msg[c].kind = "note"
      /\ rd' = [rd EXCEPT ![c] = "reading"]
      /\ msg' = [msg EXCEPT ![c] = NoMsg]
      /\ IF s \in subs
         THEN dp' = "deliver" /\ dSub' = s
         ELSE UNCHANGED <<dp, dSub>>
      /\ UNCHANGED <<clientVars, conn, reading, restVars>>

(* deliver: case sub.in <- result, taken by the forward loop, which fails   *)
(* on a value it cannot decode or on a full buffer.                         *)
Deliver ==
  /\ dp = "deliver"
  /\ fwd[dSub] = "run"
  /\ \/ UNCHANGED fwd
     \/ /\ dSub \in Faulty
        /\ fwd' = [fwd EXCEPT ![dSub] = "fail"]
  /\ dp' = "loop"
  /\ dSub' = NoSub
  /\ UNCHANGED <<clientVars, readVars, conn, reading, subs, once, quit, serr,
                 serrClosed, usr, closer, srvVars>>

(* deliver: case <-sub.quit.                                                *)
DeliverQuit ==
  /\ dp = "deliver"
  /\ quit[dSub]
  /\ dp' = "loop"
  /\ dSub' = NoSub
  /\ UNCHANGED <<clientVars, readVars, conn, reading, restVars>>

(* Mutant: the read loop of the old connection is left running.             *)
Reconnected_NoWait(o) ==
  /\ dp = "loop"
  /\ pc[o] = "dialed"
  /\ writeConn' = nconn
  /\ pc' = [pc EXCEPT ![o] = "write"]
  /\ rd' = [rd EXCEPT ![nconn] = "reading"]
  /\ reading' = TRUE
  /\ conn' = nconn
  /\ UNCHANGED <<res, got, opVars, lastOp, sendDone, connVars, msg, dp, dSub,
                 restVars>>

(* case newconn := <-c.reconnected.  The sender goes on to write on the new *)
(* connection; dispatch first ends a read loop that is still running.       *)
Reconnected(o) ==
  /\ dp = "loop"
  /\ pc[o] = "dialed"
  /\ writeConn' = nconn
  /\ pc' = [pc EXCEPT ![o] = "write"]
  /\ \/ /\ reading
        /\ closed' = closed \cup {conn}
        /\ dp' = "reconn"
        /\ UNCHANGED <<rd, conn, reading>>
     \/ /\ ~reading
        /\ rd' = [rd EXCEPT ![nconn] = "reading"]
        /\ reading' = TRUE
        /\ conn' = nconn
        /\ UNCHANGED <<closed, dp>>
  /\ UNCHANGED <<res, got, opVars, lastOp, sendDone, nconn, broken, wrote, msg,
                 dSub, restVars>>

(* <-c.readErr inside case <-c.reconnected, then go c.read(newconn).        *)
ReconnectedDone(c) ==
  /\ dp = "reconn"
  /\ rd[c] = "err"
  /\ rd' = [rd EXCEPT ![c] = "dead", ![nconn] = "reading"]
  /\ conn' = nconn
  /\ dp' = "loop"
  /\ UNCHANGED <<clientVars, msg, reading, dSub, restVars>>

(* Mutant: requestOpLock is not set to nil while an op is being sent.       *)
requestOpLock_Open == TRUE

requestOpLock == lastOp = NoOp

(* case op := <-requestOpLock, joint with send's c.requestOp <- op.         *)
AcceptOp(o) ==
  /\ dp = "loop"
  /\ requestOpLock
  /\ pc[o] = "send"
  /\ lastOp' = o
  /\ respWait' = [respWait EXCEPT ![o] = Ids(o)]
  /\ pc' = [pc EXCEPT ![o] = "write"]
  /\ UNCHANGED <<res, got, buf, respClosed, opErr, sendDone, writeConn,
                 connVars, worldVars>>

(* case err := <-c.sendDone.                                                *)
SendDone ==
  /\ dp = "loop"
  /\ sendDone # "empty"
  /\ respWait' = IF sendDone = "err"
                 THEN [respWait EXCEPT ![lastOp] = {}] ELSE respWait
  /\ sendDone' = "empty"
  /\ lastOp' = NoOp
  /\ UNCHANGED <<callVars, buf, respClosed, opErr, writeConn, connVars,
                 worldVars>>

-----------------------------------------------------------------------------
(* The read loops.                                                          *)

(* readMessage returns a response of the peer: to all or some elements of a *)
(* request it has received, success or error.  A peer may answer again what *)
(* it has answered.  Neither the end of the connection nor closing it stops *)
(* the messages that the decoder has buffered.                              *)
ReadResponse(c) ==
  /\ rd[c] = "reading"
  /\ \E o \in {p[1] : p \in srv[c]}, ok \in BOOLEAN :
       \E els \in (SUBSET {p[2] : p \in {q \in srv[c] : q[1] = o}}) \ {{}} :
         /\ ~ok => o[1] = "sub"
         /\ rd' = [rd EXCEPT ![c] = "resp"]
         /\ msg' = [msg EXCEPT ![c] = [kind |-> "resp", op |-> o, els |-> els,
                                       ok |-> ok]]
         /\ \/ /\ srv' = [srv EXCEPT ![c] = @ \ ({o} \X els)]
               /\ UNCHANGED extra
            \/ /\ extra < MaxExtra
               /\ extra' = extra + 1
               /\ UNCHANGED srv
         /\ srvSubs' = [srvSubs EXCEPT ![c] =
                          CASE o[1] = "sub" /\ ok -> @ \cup {o[2]}
                            [] o[1] = "unsub"     -> @ \ {o[2]}
                            [] OTHER              -> @]
  /\ UNCHANGED <<clientVars, dispVars, subVars, closer>>

(* readMessage returns a notification.                                      *)
ReadNotification(c) ==
  /\ rd[c] = "reading"
  /\ extra < MaxExtra
  /\ extra' = extra + 1
  /\ \E s \in srvSubs[c] :
       /\ rd' = [rd EXCEPT ![c] = "resp"]
       /\ msg' = [msg EXCEPT ![c] = [kind |-> "note", op |-> SubOp(s),
                                     els |-> {}, ok |-> TRUE]]
  /\ UNCHANGED <<clientVars, dispVars, subVars, closer, srv, srvSubs>>

(* readMessage fails: the connection is closed here or has ended.           *)
ReadError(c) ==
  /\ rd[c] = "reading"
  /\ c \in closed \cup broken
  /\ rd' = [rd EXCEPT ![c] = "err"]
  /\ UNCHANGED <<clientVars, msg, dispVars, restVars>>

-----------------------------------------------------------------------------
(* Subscriptions: the goroutine of sub.start and the owner's Unsubscribe.   *)

(* forward returns (nil, false) when it sees quit closed.                   *)
FwdQuit(s) ==
  /\ fwd[s] = "run"
  /\ quit[s]
  /\ fwd' = [fwd EXCEPT ![s] = "exit"]
  /\ UNCHANGED <<callVars, coreVars, once, quit, serr, serrClosed, usr>>

(* quitWithError enters quitOnce: quit is closed first, then the call of    *)
(* requestUnsubscribe starts.                                               *)
EnterOnce(s) ==
  /\ once[s] = "free"
  /\ once' = [once EXCEPT ![s] = "busy"]
  /\ quit' = [quit EXCEPT ![s] = TRUE]
  /\ pc' = [pc EXCEPT ![UnsubOp(s)] = "send"]

(* quitWithError(err, true) after forward failed.                           *)
FwdFailed(s) ==
  /\ fwd[s] = "fail"
  /\ EnterOnce(s)
  /\ fwd' = [fwd EXCEPT ![s] = "unsub"]
  /\ UNCHANGED <<res, got, coreVars, serr, serrClosed, usr>>

(* requestUnsubscribe returned: sub.err <- err, and quitOnce is done.       *)
FwdReport(s) ==
  /\ fwd[s] = "unsub"
  /\ pc[UnsubOp(s)] = "done"
  /\ serr' = [serr EXCEPT ![s] = "err"]
  /\ once' = [once EXCEPT ![s] = "done"]
  /\ fwd' = [fwd EXCEPT ![s] = "done"]
  /\ UNCHANGED <<callVars, coreVars, quit, serrClosed, usr>>

(* quitWithError finds quitOnce done.                                       *)
FwdExit(s) ==
  /\ fwd[s] \in {"exit", "fail"}
  /\ once[s] = "done"
  /\ fwd' = [fwd EXCEPT ![s] = "done"]
  /\ UNCHANGED <<callVars, coreVars, once, quit, serr, serrClosed, usr>>

(* The owner of an established subscription calls Unsubscribe ...           *)
Unsubscribe(s) ==
  /\ s \in Unsubscribed
  /\ usr[s] = "none"
  /\ res[SubOp(s)] = "ok"
  /\ usr' = [usr EXCEPT ![s] = "called"]
  /\ UNCHANGED <<callVars, coreVars, once, quit, serr, serrClosed, fwd>>

(* ... which runs quitOnce ...                                              *)
UnsubscribeRequest(s) ==
  /\ usr[s] = "called"
  /\ EnterOnce(s)
  /\ usr' = [usr EXCEPT ![s] = "unsub"]
  /\ UNCHANGED <<res, got, coreVars, serr, serrClosed, fwd>>

UnsubscribeReturned(s) ==
  /\ usr[s] = "unsub"
  /\ pc[UnsubOp(s)] = "done"
  /\ once' = [once EXCEPT ![s] = "done"]
  /\ usr' = [usr EXCEPT ![s] = "close"]
  /\ UNCHANGED <<callVars, coreVars, quit, serr, serrClosed, fwd>>

(* Mutant: a flag in place of quitOnce, which does not wait for the runner. *)
UnsubscribeSkip_NoWait(s) ==
  /\ usr[s] = "called"
  /\ once[s] # "free"
  /\ usr' = [usr EXCEPT ![s] = "close"]
  /\ UNCHANGED <<callVars, coreVars, once, quit, serr, serrClosed, fwd>>

(* ... or finds it done ...                                                 *)
UnsubscribeSkip(s) ==
  /\ usr[s] = "called"
  /\ once[s] = "done"
  /\ usr' = [usr EXCEPT ![s] = "close"]
  /\ UNCHANGED <<callVars, coreVars, once, quit, serr, serrClosed, fwd>>

(* ... and closes sub.err.                                                  *)
UnsubscribeClose(s) ==
  /\ usr[s] = "close"
  /\ serrClosed' = [serrClosed EXCEPT ![s] = TRUE]
  /\ usr' = [usr EXCEPT ![s] = "done"]
  /\ UNCHANGED <<callVars, coreVars, once, quit, serr, fwd>>

-----------------------------------------------------------------------------
(* Close, and the world.                                                    *)

Close(k) ==
  /\ closer[k] = "idle"
  /\ closer' = [closer EXCEPT ![k] = "closing"]
  /\ UNCHANGED <<clientVars, readVars, dispVars, subVars, srvVars>>

(* Close returns once c.didQuit is closed, whether dispatch took this call  *)
(* from c.close or another one.                                             *)
CloseReturn(k) ==
  /\ closer[k] \in {"closing", "wait"}
  /\ dp = "quit"
  /\ closer' = [closer EXCEPT ![k] = "done"]
  /\ UNCHANGED <<clientVars, readVars, dispVars, subVars, srvVars>>

(* The peer or the network ends connection c.                               *)
Break(c) ==
  /\ c <= nconn
  /\ c \notin broken
  /\ broken' = broken \cup {c}
  /\ UNCHANGED <<callVars, opVars, sendVars, nconn, closed, wrote, worldVars>>

-----------------------------------------------------------------------------
OpStep(o) ==
  \/ SendQuit(o) \/ Write(o) \/ DialFails(o) \/ Dial(o) \/ DialQuit(o)
  \/ SignalSendDone(o) \/ Receive(o) \/ ReceiveClosed(o)

DispatchStep ==
  \/ \E k \in Closers : AcceptClose(k)
  \/ PickSub \/ QuitSub \/ ReadFailedDone \/ CloseConn
  \/ Deliver \/ DeliverQuit \/ SendDone
  \/ \E c \in Conn : \/ ReadFailed(c) \/ DrainRead(c) \/ DispatchResponse(c)
                     \/ DispatchNotification(c) \/ ReconnectedDone(c)
  \/ \E o \in Op : AcceptOp(o) \/ Reconnected(o)

SubStep(s) ==
  \/ FwdQuit(s) \/ FwdFailed(s) \/ FwdReport(s) \/ FwdExit(s)
  \/ UnsubscribeRequest(s) \/ UnsubscribeReturned(s) \/ UnsubscribeSkip(s)
  \/ UnsubscribeClose(s)

PeerStep(c) == ReadResponse(c) \/ ReadNotification(c) \/ Break(c)

Next ==
  \/ \E o \in Op : Start(o) \/ SendCancelled(o) \/ WaitCancelled(o) \/ OpStep(o)
  \/ DispatchStep
  \/ \E s \in Subs : Unsubscribe(s) \/ SubStep(s)
  \/ \E c \in Conn : ReadError(c) \/ PeerStep(c)
  \/ \E k \in Closers : Close(k) \/ CloseReturn(k)

Spec == Init /\ [][Next]_vars

(* The Go scheduler runs every goroutine that can go on; nothing is assumed *)
(* of the callers' decisions, of contexts, of the peer or of the network.   *)
Fairness ==
  /\ \A o \in Op : WF_vars(OpStep(o))
  /\ \A s \in Subs : WF_vars(SubStep(s))
  /\ \A c \in Conn : WF_vars(ReadError(c))
  /\ WF_vars(DispatchStep)
  /\ \A k \in Closers : WF_vars(CloseReturn(k))

FairSpec == Spec /\ Fairness
-----------------------------------------------------------------------------
(* Properties.                                                              *)

Registered == {"write", "dialed", "sent", "unsent", "wait"}
Sending    == {"write", "dialed", "sent", "unsent"}
LiveRead   == {"reading", "resp", "err"}

(* Type invariant of the client's state (client.go, types Client, requestOp *)
(* and ClientSubscription).                                                 *)
TypeOK ==
  /\ pc \in [Op -> Registered \cup {"idle", "send", "done"}]
  /\ res \in [Op -> {"none", "ok", "ctx", "quit", "write", "io", "srv"}]
  /\ got \in [Op -> SUBSET Nat]
  /\ respWait \in [Op -> SUBSET Nat]
  /\ buf \in [Op -> SUBSET Nat]
  /\ respClosed \in [Op -> BOOLEAN]
  /\ opErr \in [Op -> {"nil", "quit", "io", "srv"}]
  /\ lastOp \in Op \cup {NoOp}
  /\ sendDone \in {"empty", "ok", "err"}
  /\ writeConn \in Conn \cup {0}
  /\ nconn \in Conn
  /\ closed \subseteq Conn
  /\ broken \subseteq Conn
  /\ wrote \in [Op -> Conn \cup {0}]
  /\ rd \in [Conn -> LiveRead \cup {"none", "dead"}]
  /\ msg \in [Conn -> Msg \cup {NoMsg}]
  /\ dp \in {"loop", "deliver", "readErr", "closing", "drain", "reconn", "quit"}
  /\ conn \in Conn
  /\ reading \in BOOLEAN
  /\ dSub \in Subs \cup {NoSub}
  /\ subs \subseteq Subs
  /\ once \in [Subs -> {"free", "busy", "done"}]
  /\ quit \in [Subs -> BOOLEAN]
  /\ serr \in [Subs -> {"empty", "nil", "err"}]
  /\ serrClosed \in [Subs -> BOOLEAN]
  /\ fwd \in [Subs -> {"none", "run", "fail", "unsub", "exit", "done"}]
  /\ usr \in [Subs -> {"none", "called", "unsub", "close", "done"}]
  /\ closer \in [Closers -> {"idle", "closing", "wait", "done"}]
  /\ srv \in [Conn -> SUBSET (Op \X Nat)]
  /\ srvSubs \in [Conn -> SUBSET Subs]
  /\ extra \in 0 .. MaxExtra

(* The write lock ("taken by sending on requestOp and released by sending   *)
(* on sendDone"): whoever touches writeConn is the op dispatch accepted     *)
(* last, so there is one at a time, and its sendDone <- err cannot block.   *)
WriteLock ==
  \A o \in Op : pc[o] \in Sending => lastOp = o /\ sendDone = "empty"

(* dispatch never sends on, or closes again, an op.resp that is closed: an  *)
(* op with a closed channel has no id left in respWait.                     *)
NoPanicOnResp ==
  \A o \in Op : respWait[o] # {} => ~respClosed[o]

(* Every id is in at most one of respWait, the buffer of op.resp and the    *)
(* hands of the caller: op.resp, made with room for len(ids) responses, is  *)
(* never full when dispatch sends on it, and BatchCall counts each element  *)
(* once, even when the peer answers an id twice.                            *)
AnsweredOnce ==
  \A o \in Op : /\ respWait[o] \cup buf[o] \cup got[o] \subseteq Ids(o)
                /\ respWait[o] \cap (buf[o] \cup got[o]) = {}
                /\ buf[o] \cap got[o] = {}

(* No lost wakeup ("dispatch has accepted the request and will close the    *)
(* channel when it quits"): a caller in op.wait has a response to take, a   *)
(* closed channel, or an id that dispatch still knows.                      *)
NoLostWakeup ==
  \A o \in Op :
    pc[o] = "wait" => respWait[o] # {} \/ buf[o] # {} \/ respClosed[o]

(* A call that returns nil to its caller is answered: each element of a     *)
(* CallContext, BatchCallContext or requestUnsubscribe was taken from       *)
(* op.resp, and a subscription that Subscribe returns has been started.     *)
(* (op.wait returns the nil response of a closed channel with op.err.)      *)
OkIsAnswered ==
  \A o \in Op :
    res[o] = "ok" => IF o[1] = "sub" THEN fwd[o[2]] # "none" ELSE got[o] = Ids(o)

(* One read loop at a time, on the connection dispatch holds: an error on   *)
(* c.readErr is always about dispatch's current connection.                 *)
OneReader ==
  \A c \in Conn : rd[c] \in LiveRead => reading /\ c = conn

(* sub.err has room for one error and Unsubscribe closes it: whoever can    *)
(* still run quitOnce's body finds the channel open and empty, so neither   *)
(* dispatch nor forward blocks or panics on sub.err <- err.                 *)
ErrChannelSafe ==
  \A s \in Subs :
    once[s] # "done" => serr[s] = "empty" /\ ~serrClosed[s]

(* Every connection the client has dialled is closed, or is dispatch's, or  *)
(* is on its way from reconnect to dispatch; when dispatch has quit, only   *)
(* the last of these can be open.                                           *)
NoConnLeak ==
  \A c \in 1 .. nconn :
    \/ c \in closed
    \/ c = conn /\ dp # "quit"
    \/ c = nconn /\ (dp = "reconn" \/ \E o \in Op : pc[o] = "dialed")

(* When didQuit is closed nothing is left behind: no id in respWait, no     *)
(* subscription in subs that was not told, no read loop.                    *)
QuitIsClean ==
  dp = "quit" => /\ \A o \in Op : respWait[o] = {}
                 /\ \A s \in Subs : fwd[s] # "none" => once[s] # "free"
                 /\ \A c \in Conn : rd[c] \notin LiveRead

(* handleResponse starts a subscription (go op.sub.start(), entry in        *)
(* c.subs) once: never one that is running or has ended.                    *)
StartedOnce ==
  [][\A s \in Subs :
       s \in subs' \ subs => fwd[s] = "none" /\ once[s] = "free"]_vars

(* Calls, batches, subscriptions and unsubscriptions are requests as        *)
(* RemoteCall says: registered once, each id answered at most once and only *)
(* while it is registered, one result, nil only when every id was answered. *)
(* The answer to Subscribe is the start of the subscription.                *)
StatusOf == [o \in Op |-> IF pc[o] \in {"idle", "send"} THEN "new"
                          ELSE IF pc[o] = "done" THEN res[o] ELSE "open"]
AnsweredOf == [o \in Op |-> IF o[1] # "sub" THEN buf[o] \cup got[o]
                            ELSE IF fwd[o[2]] # "none" THEN {1} ELSE {}]
Remote == INSTANCE RemoteCall
            WITH Parts <- [o \in Op |-> Ids(o)], status <- StatusOf,
                 pending <- respWait, answered <- AnsweredOf, over <- dp = "quit"
CallSpec == Remote!Spec

(* Close returns (client.go, Close waits for didQuit).                      *)
CloseReturns ==
  \A k \in Closers : closer[k] = "closing" ~> closer[k] = "done"

(* Close aborts the requests in flight ("Close closes the client, aborting  *)
(* any in-flight requests"): every call returns to its caller.              *)
CloseAborts ==
  \A o \in Op :
    (pc[o] # "idle" /\ \E k \in Closers : closer[k] = "done")
      ~> pc[o] = "done"

(* When a connection ends, every operation that was sent on it or is still  *)
(* being sent returns to its caller (dispatch, case <-c.readErr).           *)
LossReleasesOps ==
  \A o \in Op : (broken # {} /\ pc[o] \in Registered) ~> pc[o] = "done"

(* When a connection ends, the owner of every subscription is told through  *)
(* Err() (ClientSubscription.Err: "The error channel receives a value when  *)
(* the subscription has ended due to an error").                            *)
LossReachesSubs ==
  \A s \in Subs : (broken # {} /\ s \in subs) ~> serr[s] # "empty"

(* "When the read loop goes down, it will signal all other current          *)
(* operations" (dispatch, case <-c.sendDone): no caller waits for an answer *)
(* on a connection whose read loop has gone and been handled.               *)
ReadEndSignalsOps ==
  \A o \in Op :
    /\ pc[o] = "wait"
    /\ dp = "loop"
    /\ wrote[o] # 0
    /\ rd[wrote[o]] = "dead"
    => respWait[o] = {}
=============================================================================
