-------------------------- MODULE RemoteCall_proofs --------------------------
(***************************************************************************)
(* The client implements RemoteCall, for every set of calls and            *)
(* subscriptions, every width of the batches and any number of             *)
(* connections.                                                            *)
(***************************************************************************)
EXTENDS RPCClient_proofs

USE DEF callVars, opVars, sendVars, connVars, readVars, dispVars, subVars,
        srvVars, clientVars, restVars, worldVars, coreVars,
        Registered, Sending, Return, EnterOnce

(* The abstract state of one request, before and after a step.             *)
LEMMA StatusCases ==
  ASSUME NEW o \in Op
  PROVE  /\ StatusOf[o] = IF pc[o] \in {"idle", "send"} THEN "new"
                          ELSE IF pc[o] = "done" THEN res[o] ELSE "open"
         /\ StatusOf'[o] = IF pc'[o] \in {"idle", "send"} THEN "new"
                           ELSE IF pc'[o] = "done" THEN res'[o] ELSE "open"
BY DEF StatusOf

LEMMA AnsweredCases ==
  ASSUME NEW o \in Op
  PROVE  /\ o[1] # "sub" => /\ AnsweredOf[o] = buf[o] \cup got[o]
                            /\ AnsweredOf'[o] = buf'[o] \cup got'[o]
         /\ o[1] = "sub" =>
              /\ fwd[o[2]] # "none" => AnsweredOf[o] = {1}
              /\ fwd[o[2]] = "none" => AnsweredOf[o] = {}
              /\ fwd'[o[2]] # "none" => AnsweredOf'[o] = {1}
              /\ fwd'[o[2]] = "none" => AnsweredOf'[o] = {}
BY DEF AnsweredOf

LEMMA AnsweredFrame ==
  ASSUME NEW p \in Op, buf'[p] \cup got'[p] = buf[p] \cup got[p],
         p[1] = "sub" => (fwd'[p[2]] # "none" <=> fwd[p[2]] # "none")
  PROVE  AnsweredOf'[p] = AnsweredOf[p]
<1>1. CASE p[1] = "sub"
  BY <1>1, AnsweredCases
<1>2. CASE p[1] # "sub"
  BY <1>2, AnsweredCases
<1> QED
  BY <1>1, <1>2

(* What changes for one request only is an EXCEPT.                         *)
LEMMA StatusBecomes ==
  ASSUME NEW o \in Op, NEW st, StatusOf'[o] = st,
         \A p \in Op : p # o => StatusOf'[p] = StatusOf[p]
  PROVE  Remote!Become(o, st)
<1>1. /\ StatusOf' = [p \in Op |-> StatusOf'[p]]
      /\ StatusOf = [p \in Op |-> StatusOf[p]]
  BY DEF StatusOf
<1> QED
  BY <1>1 DEF Remote!Become

LEMMA AnsweredBecomes ==
  ASSUME NEW o \in Op, NEW E, AnsweredOf'[o] = E,
         \A p \in Op : p # o => AnsweredOf'[p] = AnsweredOf[p]
  PROVE  AnsweredOf' = [AnsweredOf EXCEPT ![o] = E]
<1>1. /\ AnsweredOf' = [p \in Op |-> AnsweredOf'[p]]
      /\ AnsweredOf = [p \in Op |-> AnsweredOf[p]]
  BY DEF AnsweredOf
<1> QED
  BY <1>1

LEMMA SameStatus ==
  ASSUME \A p \in Op : StatusOf'[p] = StatusOf[p]
  PROVE  StatusOf' = StatusOf
<1>1. /\ StatusOf' = [p \in Op |-> StatusOf'[p]]
      /\ StatusOf = [p \in Op |-> StatusOf[p]]
  BY DEF StatusOf
<1> QED
  BY <1>1

LEMMA SameAnswered ==
  ASSUME \A p \in Op : AnsweredOf'[p] = AnsweredOf[p]
  PROVE  AnsweredOf' = AnsweredOf
<1>1. /\ AnsweredOf' = [p \in Op |-> AnsweredOf'[p]]
      /\ AnsweredOf = [p \in Op |-> AnsweredOf[p]]
  BY DEF AnsweredOf
<1> QED
  BY <1>1

(* The steps that RemoteCall does not see: an op moves between two control *)
(* points of the same status, a subscription that was started goes on.     *)
LEMMA StutterStep ==
  ASSUME \A p \in Op : StatusOf'[p] = StatusOf[p],
         \A s \in Subs : fwd'[s] # "none" <=> fwd[s] # "none",
         UNCHANGED <<respWait, buf, got>>, dp' = "quit" <=> dp = "quit"
  PROVE  UNCHANGED Remote!vars
<1>1. \A p \in Op : AnsweredOf'[p] = AnsweredOf[p]
  BY OpFacts, AnsweredCases
<1> QED
  BY <1>1, SameStatus, SameAnswered DEF Remote!vars

(* A caller returns with an error; its answers may be thrown away.         *)
LEMMA FailStep ==
  ASSUME TypeOK, NEW o \in Op, NEW err \in {"ctx", "quit", "write", "io", "srv"},
         pc[o] # "done", pc[o] \in {"idle", "send"} => (err = "quit" => dp = "quit"),
         Return(o, err), buf'[o] \subseteq buf[o],
         \A p \in Op : p # o => buf'[p] = buf[p],
         UNCHANGED <<respWait, got, fwd, dp>>
  PROVE  Remote!Next
<1>1. StatusOf[o] \in {"new", "open"} /\ StatusOf'[o] = err
      /\ (StatusOf[o] = "new" <=> pc[o] \in {"idle", "send"})
  BY StatusCases DEF TypeOK
<1>2. \A p \in Op : p # o => StatusOf'[p] = StatusOf[p]
  BY StatusCases DEF TypeOK
<1>3. \A p \in Op : p # o => AnsweredOf'[p] = AnsweredOf[p]
  BY AnsweredCases
<1>4. AnsweredOf'[o] \in SUBSET AnsweredOf[o]
  BY AnsweredCases
<1>5. AnsweredOf' = [AnsweredOf EXCEPT ![o] = AnsweredOf'[o]]
  BY <1>3, AnsweredBecomes
<1>6. Remote!Become(o, err)
  BY <1>1, <1>2, StatusBecomes
<1>7. Remote!Fail(o, err)
  BY <1>1, <1>4, <1>5, <1>6 DEF Remote!Fail
<1> QED
  BY <1>7 DEF Remote!Next

(* A caller returns nil.                                                   *)
LEMMA SucceedStep ==
  ASSUME TypeOK, NEW o \in Op, pc[o] \in Registered, Return(o, "ok"),
         AnsweredOf[o] = Ids(o), \A p \in Op : AnsweredOf'[p] = AnsweredOf[p],
         UNCHANGED <<respWait, dp>>
  PROVE  Remote!Next
<1>1. StatusOf[o] = "open" /\ StatusOf'[o] = "ok"
  BY StatusCases DEF TypeOK
<1>2. \A p \in Op : p # o => StatusOf'[p] = StatusOf[p]
  BY StatusCases DEF TypeOK
<1>3. Remote!Become(o, "ok")
  BY <1>1, <1>2, StatusBecomes
<1>4. Remote!Succeed(o)
  BY <1>1, <1>3, SameAnswered DEF Remote!Succeed
<1> QED
  BY <1>4 DEF Remote!Next

(* dispatch forgets some of the requests it knows.                         *)
LEMMA GiveUpStep ==
  ASSUME NEW S \in SUBSET Op,
         respWait' = [o \in Op |-> IF o \in S THEN {} ELSE respWait[o]],
         UNCHANGED <<pc, res, buf, got, fwd>>, dp' = "quit" <=> dp = "quit"
  PROVE  Remote!Next
<1>1. UNCHANGED <<StatusOf, AnsweredOf>>
  BY DEF StatusOf, AnsweredOf
<1>2. Remote!GiveUp(S)
  BY <1>1 DEF Remote!GiveUp
<1> QED
  BY <1>2 DEF Remote!Next

(* dispatch closes didQuit.                                                *)
LEMMA QuitStep ==
  ASSUME \A o \in Op : respWait[o] = {}, dp' = "quit",
         UNCHANGED <<pc, res, buf, got, fwd, respWait>>
  PROVE  Remote!Next
<1>1. UNCHANGED <<StatusOf, AnsweredOf>>
  BY DEF StatusOf, AnsweredOf
<1>2. Remote!Quit
  BY <1>1 DEF Remote!Quit
<1> QED
  BY <1>2 DEF Remote!Next

(* dispatch accepts an op and registers its ids.                           *)
LEMMA MakeStep ==
  ASSUME TypeOK, NEW o \in Op, AcceptOp(o)
  PROVE  Remote!Next
<1>1. StatusOf[o] = "new" /\ StatusOf'[o] = "open"
  BY StatusCases DEF TypeOK, AcceptOp
<1>2. \A p \in Op : p # o => StatusOf'[p] = StatusOf[p]
  BY StatusCases DEF TypeOK, AcceptOp
<1>3. Remote!Become(o, "open")
  BY <1>1, <1>2, StatusBecomes
<1>4. UNCHANGED AnsweredOf
  BY DEF AcceptOp, AnsweredOf
<1>5. Remote!Make(o)
  BY <1>1, <1>3, <1>4 DEF AcceptOp, Remote!Make
<1> QED
  BY <1>5 DEF Remote!Next

(* A response: dispatch hands over the ids that are registered, or starts  *)
(* the subscription, or drops the one the server refused.                  *)
LEMMA AnswerNext ==
  ASSUME ClientInv, NEW c \in Conn, DispatchResponse(c)
  PROVE  Remote!Next
<1> USE DEF ClientInv
<1> DEFINE m == msg[c]
           hit == m.els \cap respWait[m.op]
<1>1. m.op \in Op /\ m.ok \in BOOLEAN
  BY DEF TypeOK, DispatchResponse, Msg, NoMsg
<1>2. handleResponse(m) /\ UNCHANGED <<pc, res, got, dp>>
  BY DEF DispatchResponse
<1>3. m.op[1] = "sub" => m.op[2] \in Subs /\ m.op = SubOp(m.op[2])
  BY <1>1, OpFacts
<1> HIDE DEF m
<1>4. hit \subseteq Ids(m.op) /\ hit \cap (buf[m.op] \cup got[m.op]) = {}
  BY <1>1 DEF OpInv, AnsweredOnce
<1>5. respWait' = [respWait EXCEPT ![m.op] = @ \ hit]
  BY <1>2 DEF handleResponse
<1>6. UNCHANGED StatusOf
  BY <1>2 DEF StatusOf
<1>7. CASE m.op[1] # "sub" \/ hit = {}
  <2>1. buf' = [buf EXCEPT ![m.op] = @ \cup hit] /\ UNCHANGED fwd
    BY <1>2, <1>7 DEF handleResponse
  <2>2. ASSUME NEW p \in Op, p # m.op PROVE AnsweredOf'[p] = AnsweredOf[p]
    <3>1. buf'[p] = buf[p] /\ got'[p] = got[p]
      BY <1>2, <2>1, <2>2 DEF TypeOK
    <3> QED
      BY <2>1, <3>1, AnsweredFrame
  <2>3. AnsweredOf'[m.op] = AnsweredOf[m.op] \cup hit /\ hit \cap AnsweredOf[m.op] = {}
    BY <1>1, <1>2, <1>4, <1>7, <2>1, AnsweredCases DEF TypeOK
  <2>4. AnsweredOf' = [AnsweredOf EXCEPT ![m.op] = @ \cup hit]
    BY <1>1, <2>2, <2>3, AnsweredBecomes
  <2>5. Remote!Answer(m.op, hit)
    BY <1>2, <1>5, <1>6, <2>3, <2>4 DEF Remote!Answer
  <2> QED
    BY <1>1, <1>4, <2>5 DEF Remote!Next
<1>8. CASE m.op[1] = "sub" /\ hit # {} /\ m.ok
  <2>1. hit = {1} /\ fwd[m.op[2]] = "none"
    BY <1>1, <1>3, <1>4, <1>8, OpFacts DEF StartInv
  <2>2. fwd' = [fwd EXCEPT ![m.op[2]] = "run"] /\ UNCHANGED buf
    BY <1>2, <1>8 DEF handleResponse
  <2>3. ASSUME NEW p \in Op, p # m.op PROVE AnsweredOf'[p] = AnsweredOf[p]
    <3>1. p[1] = "sub" => p[2] \in Subs /\ p[2] # m.op[2]
      BY <1>3, <1>8, <2>3, OpFacts
    <3>2. p[1] = "sub" => fwd'[p[2]] = fwd[p[2]]
      BY <2>2, <3>1 DEF TypeOK
    <3> QED
      BY <1>2, <2>2, <3>2, AnsweredFrame
  <2>4. AnsweredOf'[m.op] = AnsweredOf[m.op] \cup hit /\ hit \cap AnsweredOf[m.op] = {}
    BY <1>1, <1>3, <1>8, <2>1, <2>2, AnsweredCases DEF TypeOK
  <2>5. AnsweredOf' = [AnsweredOf EXCEPT ![m.op] = @ \cup hit]
    BY <1>1, <2>3, <2>4, AnsweredBecomes
  <2>6. Remote!Answer(m.op, hit)
    BY <1>2, <1>5, <1>6, <2>4, <2>5 DEF Remote!Answer
  <2> QED
    BY <1>1, <1>4, <2>6 DEF Remote!Next
<1>9. CASE m.op[1] = "sub" /\ hit # {} /\ ~m.ok
  <2>1. UNCHANGED <<fwd, buf>>
    BY <1>2, <1>9 DEF handleResponse
  <2>2. Ids(m.op) = {1} /\ respWait[m.op] \subseteq Ids(m.op)
    BY <1>1, <1>9, OpFacts DEF OpInv, AnsweredOnce
  <2>3. respWait[m.op] \ hit = {}
    BY <1>4, <1>9, <2>2
  <2>4. respWait' = [o \in Op |-> IF o \in {m.op} THEN {} ELSE respWait[o]]
    BY <1>5, <2>3 DEF TypeOK
  <2> QED
    BY <1>1, <1>2, <2>1, <2>4, GiveUpStep
<1> QED
  BY <1>1, <1>7, <1>8, <1>9

(* A caller takes a buffered response.                                     *)
LEMMA ReceiveNext ==
  ASSUME ClientInv, AnswerInv, NEW o \in Op, Receive(o)
  PROVE  Remote!Next \/ UNCHANGED Remote!vars
<1> USE DEF ClientInv
<1>1. o[1] # "sub" /\ pc[o] = "wait"
  BY OpFacts DEF Receive, StartInv
<1>2. PICK i \in buf[o] :
        /\ buf' = [buf EXCEPT ![o] = @ \ {i}]
        /\ \/ /\ opErr[o] = "nil"
              /\ got' = [got EXCEPT ![o] = @ \cup {i}]
              /\ IF got[o] \cup {i} = Ids(o) THEN Return(o, "ok")
                 ELSE UNCHANGED <<pc, res>>
           \/ /\ opErr[o] # "nil" /\ Return(o, opErr[o]) /\ UNCHANGED got
  BY DEF Receive
<1>3. UNCHANGED <<respWait, fwd, dp>>
  BY DEF Receive
<1>4. CASE opErr[o] # "nil"
  <2>1. /\ Return(o, opErr[o]) /\ UNCHANGED got
        /\ opErr[o] \in {"ctx", "quit", "write", "io", "srv"}
    BY <1>2, <1>4 DEF TypeOK
  <2>2. buf'[o] \subseteq buf[o] /\ \A p \in Op : p # o => buf'[p] = buf[p]
    BY <1>2 DEF TypeOK
  <2> QED
    BY <1>1, <1>3, <2>1, <2>2, FailStep
<1>5. CASE opErr[o] = "nil"
  <2>1. got' = [got EXCEPT ![o] = @ \cup {i}]
    BY <1>2, <1>5
  <2>2. buf'[o] \cup got'[o] = buf[o] \cup got[o]
    BY <1>2, <2>1 DEF TypeOK
  <2>3. ASSUME NEW p \in Op PROVE AnsweredOf'[p] = AnsweredOf[p]
    <3>1. p # o => buf'[p] = buf[p] /\ got'[p] = got[p]
      BY <1>2, <2>1 DEF TypeOK
    <3> QED
      BY <1>3, <2>2, <3>1, AnsweredFrame
  <2>4. CASE got[o] \cup {i} = Ids(o)
    <3>1. AnsweredOf[o] = buf[o] \cup got[o]
      BY <1>1, AnsweredCases
    <3>2. buf[o] \cup got[o] = Ids(o)
      BY <1>2, <2>4 DEF OpInv, AnsweredOnce
    <3> QED
      BY <1>1, <1>2, <1>3, <1>5, <2>3, <2>4, <3>1, <3>2, SucceedStep
  <2>5. CASE got[o] \cup {i} # Ids(o)
    <3>1. UNCHANGED <<pc, res>>
      BY <1>2, <1>5, <2>5
    <3>2. UNCHANGED StatusOf
      BY <3>1 DEF StatusOf
    <3> QED
      BY <1>3, <2>3, <3>2, SameAnswered DEF Remote!vars
  <2> QED
    BY <2>4, <2>5
<1> QED
  BY <1>4, <1>5

(* The goroutine of an op, from the select of send to its return.          *)
LEMMA OpNext ==
  ASSUME ClientInv, AnswerInv, NEW o \in Op,
         Start(o) \/ SendCancelled(o) \/ WaitCancelled(o) \/ OpStep(o) \/ Reconnected(o)
  PROVE  Remote!Next \/ UNCHANGED Remote!vars
<1> USE DEF ClientInv
<1>1. CASE Start(o) \/ Write(o) \/ DialFails(o) \/ Dial(o) \/ DialQuit(o) \/ Reconnected(o)
  <2>1. \/ pc[o] \in {"idle", "send"} /\ pc' = [pc EXCEPT ![o] = "send"]
        \/ /\ pc[o] \in Sending
           /\ \E q \in Sending : pc' = [pc EXCEPT ![o] = q]
    BY <1>1 DEF Start, Write, DialFails, Dial, DialQuit, Reconnected
  <2>2. /\ UNCHANGED <<res, got, respWait, buf, fwd>>
        /\ dp' = "quit" <=> dp = "quit"
    BY <1>1 DEF Start, Write, DialFails, Dial, DialQuit, Reconnected
  <2>3. \A p \in Op : StatusOf'[p] = StatusOf[p]
    BY <2>1, <2>2, StatusCases DEF TypeOK
  <2> QED
    BY <2>2, <2>3, StutterStep
<1>2. CASE SendCancelled(o) \/ SendQuit(o) \/ WaitCancelled(o)
  BY <1>2, FailStep DEF SendCancelled, SendQuit, WaitCancelled
<1>3. CASE SignalSendDone(o)
  <2>1. UNCHANGED <<got, respWait, buf, fwd, dp>>
    BY <1>3 DEF SignalSendDone
  <2>2. CASE pc[o] = "unsent"
    BY <1>3, <2>1, <2>2, FailStep DEF SignalSendDone
  <2>3. CASE pc[o] = "sent" /\ Ids(o) # {}
    <3>1. pc' = [pc EXCEPT ![o] = "wait"] /\ UNCHANGED res
      BY <1>3, <2>3 DEF SignalSendDone
    <3>2. \A p \in Op : StatusOf'[p] = StatusOf[p]
      BY <2>3, <3>1, StatusCases DEF TypeOK
    <3> QED
      BY <2>1, <3>2, StutterStep
  <2>4. CASE pc[o] = "sent" /\ Ids(o) = {}
    <3>1. o[1] # "sub" /\ Return(o, "ok")
      BY <1>3, <2>4, OpFacts DEF SignalSendDone
    <3>2. AnsweredOf[o] = Ids(o)
      BY <2>4, <3>1, AnsweredCases DEF OpInv, AnsweredOnce
    <3>3. \A p \in Op : AnsweredOf'[p] = AnsweredOf[p]
      BY <2>1, AnsweredCases
    <3> QED
      BY <2>1, <2>4, <3>1, <3>2, <3>3, SucceedStep
  <2> QED
    BY <1>3, <2>2, <2>3, <2>4 DEF SignalSendDone
<1>4. CASE ReceiveClosed(o)
  <2>1. UNCHANGED <<got, respWait, buf, fwd, dp>> /\ pc[o] = "wait"
    BY <1>4 DEF ReceiveClosed
  <2>2. CASE opErr[o] = "nil"
    <3>1. o[1] = "sub" /\ fwd[o[2]] # "none"
      BY <1>4, <2>2, OpFacts DEF ReceiveClosed, AnswerInv, StartInv
    <3>2. AnsweredOf[o] = Ids(o)
      BY <3>1, OpFacts, AnsweredCases
    <3>3. \A p \in Op : AnsweredOf'[p] = AnsweredOf[p]
      BY <2>1, AnsweredCases
    <3> QED
      BY <1>4, <2>1, <2>2, <3>2, <3>3, SucceedStep DEF ReceiveClosed
  <2>3. CASE opErr[o] # "nil"
    <3>1. Return(o, opErr[o]) /\ opErr[o] \in {"ctx", "quit", "write", "io", "srv"}
      BY <1>4, <2>3 DEF ReceiveClosed, TypeOK
    <3> QED
      BY <2>1, <3>1, FailStep
  <2> QED
    BY <2>2, <2>3
<1> QED
  BY <1>1, <1>2, <1>3, <1>4, ReceiveNext DEF OpStep

(* The steps of dispatch that are not joint with an op or a response.      *)
LEMMA DispatchNext ==
  ASSUME ClientInv, DispatchStep,
         ~\E o \in Op : Reconnected(o)
  PROVE  Remote!Next \/ UNCHANGED Remote!vars
<1> USE DEF ClientInv
<1>1. ASSUME NEW err, closeRequestOps(err), UNCHANGED <<pc, res, got, fwd>>,
             dp = "loop", dp' # "quit"
      PROVE  Remote!Next
  <2>1. respWait' = [o \in Op |-> IF o \in Op THEN {} ELSE respWait[o]] /\ UNCHANGED buf
    BY <1>1 DEF closeRequestOps
  <2> QED
    BY <1>1, <2>1, GiveUpStep
<1>2. ASSUME NEW k \in Closers, AcceptClose(k) PROVE Remote!Next
  BY <1>1, <1>2 DEF AcceptClose
<1>3. ASSUME NEW c \in Conn, ReadFailed(c) PROVE Remote!Next
  BY <1>1, <1>3 DEF ReadFailed
<1>4. CASE SendDone
  <2>1. /\ UNCHANGED <<pc, res, got, buf, fwd, dp>>
        /\ respWait' = respWait \/ respWait' = [respWait EXCEPT ![lastOp] = {}]
    BY <1>4 DEF SendDone
  <2>2. CASE respWait' = respWait
    BY <2>1, <2>2 DEF Remote!vars, StatusOf, AnsweredOf
  <2>3. CASE respWait' = [respWait EXCEPT ![lastOp] = {}]
    <3> DEFINE S == {o \in Op : o = lastOp}
    <3>1. respWait' = [o \in Op |-> IF o \in S THEN {} ELSE respWait[o]]
      BY <2>3 DEF TypeOK
    <3>2. S \in SUBSET Op
      OBVIOUS
    <3> HIDE DEF S
    <3> QED
      BY <2>1, <3>1, <3>2, GiveUpStep
  <2> QED
    BY <2>1, <2>2, <2>3
<1>5. CASE CloseConn
  <2>1. UNCHANGED <<pc, res, got, buf, fwd, respWait>> /\ \A o \in Op : respWait[o] = {}
    BY <1>5 DEF CloseConn, SubInv
  <2>2. CASE dp' = "quit"
    BY <2>1, <2>2, QuitStep
  <2>3. CASE dp' # "quit" /\ dp # "quit"
    BY <2>1, <2>3 DEF Remote!vars, StatusOf, AnsweredOf
  <2> QED
    BY <1>5, <2>2, <2>3 DEF CloseConn
<1>6. ASSUME NEW c \in Conn, DrainRead(c) PROVE Remote!Next \/ UNCHANGED Remote!vars
  <2>1. /\ UNCHANGED <<pc, res, got, buf, fwd, respWait>> /\ dp = "drain"
        /\ \A o \in Op : respWait[o] = {}
    BY <1>6 DEF DrainRead, SubInv
  <2>2. CASE dp' = "quit"
    BY <2>1, <2>2, QuitStep
  <2>3. CASE dp' # "quit"
    BY <2>1, <2>3 DEF Remote!vars, StatusOf, AnsweredOf
  <2> QED
    BY <2>2, <2>3
<1>7. CASE Deliver
  <2>1. UNCHANGED <<pc, res, got, buf, respWait>> /\ dp' # "quit" /\ dp # "quit"
    BY <1>7 DEF Deliver
  <2>2. \A s \in Subs : fwd'[s] # "none" <=> fwd[s] # "none"
    BY <1>7 DEF Deliver, TypeOK
  <2>3. UNCHANGED StatusOf
    BY <2>1 DEF StatusOf
  <2> QED
    BY <2>1, <2>2, <2>3, StutterStep
<1>8. CASE \/ PickSub \/ QuitSub \/ ReadFailedDone \/ DeliverQuit
           \/ \E c \in Conn : DispatchNotification(c) \/ ReconnectedDone(c)
  <2>1. /\ UNCHANGED <<pc, res, got, buf, fwd, respWait>>
        /\ dp' # "quit" /\ dp # "quit"
    BY <1>8 DEF PickSub, QuitSub, ReadFailedDone, DeliverQuit,
       DispatchNotification, ReconnectedDone
  <2> QED
    BY <2>1 DEF Remote!vars, StatusOf, AnsweredOf
<1> QED
  BY <1>2, <1>3, <1>4, <1>5, <1>6, <1>7, <1>8, AnswerNext, MakeStep DEF DispatchStep

(* The goroutines of a subscription.                                       *)
LEMMA SubNext ==
  ASSUME ClientInv, NEW s \in Subs, Unsubscribe(s) \/ SubStep(s)
  PROVE  UNCHANGED Remote!vars
<1> USE DEF ClientInv
<1>1. UNCHANGED <<res, got, respWait, buf, dp>>
  BY DEF SubStep, Unsubscribe, FwdQuit, FwdFailed, FwdReport, FwdExit,
     UnsubscribeRequest, UnsubscribeReturned, UnsubscribeSkip, UnsubscribeClose
<1>2. \A t \in Subs : fwd'[t] # "none" <=> fwd[t] # "none"
  BY DEF SubStep, Unsubscribe, FwdQuit, FwdFailed, FwdReport, FwdExit, TypeOK,
     UnsubscribeRequest, UnsubscribeReturned, UnsubscribeSkip, UnsubscribeClose
<1>3. pc' = pc \/ (pc[UnsubOp(s)] = "idle" /\ pc' = [pc EXCEPT ![UnsubOp(s)] = "send"])
  BY DEF SubStep, Unsubscribe, FwdQuit, FwdFailed, FwdReport, FwdExit, OpInv,
     UnsubscribeRequest, UnsubscribeReturned, UnsubscribeSkip, UnsubscribeClose
<1>4. \A p \in Op : StatusOf'[p] = StatusOf[p]
  BY <1>1, <1>3, StatusCases DEF TypeOK
<1> QED
  BY <1>1, <1>2, <1>4, StutterStep

(* Every step of the client is a step of RemoteCall or none.               *)
LEMMA CallStep ==
  ASSUME ClientInv, AnswerInv, [Next]_vars
  PROVE  [Remote!Next]_(Remote!vars)
<1>1. CASE \/ UNCHANGED vars
           \/ \E c \in Conn : ReadError(c) \/ PeerStep(c)
           \/ \E k \in Closers : Close(k) \/ CloseReturn(k)
  <2>1. UNCHANGED <<pc, res, got, buf, fwd, respWait, dp>>
    BY <1>1 DEF vars, PeerStep, ReadError, ReadResponse, ReadNotification, Break,
       Close, CloseReturn
  <2> QED
    BY <2>1 DEF Remote!vars, StatusOf, AnsweredOf
<1> QED
  BY <1>1, OpNext, DispatchNext, SubNext DEF Next

(* The client implements RemoteCall: through cancelled contexts, partial   *)
(* batches, repeated answers, lost connections, reconnects and Close, each *)
(* request is registered once, each of its ids is answered at most once    *)
(* and only while it is registered, and its caller gets one result, nil    *)
(* only with every answer.                                                 *)
THEOREM CallCorrect == Spec => CallSpec
<1>1. Init => Remote!Init
  <2> SUFFICES ASSUME Init PROVE Remote!Init
    OBVIOUS
  <2>1. StatusOf = [o \in Op |-> "new"]
    BY DEF Init, StatusOf
  <2>2. AnsweredOf = [o \in Op |-> {}]
    BY OpFacts DEF Init, AnsweredOf
  <2> QED
    BY <2>1, <2>2 DEF Init, Remote!Init
<1>2. ClientInv /\ AnswerInv /\ [Next]_vars => [Remote!Next]_(Remote!vars)
  BY CallStep
<1> QED
  BY <1>1, <1>2, InvCorrect, AnswerInvCorrect, PTL DEF Spec, CallSpec, Remote!Spec
=============================================================================
