-------------------------- MODULE RPCClient_proofs --------------------------
(* Proofs about RPCClient, for every set of calls, subscriptions and        *)
(* closers and for every bound on connections and messages.  The safety     *)
(* invariants of RPCClient are not inductive; ClientInv below is, and       *)
(* implies each of them.                                                    *)
EXTENDS RPCClient, TLAPS

(* Tuples of variables and the sets of control points are expanded          *)
(* throughout.                                                              *)
USE DEF callVars, opVars, sendVars, connVars, readVars, dispVars, subVars,
        srvVars, clientVars, restVars, worldVars, coreVars,
        Registered, Sending, LiveRead, Return, EnterOnce

(* An op is a pair; SubOp and UnsubOp are injective; what each op waits     *)
(* for.                                                                     *)
LEMMA OpFacts ==
  /\ NoOp \notin Op
  /\ \A s \in Subs : SubOp(s) \in Op /\ UnsubOp(s) \in Op
  /\ \A o \in Op : o[1] = "sub" => o[2] \in Subs /\ o = SubOp(o[2])
  /\ \A s \in Subs : SubOp(s)[1] = "sub" /\ SubOp(s)[2] = s
  /\ \A s \in Subs : Ids(SubOp(s)) = {1}
  /\ \A s \in Subs : UnsubOp(s)[1] = "unsub" /\ UnsubOp(s)[2] = s
  /\ \A o \in Op : o[1] \in {"sub", "unsub"} => Ids(o) = {1}
  /\ \A o \in Op : Ids(o) \subseteq Nat
BY ClientAssumption DEF Op, SubOp, UnsubOp, NoOp, Ids

(* A step keeps the types.                                                  *)
LEMMA TypeStep ==
  ASSUME TypeOK, [Next]_vars
  PROVE  TypeOK'
<1>1. ASSUME NEW o \in Op, Start(o) PROVE TypeOK'
  BY <1>1 DEF TypeOK, Start
<1>2. ASSUME NEW o \in Op, SendCancelled(o) PROVE TypeOK'
  BY <1>2 DEF TypeOK, SendCancelled
<1>3. ASSUME NEW o \in Op, SendQuit(o) PROVE TypeOK'
  BY <1>3 DEF TypeOK, SendQuit
<1>4. ASSUME NEW o \in Op, Write(o) PROVE TypeOK'
  <2>1. srv' \in [Conn -> SUBSET (Op \X Nat)]
    BY <1>4, OpFacts DEF TypeOK, Write
  <2>2. /\ pc' \in [Op -> Registered \cup {"idle", "send", "done"}]
        /\ writeConn' \in Conn \cup {0}
        /\ wrote' \in [Op -> Conn \cup {0}]
    BY <1>4 DEF TypeOK, Write
  <2> QED
    BY <1>4, <2>1, <2>2 DEF TypeOK, Write
<1>5. ASSUME NEW o \in Op, DialFails(o) PROVE TypeOK'
  BY <1>5 DEF TypeOK, DialFails
<1>6. ASSUME NEW o \in Op, Dial(o) PROVE TypeOK'
  BY <1>6, ClientAssumption DEF TypeOK, Dial, Conn
<1>7. ASSUME NEW o \in Op, DialQuit(o) PROVE TypeOK'
  BY <1>7 DEF TypeOK, DialQuit
<1>8. ASSUME NEW o \in Op, SignalSendDone(o) PROVE TypeOK'
  <2>1. CASE pc[o] = "unsent"
    BY <1>8, <2>1 DEF TypeOK, SignalSendDone
  <2>2. CASE pc[o] = "sent" /\ Ids(o) # {}
    BY <1>8, <2>2 DEF TypeOK, SignalSendDone
  <2>3. CASE pc[o] = "sent" /\ Ids(o) = {}
    BY <1>8, <2>3 DEF TypeOK, SignalSendDone
  <2> QED
    BY <1>8, <2>1, <2>2, <2>3 DEF SignalSendDone
<1>9. ASSUME NEW o \in Op, Receive(o) PROVE TypeOK'
  <2>1. CASE opErr[o] = "nil"
    <3>1. PICK i \in buf[o] : /\ buf' = [buf EXCEPT ![o] = @ \ {i}]
                              /\ got' = [got EXCEPT ![o] = @ \cup {i}]
                              /\ \/ Return(o, "ok")
                                 \/ UNCHANGED <<pc, res>>
      BY <1>9, <2>1 DEF Receive
    <3>2. i \in Nat
      BY <3>1 DEF TypeOK
    <3>3. got' \in [Op -> SUBSET Nat] /\ buf' \in [Op -> SUBSET Nat]
      BY <3>1, <3>2 DEF TypeOK
    <3>4. /\ pc' \in [Op -> Registered \cup {"idle", "send", "done"}]
          /\ res' \in [Op -> {"none", "ok", "ctx", "quit", "write", "io", "srv"}]
      BY <3>1 DEF TypeOK
    <3>5. UNCHANGED <<respWait, respClosed, opErr, sendVars, connVars, worldVars>>
      BY <1>9 DEF Receive
    <3> QED
      BY <3>3, <3>4, <3>5 DEF TypeOK
  <2>2. CASE opErr[o] # "nil"
    BY <1>9, <2>2 DEF TypeOK, Receive
  <2> QED
    BY <2>1, <2>2
<1>10. ASSUME NEW o \in Op, ReceiveClosed(o) PROVE TypeOK'
  BY <1>10 DEF TypeOK, ReceiveClosed
<1>11. ASSUME NEW o \in Op, WaitCancelled(o) PROVE TypeOK'
  BY <1>11 DEF TypeOK, WaitCancelled
<1>12. ASSUME NEW o \in Op, Reconnected(o) PROVE TypeOK'
  <2>1. CASE reading
    BY <1>12, <2>1 DEF TypeOK, Reconnected
  <2>2. CASE ~reading
    BY <1>12, <2>2 DEF TypeOK, Reconnected
  <2> QED
    BY <2>1, <2>2 DEF TypeOK
<1>13. ASSUME NEW o \in Op, AcceptOp(o) PROVE TypeOK'
  BY <1>13, OpFacts DEF TypeOK, AcceptOp
<1>14. ASSUME NEW c \in Conn, ReadFailed(c) PROVE TypeOK'
  BY <1>14 DEF TypeOK, ReadFailed, closeRequestOps
<1>15. ASSUME NEW c \in Conn, DrainRead(c) PROVE TypeOK'
  <2>1. CASE rd[c] = "resp"
    BY <1>15, <2>1 DEF TypeOK, DrainRead
  <2>2. CASE rd[c] = "err"
    BY <1>15, <2>2 DEF TypeOK, DrainRead
  <2> QED
    BY <1>15, <2>1, <2>2 DEF DrainRead
<1>16. ASSUME NEW c \in Conn, DispatchResponse(c) PROVE TypeOK'
  <2> DEFINE m == msg[c]
  <2>1. m.op \in Op /\ m.els \subseteq Nat /\ m.ok \in BOOLEAN
    BY <1>16 DEF TypeOK, DispatchResponse, Msg, NoMsg
  <2>2. m.op[1] = "sub" => m.op[2] \in Subs
    BY <2>1, OpFacts
  <2>3. handleResponse(m)
    BY <1>16 DEF DispatchResponse
  <2> HIDE DEF m
  <2>4. respWait' \in [Op -> SUBSET Nat] /\ buf' \in [Op -> SUBSET Nat]
    BY <2>1, <2>3 DEF TypeOK, handleResponse
  <2>5. respClosed' \in [Op -> BOOLEAN]
    <3>1. \/ respClosed' = respClosed
          \/ respClosed' = [respClosed EXCEPT ![m.op] = TRUE]
      BY <2>3 DEF handleResponse
    <3> QED
      BY <2>1, <3>1 DEF TypeOK
  <2>6. opErr' \in [Op -> {"nil", "quit", "io", "srv"}]
    BY <2>1, <2>3 DEF TypeOK, handleResponse
  <2>7. fwd' \in [Subs -> {"none", "run", "fail", "unsub", "exit", "done"}]
    BY <2>1, <2>2, <2>3 DEF TypeOK, handleResponse
  <2>8. subs' \subseteq Subs
    BY <2>2, <2>3 DEF TypeOK, handleResponse
  <2> QED
    BY <1>16, <2>4, <2>5, <2>6, <2>7, <2>8 DEF TypeOK, DispatchResponse
<1>17. ASSUME NEW c \in Conn, DispatchNotification(c) PROVE TypeOK'
  BY <1>17 DEF TypeOK, DispatchNotification
<1>18. ASSUME NEW c \in Conn, ReconnectedDone(c) PROVE TypeOK'
  BY <1>18 DEF TypeOK, ReconnectedDone
<1>19. ASSUME NEW c \in Conn, ReadResponse(c) PROVE TypeOK'
  <2> DEFINE M(o, els, ok) ==
               [kind |-> "resp", op |-> o, els |-> els, ok |-> ok]
             Reads(o, els, ok) ==
               /\ rd' = [rd EXCEPT ![c] = "resp"]
               /\ msg' = [msg EXCEPT ![c] = M(o, els, ok)]
               /\ \/ /\ srv' = [srv EXCEPT ![c] = @ \ ({o} \X els)]
                     /\ UNCHANGED extra
                  \/ /\ extra < MaxExtra
                     /\ extra' = extra + 1
                     /\ UNCHANGED srv
               /\ srvSubs' = [srvSubs EXCEPT ![c] =
                                CASE o[1] = "sub" /\ ok -> @ \cup {o[2]}
                                  [] o[1] = "unsub"     -> @ \ {o[2]}
                                  [] OTHER              -> @]
  <2>1. PICK o \in {p[1] : p \in srv[c]}, ok \in BOOLEAN :
          \E els \in (SUBSET {p[2] : p \in {q \in srv[c] : q[1] = o}}) \ {{}} :
            Reads(o, els, ok)
    BY <1>19 DEF ReadResponse
  <2>2. PICK els \in (SUBSET {p[2] : p \in {q \in srv[c] : q[1] = o}}) \ {{}} :
          Reads(o, els, ok)
    BY <2>1
  <2>3. srv[c] \subseteq Op \X Nat
    BY <1>19 DEF TypeOK
  <2>4. o \in Op
    BY <2>1, <2>3
  <2>5. els \subseteq Nat
    BY <2>2, <2>3
  <2>6. M(o, els, ok) \in Msg
    BY <2>1, <2>4, <2>5 DEF Msg
  <2>7. srvSubs' \in [Conn -> SUBSET Subs]
    BY <1>19, <2>2, <2>4, OpFacts DEF TypeOK
  <2>8. srv' \in [Conn -> SUBSET (Op \X Nat)]
    BY <1>19, <2>2 DEF TypeOK
  <2>9. extra' \in 0 .. MaxExtra
    BY <2>2, ClientAssumption DEF TypeOK
  <2>10. msg' \in [Conn -> Msg \cup {NoMsg}]
    <3> HIDE DEF M
    <3> QED
      BY <1>19, <2>2, <2>6 DEF TypeOK
  <2>11. rd' \in [Conn -> LiveRead \cup {"none", "dead"}]
    BY <1>19, <2>2 DEF TypeOK, LiveRead
  <2> QED
    BY <1>19, <2>7, <2>8, <2>9, <2>10, <2>11
    DEF TypeOK, ReadResponse
<1>20. ASSUME NEW c \in Conn, ReadNotification(c) PROVE TypeOK'
  <2> DEFINE M(s) == [kind |-> "note", op |-> SubOp(s), els |-> {}, ok |-> TRUE]
  <2>1. PICK s \in srvSubs[c] : msg' = [msg EXCEPT ![c] = M(s)]
    BY <1>20 DEF ReadNotification
  <2>2. M(s) \in Msg
    BY <1>20, <2>1, OpFacts DEF TypeOK, Msg
  <2> HIDE DEF M
  <2>3. msg' \in [Conn -> Msg \cup {NoMsg}]
    BY <1>20, <2>1, <2>2 DEF TypeOK
  <2>4. rd' \in [Conn -> LiveRead \cup {"none", "dead"}]
    BY <1>20 DEF TypeOK, ReadNotification
  <2>5. extra' \in 0 .. MaxExtra
    BY <1>20, ClientAssumption DEF TypeOK, ReadNotification
  <2> QED
    BY <1>20, <2>3, <2>4, <2>5 DEF TypeOK, ReadNotification
<1>21. ASSUME NEW c \in Conn, ReadError(c) PROVE TypeOK'
  BY <1>21 DEF TypeOK, ReadError
<1>22. ASSUME NEW c \in Conn, Break(c) PROVE TypeOK'
  BY <1>22 DEF TypeOK, Break
<1>23. ASSUME PickSub PROVE TypeOK'
  BY <1>23 DEF TypeOK, PickSub
<1>24. ASSUME QuitSub PROVE TypeOK'
  <2>1. dSub \in Subs
    BY <1>24 DEF TypeOK, QuitSub
  <2>2. SubErr(IF dp = "closing" THEN "quit" ELSE "io") \in {"nil", "err"}
    BY DEF SubErr
  <2>3. quit' \in [Subs -> BOOLEAN]
    BY <1>24, <2>1 DEF TypeOK, QuitSub
  <2>4. serr' \in [Subs -> {"empty", "nil", "err"}]
    BY <1>24, <2>1, <2>2 DEF TypeOK, QuitSub
  <2>5. once' \in [Subs -> {"free", "busy", "done"}]
    BY <1>24, <2>1 DEF TypeOK, QuitSub
  <2> QED
    BY <1>24, <2>3, <2>4, <2>5 DEF TypeOK, QuitSub
<1>25. ASSUME ReadFailedDone PROVE TypeOK'
  BY <1>25 DEF TypeOK, ReadFailedDone
<1>26. ASSUME CloseConn PROVE TypeOK'
  BY <1>26 DEF TypeOK, CloseConn
<1>27. ASSUME Deliver PROVE TypeOK'
  BY <1>27 DEF TypeOK, Deliver
<1>28. ASSUME DeliverQuit PROVE TypeOK'
  BY <1>28 DEF TypeOK, DeliverQuit
<1>29. ASSUME SendDone PROVE TypeOK'
  BY <1>29 DEF TypeOK, SendDone
<1>30. ASSUME NEW s \in Subs, FwdQuit(s) PROVE TypeOK'
  BY <1>30 DEF TypeOK, FwdQuit
<1>31. ASSUME NEW s \in Subs, FwdFailed(s) PROVE TypeOK'
  BY <1>31 DEF TypeOK, FwdFailed
<1>32. ASSUME NEW s \in Subs, FwdReport(s) PROVE TypeOK'
  BY <1>32 DEF TypeOK, FwdReport
<1>33. ASSUME NEW s \in Subs, FwdExit(s) PROVE TypeOK'
  BY <1>33 DEF TypeOK, FwdExit
<1>34. ASSUME NEW s \in Subs, Unsubscribe(s) PROVE TypeOK'
  BY <1>34 DEF TypeOK, Unsubscribe
<1>35. ASSUME NEW s \in Subs, UnsubscribeRequest(s) PROVE TypeOK'
  BY <1>35 DEF TypeOK, UnsubscribeRequest
<1>36. ASSUME NEW s \in Subs, UnsubscribeReturned(s) PROVE TypeOK'
  BY <1>36 DEF TypeOK, UnsubscribeReturned
<1>37. ASSUME NEW s \in Subs, UnsubscribeSkip(s) PROVE TypeOK'
  BY <1>37 DEF TypeOK, UnsubscribeSkip
<1>38. ASSUME NEW s \in Subs, UnsubscribeClose(s) PROVE TypeOK'
  BY <1>38 DEF TypeOK, UnsubscribeClose
<1>39. ASSUME NEW k \in Closers, AcceptClose(k) PROVE TypeOK'
  BY <1>39 DEF TypeOK, AcceptClose, closeRequestOps
<1>40. ASSUME NEW k \in Closers, Close(k) PROVE TypeOK'
  BY <1>40 DEF TypeOK, Close
<1>41. ASSUME NEW k \in Closers, CloseReturn(k) PROVE TypeOK'
  BY <1>41 DEF TypeOK, CloseReturn
<1>42. CASE UNCHANGED vars
  BY <1>42 DEF TypeOK, vars
<1> QED
  BY <1>1, <1>2, <1>3, <1>4, <1>5, <1>6, <1>7, <1>8, <1>9, <1>10, <1>11,
     <1>12, <1>13, <1>14, <1>15, <1>16, <1>17, <1>18, <1>19, <1>20, <1>21,
     <1>22, <1>23, <1>24, <1>25, <1>26, <1>27, <1>28, <1>29, <1>30, <1>31,
     <1>32, <1>33, <1>34, <1>35, <1>36, <1>37, <1>38, <1>39, <1>40, <1>41,
     <1>42
  DEF Next, OpStep, DispatchStep, SubStep, PeerStep

(* The inductive invariant, one part per mechanism.                         *)

(* The write lock: a full sendDone belongs to lastOp, and a failed send has *)
(* already returned to its caller.                                          *)
LockInv ==
  /\ WriteLock
  /\ sendDone # "empty" => lastOp \in Op
  /\ sendDone = "err" => pc[lastOp] = "done"

(* Requests: the ids of an op that dispatch has accepted are all accounted  *)
(* for until its channel is closed, and nothing is accounted before.        *)
OpInv ==
  /\ AnsweredOnce
  /\ NoPanicOnResp
  /\ \A o \in Op :
       /\ pc[o] \in {"idle", "send"} =>
            respWait[o] = {} /\ buf[o] = {} /\ ~respClosed[o]
       /\ pc[o] \in {"idle", "send"} \cup Sending => got[o] = {}
       /\ pc[o] \in Registered =>
            respClosed[o] \/ respWait[o] \cup buf[o] \cup got[o] = Ids(o)
       /\ pc[o] = "wait" => got[o] # Ids(o)
  /\ \A s \in Subs : once[s] = "free" => pc[UnsubOp(s)] = "idle"

(* Read loops: when dispatch handles a read error or has quit, none runs.   *)
ReadInv ==
  /\ OneReader
  /\ dp \in {"readErr", "quit"} => \A c \in Conn : rd[c] \notin LiveRead

(* Connections: dispatch's connection is closed whenever dispatch is about  *)
(* to drop it, and nobody dials while dispatch waits for the old read loop. *)
ConnInv ==
  /\ NoConnLeak
  /\ ~reading => conn \in closed
  /\ dp \in {"reconn", "drain", "quit"} => conn \in closed
  /\ dp = "reconn" => \A o \in Op : /\ pc[o] # "dialed"
                                    /\ pc[o] = "write" => writeConn # 0

(* Subscriptions: one that runs and has not quit is known to dispatch.      *)
SubInv ==
  /\ ErrChannelSafe
  /\ \A s \in Subs :
       /\ usr[s] \in {"close", "done"} => once[s] = "done"
       /\ fwd[s] # "none" /\ once[s] = "free" =>
            s \in subs \/ (dSub = s /\ dp \in {"closing", "readErr"})
  /\ dp \in {"drain", "quit"} => subs = {}
  /\ dp \in {"closing", "drain", "quit"} => \A o \in Op : respWait[o] = {}

(* Start of a subscription: while its request is open it is not running and *)
(* nobody holds it.                                                         *)
StartInv ==
  \A s \in Subs :
    /\ \/ s \in subs
       \/ dSub = s
       \/ once[s] # "free"
       \/ usr[s] # "none"
       \/ res[SubOp(s)] = "ok"
       \/ respClosed[SubOp(s)] /\ opErr[SubOp(s)] = "nil"
       => fwd[s] # "none"
    /\ \/ respWait[SubOp(s)] # {}
       \/ pc[SubOp(s)] \in {"idle", "send"}
       => fwd[s] = "none"
    /\ buf[SubOp(s)] = {}

(* A step keeps the write lock.                                             *)
LEMMA LockStep ==
  ASSUME TypeOK, OpInv, LockInv, [Next]_vars
  PROVE  LockInv'
<1>1. CASE UNCHANGED <<pc, lastOp, sendDone>>
  BY <1>1 DEF LockInv, WriteLock, TypeOK
<1>2. ASSUME NEW o \in Op, Start(o) PROVE LockInv'
  BY <1>2, OpFacts DEF LockInv, Start, WriteLock, TypeOK
<1>3. ASSUME NEW o \in Op, SendCancelled(o) PROVE LockInv'
  BY <1>3, OpFacts DEF LockInv, SendCancelled, WriteLock, TypeOK
<1>4. ASSUME NEW o \in Op, SendQuit(o) PROVE LockInv'
  BY <1>4, OpFacts DEF LockInv, SendQuit, WriteLock, TypeOK
<1>5. ASSUME NEW o \in Op, Write(o) PROVE LockInv'
  BY <1>5, OpFacts DEF LockInv, Write, WriteLock, TypeOK
<1>6. ASSUME NEW o \in Op, DialFails(o) PROVE LockInv'
  BY <1>6, OpFacts DEF LockInv, DialFails, WriteLock, TypeOK
<1>7. ASSUME NEW o \in Op, Dial(o) PROVE LockInv'
  BY <1>7, OpFacts DEF LockInv, Dial, WriteLock, TypeOK
<1>8. ASSUME NEW o \in Op, DialQuit(o) PROVE LockInv'
  BY <1>8, OpFacts DEF LockInv, DialQuit, WriteLock, TypeOK
<1>9. ASSUME NEW o \in Op, SignalSendDone(o) PROVE LockInv'
  BY <1>9, OpFacts DEF LockInv, SignalSendDone, WriteLock, TypeOK
<1>10. ASSUME NEW o \in Op, Receive(o) PROVE LockInv'
  BY <1>10, OpFacts DEF LockInv, Receive, WriteLock, TypeOK
<1>11. ASSUME NEW o \in Op, ReceiveClosed(o) PROVE LockInv'
  BY <1>11, OpFacts DEF LockInv, ReceiveClosed, WriteLock, TypeOK
<1>12. ASSUME NEW o \in Op, WaitCancelled(o) PROVE LockInv'
  BY <1>12, OpFacts DEF LockInv, WaitCancelled, WriteLock, TypeOK
<1>13. ASSUME NEW o \in Op, Reconnected(o) PROVE LockInv'
  BY <1>13, OpFacts DEF LockInv, Reconnected, WriteLock, TypeOK
<1>14. ASSUME NEW o \in Op, AcceptOp(o) PROVE LockInv'
  BY <1>14, OpFacts DEF LockInv, AcceptOp, WriteLock, TypeOK, requestOpLock
<1>15. ASSUME SendDone PROVE LockInv'
  BY <1>15, OpFacts DEF LockInv, SendDone, WriteLock, TypeOK
<1>16. ASSUME NEW s \in Subs, FwdFailed(s) PROVE LockInv'
  BY <1>16, OpFacts DEF LockInv, FwdFailed, WriteLock, TypeOK, OpInv
<1>17. ASSUME NEW s \in Subs, UnsubscribeRequest(s) PROVE LockInv'
  BY <1>17, OpFacts DEF LockInv, UnsubscribeRequest, WriteLock, TypeOK, OpInv
<1> QED
  BY <1>1, <1>2, <1>3, <1>4, <1>5, <1>6, <1>7, <1>8, <1>9, <1>10, <1>11,
     <1>12, <1>13, <1>14, <1>15, <1>16, <1>17
  DEF Next, OpStep, DispatchStep, SubStep, PeerStep, vars, ReadFailed,
      DrainRead, DispatchResponse, DispatchNotification, ReconnectedDone,
      ReadResponse, ReadNotification, ReadError, Break, PickSub, QuitSub,
      ReadFailedDone, CloseConn, Deliver, DeliverQuit, FwdQuit, FwdReport,
      FwdExit, Unsubscribe, UnsubscribeReturned, UnsubscribeSkip,
      UnsubscribeClose, AcceptClose, Close, CloseReturn

(* closeRequestOps keeps the accounting of ids: what it forgets it closes.  *)
LEMMA CloseOps ==
  ASSUME TypeOK, OpInv, NEW err \in {"quit", "io"}, closeRequestOps(err),
         UNCHANGED <<pc, got, once>>
  PROVE  OpInv'
<1>1. AnsweredOnce'
  BY DEF OpInv, AnsweredOnce, closeRequestOps, TypeOK
<1>2. NoPanicOnResp'
  BY DEF NoPanicOnResp, closeRequestOps
<1>3. ASSUME NEW o \in Op
      PROVE  /\ respWait'[o] = {} /\ buf'[o] = buf[o]
             /\ respClosed'[o] = (respWait[o] # {} \/ respClosed[o])
  BY DEF closeRequestOps
<1>4. ASSUME NEW o \in Op
      PROVE  /\ pc'[o] \in {"idle", "send"} =>
                  respWait'[o] = {} /\ buf'[o] = {} /\ ~respClosed'[o]
             /\ pc'[o] \in {"idle", "send"} \cup Sending => got'[o] = {}
             /\ pc'[o] \in Registered =>
                  \/ respClosed'[o]
                  \/ respWait'[o] \cup buf'[o] \cup got'[o] = Ids(o)
             /\ pc'[o] = "wait" => got'[o] # Ids(o)
  BY <1>3 DEF OpInv
<1> QED
  BY <1>1, <1>2, <1>4 DEF OpInv

(* Entering quitOnce starts the one unsubscribe request of a subscription.  *)
LEMMA EnterOnceOps ==
  ASSUME TypeOK, OpInv, NEW s \in Subs, EnterOnce(s), UNCHANGED <<got, opVars>>
  PROVE  OpInv'
<1>1. UnsubOp(s) \in Op /\ pc[UnsubOp(s)] = "idle"
  BY OpFacts DEF OpInv
<1>2. AnsweredOnce' /\ NoPanicOnResp'
  BY DEF OpInv, AnsweredOnce, NoPanicOnResp
<1>3. \A o \in Op : pc'[o] # pc[o] => pc[o] = "idle" /\ pc'[o] = "send"
  BY <1>1 DEF TypeOK
<1>4. \A t \in Subs : once'[t] = "free" => t # s /\ once[t] = "free"
  BY DEF TypeOK
<1>5. \A t \in Subs : once'[t] = "free" => pc'[UnsubOp(t)] = "idle"
  BY <1>1, <1>4, OpFacts DEF OpInv, TypeOK
<1> QED
  BY <1>2, <1>3, <1>5 DEF OpInv

(* A step keeps the accounting of ids.                                      *)
LEMMA OpStepInv ==
  ASSUME TypeOK, LockInv, OpInv, [Next]_vars
  PROVE  OpInv'
<1>1. CASE UNCHANGED <<pc, got, respWait, buf, respClosed, once>>
  BY <1>1 DEF OpInv, AnsweredOnce, NoPanicOnResp, TypeOK
<1>2. ASSUME NEW o \in Op, Start(o) PROVE OpInv'
  BY <1>2, OpFacts DEF OpInv, Start, AnsweredOnce, NoPanicOnResp, TypeOK
<1>3. ASSUME NEW o \in Op, SendCancelled(o) PROVE OpInv'
  BY <1>3, OpFacts DEF OpInv, SendCancelled, AnsweredOnce, NoPanicOnResp,
      TypeOK
<1>4. ASSUME NEW o \in Op, SendQuit(o) PROVE OpInv'
  BY <1>4, OpFacts DEF OpInv, SendQuit, AnsweredOnce, NoPanicOnResp, TypeOK
<1>5. ASSUME NEW o \in Op, Write(o) PROVE OpInv'
  BY <1>5, OpFacts DEF OpInv, Write, AnsweredOnce, NoPanicOnResp, TypeOK
<1>6. ASSUME NEW o \in Op, DialFails(o) PROVE OpInv'
  BY <1>6, OpFacts DEF OpInv, DialFails, AnsweredOnce, NoPanicOnResp, TypeOK
<1>7. ASSUME NEW o \in Op, Dial(o) PROVE OpInv'
  BY <1>7, OpFacts DEF OpInv, Dial, AnsweredOnce, NoPanicOnResp, TypeOK
<1>8. ASSUME NEW o \in Op, DialQuit(o) PROVE OpInv'
  BY <1>8, OpFacts DEF OpInv, DialQuit, AnsweredOnce, NoPanicOnResp, TypeOK
<1>9. ASSUME NEW o \in Op, SignalSendDone(o) PROVE OpInv'
  <2>1. UNCHANGED <<got, respWait, buf, respClosed, once>>
    BY <1>9 DEF SignalSendDone
  <2>2. AnsweredOnce' /\ NoPanicOnResp'
    BY <2>1 DEF OpInv, AnsweredOnce, NoPanicOnResp
  <2>3. \A p \in Op : p # o => pc'[p] = pc[p]
    BY <1>9 DEF SignalSendDone, TypeOK
  <2>4. /\ pc[o] \in {"sent", "unsent"}
        /\ pc'[o] = "done" \/ (pc'[o] = "wait" /\ Ids(o) # {})
    BY <1>9 DEF SignalSendDone, TypeOK
  <2>5. ASSUME NEW s \in Subs, once[s] = "free" PROVE pc'[UnsubOp(s)] = "idle"
    BY <2>3, <2>4, <2>5, OpFacts DEF OpInv
  <2> QED
    BY <2>1, <2>2, <2>3, <2>4, <2>5 DEF OpInv
<1>10. ASSUME NEW o \in Op, Receive(o) PROVE OpInv'
  BY <1>10, OpFacts DEF OpInv, Receive, AnsweredOnce, NoPanicOnResp, TypeOK
<1>11. ASSUME NEW o \in Op, ReceiveClosed(o) PROVE OpInv'
  BY <1>11, OpFacts DEF OpInv, ReceiveClosed, AnsweredOnce, NoPanicOnResp,
      TypeOK
<1>12. ASSUME NEW o \in Op, WaitCancelled(o) PROVE OpInv'
  BY <1>12, OpFacts DEF OpInv, WaitCancelled, AnsweredOnce, NoPanicOnResp,
      TypeOK
<1>13. ASSUME NEW o \in Op, Reconnected(o) PROVE OpInv'
  BY <1>13, OpFacts DEF OpInv, Reconnected, AnsweredOnce, NoPanicOnResp, TypeOK
<1>14. ASSUME NEW o \in Op, AcceptOp(o) PROVE OpInv'
  BY <1>14, OpFacts DEF OpInv, AcceptOp, AnsweredOnce, NoPanicOnResp, TypeOK
<1>15. ASSUME SendDone PROVE OpInv'
  BY <1>15, OpFacts DEF OpInv, SendDone, AnsweredOnce, NoPanicOnResp, TypeOK,
      LockInv
<1>16. ASSUME NEW s \in Subs, FwdFailed(s) PROVE OpInv'
  BY <1>16, EnterOnceOps DEF FwdFailed
<1>17. ASSUME NEW s \in Subs, UnsubscribeRequest(s) PROVE OpInv'
  BY <1>17, EnterOnceOps DEF UnsubscribeRequest
<1>18. ASSUME NEW k \in Closers, AcceptClose(k) PROVE OpInv'
  BY <1>18, CloseOps DEF AcceptClose
<1>19. ASSUME NEW c \in Conn, ReadFailed(c) PROVE OpInv'
  BY <1>19, CloseOps DEF ReadFailed
<1>20. ASSUME NEW c \in Conn, DispatchResponse(c) PROVE OpInv'
  <2> DEFINE m   == msg[c]
             hit == m.els \cap respWait[m.op]
  <2>1. m.op \in Op
    BY <1>20 DEF TypeOK, DispatchResponse, Msg, NoMsg
  <2>2. handleResponse(m) /\ UNCHANGED <<pc, got, once>>
    BY <1>20 DEF DispatchResponse
  <2> HIDE DEF m
  <2>3. hit \subseteq respWait[m.op]
    OBVIOUS
  <2>4. m.op[1] = "sub" /\ hit # {} => respWait[m.op] = hit
    BY <2>1, OpFacts DEF OpInv, AnsweredOnce
  <2>5. /\ respWait' = [respWait EXCEPT ![m.op] = @ \ hit]
        /\ \/ /\ buf' = [buf EXCEPT ![m.op] = @ \cup hit]
              /\ UNCHANGED respClosed
           \/ /\ hit # {} /\ respWait[m.op] = hit
              /\ respClosed' = [respClosed EXCEPT ![m.op] = TRUE]
              /\ UNCHANGED buf
    BY <2>2, <2>4 DEF handleResponse
  <2> HIDE DEF hit
  <2>6. \A p \in Op : p # m.op => /\ respWait'[p] = respWait[p]
                                 /\ buf'[p] = buf[p]
                                 /\ respClosed'[p] = respClosed[p]
    BY <2>1, <2>5 DEF TypeOK
  <2>7. /\ respWait'[m.op] = respWait[m.op] \ hit
        /\ \/ /\ buf'[m.op] = buf[m.op] \cup hit
              /\ respClosed'[m.op] = respClosed[m.op]
           \/ /\ hit # {} /\ respWait[m.op] = hit /\ respClosed'[m.op]
              /\ buf'[m.op] = buf[m.op]
    BY <2>1, <2>5 DEF TypeOK
  <2>8. ASSUME NEW p \in Op
        PROVE  /\ respWait'[p] \cup buf'[p] \cup got'[p] \subseteq Ids(p)
               /\ respWait'[p] \cap (buf'[p] \cup got'[p]) = {}
               /\ buf'[p] \cap got'[p] = {}
               /\ respWait'[p] # {} => ~respClosed'[p]
    BY <2>2, <2>3, <2>6, <2>7 DEF OpInv, AnsweredOnce, NoPanicOnResp
  <2>9. ASSUME NEW p \in Op
        PROVE  /\ pc'[p] \in {"idle", "send"} =>
                    respWait'[p] = {} /\ buf'[p] = {} /\ ~respClosed'[p]
               /\ pc'[p] \in {"idle", "send"} \cup Sending => got'[p] = {}
               /\ pc'[p] \in Registered =>
                    \/ respClosed'[p]
                    \/ respWait'[p] \cup buf'[p] \cup got'[p] = Ids(p)
               /\ pc'[p] = "wait" => got'[p] # Ids(p)
    BY <2>2, <2>3, <2>6, <2>7 DEF OpInv
  <2> QED
    BY <2>2, <2>8, <2>9 DEF OpInv, AnsweredOnce, NoPanicOnResp
<1>21. ASSUME QuitSub PROVE OpInv'
  BY <1>21, OpFacts DEF OpInv, QuitSub, AnsweredOnce, NoPanicOnResp, TypeOK
<1>22. ASSUME NEW s \in Subs, FwdReport(s) PROVE OpInv'
  BY <1>22, OpFacts DEF OpInv, FwdReport, AnsweredOnce, NoPanicOnResp, TypeOK
<1>23. ASSUME NEW s \in Subs, UnsubscribeReturned(s) PROVE OpInv'
  BY <1>23, OpFacts DEF OpInv, UnsubscribeReturned, AnsweredOnce,
      NoPanicOnResp, TypeOK
<1> QED
  BY <1>1, <1>2, <1>3, <1>4, <1>5, <1>6, <1>7, <1>8, <1>9, <1>10, <1>11,
     <1>12, <1>13, <1>14, <1>15, <1>16, <1>17, <1>18, <1>19, <1>20, <1>21,
     <1>22, <1>23
  DEF Next, OpStep, DispatchStep, SubStep, PeerStep, vars, DrainRead,
      DispatchNotification, ReconnectedDone, ReadResponse, ReadNotification,
      ReadError, Break, PickSub, ReadFailedDone, CloseConn, Deliver,
      DeliverQuit, FwdQuit, FwdExit, Unsubscribe, UnsubscribeSkip,
      UnsubscribeClose, Close, CloseReturn

(* A step keeps the single read loop.                                       *)
LEMMA ReadStep ==
  ASSUME TypeOK, ReadInv, [Next]_vars
  PROVE  ReadInv'
<1>1. CASE UNCHANGED <<dp, conn, reading, rd>>
  BY <1>1 DEF ReadInv, OneReader, TypeOK
<1>2. ASSUME NEW k \in Closers, AcceptClose(k) PROVE ReadInv'
  BY <1>2 DEF ReadInv, AcceptClose, OneReader, TypeOK
<1>3. ASSUME NEW c \in Conn, ReadFailed(c) PROVE ReadInv'
  BY <1>3 DEF ReadInv, ReadFailed, OneReader, TypeOK
<1>4. ASSUME ReadFailedDone PROVE ReadInv'
  BY <1>4 DEF ReadInv, ReadFailedDone, OneReader, TypeOK
<1>5. ASSUME CloseConn PROVE ReadInv'
  BY <1>5 DEF ReadInv, CloseConn, OneReader, TypeOK
<1>6. ASSUME NEW c \in Conn, DrainRead(c) PROVE ReadInv'
  BY <1>6 DEF ReadInv, DrainRead, OneReader, TypeOK
<1>7. ASSUME NEW c \in Conn, DispatchResponse(c) PROVE ReadInv'
  BY <1>7 DEF ReadInv, DispatchResponse, OneReader, TypeOK
<1>8. ASSUME NEW c \in Conn, DispatchNotification(c) PROVE ReadInv'
  BY <1>8 DEF ReadInv, DispatchNotification, OneReader, TypeOK
<1>9. ASSUME Deliver PROVE ReadInv'
  BY <1>9 DEF ReadInv, Deliver, OneReader, TypeOK
<1>10. ASSUME DeliverQuit PROVE ReadInv'
  BY <1>10 DEF ReadInv, DeliverQuit, OneReader, TypeOK
<1>11. ASSUME NEW o \in Op, Reconnected(o) PROVE ReadInv'
  BY <1>11 DEF ReadInv, Reconnected, OneReader, TypeOK
<1>12. ASSUME NEW c \in Conn, ReconnectedDone(c) PROVE ReadInv'
  BY <1>12 DEF ReadInv, ReconnectedDone, OneReader, TypeOK
<1>13. ASSUME NEW c \in Conn, ReadResponse(c) PROVE ReadInv'
  BY <1>13 DEF ReadInv, ReadResponse, OneReader, TypeOK
<1>14. ASSUME NEW c \in Conn, ReadNotification(c) PROVE ReadInv'
  BY <1>14 DEF ReadInv, ReadNotification, OneReader, TypeOK
<1>15. ASSUME NEW c \in Conn, ReadError(c) PROVE ReadInv'
  BY <1>15 DEF ReadInv, ReadError, OneReader, TypeOK
<1> QED
  BY <1>1, <1>2, <1>3, <1>4, <1>5, <1>6, <1>7, <1>8, <1>9, <1>10, <1>11,
     <1>12, <1>13, <1>14, <1>15
  DEF Next, OpStep, DispatchStep, SubStep, PeerStep, vars, Start,
      SendCancelled, SendQuit, Write, DialFails, Dial, DialQuit,
      SignalSendDone, Receive, ReceiveClosed, WaitCancelled, AcceptOp, Break,
      PickSub, QuitSub, SendDone, FwdQuit, FwdFailed, FwdReport, FwdExit,
      Unsubscribe, UnsubscribeRequest, UnsubscribeReturned, UnsubscribeSkip,
      UnsubscribeClose, Close, CloseReturn

(* Only dialling and writing matter to connections.                         *)
LEMMA ConnFrame ==
  ASSUME ConnInv, UNCHANGED <<writeConn, dp, conn, reading, nconn, closed>>,
         \A p \in Op : /\ pc'[p] = "dialed" <=> pc[p] = "dialed"
                       /\ pc'[p] = "write" => pc[p] = "write"
  PROVE  ConnInv'
<1>1. (\E o \in Op : pc[o] = "dialed") <=> (\E o \in Op : pc'[o] = "dialed")
  OBVIOUS
<1>2. NoConnLeak'
  BY <1>1 DEF ConnInv, NoConnLeak
<1>3. dp' = "reconn" => \A o \in Op : /\ pc'[o] # "dialed"
                                      /\ pc'[o] = "write" => writeConn' # 0
  BY DEF ConnInv
<1> QED
  BY <1>2, <1>3 DEF ConnInv

(* A step keeps every open connection reachable.                            *)
LEMMA ConnStep ==
  ASSUME TypeOK, LockInv, OpInv, ReadInv, ConnInv, [Next]_vars
  PROVE  ConnInv'
<1>1. CASE UNCHANGED <<pc, writeConn, dp, conn, reading, nconn, closed>>
  BY <1>1 DEF ConnInv, NoConnLeak
<1>2. ASSUME NEW o \in Op, Start(o) PROVE ConnInv'
  BY ConnFrame, <1>2 DEF Start, TypeOK
<1>3. ASSUME NEW o \in Op, SendCancelled(o) PROVE ConnInv'
  BY ConnFrame, <1>3 DEF SendCancelled, TypeOK
<1>4. ASSUME NEW o \in Op, SendQuit(o) PROVE ConnInv'
  BY ConnFrame, <1>4 DEF SendQuit, TypeOK
<1>5. ASSUME NEW o \in Op, Write(o) PROVE ConnInv'
  BY <1>5 DEF ConnInv, Write, NoConnLeak, Conn, TypeOK, LockInv, WriteLock
<1>6. ASSUME NEW o \in Op, DialFails(o) PROVE ConnInv'
  BY <1>6 DEF ConnInv, DialFails, NoConnLeak, Conn, TypeOK
<1>7. ASSUME NEW o \in Op, Dial(o) PROVE ConnInv'
  BY <1>7 DEF ConnInv, Dial, NoConnLeak, Conn, TypeOK, LockInv, WriteLock
<1>8. ASSUME NEW o \in Op, DialQuit(o) PROVE ConnInv'
  BY <1>8 DEF ConnInv, DialQuit, NoConnLeak, Conn, TypeOK, LockInv, WriteLock
<1>9. ASSUME NEW o \in Op, SignalSendDone(o) PROVE ConnInv'
  BY ConnFrame, <1>9 DEF SignalSendDone, TypeOK
<1>10. ASSUME NEW o \in Op, Receive(o) PROVE ConnInv'
  BY ConnFrame, <1>10 DEF Receive, TypeOK
<1>11. ASSUME NEW o \in Op, ReceiveClosed(o) PROVE ConnInv'
  BY ConnFrame, <1>11 DEF ReceiveClosed, TypeOK
<1>12. ASSUME NEW o \in Op, WaitCancelled(o) PROVE ConnInv'
  BY ConnFrame, <1>12 DEF WaitCancelled, TypeOK
<1>13. ASSUME NEW o \in Op, Reconnected(o) PROVE ConnInv'
  BY <1>13 DEF ConnInv, Reconnected, NoConnLeak,
      Conn, TypeOK, LockInv, WriteLock
<1>14. ASSUME NEW o \in Op, AcceptOp(o) PROVE ConnInv'
  BY <1>14 DEF ConnInv, AcceptOp, NoConnLeak, Conn, TypeOK
<1>15. ASSUME NEW s \in Subs, FwdFailed(s) PROVE ConnInv'
  BY ConnFrame, <1>15, OpFacts DEF FwdFailed, OpInv, TypeOK
<1>16. ASSUME NEW s \in Subs, UnsubscribeRequest(s) PROVE ConnInv'
  BY ConnFrame, <1>16, OpFacts DEF UnsubscribeRequest, OpInv, TypeOK
<1>17. ASSUME NEW k \in Closers, AcceptClose(k) PROVE ConnInv'
  BY <1>17 DEF ConnInv, AcceptClose, NoConnLeak, Conn, TypeOK
<1>18. ASSUME NEW c \in Conn, ReadFailed(c) PROVE ConnInv'
  BY <1>18 DEF ConnInv, ReadFailed, NoConnLeak, Conn, TypeOK
<1>19. ASSUME ReadFailedDone PROVE ConnInv'
  BY <1>19 DEF ConnInv, ReadFailedDone, NoConnLeak, Conn, TypeOK
<1>20. ASSUME CloseConn PROVE ConnInv'
  BY <1>20 DEF ConnInv, CloseConn, NoConnLeak, Conn, TypeOK
<1>21. ASSUME NEW c \in Conn, DrainRead(c) PROVE ConnInv'
  BY <1>21 DEF ConnInv, DrainRead, NoConnLeak, Conn, TypeOK
<1>22. ASSUME NEW c \in Conn, DispatchNotification(c) PROVE ConnInv'
  BY <1>22 DEF ConnInv, DispatchNotification, NoConnLeak, Conn, TypeOK
<1>23. ASSUME Deliver PROVE ConnInv'
  BY <1>23 DEF ConnInv, Deliver, NoConnLeak, Conn, TypeOK
<1>24. ASSUME DeliverQuit PROVE ConnInv'
  BY <1>24 DEF ConnInv, DeliverQuit, NoConnLeak, Conn, TypeOK
<1>25. ASSUME NEW c \in Conn, ReconnectedDone(c) PROVE ConnInv'
  BY <1>25 DEF ConnInv, ReconnectedDone,
      NoConnLeak, Conn, TypeOK, ReadInv, OneReader
<1> QED
  BY <1>1, <1>2, <1>3, <1>4, <1>5, <1>6, <1>7, <1>8, <1>9, <1>10, <1>11,
     <1>12, <1>13, <1>14, <1>15, <1>16, <1>17, <1>18, <1>19, <1>20, <1>21,
     <1>22, <1>23, <1>24, <1>25
  DEF Next, OpStep, DispatchStep, SubStep, PeerStep, vars, DispatchResponse,
      ReadResponse, ReadNotification, ReadError, Break, PickSub, QuitSub,
      SendDone, FwdQuit, FwdReport, FwdExit, Unsubscribe, UnsubscribeReturned,
      UnsubscribeSkip, UnsubscribeClose, Close, CloseReturn

(* A step keeps sub.err safe and every running subscription known to        *)
(* dispatch.                                                                *)
LEMMA SubStepInv ==
  ASSUME TypeOK, SubInv, [Next]_vars
  PROVE  SubInv'
<1>1. CASE UNCHANGED <<usr, once, serr, serrClosed, fwd, subs, dSub, dp,
                    respWait>>
  BY <1>1 DEF SubInv, ErrChannelSafe, TypeOK
<1>2. ASSUME NEW k \in Closers, AcceptClose(k) PROVE SubInv'
  BY <1>2 DEF SubInv, AcceptClose, ErrChannelSafe, TypeOK, closeRequestOps
<1>3. ASSUME NEW c \in Conn, ReadFailed(c) PROVE SubInv'
  BY <1>3 DEF SubInv, ReadFailed, ErrChannelSafe, TypeOK, closeRequestOps
<1>4. ASSUME PickSub PROVE SubInv'
  BY <1>4, ClientAssumption DEF SubInv, PickSub, ErrChannelSafe, TypeOK
<1>5. ASSUME QuitSub PROVE SubInv'
  <2>1. dSub \in Subs
    BY <1>5 DEF QuitSub, TypeOK
  <2>2. ErrChannelSafe'
    BY <1>5, <2>1 DEF SubInv, QuitSub, ErrChannelSafe, TypeOK
  <2>3. \A s \in Subs : once'[s] = (IF s = dSub THEN "done" ELSE once[s])
    BY <1>5, <2>1 DEF QuitSub, TypeOK
  <2> QED
    BY <1>5, <2>2, <2>3 DEF SubInv, QuitSub
<1>6. ASSUME ReadFailedDone PROVE SubInv'
  BY <1>6, ClientAssumption DEF SubInv, ReadFailedDone, ErrChannelSafe, TypeOK
<1>7. ASSUME CloseConn PROVE SubInv'
  BY <1>7, ClientAssumption DEF SubInv, CloseConn, ErrChannelSafe, TypeOK
<1>8. ASSUME NEW c \in Conn, DrainRead(c) PROVE SubInv'
  BY <1>8 DEF SubInv, DrainRead, ErrChannelSafe, TypeOK
<1>9. ASSUME NEW c \in Conn, DispatchResponse(c) PROVE SubInv'
  BY <1>9 DEF SubInv, DispatchResponse, ErrChannelSafe,
      TypeOK, handleResponse, Msg, NoMsg
<1>10. ASSUME NEW c \in Conn, DispatchNotification(c) PROVE SubInv'
  BY <1>10 DEF SubInv, DispatchNotification, ErrChannelSafe, TypeOK
<1>11. ASSUME Deliver PROVE SubInv'
  BY <1>11 DEF SubInv, Deliver, ErrChannelSafe, TypeOK
<1>12. ASSUME DeliverQuit PROVE SubInv'
  BY <1>12 DEF SubInv, DeliverQuit, ErrChannelSafe, TypeOK
<1>13. ASSUME NEW o \in Op, Reconnected(o) PROVE SubInv'
  BY <1>13 DEF SubInv, Reconnected, ErrChannelSafe, TypeOK
<1>14. ASSUME NEW c \in Conn, ReconnectedDone(c) PROVE SubInv'
  BY <1>14 DEF SubInv, ReconnectedDone, ErrChannelSafe, TypeOK
<1>15. ASSUME NEW o \in Op, AcceptOp(o) PROVE SubInv'
  BY <1>15 DEF SubInv, AcceptOp, ErrChannelSafe, TypeOK
<1>16. ASSUME SendDone PROVE SubInv'
  BY <1>16 DEF SubInv, SendDone, ErrChannelSafe, TypeOK
<1>17. ASSUME NEW s \in Subs, FwdQuit(s) PROVE SubInv'
  BY <1>17 DEF SubInv, FwdQuit, ErrChannelSafe, TypeOK
<1>18. ASSUME NEW s \in Subs, FwdFailed(s) PROVE SubInv'
  BY <1>18 DEF SubInv, FwdFailed, ErrChannelSafe, TypeOK
<1>19. ASSUME NEW s \in Subs, FwdReport(s) PROVE SubInv'
  BY <1>19 DEF SubInv, FwdReport, ErrChannelSafe, TypeOK
<1>20. ASSUME NEW s \in Subs, FwdExit(s) PROVE SubInv'
  BY <1>20 DEF SubInv, FwdExit, ErrChannelSafe, TypeOK
<1>21. ASSUME NEW s \in Subs, Unsubscribe(s) PROVE SubInv'
  BY <1>21 DEF SubInv, Unsubscribe, ErrChannelSafe, TypeOK
<1>22. ASSUME NEW s \in Subs, UnsubscribeRequest(s) PROVE SubInv'
  BY <1>22 DEF SubInv, UnsubscribeRequest, ErrChannelSafe, TypeOK
<1>23. ASSUME NEW s \in Subs, UnsubscribeReturned(s) PROVE SubInv'
  BY <1>23 DEF SubInv, UnsubscribeReturned, ErrChannelSafe, TypeOK
<1>24. ASSUME NEW s \in Subs, UnsubscribeSkip(s) PROVE SubInv'
  BY <1>24 DEF SubInv, UnsubscribeSkip, ErrChannelSafe, TypeOK
<1>25. ASSUME NEW s \in Subs, UnsubscribeClose(s) PROVE SubInv'
  BY <1>25 DEF SubInv, UnsubscribeClose, ErrChannelSafe, TypeOK
<1> QED
  BY <1>1, <1>2, <1>3, <1>4, <1>5, <1>6, <1>7, <1>8, <1>9, <1>10, <1>11,
     <1>12, <1>13, <1>14, <1>15, <1>16, <1>17, <1>18, <1>19, <1>20, <1>21,
     <1>22, <1>23, <1>24, <1>25
  DEF Next, OpStep, DispatchStep, SubStep, PeerStep, vars, Start,
      SendCancelled, SendQuit, Write, DialFails, Dial, DialQuit,
      SignalSendDone, Receive, ReceiveClosed, WaitCancelled, ReadResponse,
      ReadNotification, ReadError, Break, Close, CloseReturn

(* A step keeps a subscription from starting twice.                         *)
LEMMA StartStep ==
  ASSUME TypeOK, OpInv, StartInv, [Next]_vars
  PROVE  StartInv'
<1>1. CASE UNCHANGED <<pc, res, respWait, buf, respClosed, opErr, subs, dSub,
                    once, usr, fwd>>
  BY <1>1 DEF StartInv, TypeOK
<1>2. ASSUME NEW o \in Op, Start(o) PROVE StartInv'
  BY <1>2 DEF StartInv, Start, TypeOK
<1>3. ASSUME NEW o \in Op, SendCancelled(o) PROVE StartInv'
  BY <1>3 DEF StartInv, SendCancelled, TypeOK
<1>4. ASSUME NEW o \in Op, SendQuit(o) PROVE StartInv'
  BY <1>4 DEF StartInv, SendQuit, TypeOK
<1>5. ASSUME NEW o \in Op, Write(o) PROVE StartInv'
  BY <1>5 DEF StartInv, Write, TypeOK
<1>6. ASSUME NEW o \in Op, DialFails(o) PROVE StartInv'
  BY <1>6 DEF StartInv, DialFails, TypeOK
<1>7. ASSUME NEW o \in Op, Dial(o) PROVE StartInv'
  BY <1>7 DEF StartInv, Dial, TypeOK
<1>8. ASSUME NEW o \in Op, DialQuit(o) PROVE StartInv'
  BY <1>8 DEF StartInv, DialQuit, TypeOK
<1>9. ASSUME NEW o \in Op, SignalSendDone(o) PROVE StartInv'
  <2>1. \A s \in Subs : res'[SubOp(s)] = "ok" => res[SubOp(s)] = "ok"
    <3>1. ASSUME NEW s \in Subs, o = SubOp(s)
          PROVE  res'[SubOp(s)] = "ok" => res[SubOp(s)] = "ok"
      <4>1. Ids(o) # {}
        BY <3>1, OpFacts
      <4> QED
        BY <1>9, <3>1, <4>1 DEF SignalSendDone, TypeOK
    <3>2. ASSUME NEW s \in Subs, o # SubOp(s)
          PROVE  res'[SubOp(s)] = "ok" => res[SubOp(s)] = "ok"
      BY <1>9, <3>2, OpFacts DEF SignalSendDone, TypeOK
    <3> QED
      BY <3>1, <3>2
  <2>2. \A p \in Op : pc'[p] \in {"idle", "send"} => pc[p] \in {"idle", "send"}
    BY <1>9 DEF SignalSendDone, TypeOK
  <2> QED
    BY <1>9, <2>1, <2>2, OpFacts DEF StartInv, SignalSendDone
<1>10. ASSUME NEW o \in Op, Receive(o) PROVE StartInv'
  BY <1>10, OpFacts DEF StartInv, Receive, TypeOK
<1>11. ASSUME NEW o \in Op, ReceiveClosed(o) PROVE StartInv'
  <2>1. ASSUME NEW s \in Subs, res'[SubOp(s)] = "ok", res[SubOp(s)] # "ok"
        PROVE  respClosed[SubOp(s)] /\ opErr[SubOp(s)] = "nil"
    <3>1. o = SubOp(s) /\ SubOp(s) \in Op
      BY <1>11, <2>1, OpFacts DEF ReceiveClosed, TypeOK
    <3> QED
      BY <1>11, <2>1, <3>1 DEF ReceiveClosed, TypeOK
  <2>2. \A p \in Op : pc'[p] \in {"idle", "send"} => pc[p] \in {"idle", "send"}
    BY <1>11 DEF ReceiveClosed, TypeOK
  <2> QED
    BY <1>11, <2>1, <2>2, OpFacts DEF StartInv, ReceiveClosed
<1>12. ASSUME NEW o \in Op, WaitCancelled(o) PROVE StartInv'
  BY <1>12 DEF StartInv, WaitCancelled, TypeOK
<1>13. ASSUME NEW o \in Op, Reconnected(o) PROVE StartInv'
  BY <1>13 DEF StartInv, Reconnected, TypeOK
<1>14. ASSUME NEW o \in Op, AcceptOp(o) PROVE StartInv'
  BY <1>14 DEF StartInv, AcceptOp, TypeOK, OpInv
<1>15. ASSUME SendDone PROVE StartInv'
  BY <1>15 DEF StartInv, SendDone, TypeOK
<1>16. ASSUME NEW s \in Subs, FwdFailed(s) PROVE StartInv'
  BY <1>16, OpFacts DEF StartInv, FwdFailed, TypeOK
<1>17. ASSUME NEW s \in Subs, UnsubscribeRequest(s) PROVE StartInv'
  BY <1>17, OpFacts DEF StartInv, UnsubscribeRequest, TypeOK
<1>18. ASSUME NEW k \in Closers, AcceptClose(k) PROVE StartInv'
  BY <1>18, OpFacts DEF StartInv, AcceptClose, TypeOK, closeRequestOps
<1>19. ASSUME NEW c \in Conn, ReadFailed(c) PROVE StartInv'
  BY <1>19, OpFacts DEF StartInv, ReadFailed, TypeOK, closeRequestOps
<1>20. ASSUME PickSub PROVE StartInv'
  BY <1>20 DEF StartInv, PickSub, TypeOK
<1>21. ASSUME QuitSub PROVE StartInv'
  BY <1>21, ClientAssumption DEF StartInv, QuitSub, TypeOK
<1>22. ASSUME NEW c \in Conn, DispatchResponse(c) PROVE StartInv'
  <2> DEFINE m   == msg[c]
             hit == m.els \cap respWait[m.op]
  <2>1. m.op \in Op /\ m.ok \in BOOLEAN
    BY <1>22 DEF TypeOK, DispatchResponse, Msg, NoMsg
  <2>2. handleResponse(m) /\ UNCHANGED <<pc, res, dSub, once, usr>>
    BY <1>22 DEF DispatchResponse
  <2> HIDE DEF m
  <2>3. CASE m.op[1] # "sub" \/ hit = {}
    <3>1. UNCHANGED <<respClosed, opErr, fwd, subs>>
      BY <2>2, <2>3 DEF handleResponse
    <3>2. /\ respWait' = [respWait EXCEPT ![m.op] = @ \ hit]
          /\ buf' = [buf EXCEPT ![m.op] = @ \cup hit]
      BY <2>2, <2>3 DEF handleResponse
    <3>3. \A s \in Subs : respWait'[SubOp(s)] # {} => respWait[SubOp(s)] # {}
      BY <2>1, <3>2, OpFacts DEF TypeOK
    <3>4. \A s \in Subs : m.op = SubOp(s) => hit = {}
      BY <2>3, OpFacts
    <3> HIDE DEF hit
    <3>5. \A s \in Subs : buf'[SubOp(s)] = buf[SubOp(s)]
      <4> SUFFICES ASSUME NEW s \in Subs PROVE buf'[SubOp(s)] = buf[SubOp(s)]
        OBVIOUS
      <4>1. CASE m.op = SubOp(s)
        <5>1. buf'[m.op] = buf[m.op] \cup hit
          BY <2>1, <3>2 DEF TypeOK
        <5> QED
          BY <3>4, <4>1, <5>1
      <4>2. CASE m.op # SubOp(s)
        BY <2>1, <3>2, <4>2, OpFacts DEF TypeOK
      <4> QED
        BY <4>1, <4>2
    <3> QED
      BY <2>2, <3>1, <3>3, <3>5 DEF StartInv
  <2>4. CASE m.op[1] = "sub" /\ hit # {}
    <3>1. PICK s \in Subs : m.op = SubOp(s)
      BY <2>1, <2>4, OpFacts
    <3>2. m.op[2] = s /\ SubOp(s) \in Op
      BY <3>1, OpFacts
    <3>3. hit = {1} /\ respWait[SubOp(s)] = {1}
      BY <2>1, <2>4, <3>1, OpFacts DEF OpInv, AnsweredOnce
    <3>4. /\ respWait' = [respWait EXCEPT ![SubOp(s)] = {}]
          /\ respClosed' = [respClosed EXCEPT ![SubOp(s)] = TRUE]
          /\ opErr' = [opErr EXCEPT ![SubOp(s)] = IF m.ok THEN "nil" ELSE "srv"]
          /\ fwd' = IF m.ok THEN [fwd EXCEPT ![s] = "run"] ELSE fwd
          /\ subs' = IF m.ok THEN subs \cup {s} ELSE subs
          /\ UNCHANGED buf
      <4>1. respWait' = [respWait EXCEPT ![m.op] = @ \ hit]
        BY <2>2 DEF handleResponse
      <4>2. respWait' = [respWait EXCEPT ![SubOp(s)] = {}]
        <5> HIDE DEF hit
        <5> QED
          BY <3>1, <3>3, <4>1
      <4> QED
        BY <2>2, <2>4, <3>1, <3>2, <4>2 DEF handleResponse
    <3>5. pc[SubOp(s)] \notin {"idle", "send"}
      BY <3>2, <3>3 DEF OpInv
    <3>6. ASSUME NEW t \in Subs, t # s PROVE SubOp(t) # SubOp(s)
      BY <3>6, OpFacts
    <3> QED
      BY <2>1, <2>2, <3>2, <3>3, <3>4, <3>5, <3>6, OpFacts DEF StartInv, TypeOK
  <2> QED
    BY <2>3, <2>4
<1>23. ASSUME NEW c \in Conn, DispatchNotification(c) PROVE StartInv'
  BY <1>23 DEF StartInv, DispatchNotification, TypeOK
<1>24. ASSUME Deliver PROVE StartInv'
  BY <1>24, ClientAssumption DEF StartInv, Deliver, TypeOK
<1>25. ASSUME DeliverQuit PROVE StartInv'
  BY <1>25, ClientAssumption DEF StartInv, DeliverQuit, TypeOK
<1>26. ASSUME NEW s \in Subs, FwdQuit(s) PROVE StartInv'
  BY <1>26 DEF StartInv, FwdQuit, TypeOK
<1>27. ASSUME NEW s \in Subs, FwdReport(s) PROVE StartInv'
  BY <1>27 DEF StartInv, FwdReport, TypeOK
<1>28. ASSUME NEW s \in Subs, FwdExit(s) PROVE StartInv'
  BY <1>28 DEF StartInv, FwdExit, TypeOK
<1>29. ASSUME NEW s \in Subs, Unsubscribe(s) PROVE StartInv'
  BY <1>29 DEF StartInv, Unsubscribe, TypeOK
<1>30. ASSUME NEW s \in Subs, UnsubscribeReturned(s) PROVE StartInv'
  BY <1>30 DEF StartInv, UnsubscribeReturned, TypeOK
<1>31. ASSUME NEW s \in Subs, UnsubscribeSkip(s) PROVE StartInv'
  BY <1>31 DEF StartInv, UnsubscribeSkip, TypeOK
<1>32. ASSUME NEW s \in Subs, UnsubscribeClose(s) PROVE StartInv'
  BY <1>32 DEF StartInv, UnsubscribeClose, TypeOK
<1> QED
  BY <1>1, <1>2, <1>3, <1>4, <1>5, <1>6, <1>7, <1>8, <1>9, <1>10, <1>11,
     <1>12, <1>13, <1>14, <1>15, <1>16, <1>17, <1>18, <1>19, <1>20, <1>21,
     <1>22, <1>23, <1>24, <1>25, <1>26, <1>27, <1>28, <1>29, <1>30, <1>31,
     <1>32
  DEF Next, OpStep, DispatchStep, SubStep, PeerStep, vars, DrainRead,
      ReconnectedDone, ReadResponse, ReadNotification, ReadError, Break,
      ReadFailedDone, CloseConn, Close, CloseReturn

-----------------------------------------------------------------------------
(* The inductive invariant.                                                 *)
ClientInv ==
  /\ TypeOK
  /\ LockInv
  /\ OpInv
  /\ ReadInv
  /\ ConnInv
  /\ SubInv
  /\ StartInv

(* newClient establishes the invariant.                                     *)
LEMMA InitInv == Init => ClientInv
<1> SUFFICES ASSUME Init PROVE ClientInv
  OBVIOUS
<1>1. TypeOK
  BY ClientAssumption DEF Init, TypeOK, Conn, NoMsg
<1>2. LockInv
  BY DEF Init, LockInv, WriteLock
<1>3. OpInv
  BY OpFacts DEF Init, OpInv, AnsweredOnce, NoPanicOnResp
<1>4. ReadInv
  BY DEF Init, ReadInv, OneReader
<1>5. ConnInv
  BY DEF Init, ConnInv, NoConnLeak
<1>6. SubInv
  BY DEF Init, SubInv, ErrChannelSafe
<1>7. StartInv
  BY OpFacts, ClientAssumption DEF Init, StartInv
<1> QED
  BY <1>1, <1>2, <1>3, <1>4, <1>5, <1>6, <1>7 DEF ClientInv

(* Every step of every goroutine keeps the invariant.                       *)
LEMMA NextInv == ClientInv /\ [Next]_vars => ClientInv'
<1> SUFFICES ASSUME ClientInv, [Next]_vars PROVE ClientInv'
  OBVIOUS
<1> USE DEF ClientInv
<1>1. TypeOK'
  BY TypeStep
<1>2. LockInv'
  BY LockStep
<1>3. OpInv'
  BY OpStepInv
<1>4. ReadInv'
  BY ReadStep
<1>5. ConnInv'
  BY ConnStep
<1>6. SubInv'
  BY SubStepInv
<1>7. StartInv'
  BY StartStep
<1> QED
  BY <1>1, <1>2, <1>3, <1>4, <1>5, <1>6, <1>7

(* ClientInv holds in every reachable state of the client.                  *)
THEOREM InvCorrect == Spec => []ClientInv
  BY InitInv, NextInv, PTL DEF Spec

(* Type correctness of the client's state.                                  *)
THEOREM TypeCorrect == Spec => []TypeOK
<1>1. ClientInv => TypeOK
  BY DEF ClientInv
<1> QED
  BY <1>1, InvCorrect, PTL

(* The write lock of send/dispatch excludes, whatever the connections and   *)
(* the readers do: writeConn has one user, and its sendDone <- err never    *)
(* blocks.                                                                  *)
THEOREM WriteLockCorrect == Spec => []WriteLock
<1>1. ClientInv => WriteLock
  BY DEF ClientInv, LockInv
<1> QED
  BY <1>1, InvCorrect, PTL

(* dispatch never sends on or closes a closed op.resp, through              *)
(* handleResponse, closeRequestOps on a read error and closeRequestOps on   *)
(* Close.                                                                   *)
THEOREM NoPanicOnRespCorrect == Spec => []NoPanicOnResp
<1>1. ClientInv => NoPanicOnResp
  BY DEF ClientInv, OpInv
<1> QED
  BY <1>1, InvCorrect, PTL

(* However often the peer answers, each id of a call or batch is delivered  *)
(* at most once, and op.resp has room for it.                               *)
THEOREM AnsweredOnceCorrect == Spec => []AnsweredOnce
<1>1. ClientInv => AnsweredOnce
  BY DEF ClientInv, OpInv
<1> QED
  BY <1>1, InvCorrect, PTL

(* No caller of op.wait is forgotten by dispatch: for every batch size and  *)
(* every interleaving of partial answers, failed writes, reconnects and     *)
(* Close.                                                                   *)
THEOREM NoLostWakeupCorrect == Spec => []NoLostWakeup
<1>1. ClientInv => NoLostWakeup
  <2> SUFFICES ASSUME ClientInv, NEW o \in Op, pc[o] = "wait",
                      respWait[o] = {}, buf[o] = {}
               PROVE  respClosed[o]
    BY DEF NoLostWakeup
  <2>1. got[o] # Ids(o)
    BY DEF ClientInv, OpInv
  <2>2. respClosed[o] \/ got[o] = Ids(o)
    BY DEF ClientInv, OpInv
  <2> QED
    BY <2>1, <2>2
<1> QED
  BY <1>1, InvCorrect, PTL

(* One read loop at a time, on dispatch's connection, through any number of *)
(* reconnects.                                                              *)
THEOREM OneReaderCorrect == Spec => []OneReader
<1>1. ClientInv => OneReader
  BY DEF ClientInv, ReadInv
<1> QED
  BY <1>1, InvCorrect, PTL

(* No goroutine sends on a closed or full sub.err, whoever of the owner,    *)
(* forward and dispatch ends the subscription first.                        *)
THEOREM ErrChannelCorrect == Spec => []ErrChannelSafe
<1>1. ClientInv => ErrChannelSafe
  BY DEF ClientInv, SubInv
<1> QED
  BY <1>1, InvCorrect, PTL

(* Every connection that was dialled is closed, held by dispatch or on its  *)
(* way to it.                                                               *)
THEOREM NoConnLeakCorrect == Spec => []NoConnLeak
<1>1. ClientInv => NoConnLeak
  BY DEF ClientInv, ConnInv
<1> QED
  BY <1>1, InvCorrect, PTL

(* When didQuit is closed, respWait is empty, every subscription has been   *)
(* told and no read loop runs.                                              *)
THEOREM QuitCorrect == Spec => []QuitIsClean
<1>1. ClientInv => QuitIsClean
  BY DEF ClientInv, ReadInv, SubInv, QuitIsClean
<1> QED
  BY <1>1, InvCorrect, PTL

(* handleResponse starts each subscription at most once, also when the peer *)
(* answers the request twice or after Subscribe was cancelled.              *)
THEOREM StartedOnceCorrect == Spec => StartedOnce
<1>1. ASSUME ClientInv, [Next]_vars
      PROVE  [\A s \in Subs :
                s \in subs' \ subs => fwd[s] = "none" /\ once[s] = "free"]_vars
  <2> SUFFICES ASSUME NEW s \in Subs, s \in subs', s \notin subs
               PROVE  fwd[s] = "none" /\ once[s] = "free"
    OBVIOUS
  <2>1. PICK c \in Conn : DispatchResponse(c)
    BY <1>1 DEF Next, OpStep, DispatchStep, SubStep, PeerStep, vars, Start,
           SendCancelled, SendQuit, Write, DialFails, Dial, DialQuit,
           SignalSendDone, Receive, ReceiveClosed, WaitCancelled, Reconnected,
           AcceptOp, ReadFailed, DrainRead, DispatchNotification,
           ReconnectedDone, ReadResponse, ReadNotification, ReadError, Break,
           PickSub, QuitSub, ReadFailedDone, CloseConn, Deliver, DeliverQuit,
           SendDone, FwdQuit, FwdFailed, FwdReport, FwdExit, Unsubscribe,
           UnsubscribeRequest, UnsubscribeReturned, UnsubscribeSkip,
           UnsubscribeClose, AcceptClose, Close, CloseReturn
  <2>2. msg[c].op \in Op
    BY <1>1, <2>1 DEF ClientInv, TypeOK, DispatchResponse, Msg, NoMsg
  <2>3. msg[c].op = SubOp(s) /\ respWait[SubOp(s)] # {}
    BY <2>1, <2>2, OpFacts DEF DispatchResponse, handleResponse
  <2> QED
    BY <1>1, <2>3 DEF ClientInv, StartInv
<1> QED
  BY <1>1, InvCorrect, PTL DEF Spec, StartedOnce

-----------------------------------------------------------------------------
(* Answers.  Only a response to Subscribe closes op.resp without an error,  *)
(* and an op with a result has returned.                                    *)
AnswerInv ==
  /\ OkIsAnswered
  /\ \A o \in Op : /\ res[o] # "none" => pc[o] = "done"
                   /\ respClosed[o] /\ o[1] # "sub" => opErr[o] # "nil"

(* A step keeps the answers complete.                                       *)
LEMMA AnswerStep ==
  ASSUME ClientInv, AnswerInv, [Next]_vars
  PROVE  AnswerInv'
<1> USE DEF ClientInv
<1>1. CASE UNCHANGED <<pc, res, got, respClosed, opErr, fwd>>
  BY <1>1 DEF AnswerInv, OkIsAnswered
<1>2. ASSUME NEW o \in Op, Start(o) PROVE AnswerInv'
  BY <1>2 DEF AnswerInv, OkIsAnswered, Start, TypeOK
<1>3. ASSUME NEW o \in Op, SendCancelled(o) PROVE AnswerInv'
  BY <1>3 DEF AnswerInv, OkIsAnswered, SendCancelled, TypeOK
<1>4. ASSUME NEW o \in Op, SendQuit(o) PROVE AnswerInv'
  BY <1>4 DEF AnswerInv, OkIsAnswered, SendQuit, TypeOK
<1>5. ASSUME NEW o \in Op, Write(o) PROVE AnswerInv'
  BY <1>5 DEF AnswerInv, OkIsAnswered, Write, TypeOK
<1>6. ASSUME NEW o \in Op, DialFails(o) PROVE AnswerInv'
  BY <1>6 DEF AnswerInv, OkIsAnswered, DialFails, TypeOK
<1>7. ASSUME NEW o \in Op, Dial(o) PROVE AnswerInv'
  BY <1>7 DEF AnswerInv, OkIsAnswered, Dial, TypeOK
<1>8. ASSUME NEW o \in Op, DialQuit(o) PROVE AnswerInv'
  BY <1>8 DEF AnswerInv, OkIsAnswered, DialQuit, TypeOK
<1>9. ASSUME NEW o \in Op, SignalSendDone(o) PROVE AnswerInv'
  <2>1. pc[o] = "sent" /\ Ids(o) = {} => got[o] = Ids(o) /\ o[1] # "sub"
    BY OpFacts DEF OpInv
  <2> QED
    BY <1>9, <2>1 DEF AnswerInv, OkIsAnswered, SignalSendDone, TypeOK
<1>10. ASSUME NEW o \in Op, Receive(o) PROVE AnswerInv'
  <2>1. o[1] # "sub"
    BY <1>10, OpFacts DEF Receive, StartInv
  <2>2. PICK i \in buf[o] :
          \/ /\ got' = [got EXCEPT ![o] = @ \cup {i}]
             /\ IF got[o] \cup {i} = Ids(o) THEN Return(o, "ok")
                ELSE UNCHANGED <<pc, res>>
          \/ /\ opErr[o] # "nil" /\ Return(o, opErr[o]) /\ UNCHANGED got
    BY <1>10 DEF Receive
  <2>3. opErr[o] # "ok" /\ pc[o] = "wait"
    BY <1>10 DEF Receive, TypeOK
  <2>4. UNCHANGED <<respClosed, opErr, fwd>>
    BY <1>10 DEF Receive
  <2>5. /\ pc'[o] = "done" \/ res'[o] = res[o]
        /\ res'[o] = "ok" /\ res[o] # "ok" => got'[o] = Ids(o)
    BY <2>2, <2>3 DEF TypeOK
  <2>6. \A p \in Op : p # o => pc'[p] = pc[p] /\ res'[p] = res[p] /\ got'[p] = got[p]
    BY <2>2 DEF TypeOK
  <2>7. res[o] = "none"
    BY <2>3 DEF AnswerInv
  <2> QED
    BY <2>1, <2>4, <2>5, <2>6, <2>7 DEF AnswerInv, OkIsAnswered
<1>11. ASSUME NEW o \in Op, ReceiveClosed(o) PROVE AnswerInv'
  <2>1. respClosed[o] /\ opErr[o] = "nil" => o[1] = "sub" /\ fwd[o[2]] # "none"
    BY OpFacts DEF AnswerInv, StartInv
  <2>2. opErr[o] # "ok"
    BY DEF TypeOK
  <2> QED
    BY <1>11, <2>1, <2>2 DEF AnswerInv, OkIsAnswered, ReceiveClosed, TypeOK
<1>12. ASSUME NEW o \in Op, WaitCancelled(o) PROVE AnswerInv'
  BY <1>12 DEF AnswerInv, OkIsAnswered, WaitCancelled, TypeOK
<1>13. ASSUME NEW o \in Op, Reconnected(o) PROVE AnswerInv'
  BY <1>13 DEF AnswerInv, OkIsAnswered, Reconnected, TypeOK
<1>14. ASSUME NEW o \in Op, AcceptOp(o) PROVE AnswerInv'
  BY <1>14 DEF AnswerInv, OkIsAnswered, AcceptOp, TypeOK
<1>15. ASSUME NEW k \in Closers, AcceptClose(k) PROVE AnswerInv'
  BY <1>15 DEF AnswerInv, OkIsAnswered, AcceptClose, closeRequestOps, TypeOK
<1>16. ASSUME NEW c \in Conn, ReadFailed(c) PROVE AnswerInv'
  BY <1>16 DEF AnswerInv, OkIsAnswered, ReadFailed, closeRequestOps, TypeOK
<1>17. ASSUME NEW c \in Conn, DispatchResponse(c) PROVE AnswerInv'
  <2> DEFINE m == msg[c]
  <2>1. m.op \in Op
    BY <1>17 DEF TypeOK, DispatchResponse, Msg, NoMsg
  <2>2. handleResponse(m) /\ UNCHANGED <<pc, res, got>>
    BY <1>17 DEF DispatchResponse
  <2> HIDE DEF m
  <2>3. \A s \in Subs : fwd[s] # "none" => fwd'[s] # "none"
    BY <2>2 DEF handleResponse, TypeOK
  <2>4. \A o \in Op : o[1] # "sub" => respClosed'[o] = respClosed[o] /\ opErr'[o] = opErr[o]
    BY <2>1, <2>2 DEF handleResponse, TypeOK
  <2> QED
    BY <2>2, <2>3, <2>4, OpFacts DEF AnswerInv, OkIsAnswered
<1>18. ASSUME Deliver PROVE AnswerInv'
  <2>1. \A s \in Subs : fwd[s] # "none" => fwd'[s] # "none"
    BY <1>18 DEF Deliver, TypeOK
  <2> QED
    BY <1>18, <2>1, OpFacts DEF AnswerInv, OkIsAnswered, Deliver
<1>19. ASSUME NEW s \in Subs, FwdQuit(s) \/ FwdReport(s) \/ FwdExit(s) PROVE AnswerInv'
  <2>1. \A t \in Subs : fwd[t] # "none" => fwd'[t] # "none"
    BY <1>19 DEF FwdQuit, FwdReport, FwdExit, TypeOK
  <2> QED
    BY <1>19, <2>1, OpFacts DEF AnswerInv, OkIsAnswered, FwdQuit, FwdReport, FwdExit
<1>20. ASSUME NEW s \in Subs, FwdFailed(s) PROVE AnswerInv'
  <2>1. \A t \in Subs : fwd[t] # "none" => fwd'[t] # "none"
    BY <1>20 DEF FwdFailed, TypeOK
  <2>2. pc[UnsubOp(s)] = "idle" /\ UnsubOp(s) \in Op
    BY <1>20, OpFacts DEF FwdFailed, OpInv
  <2>3. \A p \in Op : pc[p] = "done" => pc'[p] = "done"
    BY <1>20, <2>2 DEF FwdFailed, TypeOK
  <2> QED
    BY <1>20, <2>1, <2>3, OpFacts DEF AnswerInv, OkIsAnswered, FwdFailed
<1>21. ASSUME NEW s \in Subs, UnsubscribeRequest(s) PROVE AnswerInv'
  <2>1. pc[UnsubOp(s)] = "idle" /\ UnsubOp(s) \in Op
    BY <1>21, OpFacts DEF UnsubscribeRequest, OpInv
  <2>2. \A p \in Op : pc[p] = "done" => pc'[p] = "done"
    BY <1>21, <2>1 DEF UnsubscribeRequest, TypeOK
  <2> QED
    BY <1>21, <2>2 DEF AnswerInv, OkIsAnswered, UnsubscribeRequest
<1> QED
  BY <1>1, <1>2, <1>3, <1>4, <1>5, <1>6, <1>7, <1>8, <1>9, <1>10, <1>11,
     <1>12, <1>13, <1>14, <1>15, <1>16, <1>17, <1>18, <1>19, <1>20, <1>21
  DEF Next, OpStep, DispatchStep, SubStep, PeerStep, vars, DrainRead,
      DispatchNotification, ReconnectedDone, ReadResponse, ReadNotification,
      ReadError, Break, PickSub, QuitSub, ReadFailedDone, CloseConn,
      DeliverQuit, SendDone, Unsubscribe, UnsubscribeReturned,
      UnsubscribeSkip, UnsubscribeClose, Close, CloseReturn

(* In every reachable state the answers are complete.                       *)
LEMMA AnswerInvCorrect == Spec => []AnswerInv
<1>1. Init => AnswerInv
  BY DEF Init, AnswerInv, OkIsAnswered
<1>2. ClientInv /\ AnswerInv /\ [Next]_vars => AnswerInv'
  BY AnswerStep
<1> QED
  BY <1>1, <1>2, InvCorrect, PTL DEF Spec

(* A nil error means an answer: no interleaving of partial batches, read    *)
(* errors and Close lets op.wait return the nil response of a closed        *)
(* channel as a success.                                                    *)
THEOREM OkIsAnsweredCorrect == Spec => []OkIsAnswered
<1>1. AnswerInv => OkIsAnswered
  BY DEF AnswerInv
<1> QED
  BY <1>1, AnswerInvCorrect, PTL

-----------------------------------------------------------------------------
(* The end of a read loop.  A connection without its read loop is closed or *)
(* dispatch is about to close it, and then no id is registered.             *)
DeadInv ==
  /\ \A c \in Conn : rd[c] = "dead" => c \in closed \/ (dp = "readErr" /\ c = conn)
  /\ dp = "readErr" => \A o \in Op : respWait[o] = {}

LEMMA DeadStep ==
  ASSUME ClientInv, DeadInv, [Next]_vars
  PROVE  DeadInv'
<1> USE DEF ClientInv
<1>1. CASE UNCHANGED <<rd, dp, closed, conn, respWait>>
  BY <1>1 DEF DeadInv
<1>2. ASSUME NEW o \in Op, DialQuit(o) PROVE DeadInv'
  BY <1>2 DEF DeadInv, DialQuit
<1>3. ASSUME NEW k \in Closers, AcceptClose(k) PROVE DeadInv'
  BY <1>3 DEF DeadInv, AcceptClose
<1>4. ASSUME NEW c \in Conn, ReadFailed(c) PROVE DeadInv'
  BY <1>4 DEF DeadInv, ReadFailed, closeRequestOps, ReadInv, OneReader, TypeOK
<1>5. ASSUME ReadFailedDone PROVE DeadInv'
  BY <1>5 DEF DeadInv, ReadFailedDone
<1>6. ASSUME CloseConn PROVE DeadInv'
  BY <1>6 DEF DeadInv, CloseConn
<1>7. ASSUME NEW c \in Conn, DrainRead(c) PROVE DeadInv'
  BY <1>7 DEF DeadInv, DrainRead, ConnInv, ReadInv, OneReader, TypeOK
<1>8. ASSUME NEW c \in Conn, DispatchResponse(c) PROVE DeadInv'
  BY <1>8 DEF DeadInv, DispatchResponse, TypeOK
<1>9. ASSUME NEW c \in Conn, DispatchNotification(c) PROVE DeadInv'
  BY <1>9 DEF DeadInv, DispatchNotification, TypeOK
<1>10. ASSUME Deliver \/ DeliverQuit PROVE DeadInv'
  BY <1>10 DEF DeadInv, Deliver, DeliverQuit
<1>11. ASSUME NEW o \in Op, Reconnected(o) PROVE DeadInv'
  BY <1>11 DEF DeadInv, Reconnected, TypeOK
<1>12. ASSUME NEW c \in Conn, ReconnectedDone(c) PROVE DeadInv'
  BY <1>12 DEF DeadInv, ReconnectedDone, ConnInv, ReadInv, OneReader, TypeOK
<1>13. ASSUME NEW o \in Op, AcceptOp(o) PROVE DeadInv'
  BY <1>13 DEF DeadInv, AcceptOp
<1>14. ASSUME SendDone PROVE DeadInv'
  BY <1>14 DEF DeadInv, SendDone, TypeOK
<1>15. ASSUME NEW c \in Conn, ReadResponse(c) \/ ReadNotification(c) \/ ReadError(c)
       PROVE  DeadInv'
  BY <1>15 DEF DeadInv, ReadResponse, ReadNotification, ReadError, TypeOK
<1> QED
  BY <1>1, <1>2, <1>3, <1>4, <1>5, <1>6, <1>7, <1>8, <1>9, <1>10, <1>11,
     <1>12, <1>13, <1>14, <1>15
  DEF Next, OpStep, DispatchStep, SubStep, PeerStep, vars, Start,
      SendCancelled, SendQuit, Write, DialFails, Dial, SignalSendDone,
      Receive, ReceiveClosed, WaitCancelled, Break, PickSub, QuitSub,
      FwdQuit, FwdFailed, FwdReport, FwdExit, Unsubscribe,
      UnsubscribeRequest, UnsubscribeReturned, UnsubscribeSkip,
      UnsubscribeClose, Close, CloseReturn

(* No op that was written waits for an answer from a dead read loop.        *)
SignalInv ==
  \A o \in Op :
    pc[o] \in {"sent", "wait"} /\ wrote[o] # 0 /\ rd[wrote[o]] = "dead" => respWait[o] = {}

LEMMA SignalStep ==
  ASSUME ClientInv, DeadInv, SignalInv, [Next]_vars,
         \A c \in Conn : ~ReconnectedDone(c)
  PROVE  SignalInv'
<1> USE DEF ClientInv
<1>1. CASE UNCHANGED <<pc, wrote, rd, respWait>>
  BY <1>1 DEF SignalInv
<1>2. ASSUME /\ UNCHANGED <<wrote, rd, respWait>>
             /\ \A o \in Op : pc'[o] \in {"sent", "wait"} => pc[o] \in {"sent", "wait"}
      PROVE  SignalInv'
  BY <1>2 DEF SignalInv
<1>3. ASSUME NEW o \in Op,
             \/ Start(o) \/ SendCancelled(o) \/ SendQuit(o) \/ DialFails(o) \/ Dial(o)
             \/ DialQuit(o) \/ ReceiveClosed(o) \/ WaitCancelled(o)
      PROVE  SignalInv'
  BY <1>2, <1>3 DEF Start, SendCancelled, SendQuit, DialFails, Dial, DialQuit,
     ReceiveClosed, WaitCancelled, TypeOK
<1>4. ASSUME NEW o \in Op, SignalSendDone(o) PROVE SignalInv'
  BY <1>2, <1>4 DEF SignalSendDone, TypeOK
<1>5. ASSUME NEW o \in Op, Receive(o) PROVE SignalInv'
  BY <1>2, <1>5 DEF Receive, TypeOK
<1>6. ASSUME NEW o \in Op, Write(o) PROVE SignalInv'
  <2>1. UNCHANGED <<rd, respWait>> /\ wrote' = [wrote EXCEPT ![o] = writeConn]
    BY <1>6 DEF Write
  <2>2. pc'[o] = "sent" => writeConn \notin closed
    BY <1>6 DEF Write, TypeOK
  <2>3. \A p \in Op : p # o => pc'[p] = pc[p] /\ wrote'[p] = wrote[p]
    BY <1>6 DEF Write, TypeOK
  <2>4. pc'[o] \in {"sent", "unsent"}
    BY <1>6 DEF Write, TypeOK
  <2>5. writeConn \in Conn /\ wrote'[o] = writeConn
    BY <1>6, <2>1 DEF Write, TypeOK
  <2>6. pc'[o] = "sent" /\ rd[writeConn] = "dead" => respWait[o] = {}
    BY <2>2, <2>5 DEF DeadInv
  <2> QED
    BY <2>1, <2>3, <2>4, <2>5, <2>6 DEF SignalInv
<1>7. ASSUME NEW o \in Op, AcceptOp(o) PROVE SignalInv'
  BY <1>7 DEF SignalInv, AcceptOp, TypeOK
<1>8. ASSUME NEW o \in Op, Reconnected(o) PROVE SignalInv'
  BY <1>8 DEF SignalInv, Reconnected, TypeOK
<1>9. ASSUME NEW k \in Closers, AcceptClose(k) PROVE SignalInv'
  BY <1>9 DEF SignalInv, AcceptClose, closeRequestOps
<1>10. ASSUME NEW c \in Conn, ReadFailed(c) PROVE SignalInv'
  BY <1>10 DEF SignalInv, ReadFailed, closeRequestOps
<1>11. ASSUME NEW c \in Conn, DrainRead(c) PROVE SignalInv'
  BY <1>11 DEF SignalInv, DrainRead, SubInv
<1>12. ASSUME NEW c \in Conn, DispatchResponse(c) PROVE SignalInv'
  <2>1. \A o \in Op : respWait[o] = {} => respWait'[o] = {}
    <3>1. msg[c].op \in Op
      BY <1>12 DEF TypeOK, DispatchResponse, Msg, NoMsg
    <3> QED
      BY <1>12, <3>1 DEF DispatchResponse, handleResponse, TypeOK
  <2>2. \A d \in Conn : rd'[d] = "dead" => rd[d] = "dead"
    BY <1>12 DEF DispatchResponse, TypeOK
  <2>3. \A o \in Op : wrote[o] \in Conn \cup {0}
    BY DEF TypeOK
  <2> QED
    BY <1>12, <2>1, <2>2, <2>3 DEF SignalInv, DispatchResponse
<1>13. ASSUME NEW c \in Conn, DispatchNotification(c) PROVE SignalInv'
  BY <1>13 DEF SignalInv, DispatchNotification, TypeOK
<1>14. ASSUME SendDone PROVE SignalInv'
  BY <1>14 DEF SignalInv, SendDone, TypeOK
<1>15. ASSUME NEW c \in Conn, ReadResponse(c) \/ ReadNotification(c) \/ ReadError(c)
       PROVE  SignalInv'
  <2>1. \A d \in Conn : rd'[d] = "dead" => rd[d] = "dead"
    BY <1>15 DEF ReadResponse, ReadNotification, ReadError, TypeOK
  <2>2. \A o \in Op : wrote[o] \in Conn \cup {0}
    BY DEF TypeOK
  <2> QED
    BY <1>15, <2>1, <2>2 DEF SignalInv, ReadResponse, ReadNotification, ReadError
<1>16. ASSUME NEW s \in Subs, FwdFailed(s) \/ UnsubscribeRequest(s) PROVE SignalInv'
  BY <1>2, <1>16, OpFacts DEF FwdFailed, UnsubscribeRequest, TypeOK
<1> QED
  BY <1>1, <1>3, <1>4, <1>5, <1>6, <1>7, <1>8, <1>9, <1>10, <1>11, <1>12,
     <1>13, <1>14, <1>15, <1>16
  DEF Next, OpStep, DispatchStep, SubStep, PeerStep, vars, Break, PickSub,
      QuitSub, ReadFailedDone, CloseConn, Deliver, DeliverQuit, FwdQuit,
      FwdReport, FwdExit, Unsubscribe, UnsubscribeReturned, UnsubscribeSkip,
      UnsubscribeClose, Close, CloseReturn

(* The end of a read loop signals every op written to its connection, over  *)
(* any number of connections, in every behaviour in which dispatch does not *)
(* take the error of the old read loop inside case <-c.reconnected: that    *)
(* receive, which runs no closeRequestOps, is the only way an op is left    *)
(* waiting.                                                                 *)
THEOREM ReadEndCorrect ==
  Spec /\ [][\A c \in Conn : ~ReconnectedDone(c)]_vars => []ReadEndSignalsOps
<1>1. Init => DeadInv /\ SignalInv
  BY DEF Init, DeadInv, SignalInv
<1>2. ClientInv /\ DeadInv /\ [Next]_vars => DeadInv'
  BY DeadStep
<1>3. /\ ClientInv /\ DeadInv /\ SignalInv /\ [Next]_vars
      /\ [\A c \in Conn : ~ReconnectedDone(c)]_vars
      => SignalInv'
  <2> SUFFICES ASSUME ClientInv, DeadInv, SignalInv, [Next]_vars,
                      [\A c \in Conn : ~ReconnectedDone(c)]_vars
               PROVE  SignalInv'
    OBVIOUS
  <2>1. CASE UNCHANGED vars
    BY <2>1 DEF vars, SignalInv
  <2>2. CASE \A c \in Conn : ~ReconnectedDone(c)
    BY <2>2, SignalStep
  <2> QED
    BY <2>1, <2>2
<1>4. SignalInv => ReadEndSignalsOps
  BY DEF SignalInv, ReadEndSignalsOps
<1> QED
  BY <1>1, <1>2, <1>3, <1>4, InvCorrect, PTL DEF Spec

(* A client that never reconnects keeps the promise: the end of its read    *)
(* loop signals every operation that waits.                                 *)
THEOREM OneConnectionCorrect ==
  ASSUME MaxConns = 1
  PROVE  Spec => []ReadEndSignalsOps
<1> DEFINE NoDial == dp # "reconn" /\ \A o \in Op : pc[o] # "dialed"
<1>1. Init => NoDial
  BY DEF Init
<1>2. ClientInv /\ NoDial /\ [Next]_vars => NoDial'
  <2> SUFFICES ASSUME ClientInv, NoDial, [Next]_vars PROVE NoDial'
    OBVIOUS
  <2>1. ASSUME NEW o \in Op PROVE ~Dial(o) /\ ~Reconnected(o)
    BY DEF ClientInv, TypeOK, Conn, Dial, Reconnected
  <2>2. dp' # "reconn"
    BY <2>1 DEF Next, OpStep, DispatchStep, SubStep, PeerStep, vars, Start,
       SendCancelled, SendQuit, Write, DialFails, DialQuit, SignalSendDone,
       Receive, ReceiveClosed, WaitCancelled, AcceptOp, ReadFailed, DrainRead,
       DispatchResponse, DispatchNotification, ReconnectedDone, ReadResponse,
       ReadNotification, ReadError, Break, PickSub, QuitSub, ReadFailedDone,
       CloseConn, Deliver, DeliverQuit, SendDone, FwdQuit, FwdFailed,
       FwdReport, FwdExit, Unsubscribe, UnsubscribeRequest,
       UnsubscribeReturned, UnsubscribeSkip, UnsubscribeClose, AcceptClose,
       Close, CloseReturn
  <2>3. ASSUME NEW p \in Op PROVE pc'[p] # "dialed"
    <3>1. CASE UNCHANGED pc
      BY <3>1
    <3>2. ASSUME NEW o \in Op,
                 \/ Start(o) \/ SendCancelled(o) \/ WaitCancelled(o) \/ AcceptOp(o)
                 \/ OpStep(o)
          PROVE  pc'[p] # "dialed"
      BY <2>1, <3>2 DEF ClientInv, TypeOK, OpStep, Start, SendCancelled, SendQuit,
         Write, DialFails, DialQuit, SignalSendDone, Receive, ReceiveClosed,
         WaitCancelled, AcceptOp
    <3>3. ASSUME NEW s \in Subs, FwdFailed(s) \/ UnsubscribeRequest(s)
          PROVE  pc'[p] # "dialed"
      BY <3>3, OpFacts DEF ClientInv, TypeOK, FwdFailed, UnsubscribeRequest
    <3> QED
      BY <2>1, <3>1, <3>2, <3>3 DEF Next, DispatchStep, SubStep, PeerStep, vars,
         ReadFailed, DrainRead, DispatchResponse, DispatchNotification,
         ReconnectedDone, ReadResponse, ReadNotification, ReadError, Break,
         PickSub, QuitSub, ReadFailedDone, CloseConn, Deliver, DeliverQuit,
         SendDone, FwdQuit, FwdReport, FwdExit, Unsubscribe,
         UnsubscribeReturned, UnsubscribeSkip, UnsubscribeClose, AcceptClose,
         Close, CloseReturn
  <2> QED
    BY <2>2, <2>3
<1>3. NoDial => [\A c \in Conn : ~ReconnectedDone(c)]_vars
  BY DEF ReconnectedDone
<1> HIDE DEF NoDial
<1> QED
  BY <1>1, <1>2, <1>3, ReadEndCorrect, InvCorrect, PTL DEF Spec
=============================================================================
