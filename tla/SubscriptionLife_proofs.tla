----------------------- MODULE SubscriptionLife_proofs -----------------------
(***************************************************************************)
(* The server implements SubscriptionLife, and an unsubscribe can only be  *)
(* too early, never too late.                                              *)
(***************************************************************************)
EXTENDS RPCServer_proofs

(* A request that the loop of exec has not reached has no outcome.         *)
OutcomeInv ==
    \A m \in Msgs : \A k \in DOMAIN Body[m] :
       job[m] = "none" \/ (job[m] = "handle" /\ pos[m] <= k) => res[Body[m][k]] = "none"

(* The callbacks: nothing is active before its message's responses are     *)
(* written, and nothing is left inactive when the callbacks have run.      *)
CallbackInv ==
    /\ \A s \in Subs : s \in active \/ errCloses[s] > 0 =>
                          job[MsgOf[s]] \in {"activate", "done"}
    /\ \A m \in Msgs : \A k \in DOMAIN Body[m] :
          Body[m][k] \in inactive =>
             job[m] \in {"handle", "write"} \/ (job[m] = "activate" /\ pos[m] <= k)

(* A subscription that was granted is known to the notifier until its err  *)
(* is closed, and only a granted one is asked to be cancelled.             *)
GrantedInv ==
    /\ \A s \in inactive : res[s] = "ok"
    /\ \A s \in Subs : ConnOf(s) \notin Single /\ res[s] = "ok" =>
                          s \in active \cup inactive \/ errCloses[s] > 0
    /\ \A r \in Reqs : Kind[r] = "unsubscribe" /\ ConnOf(r) \in Conns \ Single =>
                          res[Target[r]] = "ok"

LifeInv == OutcomeInv /\ CallbackInv /\ GrantedInv

-----------------------------------------------------------------------------
(* What handling the next request of m decides.                            *)
LEMMA HandleOutcome ==
    ASSUME TypeOK, NEW m \in Msgs, Handle(m), NEW r, r = Body[m][pos[m]]
    PROVE  /\ \A q \in Reqs : q # r => res'[q] = res[q]
           /\ \/ /\ UNCHANGED notifVars
                 /\ r \in Subs => res'[r] = "err"
                 /\ Kind[r] = "unsubscribe" => at[m] \in Single \/ Target[r] \notin active
              \/ /\ r \in Subs /\ at[m] \notin Single /\ res'[r] = "ok"
                 /\ inactive' = inactive \cup {r}
                 /\ svc' = [svc EXCEPT ![r] = "idle"]
                 /\ UNCHANGED <<active, errCloses, noted>>
              \/ /\ Kind[r] = "unsubscribe" /\ at[m] \notin Single /\ SubMuFree(at[m])
                 /\ Target[r] \in active
                 /\ errCloses' = [errCloses EXCEPT ![Target[r]] = @ + 1]
                 /\ active' = active \ {Target[r]}
                 /\ UNCHANGED <<inactive, svc, noted>>
<1>1. r \in Reqs /\ MsgOf[r] = m
  BY HandleEffect
<1>2. HandleCall(r) \/ HandleUnsupported(r) \/ CreateSubscription(r) \/ Unsubscribe(r)
  BY DEF Handle
<1>3. CASE HandleCall(r)
  BY <1>1, <1>3 DEF HandleCall, TypeOK, Subs
<1>4. CASE HandleUnsupported(r)
  BY <1>1, <1>4 DEF HandleUnsupported, TypeOK, ConnOf, Subs
<1>5. CASE CreateSubscription(r)
  BY <1>1, <1>5 DEF CreateSubscription, TypeOK, ConnOf, Subs
<1>6. CASE Unsubscribe(r)
  BY <1>1, <1>6 DEF Unsubscribe, TypeOK, ConnOf, notifVars, Subs
<1> QED
  BY <1>2, <1>3, <1>4, <1>5, <1>6

(* The request in hand is new to the notifier and has no outcome.          *)
LEMMA HandledIsNew ==
    ASSUME ServerInv, LifeInv, NEW m \in Msgs, Handle(m), NEW r, r = Body[m][pos[m]]
    PROVE  /\ r \in Reqs /\ MsgOf[r] = m /\ pos[m] \in DOMAIN Body[m] /\ pos[m] \in Nat
           /\ job[m] = "handle" /\ Fresh(r) /\ res[r] = "none" /\ replies[r] = 0
<1>1. /\ r \in Reqs /\ MsgOf[r] = m /\ job[m] = "handle"
      /\ pos[m] \in DOMAIN Body[m] /\ pos[m] \in Nat /\ pos[m] <= pos[m]
  BY HandleEffect DEF ServerInv, TypeOK, Handle
<1>2. Fresh(r) /\ res[r] = "none"
  BY <1>1 DEF ServerInv, FreshInv, LifeInv, OutcomeInv
<1>3. replies[r] = 0
  BY <1>1 DEF ServerInv, MsgInv, Unanswered, Requests
<1> QED
  BY <1>1, <1>2, <1>3

(* A subscription stands in the message it came with.                      *)
LEMMA SubFacts ==
    ASSUME NEW s \in Subs
    PROVE  s \in Reqs /\ Kind[s] = "subscribe" /\ MsgOf[s] \in Msgs
BY ReqFacts DEF Subs

LEMMA LifeHandle ==
    ASSUME ServerInv, LifeInv, NEW m \in Msgs, Handle(m)
    PROVE  LifeInv'
<1>1. PICK r \in Reqs : r = Body[m][pos[m]]
  BY BodyFacts DEF Handle, ServerInv, TypeOK
<1>2. /\ MsgOf[r] = m /\ pos[m] \in DOMAIN Body[m] /\ pos[m] \in Nat
      /\ job[m] = "handle" /\ Fresh(r) /\ res[r] = "none"
  BY <1>1, HandledIsNew
<1>3. /\ \A n \in Msgs : n # m => job'[n] = job[n] /\ pos'[n] = pos[n]
      /\ \/ job'[m] = "write"
         \/ job'[m] = "handle" /\ pos'[m] = pos[m] + 1
  BY <1>2, StepEffect DEF Handle, ServerInv
<1>4. /\ \A q \in Reqs : q # r => res'[q] = res[q]
      /\ UNCHANGED at
  BY <1>1, HandleOutcome DEF Handle, ServerInv, peerVars
<1>5. OutcomeInv'
  <2> SUFFICES ASSUME NEW n \in Msgs, NEW k \in DOMAIN Body[n],
                      job'[n] = "none" \/ (job'[n] = "handle" /\ pos'[n] <= k)
               PROVE  res'[Body[n][k]] = "none"
    BY DEF OutcomeInv
  <2>1. Body[n][k] \in Reqs /\ MsgOf[Body[n][k]] = n /\ k \in Nat
    BY BodyFacts
  <2>2. CASE n # m
    BY <1>2, <1>3, <1>4, <2>1, <2>2 DEF LifeInv, OutcomeInv
  <2>3. CASE n = m
    <3>1. pos[m] <= k /\ pos[m] # k
      BY <1>2, <1>3, <2>1, <2>3
    <3>2. Body[n][k] # r /\ res[Body[n][k]] = "none"
      BY <1>1, <1>2, <2>3, <3>1, BodyFacts DEF LifeInv, OutcomeInv
    <3> QED
      BY <1>4, <2>1, <3>2
  <2> QED
    BY <2>2, <2>3
<1>6. \A s \in Subs : s \in active \/ errCloses[s] > 0 =>
                         /\ MsgOf[s] # m /\ job'[MsgOf[s]] = job[MsgOf[s]]
                         /\ job[MsgOf[s]] \in {"activate", "done"}
  BY <1>2, <1>3, SubFacts DEF LifeInv, CallbackInv
<1>7. \A n \in Msgs : \A k \in DOMAIN Body[n] :
         Body[n][k] \in inactive =>
            job'[n] \in {"handle", "write"} \/ (job'[n] = "activate" /\ pos'[n] <= k)
  BY <1>2, <1>3 DEF LifeInv, CallbackInv
<1>8. \A q \in Reqs : ConnOf(q)' = ConnOf(q)
  BY <1>4 DEF ConnOf
<1>9. \A s \in Subs : /\ s \in Reqs /\ errCloses[s] \in Nat
                      /\ (s \in inactive \/ res[s] = "ok") => s # r
  BY <1>2, SubFacts DEF Fresh, ServerInv, TypeOK
<1>10. inactive \subseteq Subs
  BY DEF ServerInv, TypeOK
<1>11. \A q \in Reqs : Kind[q] = "unsubscribe" /\ ConnOf(q)' \in Conns \ Single =>
                            res'[Target[q]] = "ok"
  <2> SUFFICES ASSUME NEW q \in Reqs, Kind[q] = "unsubscribe", ConnOf(q)' \in Conns \ Single
               PROVE  res'[Target[q]] = "ok"
    OBVIOUS
  <2>1. res[Target[q]] = "ok" /\ Target[q] \in Subs
    BY <1>8, ReqFacts DEF LifeInv, GrantedInv
  <2> QED
    BY <1>4, <1>9, <2>1
<1>12. CASE UNCHANGED notifVars /\ (r \in Subs => res'[r] = "err")
  <2>1. CallbackInv'
    BY <1>6, <1>7, <1>12 DEF CallbackInv, notifVars
  <2>2. GrantedInv'
    BY <1>4, <1>8, <1>9, <1>10, <1>11, <1>12 DEF LifeInv, GrantedInv, notifVars
  <2> QED
    BY <1>5, <2>1, <2>2 DEF LifeInv
<1>13. CASE /\ r \in Subs /\ res'[r] = "ok" /\ inactive' = inactive \cup {r}
            /\ UNCHANGED <<active, errCloses>>
  <2>1. CallbackInv'
    <3>1. ASSUME NEW n \in Msgs, NEW k \in DOMAIN Body[n], Body[n][k] \in inactive'
          PROVE  job'[n] \in {"handle", "write"} \/ (job'[n] = "activate" /\ pos'[n] <= k)
      <4>1. CASE Body[n][k] = r
        BY <1>2, <1>3, <3>1, <4>1, BodyFacts
      <4>2. CASE Body[n][k] # r
        BY <1>7, <1>13, <3>1, <4>2
      <4> QED
        BY <4>1, <4>2
    <3> QED
      BY <1>6, <1>13, <3>1 DEF CallbackInv
  <2>2. GrantedInv'
    BY <1>4, <1>8, <1>9, <1>10, <1>11, <1>13 DEF LifeInv, GrantedInv
  <2> QED
    BY <1>5, <2>1, <2>2 DEF LifeInv
<1>14. CASE /\ Kind[r] = "unsubscribe" /\ Target[r] \in active
            /\ errCloses' = [errCloses EXCEPT ![Target[r]] = @ + 1]
            /\ active' = active \ {Target[r]} /\ UNCHANGED inactive
  <2>1. Target[r] \in Subs /\ Target[r] \in Reqs
    BY <1>14, ReqFacts, SubFacts
  <2>2. /\ errCloses'[Target[r]] > 0
        /\ \A s \in Subs : s # Target[r] => errCloses'[s] = errCloses[s]
    BY <1>9, <1>14, <2>1 DEF ServerInv, TypeOK
  <2>3. CallbackInv'
    BY <1>6, <1>7, <1>14, <2>1, <2>2 DEF CallbackInv
  <2>4. r \notin Subs
    BY <1>14, SubFacts
  <2>5. GrantedInv'
    BY <1>4, <1>8, <1>9, <1>10, <1>11, <1>14, <2>1, <2>2, <2>4 DEF LifeInv, GrantedInv
  <2> QED
    BY <1>5, <2>3, <2>5 DEF LifeInv
<1> QED
  BY <1>1, <1>12, <1>13, <1>14, HandleOutcome DEF ServerInv

LEMMA LifeActivate ==
    ASSUME ServerInv, LifeInv, NEW m \in Msgs, Activate(m)
    PROVE  LifeInv'
<1>1. PICK r \in Reqs : r = Body[m][pos[m]] /\ MsgOf[r] = m
  BY BodyFacts DEF Activate, ServerInv, TypeOK
<1>2. /\ job[m] = "activate" /\ pos[m] \in DOMAIN Body[m] /\ pos[m] \in Nat
      /\ UNCHANGED <<at, res, errCloses>>
  BY DEF Activate, ServerInv, TypeOK, peerVars
<1>3. /\ \A n \in Msgs : n # m => job'[n] = job[n] /\ pos'[n] = pos[n]
      /\ job'[m] \in {"activate", "done"}
  BY <1>2, StepEffect DEF Activate, ServerInv
<1>4. \/ pos[m] = Len(Body[m])
      \/ job'[m] = "activate" /\ pos'[m] = pos[m] + 1
  BY <1>2 DEF Activate, Step, ServerInv, TypeOK
<1>5. /\ active \subseteq active' /\ active' \subseteq active \cup {r}
      /\ inactive' = inactive \ {r} /\ active' \cup inactive' = active \cup inactive
      /\ active' # active => r \in Subs
  <2>1. CASE Kind[r] = "subscribe" /\ res[r] = "ok"
    BY <1>1, <2>1 DEF Activate, Subs
  <2>2. CASE ~(Kind[r] = "subscribe" /\ res[r] = "ok")
    <3>1. r \notin inactive
      BY <2>2, SubFacts DEF LifeInv, GrantedInv, ServerInv, TypeOK
    <3> QED
      BY <1>1, <2>2, <3>1 DEF Activate
  <2> QED
    BY <2>1, <2>2
<1>6. OutcomeInv'
  BY <1>2, <1>3 DEF LifeInv, OutcomeInv
<1>7. \A s \in Subs : s \in active' \/ errCloses'[s] > 0 => job'[MsgOf[s]] \in {"activate", "done"}
  BY <1>1, <1>2, <1>3, <1>5, SubFacts DEF LifeInv, CallbackInv
<1>8. ASSUME NEW n \in Msgs, NEW k \in DOMAIN Body[n], Body[n][k] \in inactive'
      PROVE  job'[n] \in {"handle", "write"} \/ (job'[n] = "activate" /\ pos'[n] <= k)
  <2>1. CASE n # m
    BY <1>3, <1>5, <1>8, <2>1 DEF LifeInv, CallbackInv
  <2>2. CASE n = m
    <3>1. pos[m] <= k /\ pos[m] # k
      BY <1>1, <1>2, <1>5, <1>8, <2>2 DEF LifeInv, CallbackInv
    <3>2. k \in 1..Len(Body[m]) /\ Len(Body[m]) \in Nat
      BY <2>2, BodyFacts
    <3> QED
      BY <1>2, <1>4, <2>2, <3>1, <3>2
  <2> QED
    BY <2>1, <2>2
<1>9. CallbackInv'
  BY <1>7, <1>8 DEF CallbackInv
<1>10. GrantedInv'
  BY <1>2, <1>5 DEF LifeInv, GrantedInv, ConnOf
<1> QED
  BY <1>6, <1>9, <1>10 DEF LifeInv

LEMMA LifeStep ==
    ASSUME ServerInv, LifeInv, [Next]_vars
    PROVE  LifeInv'
<1> USE DEF LifeInv
<1>1. ASSUME UNCHANGED <<job, pos, res, at, active, inactive, errCloses>> PROVE LifeInv'
  BY <1>1 DEF OutcomeInv, CallbackInv, GrantedInv, ConnOf
<1>2. ASSUME NEW c \in Conns, NEW m \in Msgs, Send(c, m) PROVE LifeInv'
  <2>1. /\ at[m] = None /\ at' = [at EXCEPT ![m] = c] /\ job[m] = "none"
        /\ UNCHANGED <<job, pos, res, active, inactive, errCloses>>
        /\ \A r \in Requests(m) : Kind[r] = "unsubscribe" /\ c \notin Single =>
              res[Target[r]] = "ok"
    BY <1>2 DEF Send, jobVars, notifVars, ServerInv, MsgInv
  <2>2. \A q \in Reqs : MsgOf[q] # m => ConnOf(q)' = ConnOf(q)
    BY <2>1, ReqFacts DEF ConnOf, ServerInv, TypeOK
  <2>3. \A q \in Reqs : MsgOf[q] = m => res[q] = "none" /\ ConnOf(q)' = c /\ q \in Requests(m)
    <3> SUFFICES ASSUME NEW q \in Reqs, MsgOf[q] = m
                 PROVE  res[q] = "none" /\ ConnOf(q)' = c /\ q \in Requests(m)
      OBVIOUS
    <3>1. PICK k \in DOMAIN Body[m] : Body[m][k] = q
      BY ReqFacts
    <3>2. res[q] = "none"
      BY <2>1, <3>1 DEF OutcomeInv
    <3>3. ConnOf(q)' = c
      BY <2>1 DEF ConnOf, ServerInv, TypeOK
    <3> QED
      BY <3>2, <3>3 DEF Requests
  <2>4. OutcomeInv' /\ CallbackInv'
    BY <2>1 DEF OutcomeInv, CallbackInv
  <2>5. GrantedInv'
    BY <2>1, <2>2, <2>3, SubFacts DEF GrantedInv
  <2> QED
    BY <2>4, <2>5
<1>3. ASSUME NEW c \in Conns, CheckRun(c) PROVE LifeInv'
  <2>1. PICK m \in Msgs : m = cur[c] /\ job[m] = "none"
    BY <1>3 DEF CheckRun, ServerInv, CurInv, Waiting
  <2>2. /\ \A n \in Msgs : job'[n] = job[n] \/ job[n] = "none"
        /\ UNCHANGED <<pos, res, at, active, inactive, errCloses>>
    BY <1>3, <2>1 DEF CheckRun, ServerInv, TypeOK, peerVars, notifVars
  <2>3. OutcomeInv' /\ CallbackInv'
    BY <2>2, SubFacts DEF OutcomeInv, CallbackInv
  <2>4. GrantedInv'
    BY <2>2 DEF GrantedInv, ConnOf
  <2> QED
    BY <2>3, <2>4
<1>4. ASSUME NEW m \in Msgs, HandlePanics(m) PROVE LifeInv'
  <2>1. /\ job[m] = "handle" /\ at[m] \in Single /\ job' = [job EXCEPT ![m] = "panicked"]
        /\ UNCHANGED <<pos, res, at, active, inactive, errCloses>>
    BY <1>4 DEF HandlePanics, peerVars, notifVars
  <2>2. \A k \in DOMAIN Body[m] : Body[m][k] \notin inactive
    BY <2>1, BodyFacts DEF ServerInv, SubInv, ConnOf
  <2>3. \A n \in Msgs : job'[n] = IF n = m THEN "panicked" ELSE job[n]
    BY <2>1 DEF ServerInv, TypeOK
  <2>4. OutcomeInv'
    BY <2>1, <2>3 DEF OutcomeInv
  <2>5. CallbackInv'
    BY <2>1, <2>2, <2>3, SubFacts DEF CallbackInv
  <2>6. GrantedInv'
    BY <2>1 DEF GrantedInv, ConnOf
  <2> QED
    BY <2>4, <2>5, <2>6
<1>5. ASSUME NEW m \in Msgs, Write(m) PROVE LifeInv'
  <2>1. /\ job[m] = "write" /\ pos[m] = 1 /\ job' = [job EXCEPT ![m] = "activate"]
        /\ UNCHANGED <<pos, res, at, active, inactive, errCloses>>
    BY <1>5 DEF Write, peerVars, notifVars, ServerInv, MsgInv
  <2>2. \A n \in Msgs : job'[n] = IF n = m THEN "activate" ELSE job[n]
    BY <2>1 DEF ServerInv, TypeOK
  <2>3. OutcomeInv'
    BY <2>1, <2>2 DEF OutcomeInv
  <2>4. \A k \in DOMAIN Body[m] : pos[m] <= k
    BY <2>1, BodyFacts
  <2>5. CallbackInv'
    BY <2>1, <2>2, <2>4, SubFacts DEF CallbackInv
  <2>6. GrantedInv'
    BY <2>1 DEF GrantedInv, ConnOf
  <2> QED
    BY <2>3, <2>5, <2>6
<1> QED
  <2>1. ASSUME NEW c \in Conns, Moves(c) PROVE LifeInv'
    BY <1>1, <2>1, MovesEffect DEF peerVars, jobVars, notifVars, ServerInv
  <2>2. CASE \/ UNCHANGED vars \/ StopFlag \/ Stop
             \/ \E c \in Conns : \/ Hangup(c) \/ Stall(c) \/ ReadAgain(c)
                                  \/ BatchCallReturns(c) \/ ReadRequest(c) \/ Refuse(c)
             \/ \E s \in Subs : NotifyLock(s) \/ NotifyWrite(s) \/ ServiceEnds(s)
    <3>1. UNCHANGED <<job, pos, res, at, active, inactive, errCloses>>
      BY <2>2 DEF vars, peerVars, jobVars, notifVars, StopFlag, Stop, StopLock, StopClose,
         StopReturns, Hangup, Stall, ReadAgain, BatchCallReturns, ReadRequest, Refuse,
         NotifyLock, NotifyWrite, ServiceEnds
    <3> QED
      BY <1>1, <3>1
  <2> QED
    BY <1>2, <1>3, <1>4, <1>5, <2>1, <2>2, LifeHandle, LifeActivate
       DEF Next, Peer, Serve, Exec, Service, Moves

(* Every reachable state of the server satisfies LifeInv.                  *)
THEOREM LifeInvCorrect == Spec => []LifeInv
<1>1. Init => LifeInv
  <2> SUFFICES ASSUME Init PROVE LifeInv
    OBVIOUS
  <2>1. OutcomeInv
    BY BodyFacts DEF Init, OutcomeInv
  <2>2. CallbackInv
    BY SubFacts DEF Init, CallbackInv
  <2>3. GrantedInv
    BY NoneIsNoConn, SubFacts, ReqFacts DEF Init, GrantedInv, ConnOf
  <2> QED
    BY <2>1, <2>2, <2>3 DEF LifeInv
<1>2. ServerInv /\ LifeInv /\ [Next]_vars => LifeInv'
  BY LifeStep
<1> QED
  BY <1>1, <1>2, ServerInvCorrect, PTL DEF Spec

-----------------------------------------------------------------------------
(* The steps of the server as steps of SubscriptionLife.                   *)

(* The life of a subscription as cases.                                    *)
LEMMA LifeCases ==
    ASSUME NEW s \in Subs
    PROVE  LifeOf[s] = IF errCloses[s] > 0 THEN "cancelled"
                       ELSE IF s \in active THEN "active"
                       ELSE IF s \in inactive THEN "inactive" ELSE "unknown"
BY DEF LifeOf

LEMMA LifeCasesNext ==
    ASSUME NEW s \in Subs
    PROVE  LifeOf'[s] = IF errCloses'[s] > 0 THEN "cancelled"
                        ELSE IF s \in active' THEN "active"
                        ELSE IF s \in inactive' THEN "inactive" ELSE "unknown"
BY DEF LifeOf

(* One subscription goes on in its life and the others stay where they are. *)
LEMMA OneBecomes ==
    ASSUME NEW s \in Subs, NEW from, NEW to, LifeOf[s] = from, LifeOf'[s] = to,
           \A q \in Subs : q # s => LifeOf'[q] = LifeOf[q]
    PROVE  Life!Become(s, from, to)
<1>1. LifeOf' = [LifeOf EXCEPT ![s] = to]
  <2>1. /\ LifeOf' = [q \in Subs |-> LifeOf'[q]]
        /\ LifeOf = [q \in Subs |-> LifeOf[q]]
    BY DEF LifeOf
  <2> QED
    BY <2>1
<1> QED
  BY <1>1 DEF Life!Become

(* A step that at most closes connections.                                 *)
LEMMA QuietStep ==
    ASSUME UNCHANGED <<active, inactive, errCloses, replies, noted>>,
           \A s \in Subs : svc'[s] = "notify" <=> svc[s] = "notify",
           \A s \in Subs : ConnOf(s) \in closed => ConnOf(s)' \in closed'
    PROVE  Life!Next
<1>1. Life!Cut
  BY DEF Life!Cut, LifeOf
<1> QED
  BY <1>1 DEF Life!Next

(* A step that closes no connection and moves no message.                  *)
LEMMA CutKept ==
    ASSUME UNCHANGED <<at, closed>>
    PROVE  UNCHANGED {s \in Subs : ConnOf(s) \in closed}
BY DEF ConnOf

(* A write of the responses of m.                                          *)
LEMMA TellStep ==
    ASSUME ServerInv, LifeInv, NEW m \in Msgs, job[m] \in {"none", "write"}, Unanswered(m),
           replies' = Answered(m), UNCHANGED notifVars, UNCHANGED <<at, closed>>
    PROVE  Life!Next
<1> DEFINE S == {s \in Subs : MsgOf[s] = m}
<1>1. ASSUME NEW s \in S
      PROVE  s \notin {q \in Subs : replies[q] > 0} /\ LifeOf[s] \in {"unknown", "inactive"}
  <2>1. s \in Subs /\ s \in Reqs /\ MsgOf[s] = m /\ s \in Requests(m)
    BY SubFacts DEF Requests
  <2>2. replies[s] = 0
    BY <2>1 DEF Unanswered
  <2>3. s \notin active /\ ~(errCloses[s] > 0)
    BY <2>1 DEF LifeInv, CallbackInv
  <2> QED
    BY <2>1, <2>2, <2>3, LifeCases
<1>2. {s \in Subs : replies'[s] > 0} = {s \in Subs : replies[s] > 0} \cup S
  <2>1. ASSUME NEW s \in Subs PROVE replies'[s] > 0 <=> replies[s] > 0 \/ MsgOf[s] = m
    <3>1. s \in Reqs /\ replies[s] \in Nat
      BY SubFacts DEF ServerInv, TypeOK
    <3>2. CASE MsgOf[s] = m
      BY <3>1, <3>2, AnsweredFacts DEF ServerInv, Requests
    <3>3. CASE MsgOf[s] # m
      BY <3>1, <3>3, AnsweredFacts DEF ServerInv
    <3> QED
      BY <3>2, <3>3
  <2> QED
    BY <2>1
<1>3. UNCHANGED <<LifeOf, noted>> /\ UNCHANGED {s \in Subs : svc[s] = "notify"}
  BY DEF notifVars, LifeOf
<1>4. Life!Tell(S)
  BY <1>1, <1>2, <1>3, CutKept DEF Life!Tell
<1>5. S \in SUBSET Subs
  OBVIOUS
<1> QED
  BY <1>4, <1>5 DEF Life!Next

LEMMA HandleLife ==
    ASSUME ServerInv, LifeInv, NEW m \in Msgs, Handle(m)
    PROVE  Life!Next
<1>1. PICK r \in Reqs : r = Body[m][pos[m]]
  BY BodyFacts DEF Handle, ServerInv, TypeOK
<1>2. MsgOf[r] = m /\ Fresh(r) /\ replies[r] = 0 /\ UNCHANGED <<replies, at, closed>>
  BY <1>1, HandledIsNew DEF Handle, peerVars
<1>3. CASE UNCHANGED notifVars
  BY <1>2, <1>3, QuietStep DEF notifVars, ConnOf
<1>4. CASE /\ r \in Subs /\ inactive' = inactive \cup {r}
           /\ svc' = [svc EXCEPT ![r] = "idle"]
           /\ UNCHANGED <<active, errCloses, noted>>
  <2>1. LifeOf[r] = "unknown" /\ LifeOf'[r] = "inactive"
    BY <1>2, <1>4, LifeCases, LifeCasesNext DEF Fresh
  <2>2. \A q \in Subs : q # r => LifeOf'[q] = LifeOf[q]
    BY <1>4, LifeCases, LifeCasesNext
  <2>3. Life!Become(r, "unknown", "inactive")
    BY <1>4, <2>1, <2>2, OneBecomes
  <2>4. {s \in Subs : svc'[s] = "notify"} = {s \in Subs : svc[s] = "notify"}
    BY <1>2, <1>4, SubFacts DEF Fresh, ServerInv, TypeOK
  <2>5. Life!Make(r)
    BY <1>2, <1>4, <2>3, <2>4, CutKept DEF Life!Make
  <2> QED
    BY <1>4, <2>5 DEF Life!Next
<1>5. CASE /\ Kind[r] = "unsubscribe" /\ at[m] \notin Single /\ SubMuFree(at[m])
           /\ Target[r] \in active
           /\ errCloses' = [errCloses EXCEPT ![Target[r]] = @ + 1]
           /\ active' = active \ {Target[r]}
           /\ UNCHANGED <<inactive, svc, noted>>
  <2> DEFINE s == Target[r]
  <2>1. s \in Subs /\ s \in Reqs
    BY <1>5, ReqFacts, SubFacts
  <2>2. at[m] \in Conns \ Single
    BY <1>5 DEF Handle, ServerInv, MsgInv, TypeOK
  <2>3. svc[s] # "notify"
    BY <1>2, <1>5, <2>1, <2>2 DEF ServerInv, SubInv, SubMuFree, ConnOf
  <2>4. errCloses[s] = 0 /\ errCloses'[s] > 0
    BY <1>5, <2>1 DEF ServerInv, NotifierSafe, TypeOK
  <2>5. \A q \in Subs : q # s => errCloses'[q] = errCloses[q]
    BY <1>5, <2>1, SubFacts DEF ServerInv, TypeOK
  <2>6. LifeOf[s] = "active" /\ LifeOf'[s] = "cancelled"
    BY <1>5, <2>1, <2>4, LifeCases, LifeCasesNext
  <2>7. \A q \in Subs : q # s => LifeOf'[q] = LifeOf[q]
    BY <1>5, <2>5, LifeCases, LifeCasesNext
  <2>8. Life!Become(s, "active", "cancelled")
    BY <2>1, <2>6, <2>7, OneBecomes
  <2>9. Life!Cancel(s)
    BY <1>2, <1>5, <2>3, <2>8, CutKept DEF Life!Cancel
  <2> QED
    BY <2>1, <2>9 DEF Life!Next
<1> QED
  BY <1>1, <1>3, <1>4, <1>5, HandleOutcome DEF ServerInv

LEMMA ActivateLife ==
    ASSUME ServerInv, LifeInv, NEW m \in Msgs, Activate(m)
    PROVE  Life!Next
<1>1. PICK r \in Reqs : r = Body[m][pos[m]]
  BY BodyFacts DEF Activate, ServerInv, TypeOK
<1>2. /\ UNCHANGED <<errCloses, svc, noted, replies, at, closed>>
      /\ \/ active' = active /\ inactive' = inactive
         \/ active' = active \cup ({r} \cap inactive) /\ inactive' = inactive \ {r}
  BY <1>1 DEF Activate, peerVars
<1>3. CASE active' = active /\ inactive' = inactive
  BY <1>2, <1>3, QuietStep DEF ConnOf
<1>4. CASE /\ active' = active \cup ({r} \cap inactive) /\ inactive' = inactive \ {r}
           /\ r \in inactive
  <2>1. r \in Subs /\ errCloses[r] = 0 /\ r \notin active
    BY <1>4 DEF ServerInv, TypeOK, NotifierSafe, Subs
  <2>2. LifeOf[r] = "inactive" /\ LifeOf'[r] = "active"
    BY <1>2, <1>4, <2>1, LifeCases, LifeCasesNext
  <2>3. \A q \in Subs : q # r => LifeOf'[q] = LifeOf[q]
    BY <1>2, <1>4, LifeCases, LifeCasesNext
  <2>4. Life!Become(r, "inactive", "active")
    BY <2>1, <2>2, <2>3, OneBecomes
  <2>5. replies[r] > 0 \/ ConnOf(r) \in closed
    <3>1. r \in Reqs /\ MsgOf[r] = m /\ r \in Requests(m)
      BY <1>1, BodyFacts DEF Activate, ServerInv, TypeOK, Requests
    <3>2. at[m] \in closed \/ replies[r] = 1
      BY <3>1 DEF Activate, ServerInv, AnsweredOrClosed
    <3> QED
      BY <3>1, <3>2 DEF ConnOf
  <2>6. Life!Activate(r)
    BY <1>2, <2>1, <2>4, <2>5, CutKept DEF Life!Activate
  <2> QED
    BY <2>1, <2>6 DEF Life!Next
<1> QED
  BY <1>2, <1>3, <1>4

LEMMA ServiceLife ==
    ASSUME ServerInv, LifeInv, NEW s \in Subs,
           NotifyLock(s) \/ NotifyWrite(s) \/ ServiceEnds(s)
    PROVE  Life!Next
<1>0. s \in Reqs /\ svc \in [Reqs -> {"none", "idle", "notify", "ended"}]
  BY SubFacts DEF ServerInv, TypeOK
<1>1. UNCHANGED <<active, inactive, errCloses, replies, at>>
  BY DEF NotifyLock, NotifyWrite, ServiceEnds, jobVars, peerVars
<1>2. UNCHANGED LifeOf
  BY <1>1 DEF LifeOf
<1>3. CASE NotifyLock(s)
  <2>1. /\ s \in active /\ svc[s] = "idle" /\ svc' = [svc EXCEPT ![s] = "notify"]
        /\ UNCHANGED <<noted, closed>>
    BY <1>3 DEF NotifyLock
  <2>2. LifeOf[s] = "active"
    BY <2>1, LifeCases DEF ServerInv, NotifierSafe
  <2>3. {q \in Subs : svc'[q] = "notify"} = {q \in Subs : svc[q] = "notify"} \cup {s}
    BY <1>0, <2>1, SubFacts
  <2>4. Life!Begin(s)
    BY <1>1, <1>2, <2>1, <2>2, <2>3, CutKept DEF Life!Begin
  <2> QED
    BY <2>4 DEF Life!Next
<1>4. CASE NotifyWrite(s)
  <2>1. svc[s] = "notify" /\ \E l \in {"idle", "ended"} : svc' = [svc EXCEPT ![s] = l]
    BY <1>4 DEF NotifyWrite
  <2>2. {q \in Subs : svc'[q] = "notify"} = {q \in Subs : svc[q] = "notify"} \ {s}
    BY <1>0, <2>1, SubFacts
  <2>3. \/ /\ replies[s] > 0 /\ ConnOf(s) \notin closed
           /\ noted' = noted \cup {s} /\ UNCHANGED closed
        \/ noted' = noted /\ closed' = closed \cup {ConnOf(s)}
    <3>1. s \in active
      BY <2>1 DEF ServerInv, NotifierSafe
    <3>2. ConnOf(s) \notin Single /\ (replies[s] > 0 \/ ConnOf(s) \in closed)
      BY <3>1 DEF ServerInv, SubInv
    <3> QED
      BY <1>4, <3>2 DEF NotifyWrite, WriteOK, Broken
  <2>4. Life!Finish(s)
    <3>1. CASE /\ replies[s] > 0 /\ ConnOf(s) \notin closed
               /\ noted' = noted \cup {s} /\ UNCHANGED closed
      BY <1>1, <1>2, <2>1, <2>2, <3>1, CutKept DEF Life!Finish
    <3>2. CASE noted' = noted /\ closed' = closed \cup {ConnOf(s)}
      <4>1. \A q \in Subs : ConnOf(q)' = ConnOf(q)
        BY <1>1 DEF ConnOf
      <4> QED
        BY <1>1, <1>2, <2>1, <2>2, <3>2, <4>1 DEF Life!Finish
    <3> QED
      BY <2>3, <3>1, <3>2
  <2> QED
    BY <2>4 DEF Life!Next
<1>5. CASE ServiceEnds(s)
  <2>1. /\ svc[s] = "idle" /\ svc' = [svc EXCEPT ![s] = "ended"]
        /\ UNCHANGED <<noted, closed>>
    BY <1>5 DEF ServiceEnds
  <2>2. \A q \in Subs : svc'[q] = "notify" <=> svc[q] = "notify"
    BY <1>0, <2>1, SubFacts
  <2> QED
    BY <1>1, <2>1, <2>2, QuietStep DEF ConnOf
<1> QED
  BY <1>3, <1>4, <1>5

(* Every step of the server is a step of SubscriptionLife.                 *)
LEMMA StepLife ==
    ASSUME ServerInv, LifeInv, [Next]_vars
    PROVE  Life!Next
<1>1. ASSUME UNCHANGED <<notifVars, replies>>,
             \A s \in Subs : ConnOf(s) \in closed => ConnOf(s)' \in closed'
      PROVE  Life!Next
  BY <1>1, QuietStep DEF notifVars
<1>2. ASSUME NEW c \in Conns, Refuse(c) PROVE Life!Next
  <2>1. PICK m \in Msgs : m = cur[c] /\ job[m] = "none" /\ Unanswered(m)
    BY <1>2 DEF Refuse, ServerInv, CurInv, Waiting
  <2>2. /\ UNCHANGED <<notifVars, at, closed>>
        /\ replies' = replies \/ replies' = Answered(m)
    BY <1>2, <2>1 DEF Refuse, peerVars
  <2>3. CASE replies' = replies
    BY <1>1, <2>2, <2>3 DEF ConnOf
  <2> QED
    BY <2>1, <2>2, <2>3, TellStep
<1>3. ASSUME NEW m \in Msgs, Write(m) PROVE Life!Next
  <2>1. job[m] = "write" /\ Unanswered(m) /\ UNCHANGED <<notifVars, at>>
    BY <1>3 DEF Write, ServerInv, MsgInv, peerVars
  <2>2. CASE replies' = Answered(m) /\ closed' = closed
    BY <2>1, <2>2, TellStep
  <2>3. CASE replies' = replies /\ closed' = closed \cup {at[m]}
    BY <1>1, <2>1, <2>3 DEF ConnOf
  <2> QED
    BY <1>3, <2>2, <2>3 DEF Write
<1>4. ASSUME NEW c \in Conns, Moves(c) PROVE Life!Next
  <2>1. UNCHANGED <<notifVars, replies, at>> /\ closed \subseteq closed'
    BY <1>4, MovesEffect DEF jobVars, peerVars, ServerInv
  <2> QED
    BY <1>1, <2>1 DEF ConnOf
<1>5. ASSUME NEW c \in Conns, NEW m \in Msgs, Send(c, m) PROVE Life!Next
  <2>1. /\ UNCHANGED <<notifVars, replies, closed>>
        /\ at[m] = None /\ at' = [at EXCEPT ![m] = c]
    BY <1>5 DEF Send, jobVars
  <2>2. ASSUME NEW s \in Subs, ConnOf(s) \in closed PROVE ConnOf(s)' = ConnOf(s)
    <3>1. ConnOf(s) # None
      BY <2>2, NoneIsNoConn DEF ServerInv, TypeOK
    <3> QED
      BY <2>1, <3>1, SubFacts DEF ConnOf, ServerInv, TypeOK
  <2> QED
    BY <1>1, <2>1, <2>2
<1>6. CASE \/ UNCHANGED vars \/ StopFlag \/ Stop
           \/ \E c \in Conns : \/ Hangup(c) \/ Stall(c) \/ ReadAgain(c)
                                \/ BatchCallReturns(c) \/ ReadRequest(c) \/ CheckRun(c)
           \/ \E m \in Msgs : HandlePanics(m)
  <2>1. UNCHANGED <<notifVars, replies, at>> /\ closed \subseteq closed'
    BY <1>6 DEF vars, jobVars, peerVars, StopFlag, Stop, StopLock, StopClose, StopReturns,
       Hangup, Stall, ReadAgain, BatchCallReturns, ReadRequest, CheckRun, HandlePanics
  <2> QED
    BY <1>1, <2>1 DEF ConnOf
<1> QED
  BY <1>2, <1>3, <1>4, <1>5, <1>6, HandleLife, ActivateLife, ServiceLife
     DEF Next, Peer, Serve, Exec, Service, Moves

(* The server implements SubscriptionLife: whatever the connections, the   *)
(* batches and the services do, each subscription is told at most once and *)
(* becomes active only when it has been told or when the failed write of   *)
(* its id has closed its codec, is heard of only after its id, is notified *)
(* only between its activation and its cancellation, and is cancelled at   *)
(* most once.                                                              *)
THEOREM LifeCorrect == Spec => LifeSpec
<1>1. Init => Life!Init
  <2> SUFFICES ASSUME Init PROVE Life!Init
    OBVIOUS
  <2>1. LifeOf = [s \in Subs |-> "unknown"]
    BY SubFacts DEF Init, LifeOf
  <2>2. /\ {s \in Subs : replies[s] > 0} = {} /\ {s \in Subs : svc[s] = "notify"} = {}
        /\ {s \in Subs : ConnOf(s) \in closed} = {}
    BY SubFacts DEF Init
  <2> QED
    BY <2>1, <2>2 DEF Init, Life!Init
<1>2. ServerInv /\ LifeInv /\ [Next]_vars => [Life!Next]_(Life!vars)
  BY StepLife
<1> QED
  BY <1>1, <1>2, ServerInvCorrect, LifeInvCorrect, PTL DEF Spec, LifeSpec, Life!Spec

(* An unsubscribe that comes after activate always closes err: the race of *)
(* a client that answers its id at once is the only way to lose one.       *)
THEOREM LateUnsubscribeCorrect == Spec => LateUnsubscribeCancels
<1> DEFINE A == \A r \in Reqs :
                   /\ Kind[r] = "unsubscribe" /\ ConnOf(r) \notin Single
                   /\ res[r] = "none" /\ res'[r] # "none"
                   /\ job[MsgOf[Target[r]]] = "done"
                   => errCloses'[Target[r]] > 0
<1>1. ServerInv /\ LifeInv /\ [Next]_vars => [A]_vars
  <2> SUFFICES ASSUME ServerInv, LifeInv, [Next]_vars, NEW r \in Reqs,
                      Kind[r] = "unsubscribe", ConnOf(r) \notin Single,
                      res[r] = "none", res'[r] # "none",
                      job[MsgOf[Target[r]]] = "done"
               PROVE  errCloses'[Target[r]] > 0
    OBVIOUS
  <2> DEFINE s == Target[r]
  <2>1. PICK m \in Msgs : Handle(m)
    <3>1. ASSUME NEW c \in Conns, Moves(c) PROVE UNCHANGED res
      BY <3>1, MovesEffect DEF jobVars, ServerInv
    <3> QED
      BY <3>1 DEF Next, Peer, Serve, Exec, Service, Moves, vars, jobVars, StopFlag, Stop,
         StopLock, StopClose, StopReturns, Send, Hangup, Stall, ReadAgain,
         BatchCallReturns, ReadRequest, CheckRun, Refuse, HandlePanics, Write, Activate,
         NotifyLock, NotifyWrite, ServiceEnds
  <2>2. r = Body[m][pos[m]] /\ MsgOf[r] = m
    <3>1. \A q \in Reqs : q # Body[m][pos[m]] => res'[q] = res[q]
      BY <2>1, HandleOutcome DEF ServerInv
    <3>2. r = Body[m][pos[m]]
      BY <3>1
    <3> QED
      BY <2>1, <3>2, HandledIsNew
  <2>3. at[m] \in Conns \ Single /\ ConnOf(r) = at[m]
    BY <2>1, <2>2 DEF Handle, ServerInv, MsgInv, TypeOK, ConnOf
  <2>4. s \in Subs /\ s \in Reqs /\ MsgOf[s] \in Msgs /\ res[s] = "ok" /\ ConnOf(s) = ConnOf(r)
    BY <2>3, ReqFacts, SubFacts DEF LifeInv, GrantedInv, ServerInv, SubInv
  <2>5. s \notin inactive
    <3>1. PICK k \in DOMAIN Body[MsgOf[s]] : Body[MsgOf[s]][k] = s
      BY <2>4, ReqFacts
    <3> QED
      BY <2>4, <3>1 DEF LifeInv, CallbackInv
  <2>6. s \in active \/ errCloses[s] > 0
    BY <2>3, <2>4, <2>5 DEF LifeInv, GrantedInv
  <2>7. errCloses[s] \in Nat
    BY <2>4 DEF ServerInv, TypeOK
  <2>8. CASE s \in active
    <3>1. errCloses' = [errCloses EXCEPT ![s] = @ + 1]
      BY <2>1, <2>2, <2>3, <2>8, HandleOutcome DEF ServerInv, Subs
    <3> QED
      BY <2>4, <2>7, <3>1 DEF ServerInv, TypeOK
  <2>9. CASE s \notin active
    BY <2>1, <2>2, <2>6, <2>9, HandleOutcome DEF ServerInv, notifVars
  <2> QED
    BY <2>8, <2>9
<1> QED
  BY <1>1, ServerInvCorrect, LifeInvCorrect, PTL DEF Spec, LateUnsubscribeCancels
=============================================================================
