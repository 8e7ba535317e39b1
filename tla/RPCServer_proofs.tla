-------------------------- MODULE RPCServer_proofs --------------------------
(***************************************************************************)
(* The safety properties of RPCServer, for any number of connections, any  *)
(* messages and any requests in them.                                      *)
(***************************************************************************)
EXTENDS RPCServer, TLAPS

(* Nobody has answered message m yet.                                      *)
Unanswered(m) == \A r \in Requests(m) : replies[r] = 0

(* Message m was sent to c and serveRequest has not started its execution. *)
Waiting(c, m) == at[m] = c /\ job[m] = "none" /\ Unanswered(m)

(* Where a message is: on the wire, in the hands of serveRequest, or being *)
(* executed; it is in one place only.                                      *)
WireInv ==
    \A c \in Conns : \A k \in DOMAIN wire[c] :
       /\ Waiting(c, wire[c][k])
       /\ \A l \in DOMAIN wire[c] : wire[c][k] = wire[c][l] => k = l

CurInv ==
    \A c \in Conns :
       /\ pc[c] \in {"check", "refuse"} =>
             /\ cur[c] \in Msgs /\ Waiting(c, cur[c]) /\ Body[cur[c]] # <<>>
             /\ \A k \in DOMAIN wire[c] : wire[c][k] # cur[c]
       /\ pc[c] = "exec" => c \in Single /\ cur[c] \in Msgs /\ at[cur[c]] = c

MsgInv ==
    /\ \A c \in Single : \A m, n \in Msgs : at[m] = c /\ at[n] = c => m = n
    /\ \A m \in Msgs :
          /\ at[m] = None => job[m] = "none" /\ Unanswered(m)
          /\ job[m] # "none" => Body[m] # <<>>
          /\ job[m] \in {"none", "write"} => pos[m] = 1
          /\ job[m] \in {"handle", "write"} => Unanswered(m)

(* The notifier has not heard of request r.                                *)
Fresh(r) == /\ r \notin active /\ r \notin inactive
            /\ errCloses[r] = 0 /\ svc[r] = "none"

FreshInv ==
    \A m \in Msgs : \A k \in DOMAIN Body[m] :
       job[m] = "none" \/ (job[m] = "handle" /\ pos[m] <= k) => Fresh(Body[m][k])

(* The notifier belongs to a stream, an unsubscribe comes on the           *)
(* connection of its subscription, and an id is active once it is written, *)
(* unless the codec is closed.                                             *)
SubInv ==
    /\ \A s \in active \cup inactive : ConnOf(s) \notin Single
    /\ \A s \in active : replies[s] > 0 \/ ConnOf(s) \in closed
    /\ \A r \in Reqs : Kind[r] = "unsubscribe" /\ ConnOf(r) \in Conns \ Single =>
                          ConnOf(Target[r]) = ConnOf(r)

(* Stop closes the door before it takes the lock.                          *)
StopInv == run = (stopPc = "idle") /\ StopLeavesNone

PendInv == (\A c \in Conns : pc[c] = "refuse" => ~run) /\ PendingFinishFirst

-----------------------------------------------------------------------------
(* Facts of the constants, and of the sequences on the wire.               *)

LEMMA BodyFacts ==
    ASSUME NEW m \in Msgs
    PROVE  /\ Len(Body[m]) \in Nat /\ DOMAIN Body[m] = 1..Len(Body[m])
           /\ Body[m] # <<>> => 1 \in DOMAIN Body[m]
           /\ \A k \in DOMAIN Body[m] :
                 /\ Body[m][k] \in Reqs /\ MsgOf[Body[m][k]] = m
                 /\ \A l \in DOMAIN Body[m] : Body[m][k] = Body[m][l] => k = l
<1>1. Body[m] \in Seq(Reqs)
  BY ServerAssumption
<1>2. /\ Len(Body[m]) \in Nat /\ DOMAIN Body[m] = 1..Len(Body[m])
      /\ Body[m] # <<>> => 1 \in DOMAIN Body[m]
      /\ \A k \in DOMAIN Body[m] : Body[m][k] \in Reqs
  BY <1>1
<1>3. \A k, l \in DOMAIN Body[m] :
         MsgOf[Body[m][k]] = m /\ (Body[m][k] = Body[m][l] => k = l)
  BY ServerAssumption
<1> QED
  BY <1>2, <1>3

LEMMA ReqFacts ==
    ASSUME NEW r \in Reqs
    PROVE  /\ MsgOf[r] \in Msgs /\ r \in Requests(MsgOf[r])
           /\ Kind[r] \in Kinds
           /\ Kind[r] = "unsubscribe" => Target[r] \in Subs
           /\ \E k \in DOMAIN Body[MsgOf[r]] : Body[MsgOf[r]][k] = r
BY ServerAssumption DEF Requests, Subs

LEMMA AppendFacts ==
    ASSUME NEW S, NEW w \in Seq(S), NEW e \in S
    PROVE  /\ Append(w, e) \in Seq(S)
           /\ Len(w) \in Nat
           /\ \A k \in DOMAIN Append(w, e) :
                 \/ k = Len(w) + 1 /\ Append(w, e)[k] = e
                 \/ k \in DOMAIN w /\ Append(w, e)[k] = w[k]
OBVIOUS

LEMMA TailFacts ==
    ASSUME NEW S, NEW w \in Seq(S), w # <<>>
    PROVE  /\ Tail(w) \in Seq(S)
           /\ 1 \in DOMAIN w /\ Head(w) = w[1] /\ Head(w) \in S
           /\ \A k \in DOMAIN Tail(w) :
                 k \in Nat /\ k # 0 /\ k + 1 \in DOMAIN w /\ Tail(w)[k] = w[k + 1]
OBVIOUS

(* What handling the next request of m does to the notifier.               *)
LEMMA HandleEffect ==
    ASSUME TypeOK, NEW m \in Msgs, Handle(m),
           NEW r, r = Body[m][pos[m]]
    PROVE  /\ pos[m] \in DOMAIN Body[m] /\ r \in Reqs /\ MsgOf[r] = m
           /\ \/ UNCHANGED notifVars
              \/ /\ r \in Subs /\ at[m] \notin Single
                 /\ inactive' = inactive \cup {r}
                 /\ svc' = [svc EXCEPT ![r] = "idle"]
                 /\ UNCHANGED <<active, errCloses, noted>>
              \/ /\ Kind[r] = "unsubscribe" /\ at[m] \notin Single /\ SubMuFree(at[m])
                 /\ Target[r] \in active
                 /\ errCloses' = [errCloses EXCEPT ![Target[r]] = @ + 1]
                 /\ active' = active \ {Target[r]}
                 /\ UNCHANGED <<inactive, svc, noted>>
           /\ res' \in [Reqs -> {"none", "ok", "err"}]
           /\ UNCHANGED <<serveVars, closed, peerVars, replies, returned>>
<1>1. pos[m] \in DOMAIN Body[m] /\ r \in Reqs /\ MsgOf[r] = m
  BY BodyFacts DEF TypeOK, Handle
<1>2. HandleCall(r) \/ HandleUnsupported(r) \/ CreateSubscription(r) \/ Unsubscribe(r)
  BY DEF Handle
<1>3. CASE HandleCall(r) \/ HandleUnsupported(r)
  BY <1>1, <1>3 DEF HandleCall, HandleUnsupported, Handle, TypeOK
<1>4. CASE CreateSubscription(r)
  BY <1>1, <1>4 DEF CreateSubscription, Handle, TypeOK, ConnOf, Subs
<1>5. CASE Unsubscribe(r)
  BY <1>1, <1>5 DEF Unsubscribe, Handle, TypeOK, ConnOf, notifVars
<1> QED
  BY <1>2, <1>3, <1>4, <1>5

(* The loops of exec and execBatch stay inside the message.                *)
LEMMA StepEffect ==
    ASSUME TypeOK, NEW m \in Msgs, NEW next \in {"write", "done"}, Step(m, next),
           pos[m] \in DOMAIN Body[m]
    PROVE  /\ pos' \in [Msgs -> Nat]
           /\ job' \in [Msgs -> Busy \cup {"none", "done", "panicked"}]
           /\ \A n \in Msgs : n # m => job'[n] = job[n] /\ pos'[n] = pos[n]
           /\ \/ job'[m] = next /\ pos'[m] = 1
              \/ job'[m] = job[m] /\ pos'[m] = pos[m] + 1 /\ pos'[m] \in DOMAIN Body[m]
           /\ \A n \in Msgs : job'[n] \in {"handle", "activate"} => pos'[n] \in DOMAIN Body[n]
<1>1. Len(Body[m]) \in Nat /\ DOMAIN Body[m] = 1..Len(Body[m])
  BY BodyFacts
<1>2. /\ job \in [Msgs -> Busy \cup {"none", "done", "panicked"}]
      /\ pos \in [Msgs -> Nat]
      /\ \A n \in Msgs : job[n] \in {"handle", "activate"} => pos[n] \in DOMAIN Body[n]
  BY DEF TypeOK
<1>3. CASE pos[m] = Len(Body[m])
  <2>1. job' = [job EXCEPT ![m] = next] /\ pos' = [pos EXCEPT ![m] = 1]
    BY <1>3 DEF Step
  <2> QED
    BY <1>2, <2>1 DEF Busy
<1>4. CASE pos[m] # Len(Body[m])
  <2>1. job' = job /\ pos' = [pos EXCEPT ![m] = @ + 1]
    BY <1>4 DEF Step
  <2>2. pos[m] + 1 \in DOMAIN Body[m]
    BY <1>1, <1>4
  <2> QED
    BY <1>2, <2>1, <2>2
<1> QED
  BY <1>3, <1>4

-----------------------------------------------------------------------------
(* The Serve steps that only move pc, to where no message is in hand.      *)
Moves(c) ==
    \/ Register(c) \/ TestRun(c) \/ ReadEnds(c) \/ WriteReadError(c) \/ PendWait(c)
    \/ ExecReturns(c) \/ Unregister(c) \/ CloseCodec(c)

LEMMA MovesEffect ==
    ASSUME TypeOK, NEW c \in Conns, Moves(c)
    PROVE  /\ \E l \in ServePcs \ {"check", "refuse", "exec"} : Goto(c, l)
           /\ UNCHANGED <<run, stopPc, cur, peerVars, jobVars, notifVars, returned>>
           /\ closed \subseteq closed' /\ closed' \subseteq Conns
           /\ codecs' \subseteq Conns
BY DEF Moves, Register, TestRun, ReadEnds, WriteReadError, PendWait, ExecReturns,
       Unregister, CloseCodec, Goto, ServePcs, TypeOK

LEMMA AnsweredFacts ==
    ASSUME TypeOK, NEW m \in Msgs
    PROVE  /\ Answered(m) \in [Reqs -> Nat]
           /\ \A r \in Requests(m) : Answered(m)[r] = replies[r] + 1
           /\ \A r \in Reqs : MsgOf[r] # m => Answered(m)[r] = replies[r]
           /\ \A r \in Reqs : replies[r] > 0 => Answered(m)[r] > 0
<1>1. replies \in [Reqs -> Nat]
  BY DEF TypeOK
<1> QED
  BY <1>1 DEF Answered, Requests

(* A subscription the notifier knows is one of a message under way.        *)
LEMMA SvcConn ==
    ASSUME TypeOK, MsgInv, FreshInv, NEW s \in Subs, ~Fresh(s)
    PROVE  ConnOf(s) \in Conns /\ job[MsgOf[s]] # "none"
<1>1. s \in Reqs /\ MsgOf[s] \in Msgs
  BY ReqFacts DEF Subs
<1>2. PICK k \in DOMAIN Body[MsgOf[s]] : Body[MsgOf[s]][k] = s
  BY <1>1, ReqFacts
<1>3. job[MsgOf[s]] # "none"
  BY <1>1, <1>2 DEF FreshInv
<1> QED
  BY <1>1, <1>3 DEF MsgInv, TypeOK, ConnOf

LEMMA TypeStep ==
    ASSUME TypeOK, CurInv, MsgInv, FreshInv, [Next]_vars
    PROVE  TypeOK'
<1>1. CASE UNCHANGED vars
  BY <1>1 DEF TypeOK, vars, serveVars, peerVars, jobVars, notifVars
<1>2. ASSUME NEW c \in Conns, NEW m \in Msgs, Send(c, m) PROVE TypeOK'
  <2>1. Append(wire[c], m) \in Seq(Msgs)
    BY AppendFacts DEF TypeOK
  <2> QED
    BY <1>2, <2>1 DEF Send, TypeOK, serveVars, jobVars, notifVars
<1>3. ASSUME NEW c \in Conns, Hangup(c) \/ Stall(c) \/ ReadAgain(c) \/ BatchCallReturns(c)
      PROVE  TypeOK'
  BY <1>3 DEF Hangup, Stall, ReadAgain, BatchCallReturns, TypeOK, serveVars, peerVars,
              jobVars, notifVars
<1>4. ASSUME NEW c \in Conns, Moves(c) PROVE TypeOK'
  <2>1. PICK l \in ServePcs : pc' = [pc EXCEPT ![c] = l]
    BY <1>4, MovesEffect DEF Goto
  <2>2. /\ UNCHANGED <<run, stopPc, cur, peerVars, jobVars, notifVars, returned>>
        /\ closed' \subseteq Conns /\ codecs' \subseteq Conns
    BY <1>4, MovesEffect
  <2>3. pc' \in [Conns -> ServePcs]
    BY <2>1 DEF TypeOK
  <2> QED
    BY <2>2, <2>3 DEF TypeOK, peerVars, jobVars, notifVars
<1>5. ASSUME NEW c \in Conns, ReadRequest(c) PROVE TypeOK'
  <2>1. Tail(wire[c]) \in Seq(Msgs) /\ Head(wire[c]) \in Msgs
    BY <1>5, TailFacts DEF TypeOK, ReadRequest
  <2> QED
    BY <1>5, <2>1 DEF ReadRequest, Goto, TypeOK, ServePcs, jobVars, notifVars
<1>6. ASSUME NEW c \in Conns, CheckRun(c) PROVE TypeOK'
  <2>1. /\ cur[c] \in Msgs /\ pos[cur[c]] = 1 /\ 1 \in DOMAIN Body[cur[c]]
    BY <1>6, BodyFacts DEF CheckRun, CurInv, MsgInv, Waiting
  <2>2. job' \in [Msgs -> Busy \cup {"none", "done", "panicked"}]
    BY <1>6, <2>1 DEF CheckRun, TypeOK, Busy
  <2>3. \A n \in Msgs : job'[n] \in {"handle", "activate"} => pos[n] \in DOMAIN Body[n]
    BY <1>6, <2>1 DEF CheckRun, TypeOK
  <2> QED
    BY <1>6, <2>2, <2>3 DEF CheckRun, Goto, TypeOK, ServePcs, peerVars, notifVars
<1>7. ASSUME NEW c \in Conns, Refuse(c) PROVE TypeOK'
  <2>1. replies' \in [Reqs -> Nat]
    BY <1>7, AnsweredFacts DEF Refuse, CurInv, TypeOK
  <2> QED
    BY <1>7, <2>1 DEF Refuse, Goto, TypeOK, ServePcs, peerVars, notifVars
<1>8. CASE StopFlag \/ Stop
  <2>1. CASE StopFlag \/ StopLock \/ StopReturns
    BY <2>1 DEF StopFlag, StopLock, StopReturns, TypeOK, peerVars, jobVars, notifVars
  <2>2. ASSUME NEW c \in Conns, StopClose(c) PROVE TypeOK'
    BY <2>2 DEF StopClose, TypeOK, serveVars, peerVars, jobVars, notifVars
  <2> QED
    BY <1>8, <2>1, <2>2 DEF Stop
<1>9. ASSUME NEW m \in Msgs, Handle(m) PROVE TypeOK'
  <2>1. /\ pos[m] \in DOMAIN Body[m] /\ Step(m, "write")
    BY <1>9 DEF Handle, TypeOK
  <2>2. /\ inactive' \subseteq Subs /\ active' \subseteq Subs /\ noted' \subseteq Subs
        /\ errCloses' \in [Reqs -> Nat]
        /\ svc' \in [Reqs -> {"none", "idle", "notify", "ended"}]
        /\ res' \in [Reqs -> {"none", "ok", "err"}]
    <3>1. PICK r \in Reqs : r = Body[m][pos[m]]
      BY <2>1, BodyFacts
    <3>2. CASE UNCHANGED notifVars
      BY <1>9, <3>1, <3>2, HandleEffect DEF TypeOK, notifVars
    <3>3. CASE ~UNCHANGED notifVars
      <4>1. Kind[r] = "unsubscribe" => Target[r] \in Reqs
        BY ReqFacts DEF Subs
      <4>2. res' \in [Reqs -> {"none", "ok", "err"}]
        BY <1>9, <3>1, HandleEffect
      <4>3. CASE /\ r \in Subs /\ inactive' = inactive \cup {r}
                 /\ svc' = [svc EXCEPT ![r] = "idle"]
                 /\ UNCHANGED <<active, errCloses, noted>>
        BY <4>2, <4>3 DEF TypeOK
      <4>4. CASE /\ Kind[r] = "unsubscribe"
                 /\ errCloses' = [errCloses EXCEPT ![Target[r]] = @ + 1]
                 /\ active' = active \ {Target[r]}
                 /\ UNCHANGED <<inactive, svc, noted>>
        BY <4>1, <4>2, <4>4 DEF TypeOK
      <4> QED
        BY <1>9, <3>1, <3>3, <4>3, <4>4, HandleEffect
    <3> QED
      BY <3>2, <3>3
  <2>3. /\ pos' \in [Msgs -> Nat]
        /\ job' \in [Msgs -> Busy \cup {"none", "done", "panicked"}]
        /\ \A n \in Msgs : job'[n] \in {"handle", "activate"} => pos'[n] \in DOMAIN Body[n]
    BY <2>1, StepEffect
  <2> QED
    BY <1>9, <2>2, <2>3 DEF Handle, TypeOK, serveVars, peerVars
<1>10. ASSUME NEW m \in Msgs, HandlePanics(m) PROVE TypeOK'
  BY <1>10 DEF HandlePanics, TypeOK, serveVars, peerVars, notifVars
<1>11. ASSUME NEW m \in Msgs, Write(m) PROVE TypeOK'
  <2>1. pos[m] = 1 /\ 1 \in DOMAIN Body[m] /\ at[m] \in Conns
    BY <1>11, BodyFacts DEF Write, MsgInv, TypeOK
  <2>2. replies' \in [Reqs -> Nat] /\ closed' \subseteq Conns
    BY <1>11, <2>1, AnsweredFacts DEF Write, TypeOK
  <2>3. job' \in [Msgs -> Busy \cup {"none", "done", "panicked"}]
    BY <1>11 DEF Write, TypeOK, Busy
  <2>4. \A n \in Msgs : job'[n] \in {"handle", "activate"} => pos[n] \in DOMAIN Body[n]
    BY <1>11, <2>1 DEF Write, TypeOK
  <2> QED
    BY <1>11, <2>2, <2>3, <2>4 DEF Write, TypeOK, serveVars, peerVars, notifVars
<1>12. ASSUME NEW m \in Msgs, Activate(m) PROVE TypeOK'
  <2>1. pos[m] \in DOMAIN Body[m] /\ Step(m, "done")
    BY <1>12 DEF Activate, TypeOK
  <2>2. inactive' \subseteq Subs /\ active' \subseteq Subs
    BY <1>12 DEF Activate, TypeOK
  <2>3. /\ pos' \in [Msgs -> Nat]
        /\ job' \in [Msgs -> Busy \cup {"none", "done", "panicked"}]
        /\ \A n \in Msgs : job'[n] \in {"handle", "activate"} => pos'[n] \in DOMAIN Body[n]
    BY <2>1, StepEffect
  <2> QED
    BY <1>12, <2>2, <2>3 DEF Activate, TypeOK, serveVars, peerVars
<1>13. ASSUME NEW s \in Subs, NotifyLock(s) \/ ServiceEnds(s) PROVE TypeOK'
  BY <1>13 DEF NotifyLock, ServiceEnds, TypeOK, Subs, serveVars, peerVars, jobVars
<1>14. ASSUME NEW s \in Subs, NotifyWrite(s) PROVE TypeOK'
  <2>1. svc[s] # "none"
    BY <1>14 DEF NotifyWrite
  <2>2. ConnOf(s) \in Conns
    BY <2>1, SvcConn DEF Fresh
  <2> QED
    BY <1>14, <2>2 DEF NotifyWrite, TypeOK, Subs, serveVars, peerVars, jobVars
<1> QED
  BY <1>1, <1>2, <1>3, <1>4, <1>5, <1>6, <1>7, <1>8, <1>9, <1>10, <1>11, <1>12, <1>13, <1>14
     DEF Next, Peer, Serve, Exec, Service, Moves

-----------------------------------------------------------------------------
(* Where the messages are.                                                 *)

LEMMA NoneIsNoConn == None \notin Conns
BY ServerAssumption

(* Message m is waiting at c after the step.                               *)
Waits(c, m) == at'[m] = c /\ job'[m] = "none" /\ \A r \in Requests(m) : replies'[r] = 0

(* Executing m leaves the messages that are not yet executed alone.        *)
LEMMA ExecKeepsPlaces ==
    ASSUME TypeOK, WireInv, CurInv, NEW m \in Msgs, job[m] # "none",
           UNCHANGED <<wire, at, pc, cur>>,
           \A n \in Msgs : n # m => job'[n] = job[n],
           \A r \in Reqs : MsgOf[r] # m => replies'[r] = replies[r]
    PROVE  WireInv' /\ CurInv'
<1>1. ASSUME NEW c \in Conns, NEW n \in Msgs, Waiting(c, n) PROVE Waits(c, n)
  BY <1>1 DEF Waiting, Waits, Unanswered, Requests
<1>2. \A c \in Conns : \A k \in DOMAIN wire[c] : wire[c][k] \in Msgs
  BY DEF TypeOK
<1>3. WireInv'
  BY <1>1, <1>2 DEF WireInv, Waiting, Waits, Unanswered
<1>4. CurInv'
  BY <1>1 DEF CurInv, Waiting, Waits, Unanswered
<1> QED
  BY <1>3, <1>4

LEMMA FlowStep ==
    ASSUME TypeOK, WireInv, CurInv, MsgInv, [Next]_vars
    PROVE  WireInv' /\ CurInv' /\ MsgInv'
<1>0. \A c \in Conns : \A k \in DOMAIN wire[c] : wire[c][k] \in Msgs
  BY DEF TypeOK
<1>1. CASE UNCHANGED <<wire, at, job, pos, pc, cur, replies>>
  BY <1>1 DEF WireInv, CurInv, MsgInv, Waiting, Unanswered
<1>2. ASSUME NEW c \in Conns, NEW m \in Msgs, Send(c, m)
      PROVE  WireInv' /\ CurInv' /\ MsgInv'
  <2>1. /\ at[m] = None /\ at' = [at EXCEPT ![m] = c]
        /\ wire' = [wire EXCEPT ![c] = Append(wire[c], m)]
        /\ UNCHANGED <<pc, cur, job, pos, replies>>
    BY <1>2 DEF Send, serveVars, jobVars
  <2>2. Waits(c, m)
    BY <2>1 DEF Waits, Unanswered, MsgInv, TypeOK
  <2>3. ASSUME NEW d \in Conns, NEW n \in Msgs, Waiting(d, n)
        PROVE  Waits(d, n) /\ n # m
    BY <2>1, <2>3, NoneIsNoConn DEF Waiting, Waits, Unanswered, TypeOK
  <2>4. ASSUME NEW k \in DOMAIN wire'[c]
        PROVE  \/ k = Len(wire[c]) + 1 /\ wire'[c][k] = m
               \/ k \in DOMAIN wire[c] /\ wire'[c][k] = wire[c][k]
    BY <2>1, <2>4, AppendFacts DEF TypeOK
  <2>5. \A d \in Conns : d # c => wire'[d] = wire[d]
    BY <2>1 DEF TypeOK
  <2>6. WireInv'
    <3>1. ASSUME NEW d \in Conns, NEW k \in DOMAIN wire'[d]
          PROVE  /\ Waits(d, wire'[d][k])
                 /\ \A l \in DOMAIN wire'[d] : wire'[d][k] = wire'[d][l] => k = l
      <4>1. CASE d # c
        BY <1>0, <2>3, <2>5, <3>1, <4>1 DEF WireInv
      <4>2. CASE d = c
        BY <1>0, <2>2, <2>3, <2>4, <3>1, <4>2 DEF WireInv
      <4> QED
        BY <4>1, <4>2
    <3> QED
      BY <3>1 DEF WireInv, Waiting, Waits, Unanswered
  <2>7. CurInv'
    <3>1. ASSUME NEW d \in Conns, pc[d] \in {"check", "refuse"}
          PROVE  /\ cur[d] \in Msgs /\ Waits(d, cur[d]) /\ Body[cur[d]] # <<>>
                 /\ \A k \in DOMAIN wire'[d] : wire'[d][k] # cur[d]
      BY <2>3, <2>4, <2>5, <3>1 DEF CurInv
    <3>2. ASSUME NEW d \in Conns, pc[d] = "exec"
          PROVE  d \in Single /\ cur[d] \in Msgs /\ at'[cur[d]] = d
      BY <2>1, <3>2, NoneIsNoConn DEF CurInv, TypeOK
    <3> QED
      BY <2>1, <3>1, <3>2 DEF CurInv, Waiting, Waits, Unanswered
  <2>8. MsgInv'
    <3>1. c \in Single => \A n \in Msgs : at[n] # c
      BY <1>2 DEF Send, MsgsAt
    <3> QED
      BY <2>1, <3>1, NoneIsNoConn DEF MsgInv, Unanswered, TypeOK
  <2> QED
    BY <2>6, <2>7, <2>8
<1>3. ASSUME NEW c \in Conns, Moves(c) PROVE WireInv' /\ CurInv' /\ MsgInv'
  <2>1. PICK l \in ServePcs \ {"check", "refuse", "exec"} : pc' = [pc EXCEPT ![c] = l]
    BY <1>3, MovesEffect DEF Goto
  <2>2. UNCHANGED <<wire, at, job, pos, cur, replies>>
    BY <1>3, MovesEffect DEF peerVars, jobVars
  <2>3. WireInv' /\ MsgInv'
    BY <2>2 DEF WireInv, MsgInv, Waiting, Unanswered
  <2>4. CurInv'
    BY <2>1, <2>2 DEF CurInv, Waiting, Unanswered, TypeOK
  <2> QED
    BY <2>3, <2>4
<1>4. ASSUME NEW c \in Conns, ReadRequest(c) PROVE WireInv' /\ CurInv' /\ MsgInv'
  <2> DEFINE w == wire[c]
             m == Head(w)
  <2>1. /\ w \in Seq(Msgs) /\ w # <<>>
        /\ wire' = [wire EXCEPT ![c] = Tail(w)]
        /\ UNCHANGED <<at, job, pos, replies>>
        /\ \/ Body[m] # <<>> /\ pc' = [pc EXCEPT ![c] = "check"]
              /\ cur' = [cur EXCEPT ![c] = m]
           \/ pc' = [pc EXCEPT ![c] = "badread"] /\ cur' = cur
    BY <1>4 DEF ReadRequest, Goto, jobVars, TypeOK
  <2>2. /\ 1 \in DOMAIN w /\ m = w[1] /\ m \in Msgs
        /\ \A k \in DOMAIN Tail(w) : k + 1 \in DOMAIN w /\ Tail(w)[k] = w[k + 1]
        /\ \A k \in DOMAIN Tail(w) : k \in Nat /\ k + 1 # 1
        /\ \A k, l \in DOMAIN Tail(w) : k + 1 = l + 1 => k = l
    <3> HIDE DEF w
    <3> QED
      BY <2>1, TailFacts
  <2>3. wire'[c] = Tail(w) /\ \A d \in Conns : d # c => wire'[d] = wire[d]
    BY <2>1 DEF TypeOK
  <2>4. /\ \A k \in DOMAIN w : Waiting(c, w[k])
        /\ \A k, l \in DOMAIN w : w[k] = w[l] => k = l
    BY DEF WireInv
  <2> HIDE DEF w, m
  <2>5. ASSUME NEW d \in Conns, NEW n \in Msgs, Waiting(d, n) PROVE Waits(d, n)
    BY <2>1, <2>5 DEF Waiting, Waits, Unanswered
  <2>6. WireInv'
    <3>1. ASSUME NEW d \in Conns, NEW k \in DOMAIN wire'[d]
          PROVE  /\ Waits(d, wire'[d][k])
                 /\ \A l \in DOMAIN wire'[d] : wire'[d][k] = wire'[d][l] => k = l
      <4>1. CASE d # c
        BY <1>0, <2>3, <2>5, <3>1, <4>1 DEF WireInv
      <4>2. CASE d = c
        <5>1. k \in DOMAIN Tail(w) /\ wire'[d][k] = w[k + 1] /\ k + 1 \in DOMAIN w
          BY <2>2, <2>3, <3>1, <4>2
        <5>2. Waiting(c, w[k + 1]) /\ w[k + 1] \in Msgs
          BY <1>0, <2>4, <5>1 DEF w
        <5>3. \A l \in DOMAIN wire'[d] : wire'[d][k] = wire'[d][l] => k = l
          BY <2>2, <2>3, <2>4, <4>2, <5>1
        <5> QED
          BY <2>5, <4>2, <5>1, <5>2, <5>3
      <4> QED
        BY <4>1, <4>2
    <3> QED
      BY <3>1 DEF WireInv, Waiting, Waits, Unanswered
  <2>7. CurInv'
    <3>1. Waits(c, m) /\ \A k \in DOMAIN wire'[c] : wire'[c][k] # m
      BY <2>2, <2>3, <2>4, <2>5
    <3>2. ASSUME NEW d \in Conns, d # c
          PROVE  pc'[d] = pc[d] /\ cur'[d] = cur[d] /\ wire'[d] = wire[d]
      BY <2>1, <2>3, <3>2 DEF TypeOK
    <3>3. \/ pc'[c] = "check" /\ cur'[c] = m /\ Body[m] # <<>>
          \/ pc'[c] = "badread"
      BY <2>1 DEF TypeOK
    <3>4. ASSUME NEW d \in Conns
          PROVE  /\ pc'[d] \in {"check", "refuse"} =>
                       /\ cur'[d] \in Msgs /\ Waits(d, cur'[d]) /\ Body[cur'[d]] # <<>>
                       /\ \A k \in DOMAIN wire'[d] : wire'[d][k] # cur'[d]
                 /\ pc'[d] = "exec" => d \in Single /\ cur'[d] \in Msgs /\ at'[cur'[d]] = d
      <4>1. CASE d = c
        BY <2>2, <3>1, <3>3, <4>1
      <4>2. CASE d # c
        BY <2>1, <2>5, <3>2, <4>2 DEF CurInv
      <4> QED
        BY <4>1, <4>2
    <3> QED
      BY <3>4 DEF CurInv, Waiting, Waits, Unanswered
  <2>8. MsgInv'
    BY <2>1 DEF MsgInv, Unanswered
  <2> QED
    BY <2>6, <2>7, <2>8
<1>5. ASSUME NEW c \in Conns, CheckRun(c) \/ Refuse(c)
      PROVE  WireInv' /\ CurInv' /\ MsgInv'
  <2>1. PICK m \in Msgs : m = cur[c] /\ Waiting(c, m) /\ Body[m] # <<>>
    BY <1>5 DEF CheckRun, Refuse, CurInv
  <2>2. \A k \in DOMAIN wire[c] : wire[c][k] # m
    BY <1>5, <2>1 DEF CheckRun, Refuse, CurInv
  <2>3. UNCHANGED <<wire, at, cur, pos>>
    BY <1>5 DEF CheckRun, Refuse, peerVars
  <2>4. /\ \A d \in Conns : d # c => pc'[d] = pc[d]
        /\ \/ pc'[c] = "refuse" /\ job' = job /\ replies' = replies
           \/ pc'[c] = "unreg" /\ job' = job
           \/ pc'[c] = "loop" /\ replies' = replies
           \/ pc'[c] = "exec" /\ c \in Single /\ replies' = replies
    BY <1>5 DEF CheckRun, Refuse, Goto, TypeOK
  <2>5. /\ \A n \in Msgs : n # m => job'[n] = job[n]
        /\ \A r \in Reqs : MsgOf[r] # m => replies'[r] = replies[r]
        /\ (job'[m] = "handle" /\ replies' = replies) \/ job'[m] = "none"
    BY <1>5, <2>1, AnsweredFacts DEF CheckRun, Refuse, Waiting, TypeOK
  <2>6. ASSUME NEW d \in Conns, NEW n \in Msgs, Waiting(d, n), n # m PROVE Waits(d, n)
    BY <2>3, <2>5, <2>6 DEF Waiting, Waits, Unanswered, Requests
  <2>7. ASSUME NEW d \in Conns, NEW n \in Msgs, Waiting(d, n), d # c PROVE Waits(d, n)
    BY <2>1, <2>6, <2>7 DEF Waiting
  <2>8. WireInv'
    <3>1. ASSUME NEW d \in Conns, NEW k \in DOMAIN wire[d] PROVE Waits(d, wire[d][k])
      BY <1>0, <2>2, <2>6, <2>7, <3>1 DEF WireInv
    <3> QED
      BY <2>3, <3>1 DEF WireInv, Waiting, Waits, Unanswered
  <2>9. CurInv'
    <3>1. ASSUME NEW d \in Conns
          PROVE  /\ pc'[d] \in {"check", "refuse"} =>
                       /\ cur[d] \in Msgs /\ Waits(d, cur[d]) /\ Body[cur[d]] # <<>>
                       /\ \A k \in DOMAIN wire[d] : wire[d][k] # cur[d]
                 /\ pc'[d] = "exec" => d \in Single /\ cur[d] \in Msgs /\ at[cur[d]] = d
      <4>1. CASE d = c
        BY <2>1, <2>2, <2>3, <2>4, <4>1 DEF Waiting, Waits, Unanswered
      <4>2. CASE d # c
        BY <2>4, <2>7, <4>2 DEF CurInv
      <4> QED
        BY <4>1, <4>2
    <3> QED
      BY <2>3, <3>1 DEF CurInv, Waiting, Waits, Unanswered
  <2>10. MsgInv'
    <3>1. \A n \in Msgs : n # m => (Unanswered(n) => Unanswered(n)')
      BY <2>5 DEF Unanswered, Requests
    <3>2. at[m] # None /\ pos[m] = 1 /\ (job'[m] = "handle" => Unanswered(m)')
      BY <2>1, <2>5, NoneIsNoConn DEF Waiting, Unanswered, MsgInv
    <3> QED
      BY <2>1, <2>3, <2>5, <3>1, <3>2 DEF MsgInv
  <2> QED
    BY <2>8, <2>9, <2>10
<1>6. ASSUME NEW m \in Msgs, Handle(m) \/ Activate(m)
      PROVE  WireInv' /\ CurInv' /\ MsgInv'
  <2>1. PICK next \in {"write", "done"} :
           /\ Step(m, next) /\ (next = "write" <=> job[m] = "handle")
           /\ job[m] \in {"handle", "activate"} /\ pos[m] \in DOMAIN Body[m]
    BY <1>6 DEF Handle, Activate, TypeOK
  <2>2. UNCHANGED <<wire, at, pc, cur, replies>>
    BY <1>6 DEF Handle, Activate, serveVars, peerVars
  <2>3. /\ \A n \in Msgs : n # m => job'[n] = job[n] /\ pos'[n] = pos[n]
        /\ (job'[m] = next /\ pos'[m] = 1) \/ job'[m] = job[m]
    BY <2>1, StepEffect
  <2>4. WireInv' /\ CurInv'
    BY <2>1, <2>2, <2>3, ExecKeepsPlaces
  <2>5. MsgInv'
    BY <2>1, <2>2, <2>3 DEF MsgInv, Unanswered
  <2> QED
    BY <2>4, <2>5
<1>7. ASSUME NEW m \in Msgs, HandlePanics(m) \/ Write(m)
      PROVE  WireInv' /\ CurInv' /\ MsgInv'
  <2>1. /\ job[m] \in {"handle", "write"}
        /\ UNCHANGED <<wire, at, pc, cur, pos>>
        /\ \A n \in Msgs : n # m => job'[n] = job[n]
        /\ job'[m] \in {"panicked", "activate"}
    BY <1>7 DEF HandlePanics, Write, serveVars, peerVars, TypeOK
  <2>2. \A r \in Reqs : MsgOf[r] # m => replies'[r] = replies[r]
    BY <1>7, AnsweredFacts DEF HandlePanics, Write
  <2>3. WireInv' /\ CurInv'
    BY <2>1, <2>2, ExecKeepsPlaces
  <2>4. \A n \in Msgs : n # m => (Unanswered(n) => Unanswered(n)')
    BY <2>2 DEF Unanswered, Requests
  <2>5. MsgInv'
    BY <2>1, <2>4 DEF MsgInv
  <2> QED
    BY <2>3, <2>5
<1> QED
  <2>1. CASE \/ UNCHANGED vars \/ StopFlag \/ Stop
             \/ \E c \in Conns : Hangup(c) \/ Stall(c) \/ ReadAgain(c) \/ BatchCallReturns(c)
             \/ \E s \in Subs : NotifyLock(s) \/ NotifyWrite(s) \/ ServiceEnds(s)
    BY <1>1, <2>1 DEF vars, serveVars, peerVars, jobVars, StopFlag, Stop, StopLock,
       StopClose, StopReturns, Hangup, Stall, ReadAgain, BatchCallReturns, NotifyLock,
       NotifyWrite, ServiceEnds
  <2> QED
    BY <1>2, <1>3, <1>4, <1>5, <1>6, <1>7, <2>1
       DEF Next, Peer, Serve, Exec, Service, Moves

-----------------------------------------------------------------------------
(* The notifier.                                                           *)

LEMMA FreshStep ==
    ASSUME TypeOK, CurInv, MsgInv, FreshInv, [Next]_vars
    PROVE  FreshInv'
<1>1. CASE UNCHANGED <<job, pos, active, inactive, errCloses, svc>>
  BY <1>1 DEF FreshInv, Fresh
<1>2. ASSUME NEW c \in Conns, CheckRun(c) PROVE FreshInv'
  <2>1. PICK m \in Msgs : m = cur[c] /\ job[m] = "none"
    BY <1>2 DEF CheckRun, CurInv, Waiting
  <2>2. /\ \A n \in Msgs : job'[n] = job[n] \/ job[n] = "none"
        /\ UNCHANGED <<pos, notifVars>>
    BY <1>2, <2>1 DEF CheckRun, TypeOK
  <2> QED
    BY <2>2 DEF FreshInv, Fresh, notifVars
<1>3. ASSUME NEW m \in Msgs, HandlePanics(m) \/ Write(m) PROVE FreshInv'
  <2>1. /\ \A n \in Msgs : job'[n] = job[n] \/ job'[n] \in {"panicked", "activate"}
        /\ UNCHANGED <<pos, notifVars>>
    BY <1>3 DEF HandlePanics, Write, TypeOK
  <2> QED
    BY <2>1 DEF FreshInv, Fresh, notifVars
<1>4. ASSUME NEW m \in Msgs, Activate(m) PROVE FreshInv'
  <2>1. /\ job[m] = "activate"
        /\ \A n \in Msgs : n # m => job'[n] = job[n] /\ pos'[n] = pos[n]
        /\ job'[m] \in {"done", "activate"}
    BY <1>4, StepEffect DEF Activate, TypeOK
  <2>2. /\ active' \cup inactive' \subseteq active \cup inactive
        /\ UNCHANGED <<errCloses, svc>>
    BY <1>4 DEF Activate
  <2> QED
    BY <2>1, <2>2 DEF FreshInv, Fresh
<1>5. ASSUME NEW s \in Subs, NotifyLock(s) \/ NotifyWrite(s) \/ ServiceEnds(s)
      PROVE  FreshInv'
  <2>1. /\ svc[s] # "none" /\ UNCHANGED <<job, pos, active, inactive, errCloses>>
        /\ \A q \in Reqs : q # s => svc'[q] = svc[q]
    BY <1>5 DEF NotifyLock, NotifyWrite, ServiceEnds, jobVars, TypeOK
  <2> QED
    BY <2>1, BodyFacts DEF FreshInv, Fresh
<1>6. ASSUME NEW m \in Msgs, Handle(m) PROVE FreshInv'
  <2>1. PICK r \in Reqs : r = Body[m][pos[m]]
    BY <1>6, BodyFacts DEF Handle, TypeOK
  <2>2. ASSUME NEW q \in Reqs, q # r, Fresh(q) PROVE Fresh(q)'
    <3>1. Kind[r] = "unsubscribe" => Target[r] \in Reqs
      BY ReqFacts DEF Subs
    <3> QED
      BY <1>6, <2>1, <2>2, <3>1, HandleEffect DEF Fresh, notifVars, TypeOK
  <2>3. /\ pos[m] \in DOMAIN Body[m] /\ job[m] = "handle" /\ Step(m, "write")
    BY <1>6 DEF Handle, TypeOK
  <2>4. /\ \A n \in Msgs : n # m => job'[n] = job[n] /\ pos'[n] = pos[n]
        /\ \/ job'[m] = "write"
           \/ job'[m] = "handle" /\ pos'[m] = pos[m] + 1
    BY <2>3, StepEffect
  <2>5. ASSUME NEW n \in Msgs, NEW k \in DOMAIN Body[n],
               job'[n] = "none" \/ (job'[n] = "handle" /\ pos'[n] <= k)
        PROVE  Fresh(Body[n][k])'
    <3>1. Body[n][k] \in Reqs /\ k \in Nat /\ pos[m] \in Nat
      BY BodyFacts DEF TypeOK
    <3>2. CASE n # m
      BY <2>1, <2>2, <2>3, <2>4, <2>5, <3>1, <3>2, BodyFacts DEF FreshInv
    <3>3. CASE n = m
      <4>1. pos[m] <= k /\ pos[m] # k
        BY <2>3, <2>4, <2>5, <3>1, <3>3
      <4>2. Fresh(Body[n][k]) /\ Body[n][k] # r
        BY <2>1, <2>3, <3>3, <4>1, BodyFacts DEF FreshInv
      <4> QED
        BY <2>2, <3>1, <4>2
    <3> QED
      BY <3>2, <3>3
  <2> QED
    BY <2>5 DEF FreshInv, Fresh
<1> QED
  <2>1. CASE \/ UNCHANGED vars \/ StopFlag \/ Stop
             \/ \E c \in Conns : \/ Peer(c) \/ BatchCallReturns(c)
                                  \/ ReadRequest(c) \/ Refuse(c)
    BY <1>1, <2>1 DEF vars, jobVars, notifVars, StopFlag, Stop, StopLock, StopClose,
       StopReturns, Peer, Send, Hangup, Stall, ReadAgain, BatchCallReturns, ReadRequest,
       Refuse
  <2>2. ASSUME NEW c \in Conns, Moves(c) PROVE FreshInv'
    BY <1>1, <2>2, MovesEffect DEF jobVars, notifVars
  <2> QED
    BY <1>2, <1>3, <1>4, <1>5, <1>6, <2>1, <2>2 DEF Next, Serve, Exec, Service, Moves

(* Whatever is not the notifier's business leaves its invariants alone:    *)
(* nothing reopens a codec or takes a response back.                       *)
LEMMA NotifierFrame ==
    ASSUME NotifierSafe, SubInv, IdBeforeNotification, TypeOK,
           UNCHANGED <<notifVars, at>>, closed \subseteq closed',
           \A r \in Reqs : replies[r] > 0 => replies'[r] > 0
    PROVE  NotifierSafe' /\ SubInv' /\ IdBeforeNotification'
<1>1. NotifierSafe'
  BY DEF NotifierSafe, notifVars
<1>2. SubInv'
  BY DEF SubInv, ConnOf, notifVars, TypeOK, Subs
<1>3. IdBeforeNotification'
  BY DEF IdBeforeNotification, notifVars, TypeOK, Subs
<1> QED
  BY <1>1, <1>2, <1>3

LEMMA NotifierStep ==
    ASSUME TypeOK, CurInv, MsgInv, FreshInv, NotifierSafe, SubInv,
           IdBeforeNotification, AnsweredOrClosed, [Next]_vars
    PROVE  NotifierSafe' /\ SubInv' /\ IdBeforeNotification'
<1>1. ASSUME NEW c \in Conns, NEW m \in Msgs, Send(c, m)
      PROVE  NotifierSafe' /\ SubInv' /\ IdBeforeNotification'
  <2>1. /\ at[m] = None /\ at' = [at EXCEPT ![m] = c]
        /\ UNCHANGED <<closed, replies, notifVars>>
        /\ \A r \in Requests(m) : Kind[r] = "unsubscribe" /\ c \notin Single =>
              ConnOf(Target[r]) = c
    BY <1>1 DEF Send, jobVars
  <2>2. ASSUME NEW r \in Reqs, ConnOf(r) \in Conns PROVE ConnOf(r)' = ConnOf(r)
    BY <2>1, <2>2, NoneIsNoConn, ReqFacts DEF ConnOf, TypeOK
  <2>3. \A s \in active \cup inactive : s \in Reqs /\ ConnOf(s) \in Conns
    BY SvcConn DEF Fresh, TypeOK, Subs
  <2>4. ASSUME NEW r \in Reqs, Kind[r] = "unsubscribe", ConnOf(r)' \in Conns \ Single
        PROVE  ConnOf(Target[r])' = ConnOf(r)'
    <3>1. Target[r] \in Reqs
      BY <2>4, ReqFacts DEF Subs
    <3>2. CASE MsgOf[r] = m
      <4>1. ConnOf(r)' = c
        BY <2>1, <3>2 DEF ConnOf, TypeOK
      <4>2. ConnOf(Target[r]) = c
        BY <2>1, <2>4, <3>2, <4>1 DEF Requests
      <4> QED
        BY <2>2, <3>1, <4>1, <4>2
    <3>3. CASE MsgOf[r] # m
      <4>1. ConnOf(r)' = ConnOf(r)
        BY <2>1, <3>3, ReqFacts DEF ConnOf, TypeOK
      <4>2. ConnOf(Target[r]) = ConnOf(r)
        BY <2>4, <4>1 DEF SubInv
      <4> QED
        BY <2>2, <2>4, <3>1, <4>1, <4>2
    <3> QED
      BY <3>2, <3>3
  <2>5. NotifierSafe' /\ IdBeforeNotification'
    BY <2>1 DEF NotifierSafe, IdBeforeNotification, notifVars
  <2>6. UNCHANGED <<active, inactive, replies, closed>>
    BY <2>1 DEF notifVars
  <2>7. /\ \A s \in active' \cup inactive' : ConnOf(s)' \notin Single
        /\ \A s \in active' : replies'[s] > 0 \/ ConnOf(s)' \in closed'
    BY <2>2, <2>3, <2>6 DEF SubInv
  <2>8. SubInv'
    BY <2>4, <2>7 DEF SubInv
  <2> QED
    BY <2>5, <2>8
<1>2. ASSUME NEW m \in Msgs, Handle(m)
      PROVE  NotifierSafe' /\ SubInv' /\ IdBeforeNotification'
  <2>1. PICK r \in Reqs : r = Body[m][pos[m]] /\ MsgOf[r] = m
    BY <1>2, BodyFacts DEF Handle, TypeOK
  <2>2. UNCHANGED <<at, closed, replies>>
    BY <1>2 DEF Handle, peerVars
  <2>3. \A q \in Reqs : ConnOf(q)' = ConnOf(q)
    BY <2>2 DEF ConnOf
  <2>4. CASE UNCHANGED notifVars
    BY <2>2, <2>4, NotifierFrame
  <2>5. CASE /\ r \in Subs /\ at[m] \notin Single
             /\ inactive' = inactive \cup {r}
             /\ svc' = [svc EXCEPT ![r] = "idle"]
             /\ UNCHANGED <<active, errCloses, noted>>
    <3>1. Fresh(r)
      <4>1. job[m] = "handle" /\ pos[m] \in DOMAIN Body[m] /\ pos[m] <= pos[m]
        BY <1>2 DEF Handle, TypeOK
      <4> QED
        BY <2>1, <4>1 DEF FreshInv
    <3>2. NotifierSafe'
      BY <2>5, <3>1 DEF NotifierSafe, Fresh, TypeOK, Subs
    <3>3. SubInv'
      BY <2>1, <2>2, <2>3, <2>5 DEF SubInv, ConnOf
    <3> QED
      BY <2>2, <2>5, <3>2, <3>3 DEF IdBeforeNotification
  <2>6. CASE /\ Kind[r] = "unsubscribe" /\ at[m] \notin Single /\ SubMuFree(at[m])
             /\ Target[r] \in active
             /\ errCloses' = [errCloses EXCEPT ![Target[r]] = @ + 1]
             /\ active' = active \ {Target[r]}
             /\ UNCHANGED <<inactive, svc, noted>>
    <3>1. Target[r] \in Subs /\ Target[r] \in Reqs
      BY <2>6, ReqFacts DEF Subs
    <3>2. at[m] \in Conns \ Single
      BY <1>2, <2>6 DEF Handle, MsgInv, TypeOK
    <3>3. svc[Target[r]] # "notify"
      BY <2>1, <2>6, <3>1, <3>2 DEF SubInv, SubMuFree, ConnOf
    <3>4. errCloses[Target[r]] = 0
      BY <2>6, <3>1 DEF NotifierSafe, TypeOK
    <3>5. errCloses'[Target[r]] = 1
          /\ \A q \in Reqs : q # Target[r] => errCloses'[q] = errCloses[q]
      BY <2>6, <3>1, <3>4 DEF TypeOK
    <3>6. NotifierSafe'
      BY <2>6, <3>1, <3>3, <3>5 DEF NotifierSafe, Subs
    <3>7. SubInv'
      BY <2>2, <2>3, <2>6 DEF SubInv, ConnOf
    <3> QED
      BY <2>2, <2>6, <3>6, <3>7 DEF IdBeforeNotification
  <2> QED
    BY <1>2, <2>1, <2>4, <2>5, <2>6, HandleEffect
<1>3. ASSUME NEW m \in Msgs, Activate(m)
      PROVE  NotifierSafe' /\ SubInv' /\ IdBeforeNotification'
  <2>1. PICK r \in Reqs : r = Body[m][pos[m]] /\ MsgOf[r] = m
    BY <1>3, BodyFacts DEF Activate, TypeOK
  <2>2. /\ UNCHANGED <<at, closed, replies, errCloses, svc, noted>>
        /\ \/ active' = active /\ inactive' = inactive
           \/ active' = active \cup ({r} \cap inactive) /\ inactive' = inactive \ {r}
    BY <1>3, <2>1 DEF Activate, peerVars
  <2>3. replies[r] > 0 \/ ConnOf(r) \in closed
    BY <1>3, <2>1 DEF Activate, AnsweredOrClosed, Requests, ConnOf
  <2>4. NotifierSafe'
    BY <2>2 DEF NotifierSafe
  <2>5. SubInv'
    BY <2>2, <2>3 DEF SubInv, ConnOf
  <2> QED
    BY <2>2, <2>4, <2>5 DEF IdBeforeNotification
<1>4. ASSUME NEW s \in Subs, NotifyLock(s) \/ NotifyWrite(s) \/ ServiceEnds(s)
      PROVE  NotifierSafe' /\ SubInv' /\ IdBeforeNotification'
  <2>1. /\ UNCHANGED <<active, inactive, errCloses, at, replies>> /\ closed \subseteq closed'
        /\ \A q \in Reqs : q # s => svc'[q] = svc[q]
        /\ svc'[s] = "notify" => s \in active
    BY <1>4 DEF NotifyLock, NotifyWrite, ServiceEnds, peerVars, jobVars, TypeOK, Subs
  <2>2. noted' = noted \/ (noted' = noted \cup {s} /\ replies[s] > 0)
    <3>1. CASE NotifyWrite(s) /\ noted' # noted
      <4>1. s \in active /\ ConnOf(s) \notin closed \ Single
        BY <3>1 DEF NotifyWrite, NotifierSafe, WriteOK, Broken
      <4> QED
        BY <3>1, <4>1 DEF NotifyWrite, SubInv
    <3> QED
      BY <1>4, <3>1 DEF NotifyLock, ServiceEnds
  <2>3. NotifierSafe'
    BY <2>1 DEF NotifierSafe, Subs
  <2>4. SubInv'
    BY <2>1 DEF SubInv, ConnOf
  <2>5. IdBeforeNotification'
    BY <2>1, <2>2 DEF IdBeforeNotification
  <2> QED
    BY <2>3, <2>4, <2>5
<1>5. ASSUME NEW m \in Msgs, HandlePanics(m) \/ Write(m)
      PROVE  NotifierSafe' /\ SubInv' /\ IdBeforeNotification'
  <2>1. UNCHANGED <<notifVars, at>> /\ closed \subseteq closed'
    BY <1>5 DEF HandlePanics, Write, peerVars
  <2>2. \A r \in Reqs : replies[r] > 0 => replies'[r] > 0
    BY <1>5, AnsweredFacts DEF HandlePanics, Write
  <2> QED
    BY <2>1, <2>2, NotifierFrame
<1>6. ASSUME NEW c \in Conns, Refuse(c)
      PROVE  NotifierSafe' /\ SubInv' /\ IdBeforeNotification'
  <2>1. UNCHANGED <<notifVars, at, closed>>
    BY <1>6 DEF Refuse, peerVars
  <2>2. \A r \in Reqs : replies[r] > 0 => replies'[r] > 0
    BY <1>6, AnsweredFacts DEF Refuse, CurInv
  <2> QED
    BY <2>1, <2>2, NotifierFrame
<1>7. ASSUME UNCHANGED <<notifVars, at, replies>>, closed \subseteq closed'
      PROVE  NotifierSafe' /\ SubInv' /\ IdBeforeNotification'
  BY <1>7, NotifierFrame
<1> QED
  <2>1. ASSUME NEW c \in Conns, Moves(c)
        PROVE  UNCHANGED <<notifVars, at, replies>> /\ closed \subseteq closed'
    BY <2>1, MovesEffect DEF peerVars, jobVars
  <2>2. CASE \/ UNCHANGED vars \/ StopFlag \/ Stop
             \/ \E c \in Conns : \/ Hangup(c) \/ Stall(c) \/ ReadAgain(c)
                                  \/ BatchCallReturns(c) \/ ReadRequest(c) \/ CheckRun(c)
    <3>1. UNCHANGED <<notifVars, at, replies>> /\ closed \subseteq closed'
      BY <2>2 DEF vars, peerVars, jobVars, StopFlag, Stop, StopLock, StopClose,
         StopReturns, Hangup, Stall, ReadAgain, BatchCallReturns, ReadRequest, CheckRun
    <3> QED
      BY <1>7, <3>1
  <2> QED
    BY <1>1, <1>2, <1>3, <1>4, <1>5, <1>6, <1>7, <2>1, <2>2
       DEF Next, Peer, Serve, Exec, Service, Moves

-----------------------------------------------------------------------------
(* The responses.                                                          *)

LEMMA AnsweredFrame ==
    ASSUME AnsweredOrClosed, UNCHANGED <<at, replies>>, closed \subseteq closed',
           \A m \in Msgs : job'[m] \in {"activate", "done"} => job[m] \in {"activate", "done"}
    PROVE  AnsweredOrClosed'
BY DEF AnsweredOrClosed

LEMMA AnsweredStep ==
    ASSUME TypeOK, CurInv, MsgInv, AnsweredOrClosed, [Next]_vars
    PROVE  AnsweredOrClosed'
<1>1. ASSUME NEW c \in Conns, NEW m \in Msgs, Send(c, m) PROVE AnsweredOrClosed'
  BY <1>1 DEF Send, jobVars, MsgInv, AnsweredOrClosed, TypeOK
<1>2. ASSUME NEW c \in Conns, Refuse(c) PROVE AnsweredOrClosed'
  <2>1. PICK m \in Msgs : m = cur[c] /\ job[m] = "none" /\ Unanswered(m)
    BY <1>2 DEF Refuse, CurInv, Waiting
  <2>2. replies' = replies \/ replies' = Answered(m)
    BY <1>2, <2>1 DEF Refuse
  <2>3. /\ UNCHANGED <<at, job, closed>>
    BY <1>2 DEF Refuse, peerVars
  <2>4. /\ \A r \in Reqs : MsgOf[r] # m => replies'[r] = replies[r]
        /\ \A r \in Requests(m) : replies'[r] <= 1
    BY <2>1, <2>2, AnsweredFacts DEF Unanswered
  <2> QED
    BY <2>1, <2>3, <2>4 DEF AnsweredOrClosed, Requests
<1>3. ASSUME NEW m \in Msgs, Write(m) PROVE AnsweredOrClosed'
  <2>1. Unanswered(m) /\ UNCHANGED at /\ closed \subseteq closed'
    BY <1>3 DEF Write, MsgInv, peerVars
  <2>2. \A n \in Msgs : n # m => job'[n] = job[n]
    BY <1>3 DEF Write, TypeOK
  <2>3. /\ \A r \in Reqs : MsgOf[r] # m => replies'[r] = replies[r]
        /\ \/ \A r \in Requests(m) : replies'[r] = 1
           \/ at'[m] \in closed' /\ \A r \in Requests(m) : replies'[r] = 0
    BY <1>3, <2>1, AnsweredFacts DEF Write, Unanswered
  <2>4. \A r \in Reqs : replies'[r] <= 1
    BY <2>3 DEF AnsweredOrClosed, Requests
  <2>5. ASSUME NEW n \in Msgs, job'[n] \in {"activate", "done"}
        PROVE  at'[n] \in closed' \/ \A r \in Requests(n) : replies'[r] = 1
    <3>1. CASE n = m
      BY <2>3, <3>1
    <3>2. CASE n # m
      <4>1. \A r \in Requests(n) : replies'[r] = replies[r]
        BY <2>3, <3>2 DEF Requests
      <4>2. at[n] \in closed \/ \A r \in Requests(n) : replies[r] = 1
        BY <2>2, <2>5, <3>2 DEF AnsweredOrClosed
      <4> QED
        BY <2>1, <4>1, <4>2
    <3> QED
      BY <3>1, <3>2
  <2> QED
    BY <2>4, <2>5 DEF AnsweredOrClosed
<1>4. ASSUME NEW m \in Msgs, Handle(m) \/ Activate(m) PROVE AnsweredOrClosed'
  <2>1. PICK next \in {"write", "done"} :
           /\ Step(m, next) /\ (next = "write" <=> job[m] = "handle")
           /\ job[m] \in {"handle", "activate"} /\ pos[m] \in DOMAIN Body[m]
    BY <1>4 DEF Handle, Activate, TypeOK
  <2>2. \A n \in Msgs : job'[n] \in {"activate", "done"} => job[n] \in {"activate", "done"}
    BY <2>1, StepEffect
  <2>3. UNCHANGED <<at, replies, closed>>
    BY <1>4 DEF Handle, Activate, peerVars
  <2> QED
    BY <2>2, <2>3, AnsweredFrame
<1>5. ASSUME NEW m \in Msgs, HandlePanics(m) PROVE AnsweredOrClosed'
  BY <1>5, AnsweredFrame DEF HandlePanics, peerVars, TypeOK
<1>6. ASSUME NEW c \in Conns, CheckRun(c) PROVE AnsweredOrClosed'
  <2>1. \A n \in Msgs : job'[n] = job[n] \/ job'[n] = "handle"
    BY <1>6 DEF CheckRun, TypeOK
  <2>2. UNCHANGED <<at, replies, closed>>
    BY <1>6 DEF CheckRun, peerVars
  <2> QED
    BY <2>1, <2>2, AnsweredFrame
<1>7. ASSUME UNCHANGED <<at, replies, job>>, closed \subseteq closed' PROVE AnsweredOrClosed'
  BY <1>7, AnsweredFrame
<1> QED
  <2>1. ASSUME NEW c \in Conns, Moves(c)
        PROVE  UNCHANGED <<at, replies, job>> /\ closed \subseteq closed'
    BY <2>1, MovesEffect DEF peerVars, jobVars
  <2>2. CASE \/ UNCHANGED vars \/ StopFlag \/ Stop
             \/ \E c \in Conns : \/ Hangup(c) \/ Stall(c) \/ ReadAgain(c)
                                  \/ BatchCallReturns(c) \/ ReadRequest(c)
             \/ \E s \in Subs : NotifyLock(s) \/ NotifyWrite(s) \/ ServiceEnds(s)
    <3>1. UNCHANGED <<at, replies, job>> /\ closed \subseteq closed'
      BY <2>2 DEF vars, peerVars, jobVars, StopFlag, Stop, StopLock, StopClose,
         StopReturns, Hangup, Stall, ReadAgain, BatchCallReturns, ReadRequest,
         NotifyLock, NotifyWrite, ServiceEnds
    <3> QED
      BY <1>7, <3>1
  <2> QED
    BY <1>1, <1>2, <1>3, <1>4, <1>5, <1>6, <1>7, <2>1, <2>2
       DEF Next, Peer, Serve, Exec, Service, Moves

-----------------------------------------------------------------------------
(* Stop and the end of serveRequest.                                       *)

LEMMA StopStep ==
    ASSUME TypeOK, StopInv, [Next]_vars
    PROVE  StopInv'
<1> USE DEF StopInv, StopLeavesNone
<1>1. ASSUME NEW c \in Conns, Register(c) PROVE StopInv'
  BY <1>1 DEF Register
<1>2. ASSUME NEW c \in Conns, Unregister(c) \/ CloseCodec(c) PROVE StopInv'
  BY <1>2 DEF Unregister, CloseCodec
<1>3. CASE StopFlag \/ Stop
  BY <1>3 DEF StopFlag, Stop, StopLock, StopClose, StopReturns, serveVars
<1>4. ASSUME UNCHANGED <<run, stopPc, codecs>>, closed \subseteq closed' PROVE StopInv'
  BY <1>4
<1>5. CASE \E c \in Conns : \/ Peer(c) \/ BatchCallReturns(c) \/ TestRun(c)
                            \/ ReadRequest(c) \/ ReadEnds(c) \/ WriteReadError(c)
                            \/ CheckRun(c) \/ Refuse(c) \/ PendWait(c) \/ ExecReturns(c)
  <2>1. UNCHANGED <<run, stopPc, codecs, closed>>
    BY <1>5 DEF Peer, Send, Hangup, Stall, ReadAgain, BatchCallReturns, TestRun,
       ReadRequest, ReadEnds, WriteReadError, CheckRun, Refuse, PendWait, ExecReturns,
       serveVars
  <2> QED
    BY <1>4, <2>1
<1>6. CASE \/ UNCHANGED vars \/ \E m \in Msgs : Exec(m)
           \/ \E s \in Subs : NotifyLock(s) \/ Service(s)
  <2>1. UNCHANGED <<run, stopPc, codecs>> /\ closed \subseteq closed'
    BY <1>6 DEF vars, Exec, Handle, HandlePanics, Write, Activate, Service, NotifyLock,
       NotifyWrite, ServiceEnds, serveVars
  <2> QED
    BY <1>4, <2>1
<1> QED
  BY <1>1, <1>2, <1>3, <1>5, <1>6 DEF Next, Serve

LEMMA PendStep ==
    ASSUME TypeOK, CurInv, MsgInv, PendInv, [Next]_vars
    PROVE  PendInv'
<1> USE DEF PendInv, PendingFinishFirst, MsgsAt
<1>1. ASSUME NEW c \in Conns, NEW m \in Msgs, Send(c, m) PROVE PendInv'
  BY <1>1 DEF Send, serveVars, jobVars, MsgInv, TypeOK, Busy
<1>2. ASSUME NEW c \in Conns, \/ Register(c) \/ TestRun(c) \/ ReadEnds(c)
                              \/ WriteReadError(c) \/ Unregister(c) \/ CloseCodec(c)
      PROVE  PendInv'
  <2>1. /\ UNCHANGED <<run, at, job>>
        /\ \A d \in Conns : d # c => pc'[d] = pc[d]
        /\ \/ pc[c] \in {"unreg", "close"} \/ ~run
           \/ pc'[c] \in {"loop", "read", "wait", "badread"}
        /\ pc'[c] # "refuse"
    BY <1>2 DEF Register, TestRun, ReadEnds, WriteReadError, Unregister, CloseCodec, Goto,
                peerVars, jobVars, TypeOK
  <2> QED
    BY <2>1
<1>3. ASSUME NEW c \in Conns, PendWait(c) \/ ExecReturns(c) PROVE PendInv'
  <2>1. /\ UNCHANGED <<run, at, job>>
        /\ \A d \in Conns : d # c => pc'[d] = pc[d]
        /\ pc'[c] = "unreg"
    BY <1>3 DEF PendWait, ExecReturns, Goto, peerVars, jobVars, TypeOK
  <2>2. \A m \in Msgs : at[m] = c => job[m] \notin Busy
    BY <1>3 DEF PendWait, ExecReturns, CurInv, MsgInv
  <2> QED
    BY <2>1, <2>2
<1>4. ASSUME NEW c \in Conns, ReadRequest(c) PROVE PendInv'
  BY <1>4 DEF ReadRequest, Goto, jobVars, TypeOK
<1>5. ASSUME NEW c \in Conns, CheckRun(c) PROVE PendInv'
  <2>1. cur[c] \in Msgs /\ at[cur[c]] = c /\ pc[c] = "check"
    BY <1>5 DEF CheckRun, CurInv, Waiting
  <2>2. /\ UNCHANGED <<run, at>>
        /\ \A d \in Conns : d # c => pc'[d] = pc[d]
        /\ pc'[c] \in {"exec", "loop"} \/ (pc'[c] = "refuse" /\ ~run)
        /\ \A m \in Msgs : m # cur[c] => job'[m] = job[m]
    BY <1>5, <2>1 DEF CheckRun, Goto, peerVars, TypeOK
  <2> QED
    BY <2>1, <2>2
<1>6. ASSUME NEW c \in Conns, Refuse(c) PROVE PendInv'
  BY <1>6 DEF Refuse, Goto, peerVars, TypeOK
<1>7. CASE StopFlag
  BY <1>7 DEF StopFlag
<1>8. ASSUME UNCHANGED <<run, at, pc>>,
             \A m \in Msgs : job'[m] \in Busy => job[m] \in Busy
      PROVE  PendInv'
  BY <1>8
<1>9. ASSUME NEW m \in Msgs, Exec(m) PROVE PendInv'
  <2>1. /\ UNCHANGED <<run, at, pc>> /\ job[m] \in Busy
    BY <1>9 DEF Exec, Handle, HandlePanics, Write, Activate, serveVars, peerVars, Busy
  <2>2. \A n \in Msgs : n # m => job'[n] = job[n]
    BY <1>9 DEF Exec, Handle, HandlePanics, Write, Activate, Step, TypeOK
  <2> QED
    BY <1>8, <2>1, <2>2
<1> QED
  <2>1. CASE \/ UNCHANGED vars \/ Stop
             \/ \E c \in Conns : Hangup(c) \/ Stall(c) \/ ReadAgain(c) \/ BatchCallReturns(c)
             \/ \E s \in Subs : NotifyLock(s) \/ NotifyWrite(s) \/ ServiceEnds(s)
    <3>1. UNCHANGED <<run, at, pc, job>>
      BY <2>1 DEF vars, serveVars, peerVars, jobVars, Stop, StopLock, StopClose,
         StopReturns, Hangup, Stall, ReadAgain, BatchCallReturns, NotifyLock, NotifyWrite,
         ServiceEnds
    <3> QED
      BY <1>8, <3>1
  <2> QED
    BY <1>1, <1>2, <1>3, <1>4, <1>5, <1>6, <1>7, <1>9, <2>1 DEF Next, Peer, Serve, Service

-----------------------------------------------------------------------------
(* The inductive invariant of the server.                                  *)
ServerInv ==
    /\ TypeOK
    /\ WireInv /\ CurInv /\ MsgInv
    /\ FreshInv /\ NotifierSafe /\ SubInv /\ IdBeforeNotification
    /\ AnsweredOrClosed
    /\ StopInv /\ PendInv

LEMMA ServerInit == Init => ServerInv
<1> SUFFICES ASSUME Init PROVE ServerInv
  OBVIOUS
<1>1. TypeOK
  BY DEF Init, TypeOK, ServePcs
<1>2. WireInv /\ CurInv
  BY DEF Init, WireInv, CurInv
<1>3. MsgInv
  BY NoneIsNoConn, ServerAssumption DEF Init, MsgInv, Unanswered, Requests
<1>4. FreshInv
  BY BodyFacts DEF Init, FreshInv, Fresh
<1>5. NotifierSafe /\ IdBeforeNotification
  BY DEF Init, NotifierSafe, IdBeforeNotification, Subs
<1>6. SubInv
  BY NoneIsNoConn, ReqFacts DEF Init, SubInv, ConnOf
<1>7. AnsweredOrClosed
  BY DEF Init, AnsweredOrClosed
<1>8. StopInv /\ PendInv
  BY DEF Init, StopInv, StopLeavesNone, PendInv, PendingFinishFirst
<1> QED
  BY <1>1, <1>2, <1>3, <1>4, <1>5, <1>6, <1>7, <1>8 DEF ServerInv

(* Every reachable state of the server satisfies the invariant.            *)
THEOREM ServerInvCorrect == Spec => []ServerInv
<1>1. ServerInv /\ [Next]_vars => ServerInv'
  BY TypeStep, FlowStep, FreshStep, NotifierStep, AnsweredStep, StopStep, PendStep
     DEF ServerInv
<1> QED
  BY ServerInit, <1>1, PTL DEF Spec

(* The server's state keeps its types, and the loops over the requests of  *)
(* a message stay inside it.                                               *)
THEOREM ServerTypeCorrect == Spec => []TypeOK
<1>1. ServerInv => TypeOK
  BY DEF ServerInv
<1> QED
  BY <1>1, ServerInvCorrect, PTL

(* No err channel of the notifier is closed twice, and what is being       *)
(* notified is active.                                                     *)
THEOREM NotifierCorrect == Spec => []NotifierSafe
<1>1. ServerInv => NotifierSafe
  BY DEF ServerInv
<1> QED
  BY <1>1, ServerInvCorrect, PTL

(* A subscription's id is on the wire before any of its notifications.     *)
THEOREM IdFirstCorrect == Spec => []IdBeforeNotification
<1>1. ServerInv => IdBeforeNotification
  BY DEF ServerInv
<1> QED
  BY <1>1, ServerInvCorrect, PTL

(* Stop leaves no codec open, whatever registers while it runs.            *)
THEOREM StopCorrect == Spec => []StopLeavesNone
<1>1. ServerInv => StopLeavesNone
  BY DEF ServerInv, StopInv
<1> QED
  BY <1>1, ServerInvCorrect, PTL

(* serveRequest of a running server waits for the requests it has started. *)
THEOREM PendingCorrect == Spec => []PendingFinishFirst
<1>1. ServerInv => PendingFinishFirst
  BY DEF ServerInv, PendInv
<1> QED
  BY <1>1, ServerInvCorrect, PTL

(* Every executed request is answered once or its codec is closed.         *)
THEOREM AnsweredCorrect == Spec => []AnsweredOrClosed
<1>1. ServerInv => AnsweredOrClosed
  BY DEF ServerInv
<1> QED
  BY <1>1, ServerInvCorrect, PTL
=============================================================================
