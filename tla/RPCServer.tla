----------------------------- MODULE RPCServer -----------------------------
(***************************************************************************)
(* The RPC server of src/rpc/server.go with the Notifier of                *)
(* src/rpc/subscription.go and the locks and Close of the codec of         *)
(* src/rpc/json.go: one serveRequest per connection, one goroutine per     *)
(* message read from a stream, one service goroutine per subscription,     *)
(* Stop, and peers that stop reading or hang up.                           *)
(***************************************************************************)
EXTENDS Naturals, Sequences

CONSTANTS
    Conns,     \* connections, each with its codec
    Single,    \* those served by ServeHTTP: one request, no notifier
    Msgs,      \* messages a peer may send, each at most once
    Reqs,      \* the requests they hold
    Body,      \* [Msgs -> Seq(Reqs)]; <<>> is a message that does not parse
    MsgOf,     \* [Reqs -> Msgs]
    Kind,      \* [Reqs -> Kinds]
    Target,    \* [Reqs -> Reqs]: the subscription an unsubscribe is about
    None

Kinds == {"call", "subscribe", "unsubscribe", "invalid"}

ASSUME ServerAssumption ==
    /\ Single \subseteq Conns
    /\ None \notin Conns
    /\ Body \in [Msgs -> Seq(Reqs)]
    /\ MsgOf \in [Reqs -> Msgs]
    /\ Kind \in [Reqs -> Kinds]
    /\ Target \in [Reqs -> Reqs]
    /\ \A r \in Reqs : Kind[r] = "unsubscribe" => Kind[Target[r]] = "subscribe"
    /\ \A m \in Msgs : \A i, j \in DOMAIN Body[m] :
          MsgOf[Body[m][i]] = m /\ (Body[m][i] = Body[m][j] => i = j)
    /\ \A r \in Reqs : \E i \in DOMAIN Body[MsgOf[r]] : Body[MsgOf[r]][i] = r

Subs == {r \in Reqs : Kind[r] = "subscribe"}

VARIABLES
    run, stopPc, codecs,       \* Server: run, the progress of Stop, codecs
    pc, cur,                   \* per connection: serveRequest and its request
    closed, gone, stalled,     \* codecs closed; peers hung up; peers not reading
    wire,                      \* per connection: sent and not read yet
    at, job, pos,              \* per message: connection, goroutine, loop index
    res, replies,              \* per request: outcome, responses on the wire
    inactive, active,          \* Notifier: the two maps, of all connections
    errCloses, svc, noted,     \* per subscription: close(err), service, notified
    returned                   \* HTTP connections whose client call returned

serveVars == <<run, stopPc, codecs, pc, cur>>
peerVars  == <<gone, stalled, wire, at>>
jobVars   == <<job, pos, res, replies>>
notifVars == <<inactive, active, errCloses, svc, noted>>
vars == <<serveVars, closed, peerVars, jobVars, notifVars, returned>>

Requests(m) == {r \in Reqs : MsgOf[r] = m}
ConnOf(r) == at[MsgOf[r]]
MsgsAt(c) == {m \in Msgs : at[m] = c}

ServePcs == {"new", "loop", "read", "badread", "check", "refuse", "exec",
             "wait", "unreg", "close", "done"}
Busy == {"handle", "write", "activate"}

TypeOK ==
    /\ run \in BOOLEAN
    /\ stopPc \in {"idle", "lock", "closing", "done"}
    /\ codecs \subseteq Conns
    /\ pc \in [Conns -> ServePcs]
    /\ cur \in [Conns -> Msgs \cup {None}]
    /\ closed \subseteq Conns
    /\ gone \subseteq Conns
    /\ stalled \subseteq Conns \ Single
    /\ wire \in [Conns -> Seq(Msgs)]
    /\ at \in [Msgs -> Conns \cup {None}]
    /\ job \in [Msgs -> Busy \cup {"none", "done", "panicked"}]
    /\ pos \in [Msgs -> Nat]
    /\ \A m \in Msgs : job[m] \in {"handle", "activate"} => pos[m] \in DOMAIN Body[m]
    /\ res \in [Reqs -> {"none", "ok", "err"}]
    /\ replies \in [Reqs -> Nat]
    /\ inactive \subseteq Subs
    /\ active \subseteq Subs
    /\ errCloses \in [Reqs -> Nat]
    /\ svc \in [Reqs -> {"none", "idle", "notify", "ended"}]
    /\ noted \subseteq Subs
    /\ returned \subseteq Single

Init ==
    /\ run = TRUE
    /\ stopPc = "idle"
    /\ codecs = {}
    /\ pc = [c \in Conns |-> "new"]
    /\ cur = [c \in Conns |-> None]
    /\ closed = {}
    /\ gone = {}
    /\ stalled = {}
    /\ wire = [c \in Conns |-> <<>>]
    /\ at = [m \in Msgs |-> None]
    /\ job = [m \in Msgs |-> "none"]
    /\ pos = [m \in Msgs |-> 1]
    /\ res = [r \in Reqs |-> "none"]
    /\ replies = [r \in Reqs |-> 0]
    /\ inactive = {}
    /\ active = {}
    /\ errCloses = [r \in Reqs |-> 0]
    /\ svc = [r \in Reqs |-> "none"]
    /\ noted = {}
    /\ returned = {}

-----------------------------------------------------------------------------
(* The codec.  Close of a stream ends its reads and writes; the Close of   *)
(* the codec ServeHTTP makes only closes its channel.  A write waits for a *)
(* peer that does not read, and may fail on a healthy connection too: the  *)
(* network fails under it, or encode refuses the value.                    *)

Broken(c)    == c \in closed \ Single
CanWrite(c)  == c \notin stalled \/ Broken(c)
WriteOK(c)   == CanWrite(c) /\ ~Broken(c)
WriteFail(c) == CanWrite(c)

(* Notify holds subMu for reading while it writes.                         *)
SubMuFree(c) == \A s \in Subs : svc[s] = "notify" => ConnOf(s) # c

(* Mutant: a batch leaves out the requests that failed.                    *)
Answered_NoErrors(m) ==
    [r \in Reqs |-> IF r \in Requests(m) /\ res[r] # "err" THEN replies[r] + 1
                                                           ELSE replies[r]]

Answered(m) ==
    [r \in Reqs |-> IF r \in Requests(m) THEN replies[r] + 1 ELSE replies[r]]

-----------------------------------------------------------------------------
(* The peers, until their connection is closed.  An unsubscribe names an   *)
(* id its client has received; one that hangs up lets waiting writes go.   *)
(* Nothing is read after a message that does not parse, so none is sent.   *)

Send(c, m) ==
    /\ at[m] = None
    /\ c \notin gone \cup closed
    /\ \A n \in MsgsAt(c) : Body[n] # <<>>
    /\ c \in Single => MsgsAt(c) = {} /\ Body[m] # <<>>
    /\ \A r \in Requests(m) : Kind[r] = "unsubscribe" /\ c \notin Single =>
          LET s == Target[r] IN ConnOf(s) = c /\ res[s] = "ok" /\ replies[s] > 0
    /\ wire' = [wire EXCEPT ![c] = Append(@, m)]
    /\ at' = [at EXCEPT ![m] = c]
    /\ UNCHANGED <<serveVars, closed, gone, stalled, jobVars, notifVars, returned>>

Hangup(c) ==
    /\ c \notin gone \cup closed \cup Single
    /\ gone' = gone \cup {c}
    /\ stalled' = stalled \ {c}
    /\ UNCHANGED <<serveVars, closed, wire, at, jobVars, notifVars, returned>>

Stall(c) ==
    /\ c \notin stalled \cup gone \cup closed \cup Single
    /\ stalled' = stalled \cup {c}
    /\ UNCHANGED <<serveVars, closed, gone, wire, at, jobVars, notifVars, returned>>

ReadAgain(c) ==
    /\ c \in stalled \ closed
    /\ stalled' = stalled \ {c}
    /\ UNCHANGED <<serveVars, closed, gone, wire, at, jobVars, notifVars, returned>>

(* BatchCall over HTTP: sendBatchHTTP decodes what the handler wrote and   *)
(* the call returns when the body is no batch of responses, or when there  *)
(* is one response for each of its requests.                               *)
BatchCallReturns(c) ==
    /\ c \in Single \ returned
    /\ pc[c] = "done"
    /\ \E m \in MsgsAt(c) :
          LET got == {r \in Requests(m) : replies[r] > 0}
          IN  got = {} \/ got = Requests(m)
    /\ returned' = returned \cup {c}
    /\ UNCHANGED <<serveVars, closed, peerVars, jobVars, notifVars>>

-----------------------------------------------------------------------------
(* serveRequest, called by ServeCodec or by ServeHTTP.                     *)

Goto(c, l) == pc' = [pc EXCEPT ![c] = l]

(* Mutant: run is not looked at again under codecsMu.                      *)
Register_Unchecked(c) ==
    /\ pc[c] = "new"
    /\ c \in Single => wire[c] # <<>>
    /\ stopPc # "closing"
    /\ codecs' = codecs \cup {c} /\ Goto(c, "loop")
    /\ UNCHANGED <<run, stopPc, cur, closed, peerVars, jobVars, notifVars, returned>>

Register(c) ==
    /\ pc[c] = "new"
    /\ c \in Single => wire[c] # <<>>
    /\ stopPc # "closing"
    /\ IF run THEN codecs' = codecs \cup {c} /\ Goto(c, "loop")
              ELSE codecs' = codecs /\ Goto(c, "unreg")
    /\ UNCHANGED <<run, stopPc, cur, closed, peerVars, jobVars, notifVars, returned>>

TestRun(c) ==
    /\ pc[c] = "loop"
    /\ Goto(c, IF run THEN "read" ELSE "unreg")
    /\ UNCHANGED <<run, stopPc, codecs, cur, closed, peerVars, jobVars, notifVars, returned>>

(* What the decoder has buffered is still read after Close.                *)
ReadRequest(c) ==
    /\ pc[c] = "read"
    /\ wire[c] # <<>>
    /\ wire' = [wire EXCEPT ![c] = Tail(@)]
    /\ IF Body[Head(wire[c])] = <<>>
       THEN Goto(c, "badread") /\ cur' = cur
       ELSE Goto(c, "check") /\ cur' = [cur EXCEPT ![c] = Head(wire[c])]
    /\ UNCHANGED <<run, stopPc, codecs, closed, gone, stalled, at, jobVars, notifVars, returned>>

ReadEnds(c) ==
    /\ pc[c] = "read"
    /\ \/ wire[c] = <<>> /\ c \in gone /\ Goto(c, "wait")
       \/ (Broken(c) \/ c \in gone) /\ Goto(c, "badread")
    /\ UNCHANGED <<run, stopPc, codecs, cur, closed, peerVars, jobVars, notifVars, returned>>

WriteReadError(c) ==
    /\ pc[c] = "badread"
    /\ CanWrite(c)
    /\ Goto(c, "wait")
    /\ UNCHANGED <<run, stopPc, codecs, cur, closed, peerVars, jobVars, notifVars, returned>>

CheckRun(c) ==
    /\ pc[c] = "check"
    /\ IF run
       THEN /\ job' = [job EXCEPT ![cur[c]] = "handle"]
            /\ Goto(c, IF c \in Single THEN "exec" ELSE "loop")
       ELSE job' = job /\ Goto(c, "refuse")
    /\ UNCHANGED <<run, stopPc, codecs, cur, closed, peerVars, pos, res, replies, notifVars, returned>>

Refuse(c) ==
    /\ pc[c] = "refuse"
    /\ \/ WriteOK(c) /\ replies' = Answered(cur[c])
       \/ WriteFail(c) /\ replies' = replies
    /\ Goto(c, "unreg")
    /\ UNCHANGED <<run, stopPc, codecs, cur, closed, peerVars, job, pos, res, notifVars, returned>>

(* Mutant: no pend.Wait.                                                   *)
PendWait_Skip(c) ==
    /\ pc[c] = "wait"
    /\ Goto(c, "unreg")
    /\ UNCHANGED <<run, stopPc, codecs, cur, closed, peerVars, jobVars, notifVars, returned>>

(* pend.Wait                                                               *)
PendWait(c) ==
    /\ pc[c] = "wait"
    /\ \A m \in MsgsAt(c) : job[m] \notin Busy
    /\ Goto(c, "unreg")
    /\ UNCHANGED <<run, stopPc, codecs, cur, closed, peerVars, jobVars, notifVars, returned>>

(* A single request is executed by serveRequest itself; its panic is       *)
(* recovered there.                                                        *)
ExecReturns(c) ==
    /\ pc[c] = "exec"
    /\ job[cur[c]] \notin Busy
    /\ Goto(c, "unreg")
    /\ UNCHANGED <<run, stopPc, codecs, cur, closed, peerVars, jobVars, notifVars, returned>>

Unregister(c) ==
    /\ pc[c] = "unreg"
    /\ stopPc # "closing"
    /\ codecs' = codecs \ {c}
    /\ Goto(c, "close")
    /\ UNCHANGED <<run, stopPc, cur, closed, peerVars, jobVars, notifVars, returned>>

CloseCodec(c) ==
    /\ pc[c] = "close"
    /\ closed' = closed \cup {c}
    /\ Goto(c, "done")
    /\ UNCHANGED <<run, stopPc, codecs, cur, peerVars, jobVars, notifVars, returned>>

-----------------------------------------------------------------------------
(* Stop: the flag, then codecsMu, then Close of each codec.                *)

StopFlag ==
    /\ run
    /\ run' = FALSE
    /\ stopPc' = "lock"
    /\ UNCHANGED <<codecs, pc, cur, closed, peerVars, jobVars, notifVars, returned>>

StopLock ==
    /\ stopPc = "lock"
    /\ stopPc' = "closing"
    /\ UNCHANGED <<run, codecs, pc, cur, closed, peerVars, jobVars, notifVars, returned>>

StopClose(c) ==
    /\ stopPc = "closing"
    /\ c \in codecs \ closed
    /\ closed' = closed \cup {c}
    /\ UNCHANGED <<serveVars, peerVars, jobVars, notifVars, returned>>

(* Mutant: Stop gives up before it has closed every codec.                 *)
StopReturns_Early ==
    /\ stopPc = "closing"
    /\ stopPc' = "done"
    /\ UNCHANGED <<run, codecs, pc, cur, closed, peerVars, jobVars, notifVars, returned>>

StopReturns ==
    /\ stopPc = "closing"
    /\ codecs \subseteq closed
    /\ stopPc' = "done"
    /\ UNCHANGED <<run, codecs, pc, cur, closed, peerVars, jobVars, notifVars, returned>>

-----------------------------------------------------------------------------
(* exec and execBatch of message m: handle each request, write all         *)
(* responses at once, then run the callbacks that activate subscriptions.  *)

(* Mutant: the loop over the requests runs one too far.                    *)
Step_OneMore(m, next) ==
    IF pos[m] > Len(Body[m])
    THEN job' = [job EXCEPT ![m] = next] /\ pos' = [pos EXCEPT ![m] = 1]
    ELSE job' = job /\ pos' = [pos EXCEPT ![m] = @ + 1]

Step(m, next) ==
    IF pos[m] = Len(Body[m])
    THEN job' = [job EXCEPT ![m] = next] /\ pos' = [pos EXCEPT ![m] = 1]
    ELSE job' = job /\ pos' = [pos EXCEPT ![m] = @ + 1]

(* The request fails before or in its callback, or is a call that returns. *)
HandleCall(r) ==
    /\ \/ Kind[r] = "call" /\ res' = [res EXCEPT ![r] = "ok"]
       \/ Kind[r] # "unsubscribe" /\ res' = [res EXCEPT ![r] = "err"]
    /\ UNCHANGED notifVars

(* Without a notifier in the context there are no subscriptions.           *)
HandleUnsupported(r) ==
    /\ ConnOf(r) \in Single
    /\ Kind[r] = "unsubscribe"
    /\ res' = [res EXCEPT ![r] = "err"]
    /\ UNCHANGED notifVars

(* Mutant: a subscription is active from the start.                        *)
CreateSubscription_Active(r) ==
    /\ Kind[r] = "subscribe"
    /\ ConnOf(r) \notin Single
    /\ SubMuFree(ConnOf(r))
    /\ active' = active \cup {r}
    /\ svc' = [svc EXCEPT ![r] = "idle"]
    /\ res' = [res EXCEPT ![r] = "ok"]
    /\ UNCHANGED <<inactive, errCloses, noted>>

CreateSubscription(r) ==
    /\ Kind[r] = "subscribe"
    /\ ConnOf(r) \notin Single
    /\ SubMuFree(ConnOf(r))
    /\ inactive' = inactive \cup {r}
    /\ svc' = [svc EXCEPT ![r] = "idle"]
    /\ res' = [res EXCEPT ![r] = "ok"]
    /\ UNCHANGED <<active, errCloses, noted>>

(* Mutant: unsubscribe does not wait for a Notify under way.               *)
Unsubscribe_Unlocked(r) ==
    /\ Kind[r] = "unsubscribe"
    /\ ConnOf(r) \notin Single
    /\ Target[r] \in active
    /\ errCloses' = [errCloses EXCEPT ![Target[r]] = @ + 1]
    /\ active' = active \ {Target[r]}
    /\ res' = [res EXCEPT ![r] = "ok"]
    /\ UNCHANGED <<inactive, svc, noted>>

Unsubscribe(r) ==
    /\ Kind[r] = "unsubscribe"
    /\ ConnOf(r) \notin Single
    /\ SubMuFree(ConnOf(r))
    /\ IF Target[r] \in active
       THEN /\ errCloses' = [errCloses EXCEPT ![Target[r]] = @ + 1]
            /\ active' = active \ {Target[r]}
            /\ res' = [res EXCEPT ![r] = "ok"]
       ELSE /\ res' = [res EXCEPT ![r] = "err"]
            /\ UNCHANGED <<errCloses, active>>
    /\ UNCHANGED <<inactive, svc, noted>>

Handle(m) ==
    /\ job[m] = "handle"
    /\ LET r == Body[m][pos[m]] IN
          HandleCall(r) \/ HandleUnsupported(r) \/ CreateSubscription(r) \/ Unsubscribe(r)
    /\ Step(m, "write")
    /\ UNCHANGED <<serveVars, closed, peerVars, replies, returned>>

(* A panicking callback of a single request; elsewhere it ends the program. *)
HandlePanics(m) ==
    /\ job[m] = "handle"
    /\ Kind[Body[m][pos[m]]] \in {"call", "subscribe"}
    /\ at[m] \in Single
    /\ job' = [job EXCEPT ![m] = "panicked"]
    /\ UNCHANGED <<serveVars, closed, peerVars, pos, res, replies, notifVars, returned>>

(* Mutant: a failed write does not close the codec.                        *)
Write_KeepOpen(m) ==
    /\ job[m] = "write"
    /\ \/ WriteOK(at[m]) /\ replies' = Answered(m)
       \/ WriteFail(at[m]) /\ replies' = replies
    /\ job' = [job EXCEPT ![m] = "activate"]
    /\ UNCHANGED <<serveVars, closed, peerVars, pos, res, notifVars, returned>>

(* Mutant: the callbacks are not run after the write.                      *)
Write_NoCallback(m) ==
    /\ job[m] = "write"
    /\ \/ WriteOK(at[m]) /\ replies' = Answered(m) /\ closed' = closed
       \/ WriteFail(at[m]) /\ replies' = replies /\ closed' = closed \cup {at[m]}
    /\ job' = [job EXCEPT ![m] = "done"]
    /\ UNCHANGED <<serveVars, peerVars, pos, res, notifVars, returned>>

Write(m) ==
    /\ job[m] = "write"
    /\ \/ WriteOK(at[m]) /\ replies' = Answered(m) /\ closed' = closed
       \/ WriteFail(at[m]) /\ replies' = replies /\ closed' = closed \cup {at[m]}
    /\ job' = [job EXCEPT ![m] = "activate"]
    /\ UNCHANGED <<serveVars, peerVars, pos, res, notifVars, returned>>

(* callback: the next request's subscription, if it made one.              *)
Activate(m) ==
    /\ job[m] = "activate"
    /\ LET r == Body[m][pos[m]] IN
          IF Kind[r] = "subscribe" /\ res[r] = "ok"
          THEN /\ SubMuFree(at[m])
               /\ active' = active \cup ({r} \cap inactive)
               /\ inactive' = inactive \ {r}
          ELSE UNCHANGED <<active, inactive>>
    /\ Step(m, "done")
    /\ UNCHANGED <<serveVars, closed, peerVars, res, replies, errCloses, svc, noted, returned>>

-----------------------------------------------------------------------------
(* The service goroutine of subscription s, as the services of the tests   *)
(* are written: it notifies until Notify fails, and ends when Err or       *)
(* Closed is closed.  Notify of a subscription that is not active does     *)
(* nothing.                                                                *)

NotifyLock(s) ==
    /\ svc[s] = "idle"
    /\ s \in active
    /\ svc' = [svc EXCEPT ![s] = "notify"]
    /\ UNCHANGED <<serveVars, closed, peerVars, jobVars, inactive, active, errCloses, noted, returned>>

NotifyWrite(s) ==
    /\ svc[s] = "notify"
    /\ \/ /\ WriteOK(ConnOf(s))
          /\ noted' = noted \cup {s}
          /\ svc' = [svc EXCEPT ![s] = "idle"]
          /\ closed' = closed
       \/ /\ WriteFail(ConnOf(s))
          /\ noted' = noted
          /\ svc' = [svc EXCEPT ![s] = "ended"]
          /\ closed' = closed \cup {ConnOf(s)}
    /\ UNCHANGED <<serveVars, peerVars, jobVars, inactive, active, errCloses, returned>>

ServiceEnds(s) ==
    /\ svc[s] = "idle"
    /\ errCloses[s] > 0 \/ ConnOf(s) \in closed
    /\ svc' = [svc EXCEPT ![s] = "ended"]
    /\ UNCHANGED <<serveVars, closed, peerVars, jobVars, inactive, active, errCloses, noted, returned>>

-----------------------------------------------------------------------------
Peer(c) == \/ \E m \in Msgs : Send(c, m)
           \/ Hangup(c) \/ Stall(c) \/ ReadAgain(c)

Serve(c) == \/ Register(c) \/ TestRun(c) \/ ReadRequest(c) \/ ReadEnds(c)
            \/ WriteReadError(c) \/ CheckRun(c) \/ Refuse(c) \/ PendWait(c)
            \/ ExecReturns(c) \/ Unregister(c) \/ CloseCodec(c)

Stop == StopLock \/ (\E c \in Conns : StopClose(c)) \/ StopReturns

Exec(m) == Handle(m) \/ HandlePanics(m) \/ Write(m) \/ Activate(m)

Service(s) == NotifyWrite(s) \/ ServiceEnds(s)

Next ==
    \/ \E c \in Conns : Peer(c) \/ Serve(c) \/ BatchCallReturns(c)
    \/ StopFlag \/ Stop
    \/ \E m \in Msgs : Exec(m)
    \/ \E s \in Subs : NotifyLock(s) \/ Service(s)

(* Every goroutine runs and every callback returns; subMu serves its       *)
(* writers although readers come and go, hence SF.  Nothing is assumed of  *)
(* the peers, of when a service notifies, or of Stop being called.         *)
Spec ==
    /\ Init /\ [][Next]_vars
    /\ \A c \in Conns : WF_vars(Serve(c)) /\ WF_vars(BatchCallReturns(c))
    /\ WF_vars(Stop)
    /\ \A m \in Msgs : SF_vars(Exec(m))
    /\ \A s \in Subs : WF_vars(Service(s))

-----------------------------------------------------------------------------
(* Notifier: the err channel of a subscription is closed at most once (a     *)
(* second close panics), a subscription is in one of the two maps at most    *)
(* and in none once its err is closed, and the one whose notification is     *)
(* about to be written is still active (subscription.go: subMu).             *)
NotifierSafe ==
    /\ active \cap inactive = {}
    /\ \A s \in Subs :
          /\ errCloses[s] <= 1
          /\ errCloses[s] > 0 => s \notin active \cup inactive
          /\ svc[s] = "notify" => s \in active

(* A client sees the id of a subscription before its first notification      *)
(* (activate's comment; exec runs the callback after codec.Write).           *)
IdBeforeNotification == \A s \in noted : replies[s] > 0

(* Every subscription lives as SubscriptionLife says: made inactive, active  *)
(* only when its id is on the wire or the failed write of the id has closed  *)
(* the codec (exec runs the callback in both cases, although server.go:284   *)
(* says "after the sub id was successfully sent"), notified only while       *)
(* active and heard of only after its id, and its err closed once and never  *)
(* while a notification of it is being written.                              *)
LifeOf == [s \in Subs |-> IF errCloses[s] > 0    THEN "cancelled"
                          ELSE IF s \in active   THEN "active"
                          ELSE IF s \in inactive THEN "inactive"
                          ELSE "unknown"]
Life == INSTANCE SubscriptionLife
           WITH life <- LifeOf, told <- {s \in Subs : replies[s] > 0},
                sending <- {s \in Subs : svc[s] = "notify"},
                cut <- {s \in Subs : ConnOf(s) \in closed}
LifeSpec == Life!Spec

(* When Stop has returned no codec is left in service unclosed: one that     *)
(* was about to register finds the flag down under codecsMu.                 *)
StopLeavesNone == stopPc = "done" => codecs \subseteq closed

(* As long as the server runs, serveRequest gives its connection up only     *)
(* when no request read from it is still being executed (pend.Wait).         *)
PendingFinishFirst ==
    run => \A c \in Conns : pc[c] \in {"unreg", "close", "done"} =>
              \A m \in MsgsAt(c) : job[m] \notin Busy

(* exec and execBatch answer each of their requests exactly once or leave    *)
(* the codec closed, and nothing is ever answered twice.                     *)
AnsweredOrClosed ==
    /\ \A r \in Reqs : replies[r] <= 1
    /\ \A m \in Msgs : job[m] \in {"activate", "done"} =>
          at[m] \in closed \/ \A r \in Requests(m) : replies[r] = 1

(* After Stop every serveRequest under way returns with its codec closed,    *)
(* and every service goroutine ends (Closed of subscription.go), also when a *)
(* write waits for a peer that has stopped reading.                          *)
StopDrains ==
    ~run ~> /\ \A c \in Conns : pc[c] = "done" \/ (c \in Single /\ pc[c] = "new")
            /\ \A s \in Subs : svc[s] \in {"none", "ended"}

(* A call or batch over HTTP returns to its caller without a deadline, also  *)
(* when the server stops or a callback panics (sendBatchHTTP, BatchCall).    *)
HTTPReturns ==
    \A c \in Single : MsgsAt(c) # {} ~> c \in returned

(* An unsubscribe that is handled after the callbacks of its subscription's  *)
(* message have run closes err: the client may only be too early, between    *)
(* the write of the id and activate.                                         *)
LateUnsubscribeCancels ==
    [][\A r \in Reqs :
          /\ Kind[r] = "unsubscribe" /\ ConnOf(r) \notin Single
          /\ res[r] = "none" /\ res'[r] # "none"
          /\ job[MsgOf[Target[r]]] = "done"
          => errCloses'[Target[r]] > 0]_vars

(* "Err returns a channel that is closed when the client send an             *)
(* unsubscribe request" (subscription.go:43): once an unsubscribe with an id *)
(* the client received has been handled, err is closed.                      *)
UnsubscribeCancels ==
    \A r \in Reqs : Kind[r] = "unsubscribe" /\ ConnOf(r) \notin Single /\ res[r] # "none"
                       => errCloses[Target[r]] > 0
=============================================================================
