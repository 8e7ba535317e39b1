----------------------------- MODULE RemoteCall -----------------------------
(***************************************************************************)
(* What the client promises its callers (the doc comments of CallContext,  *)
(* BatchCallContext, Subscribe and Close, src/rpc/client.go).  A request   *)
(* is made once; each of its parts is answered at most once and only while *)
(* the client waits for it; the client may give a request up, and then     *)
(* nothing of it is answered any more.  The caller gets one result: a      *)
(* success only when every part was answered, else an error, for which     *)
(* answers that have come may be thrown away.  When the client is over it  *)
(* waits for nothing and makes no request again.                           *)
(***************************************************************************)
CONSTANTS Op, Parts

VARIABLES
    status,    \* of each request: new, open, or the result of its caller
    pending,   \* the parts of each request the client waits for
    answered,  \* the parts that were answered
    over       \* the client has quit

vars == <<status, pending, answered, over>>

Init ==
    /\ status = [o \in Op |-> "new"]
    /\ pending = [o \in Op |-> {}]
    /\ answered = [o \in Op |-> {}]
    /\ over = FALSE

Become(o, s) == status' = [status EXCEPT ![o] = s]

Make(o) ==
    /\ status[o] = "new" /\ ~over
    /\ Become(o, "open")
    /\ pending' = [pending EXCEPT ![o] = Parts[o]]
    /\ UNCHANGED <<answered, over>>

Answer(o, E) ==
    /\ E \subseteq pending[o] /\ E \cap answered[o] = {}
    /\ pending' = [pending EXCEPT ![o] = @ \ E]
    /\ answered' = [answered EXCEPT ![o] = @ \cup E]
    /\ UNCHANGED <<status, over>>

(* One read error, or Close, gives up every request at once.               *)
GiveUp(S) ==
    /\ pending' = [o \in Op |-> IF o \in S THEN {} ELSE pending[o]]
    /\ UNCHANGED <<status, answered, over>>

Succeed(o) ==
    /\ status[o] = "open" /\ answered[o] = Parts[o]
    /\ Become(o, "ok")
    /\ UNCHANGED <<pending, answered, over>>

(* A request that was never made fails by its context or after the end.    *)
Fail(o, err) ==
    /\ status[o] = "open" \/ (status[o] = "new" /\ (err = "quit" => over))
    /\ Become(o, err)
    /\ \E E \in SUBSET answered[o] : answered' = [answered EXCEPT ![o] = E]
    /\ UNCHANGED <<pending, over>>

Quit ==
    /\ \A o \in Op : pending[o] = {}
    /\ over' = TRUE
    /\ UNCHANGED <<status, pending, answered>>

Next ==
    \/ \E o \in Op : Make(o) \/ Succeed(o)
    \/ \E o \in Op : \E E \in SUBSET Parts[o] : Answer(o, E)
    \/ \E o \in Op, err \in {"ctx", "quit", "write", "io", "srv"} : Fail(o, err)
    \/ \E S \in SUBSET Op : GiveUp(S)
    \/ Quit

Spec == Init /\ [][Next]_vars
=============================================================================
