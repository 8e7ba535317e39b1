-------------------------- MODULE SubscriptionLife --------------------------
(***************************************************************************)
(* What the server promises of its subscriptions (the doc comments of      *)
(* Notifier and Subscription, src/rpc/subscription.go).  A subscription is *)
(* made inactive, becomes active, may then be notified, and is cancelled   *)
(* at most once, while no notification of it is being sent.  Its id is     *)
(* sent at most once, and before it becomes active; only when the id could *)
(* not be sent may it become active without, and then its connection is    *)
(* cut.  A notification arrives only after the id and never over a         *)
(* connection that is cut.                                                 *)
(***************************************************************************)
CONSTANT Subs

VARIABLES
    life,     \* of each subscription: unknown, inactive, active, cancelled
    told,     \* the request for it has been answered
    sending,  \* a notification of it is being sent
    noted,    \* a notification of it has reached the client
    cut       \* the server has closed its connection

vars == <<life, told, sending, noted, cut>>

Init ==
    /\ life = [s \in Subs |-> "unknown"]
    /\ told = {}
    /\ sending = {}
    /\ noted = {}
    /\ cut = {}

Become(s, from, to) == life[s] = from /\ life' = [life EXCEPT ![s] = to]

Make(s) ==
    /\ s \notin told
    /\ Become(s, "unknown", "inactive")
    /\ UNCHANGED <<told, sending, noted, cut>>

(* One write answers all the requests of a message.                        *)
Tell(S) ==
    /\ \A s \in S : s \notin told /\ life[s] \in {"unknown", "inactive"}
    /\ told' = told \cup S
    /\ UNCHANGED <<life, sending, noted, cut>>

Activate(s) ==
    /\ s \in told \cup cut
    /\ Become(s, "inactive", "active")
    /\ UNCHANGED <<told, sending, noted, cut>>

Begin(s) ==
    /\ life[s] = "active"
    /\ s \notin sending
    /\ sending' = sending \cup {s}
    /\ UNCHANGED <<life, told, noted, cut>>

(* The notification arrives, or the connection is cut.                     *)
Finish(s) ==
    /\ s \in sending
    /\ sending' = sending \ {s}
    /\ \/ s \in told \ cut /\ noted' = noted \cup {s} /\ cut' = cut
       \/ noted' = noted /\ cut \cup {s} \subseteq cut'
    /\ UNCHANGED <<life, told>>

(* A connection is closed with all the subscriptions made over it.         *)
Cut ==
    /\ cut \subseteq cut'
    /\ UNCHANGED <<life, told, sending, noted>>

Cancel(s) ==
    /\ s \notin sending
    /\ Become(s, "active", "cancelled")
    /\ UNCHANGED <<told, sending, noted, cut>>

Next ==
    \/ \E s \in Subs : Make(s) \/ Activate(s) \/ Begin(s) \/ Finish(s) \/ Cancel(s)
    \/ \E S \in SUBSET Subs : Tell(S)
    \/ Cut

Spec == Init /\ [][Next]_vars
=============================================================================
