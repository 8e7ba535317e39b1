---------------------------- MODULE MCRPCServer ----------------------------
(* Instances of RPCServer for TLC.                                          *)
EXTENDS RPCServer, TLC

CONSTANTS m1, m2, m3, s1, u1, u2, k1, c1, h1

(* m1 subscribes, m2 is a batch that unsubscribes it twice and makes a      *)
(* call, m3 does not parse.                                                 *)
MCBody == [m \in Msgs |-> CASE m = m1 -> <<s1>> [] m = m2 -> <<u1, u2, k1>>
                             [] OTHER -> <<>>]
MCMsgOf == [r \in Reqs |-> IF r = s1 THEN m1 ELSE m2]
MCKind == [r \in Reqs |-> CASE r = s1 -> "subscribe" [] r \in {u1, u2} -> "unsubscribe"
                             [] OTHER -> "call"]
MCTarget == [r \in Reqs |-> s1]
=============================================================================
