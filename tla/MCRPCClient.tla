---------------------------- MODULE MCRPCClient ----------------------------
(* Instances of RPCClient for TLC.                                          *)
EXTENDS RPCClient, TLC

CONSTANTS x, y, z, s1, k1, k2

(* x is a CallContext, y a batch of two, z an empty batch.                  *)
MCWidth == [a \in Calls |-> CASE a = x -> 1 [] a = y -> 2 [] OTHER -> 0]

(* Calls are made with a context; so is Subscribe.                          *)
MCCancellable == ({"call"} \X (Calls \cap {x})) \cup ({"sub"} \X Subs)
MCNoCancel    == {}
=============================================================================
