----------------------------- MODULE TxScripts -----------------------------
(***************************************************************************)
(* How the sending programs choose nonces: txsend and checkNonce of        *)
(* src/tool/main.go, and the sendTestTx loops of src/transfer,             *)
(* src/callsol and src/transferadder.  One program sends from one account  *)
(* to a node; the node, with its chain and pool, is external.              *)
(***************************************************************************)
EXTENDS Integers

CONSTANTS
    Scripts,    \* the programs checked, a subset of AllScripts
    MaxNonce,   \* bound: nonces up to MaxNonce
    StopCap,    \* capacity of the channel stop; 10 in the code
    TxNum,      \* transactions after which sendTestTx returns
    Adds        \* len(add), the recipients of transferadder

AllScripts == {"tool", "transfer", "callsol", "adder"}

ASSUME ScriptsAssumption ==
    /\ Scripts \subseteq AllScripts
    /\ MaxNonce \in Nat /\ StopCap \in Nat \ {0}
    /\ TxNum \in Nat /\ Adds \in Nat

None == -2                          \* no transaction; the stop branch not yet taken
Old  == -1                          \* a transaction from before the program
Nonces   == 0..MaxNonce
Contents == Nat \cup {Old}

VARIABLES
    script,            \* the program that runs
    confirmed,         \* node: NonceAt, the transactions in the chain
    book,              \* node: the transaction of each nonce, chain then pool
    pc, nonce,         \* txsend or sendTestTx, its nonce
    stop,              \* txsend: how many signals are in the channel
    gap,               \* txsend: last nonce its stop branch was told, or None
    check, pre,        \* checkNonce: about to signal; its last nonce
    i, j               \* sendTestTx: transactions sent; recipient

vars == <<script, confirmed, book, pc, nonce, stop, gap, check, pre, i, j>>
node == <<confirmed, book>>

(* PendingNonceAt: the first nonce without a transaction.                  *)
IsPending(n) ==
    /\ n >= confirmed /\ book[n] = None
    /\ \A k \in Nonces : confirmed <= k /\ k < n => book[k] # None

TypeOK ==
    /\ script \in AllScripts
    /\ confirmed \in 0..(MaxNonce + 1)
    /\ book \in [Nonces -> Contents \cup {None}]
    /\ pc \in {"select", "query", "test", "drain", "signal", "ended"}
    /\ nonce \in Nat
    /\ stop \in 0..StopCap
    /\ gap \in Nonces \cup {None}
    /\ check \in {"sleep", "push"}
    /\ pre \in Nat
    /\ i \in Nat /\ j \in Nat

Init ==
    /\ script \in Scripts
    /\ confirmed \in {0, 1}
    /\ \E inPool \in {0, 1} :
          /\ book = [n \in Nonces |-> IF n < confirmed + inPool THEN Old ELSE None]
          /\ nonce = IF script = "tool" THEN confirmed + inPool ELSE confirmed
    /\ pc = "select"
    /\ stop = 0 /\ gap = None
    /\ check = "sleep" /\ pre = 0
    /\ i = 0 /\ j = 0

-----------------------------------------------------------------------------
(* The node.  SendRawTransaction of content x with nonce n: accepted, also *)
(* when the answer is lost; "known transaction"; or rejected, for a nonce  *)
(* too low, a price that does not replace, a full pool or no connection.   *)
(* A program offers one price, so the pool replaces nothing of its own;    *)
(* that it replaces an older, cheaper transaction, or evicts one, is left  *)
(* out.                                                                    *)

Accepts(n, x) ==
    /\ n >= confirmed /\ book[n] = None
    /\ book' = [book EXCEPT ![n] = x]
    /\ confirmed' = confirmed

SendOK(n, x) == Accepts(n, x)
SendKnown(n, x) == n >= confirmed /\ book[n] = x /\ UNCHANGED node
SendErr(n, x) == UNCHANGED node \/ Accepts(n, x)

Mine ==
    /\ confirmed \in Nonces /\ book[confirmed] # None
    /\ confirmed' = confirmed + 1
    /\ UNCHANGED <<script, book, pc, nonce, stop, gap, check, pre, i, j>>

-----------------------------------------------------------------------------
(* txsend.  default: all that is sent for one nonce is the content 0.  The *)
(* contract calls of model 1 draw their input at random, so that a second  *)
(* attempt may be another transaction: the node then refuses it, which     *)
(* SendErr covers, or knows it.                                            *)

TxSend ==
    /\ script = "tool" /\ pc = "select" /\ stop = 0
    /\ nonce \in Nonces
    /\ \/ /\ SendOK(nonce, 0) \/ SendKnown(nonce, 0)
          /\ nonce' = nonce + 1 /\ pc' = "select"
       \/ /\ SendErr(nonce, 0)
          /\ nonce' = nonce /\ pc' = "signal"
    /\ UNCHANGED <<script, stop, gap, check, pre, i, j>>

Signal ==
    /\ pc = "signal" /\ stop < StopCap
    /\ stop' = stop + 1
    /\ pc' = "select"
    /\ UNCHANGED <<script, node, nonce, gap, check, pre, i, j>>

(* case <-stop                                                             *)
TakeStop ==
    /\ script = "tool" /\ pc = "select" /\ stop > 0
    /\ stop' = stop - 1
    /\ pc' = "query"
    /\ UNCHANGED <<script, node, nonce, gap, check, pre, i, j>>

(* Mutant: txsend goes on with the nonce it was told.                      *)
Requery_Exact ==
    /\ pc = "query"
    /\ \E n \in Nonces : IsPending(n) /\ gap' = n /\ nonce' = n
    /\ pc' = "test"
    /\ UNCHANGED <<script, node, stop, check, pre, i, j>>

Requery ==
    /\ pc = "query"
    /\ \E n \in Nonces : IsPending(n) /\ gap' = n /\ nonce' = n + 1
    /\ pc' = "test"
    /\ UNCHANGED <<script, node, stop, check, pre, i, j>>

RequeryFails ==
    /\ pc = "query"
    /\ pc' = "ended"
    /\ UNCHANGED <<script, node, nonce, stop, gap, check, pre, i, j>>

(* Mutant: one signal more is taken without looking.                       *)
TestStop_Always ==
    /\ pc = "test"
    /\ pc' = "drain"
    /\ UNCHANGED <<script, node, nonce, stop, gap, check, pre, i, j>>

TestStop ==
    /\ pc = "test"
    /\ pc' = IF stop # 0 THEN "drain" ELSE "select"
    /\ UNCHANGED <<script, node, nonce, stop, gap, check, pre, i, j>>

Drain ==
    /\ pc = "drain" /\ stop > 0
    /\ stop' = stop - 1
    /\ pc' = "select"
    /\ UNCHANGED <<script, node, nonce, gap, check, pre, i, j>>

(* checkNonce: an error of NonceAt is ignored and reads as 0.              *)
CheckNonce ==
    /\ script = "tool" /\ pc # "ended" /\ check = "sleep"
    /\ \E n \in {confirmed, 0} :
          IF n = pre THEN check' = "push" /\ pre' = pre
                     ELSE check' = check /\ pre' = n
    /\ UNCHANGED <<script, node, pc, nonce, stop, gap, i, j>>

CheckSignal ==
    /\ check = "push" /\ pc # "ended" /\ stop < StopCap
    /\ stop' = stop + 1
    /\ check' = "sleep"
    /\ UNCHANGED <<script, node, pc, nonce, gap, pre, i, j>>

-----------------------------------------------------------------------------
(* sendTestTx.  transfer puts its counter into the transaction, callsol    *)
(* sends the same one, adder goes through its recipients.                  *)

Content == CASE script = "transfer" -> i [] script = "callsol" -> 0 [] OTHER -> j

Looping == script # "tool" /\ pc = "select" /\ (script = "adder" => j < Adds)

(* A turn of adder's loop uses its recipient up whatever the select does.  *)
NextAdd == j' = IF script = "adder" THEN j + 1 ELSE j

TimeOver ==
    /\ Looping
    /\ pc' = "ended"
    /\ UNCHANGED <<script, node, nonce, stop, gap, check, pre, i, j>>

Tick ==
    /\ Looping
    /\ \/ nonce' = confirmed /\ pc' = pc
       \/ nonce' = nonce /\ pc' = "ended"
    /\ NextAdd
    /\ UNCHANGED <<script, node, stop, gap, check, pre, i>>

(* Mutants: a failed send does not end the loop, which goes on with the    *)
(* next nonce and the next recipient, or the same one.                     *)
SendOrSkip(again) ==
    /\ Looping
    /\ nonce \in Nonces
    /\ \/ SendOK(nonce, Content) /\ i' = i + 1 /\ NextAdd
       \/ SendErr(nonce, Content) /\ i' = i /\ (IF again THEN j' = j ELSE NextAdd)
    /\ nonce' = nonce + 1
    /\ UNCHANGED <<script, pc, stop, gap, check, pre>>
SendTestTx_Skip  == SendOrSkip(FALSE)
SendTestTx_Again == SendOrSkip(TRUE)

SendTestTx ==
    /\ Looping
    /\ nonce \in Nonces
    /\ \/ /\ SendOK(nonce, Content)
          /\ nonce' = nonce + 1 /\ i' = i + 1
          /\ pc' = IF i + 1 >= TxNum THEN "ended" ELSE "select"
       \/ /\ SendErr(nonce, Content)
          /\ pc' = "ended" /\ UNCHANGED <<nonce, i>>
    /\ NextAdd
    /\ UNCHANGED <<script, stop, gap, check, pre>>

Next ==
    \/ Mine
    \/ TxSend \/ Signal \/ TakeStop \/ Requery \/ RequeryFails \/ TestStop \/ Drain
    \/ CheckNonce \/ CheckSignal
    \/ TimeOver \/ Tick \/ SendTestTx

Spec == Init /\ [][Next]_vars

-----------------------------------------------------------------------------
(* Until txsend has been through its stop branch, no program leaves a hole:  *)
(* every transaction the node holds is executable (the nonce only moves past *)
(* a nonce whose transaction the node has).                                  *)
NoGap ==
    gap = None => \A n, k \in Nonces : book[n] # None /\ k < n => book[k] # None

(* After the stop branch of txsend the nonce it was told is never sent (it   *)
(* goes on with nonce1+1): the chain does not get past it, and nothing sent  *)
(* from then on is executed, whatever the later rounds do.                   *)
GapStaysOpen == gap # None => confirmed <= gap /\ book[gap] = None

(* txsend looks at len(stop) and then receives: the channel is not empty     *)
(* then, although checkNonce uses it at the same time.                       *)
DrainNeverBlocks == pc = "drain" => stop > 0

(* No recipient of transferadder is paid twice, also when the answer to a    *)
(* send is lost or the ticker takes the nonce back to one already sent.      *)
PaidOnce ==
    script = "adder" =>
       \A n, k \in Nonces : book[n] = book[k] /\ book[n] \in Nat => n = k
=============================================================================
