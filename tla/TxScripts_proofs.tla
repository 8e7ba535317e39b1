-------------------------- MODULE TxScripts_proofs --------------------------
(***************************************************************************)
(* What TxScripts states of the nonces, for any bound on the nonces, any   *)
(* capacity of stop and any number of recipients.                          *)
(***************************************************************************)
EXTENDS TxScripts, TLAPS

(* The chain has no hole, and neither has the pool below the program's     *)
(* nonce, until txsend skips one; that one stays below its nonce.          *)
NonceInv ==
    /\ \A k \in Nonces : k < confirmed => book[k] # None
    /\ gap = None => \A k \in Nonces : k < nonce => book[k] # None
    /\ NoGap
    /\ gap # None => gap < nonce
    /\ GapStaysOpen

(* Only txsend has a stop branch, and there stop is only emptied by it.    *)
StopInv ==
    /\ script # "tool" => pc \in {"select", "ended"} /\ gap = None
    /\ DrainNeverBlocks

(* The recipients that have a transaction are those the loop has passed.   *)
AddInv ==
    /\ script = "adder" => \A n \in Nonces : book[n] \in Nat => book[n] < j
    /\ PaidOnce

TxInv == TypeOK /\ NonceInv /\ StopInv /\ AddInv

USE ScriptsAssumption DEF None, Old, Nonces, Contents

LEMMA ContentType == TypeOK => Content \in Nat
BY DEF TypeOK, Content

(* A send leaves the book as it is or enters its transaction at a free     *)
(* nonce that is not in the chain.                                         *)
LEMMA SendEffect ==
    ASSUME NEW n \in Nonces, NEW x,
           SendOK(n, x) \/ SendKnown(n, x) \/ SendErr(n, x)
    PROVE  /\ confirmed' = confirmed
           /\ \/ book' = book
              \/ n >= confirmed /\ book[n] = None /\ book' = [book EXCEPT ![n] = x]
BY DEF SendOK, SendKnown, SendErr, Accepts, node

LEMMA TypeStep == TypeOK /\ [Next]_vars => TypeOK'
<1> SUFFICES ASSUME TypeOK, [Next]_vars PROVE TypeOK'
  OBVIOUS
<1> USE DEF TypeOK
<1>1. CASE Mine
  BY <1>1 DEF Mine
<1>2. CASE TxSend
  <2>1. /\ confirmed' = confirmed
        /\ book' = book \/ book' = [book EXCEPT ![nonce] = 0]
    BY <1>2, SendEffect DEF TxSend
  <2> QED
    BY <1>2, <2>1 DEF TxSend
<1>3. CASE Signal \/ TakeStop \/ Requery \/ RequeryFails \/ TestStop \/ Drain
  BY <1>3 DEF Signal, TakeStop, Requery, RequeryFails, TestStop, Drain, node
<1>4. CASE CheckNonce \/ CheckSignal
  BY <1>4 DEF CheckNonce, CheckSignal, node
<1>5. CASE TimeOver \/ Tick
  BY <1>5 DEF TimeOver, Tick, NextAdd, node, Looping
<1>6. CASE SendTestTx
  <2>1. /\ confirmed' = confirmed
        /\ book' = book \/ book' = [book EXCEPT ![nonce] = Content]
    BY <1>6, SendEffect DEF SendTestTx
  <2>2. book' \in [Nonces -> Contents \cup {None}]
    BY <2>1, ContentType
  <2>3. nonce' \in Nat /\ i' \in Nat /\ j' \in Nat /\ pc' \in {"select", "ended"}
    BY <1>6 DEF SendTestTx, NextAdd
  <2> QED
    BY <1>6, <2>1, <2>2, <2>3 DEF SendTestTx
<1>7. CASE UNCHANGED vars
  BY <1>7 DEF vars
<1> QED
  BY <1>1, <1>2, <1>3, <1>4, <1>5, <1>6, <1>7 DEF Next

LEMMA NonceStep == TypeOK /\ NonceInv /\ StopInv /\ [Next]_vars => NonceInv'
<1> SUFFICES ASSUME TypeOK, NonceInv, StopInv, [Next]_vars PROVE NonceInv'
  OBVIOUS
<1> USE DEF TypeOK, NonceInv, NoGap, GapStaysOpen
<1>1. CASE Mine
  BY <1>1 DEF Mine
<1>2. CASE TxSend
  <2>1. /\ confirmed' = confirmed
        /\ \/ book' = book
           \/ book[nonce] = None /\ book' = [book EXCEPT ![nonce] = 0]
    BY <1>2, SendEffect DEF TxSend
  <2>2. gap' = gap /\ nonce \in Nonces
    BY <1>2 DEF TxSend
  <2>3. \/ nonce' = nonce
        \/ nonce' = nonce + 1 /\ book'[nonce] # None
    BY <1>2 DEF TxSend, SendOK, SendKnown, Accepts, node
  <2> QED
    BY <2>1, <2>2, <2>3
<1>3. CASE Requery
  BY <1>3 DEF Requery, IsPending, node
<1>4. CASE Signal \/ TakeStop \/ RequeryFails \/ TestStop \/ Drain \/ CheckNonce
             \/ CheckSignal \/ TimeOver
  BY <1>4 DEF Signal, TakeStop, RequeryFails, TestStop, Drain, CheckNonce, CheckSignal,
              TimeOver, node
<1>5. CASE Tick
  BY <1>5 DEF Tick, Looping, StopInv, node
<1>6. CASE SendTestTx
  <2>1. /\ confirmed' = confirmed
        /\ \/ book' = book
           \/ book[nonce] = None /\ book' = [book EXCEPT ![nonce] = Content]
    BY <1>6, SendEffect DEF SendTestTx
  <2>2. gap' = gap /\ nonce \in Nonces /\ Content \in Nat
    BY <1>6, ContentType DEF SendTestTx
  <2>3. \/ nonce' = nonce
        \/ nonce' = nonce + 1 /\ book'[nonce] # None
    BY <1>6, <2>2 DEF SendTestTx, SendOK, Accepts
  <2> QED
    BY <2>1, <2>2, <2>3
<1>7. CASE UNCHANGED vars
  BY <1>7 DEF vars
<1> QED
  BY <1>1, <1>2, <1>3, <1>4, <1>5, <1>6, <1>7 DEF Next

LEMMA StopStep == TypeOK /\ StopInv /\ [Next]_vars => StopInv'
<1> SUFFICES ASSUME TypeOK, StopInv, [Next]_vars PROVE StopInv'
  OBVIOUS
<1> USE DEF TypeOK, StopInv, DrainNeverBlocks
<1>1. CASE Mine \/ TxSend \/ Signal \/ TakeStop \/ Requery \/ RequeryFails
  BY <1>1 DEF Mine, TxSend, Signal, TakeStop, Requery, RequeryFails
<1>2. CASE TestStop \/ Drain \/ CheckNonce \/ CheckSignal
  BY <1>2 DEF TestStop, Drain, CheckNonce, CheckSignal
<1>3. CASE TimeOver \/ Tick \/ SendTestTx
  BY <1>3 DEF TimeOver, Tick, SendTestTx, Looping
<1>4. CASE UNCHANGED vars
  BY <1>4 DEF vars
<1> QED
  BY <1>1, <1>2, <1>3, <1>4 DEF Next

LEMMA AddStep == TypeOK /\ AddInv /\ [Next]_vars => AddInv'
<1> SUFFICES ASSUME TypeOK, AddInv, [Next]_vars PROVE AddInv'
  OBVIOUS
<1> USE DEF TypeOK, AddInv, PaidOnce
<1>1. script' = script
  BY DEF Next, Mine, TxSend, Signal, TakeStop, Requery, RequeryFails, TestStop, Drain,
         CheckNonce, CheckSignal, TimeOver, Tick, SendTestTx, vars
<1>2. CASE script # "adder"
  BY <1>1, <1>2
<1>3. CASE script = "adder" /\ SendTestTx
  <2>1. book' = book \/ book' = [book EXCEPT ![nonce] = j]
    BY <1>3, SendEffect DEF SendTestTx, Content
  <2>2. j' = j + 1 /\ nonce \in Nonces
    BY <1>3 DEF SendTestTx, NextAdd
  <2> QED
    BY <1>1, <1>3, <2>1, <2>2
<1>4. CASE script = "adder" /\ ~SendTestTx
  <2>1. book' = book /\ (j' = j \/ j' = j + 1)
    BY <1>4 DEF Next, Mine, TxSend, Signal, TakeStop, Requery, RequeryFails, TestStop,
                Drain, CheckNonce, CheckSignal, TimeOver, Tick, NextAdd, node, vars
  <2> QED
    BY <1>1, <2>1
<1> QED
  BY <1>2, <1>3, <1>4

LEMMA InitInv == Init => TxInv
<1> SUFFICES ASSUME Init PROVE TxInv
  OBVIOUS
<1>1. TypeOK
  BY DEF Init, TypeOK, AllScripts
<1>2. NonceInv
  BY DEF Init, NonceInv, NoGap, GapStaysOpen
<1>3. StopInv /\ AddInv
  BY DEF Init, StopInv, AddInv, DrainNeverBlocks, PaidOnce
<1> QED
  BY <1>1, <1>2, <1>3 DEF TxInv

(* The inductive invariant of the sending programs.                        *)
THEOREM TxInvCorrect == Spec => []TxInv
<1>1. TxInv /\ [Next]_vars => TxInv'
  BY TypeStep, NonceStep, StopStep, AddStep DEF TxInv
<1> QED
  BY InitInv, <1>1, PTL DEF Spec

(* No program leaves a hole in its nonces before txsend's stop branch.     *)
THEOREM NoGapCorrect == Spec => []NoGap
<1>1. TxInv => NoGap
  BY DEF TxInv, NonceInv
<1> QED
  BY <1>1, TxInvCorrect, PTL

(* The hole that txsend's stop branch leaves is never filled.              *)
THEOREM GapStaysOpenCorrect == Spec => []GapStaysOpen
<1>1. TxInv => GapStaysOpen
  BY DEF TxInv, NonceInv
<1> QED
  BY <1>1, TxInvCorrect, PTL

(* txsend never blocks where it empties stop.                              *)
THEOREM DrainCorrect == Spec => []DrainNeverBlocks
<1>1. TxInv => DrainNeverBlocks
  BY DEF TxInv, StopInv
<1> QED
  BY <1>1, TxInvCorrect, PTL

(* transferadder pays no recipient twice, whatever answers are lost.       *)
THEOREM PaidOnceCorrect == Spec => []PaidOnce
<1>1. TxInv => PaidOnce
  BY DEF TxInv, AddInv
<1> QED
  BY <1>1, TxInvCorrect, PTL
=============================================================================
