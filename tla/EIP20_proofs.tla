---------------------------- MODULE EIP20_proofs ----------------------------
(***************************************************************************)
(* What EIP20 states of a token, for any finite set of accounts and any    *)
(* MaxUint.  The sum of the balances is the number of single tokens: a     *)
(* transfer takes the top v tokens of one account and puts v on top of     *)
(* those of another one.                                                   *)
(***************************************************************************)
EXTENDS EIP20, FiniteSetTheorems, TLAPS

USE TokenAssumption DEF Uint

(* An allowance of MAX_UINT256 is one that was approved as such: the first *)
(* finite allowance is never mistaken for it.                              *)
GrantInv ==
    /\ TakenWithinGrants
    /\ \A p \in Accounts \X Accounts : allowed[p] = MaxUint => p \in unlimited

TokenInv == TypeOK /\ GrantInv

(* The assert of SafeMath's add: the sum of two words has not wrapped.     *)
LEMMA AddExact ==
    ASSUME NEW a \in Uint, NEW b \in Uint, AddOK(a, b)
    PROVE  add(a, b) = a + b /\ a + b \in Uint
<1> DEFINE N == MaxUint + 1
<1>1. CASE a + b < N
  <2>1. (a + b) % N = a + b
    BY <1>1
  <2> QED
    BY <1>1, <2>1 DEF add
<1>2. CASE a + b >= N
  <2>1. a + b = N + (a + b - N) /\ a + b - N \in 0..(N - 1)
    BY <1>2
  <2>2. (a + b) % N = a + b - N
    BY <2>1
  <2>3. add(a, b) < a
    BY <2>2 DEF add
  <2> QED
    BY <2>3, <2>2 DEF AddOK, add
<1> QED
  BY <1>1, <1>2

(* The assert of SafeMath's sub: the difference has not wrapped.           *)
LEMMA SubExact ==
    ASSUME NEW a \in Uint, NEW b \in Uint, SubOK(a, b)
    PROVE  sub(a, b) = a - b /\ a - b \in Uint
<1>1. a - b \in 0..MaxUint
  BY DEF SubOK
<1>2. (a - b) % (MaxUint + 1) = a - b
  BY <1>1
<1> QED
  BY <1>1, <1>2 DEF sub

(* What Move does to the balances, the transfer to oneself included.       *)
LEMMA MoveEffect ==
    ASSUME TypeOK, NEW from \in Accounts, NEW to \in Accounts, NEW v \in Uint,
           Move(from, to, v)
    PROVE  /\ balances' \in [Accounts -> Uint]
           /\ from = to => balances' = balances
           /\ from # to => balances' = [balances EXCEPT ![from] = @ - v, ![to] = @ + v]
<1> DEFINE debited == [balances EXCEPT ![from] = balances[from] - v]
<1>1. balances \in [Accounts -> Uint] /\ balances[from] - v \in Uint
  BY DEF TypeOK, Move, SubOK
<1>2. debited \in [Accounts -> Uint]
  BY <1>1
<1>3. AddOK(debited[to], v) /\ balances' = [debited EXCEPT ![to] = add(debited[to], v)]
  <2>1. sub(balances[from], v) = balances[from] - v
    BY <1>1, SubExact DEF Move
  <2> QED
    BY <2>1 DEF Move
<1>4. add(debited[to], v) = debited[to] + v /\ debited[to] + v \in Uint
  BY <1>2, <1>3, AddExact
<1>5. balances' = [debited EXCEPT ![to] = debited[to] + v]
  BY <1>3, <1>4
<1>6. balances' \in [Accounts -> Uint]
  BY <1>2, <1>4, <1>5
<1>7. ASSUME from = to PROVE balances' = balances
  BY <1>1, <1>5, <1>7
<1>8. ASSUME from # to
      PROVE  balances' = [balances EXCEPT ![from] = @ - v, ![to] = @ + v]
  BY <1>1, <1>5, <1>8
<1> QED
  BY <1>6, <1>7, <1>8

LEMMA TokenStep == TokenInv /\ [Next]_vars => TokenInv'
<1> SUFFICES ASSUME TokenInv, [Next]_vars PROVE TokenInv'
  OBVIOUS
<1> USE DEF TokenInv, TypeOK, GrantInv, TakenWithinGrants
<1>1. CASE UNCHANGED vars
  BY <1>1 DEF vars
<1>2. ASSUME NEW s \in Accounts, NEW t \in Accounts, NEW v \in Uint, transfer(s, t, v)
      PROVE  TokenInv'
  <2>1. balances' \in [Accounts -> Uint]
    BY <1>2, MoveEffect DEF transfer
  <2> QED
    BY <1>2, <2>1 DEF transfer
<1>3. ASSUME NEW s \in Accounts, NEW f \in Accounts, NEW t \in Accounts, NEW v \in Uint,
             transferFrom(s, f, t, v)
      PROVE  TokenInv'
  <2> DEFINE q == <<f, s>>
  <2>1. balances' \in [Accounts -> Uint]
    BY <1>3, MoveEffect DEF transferFrom
  <2>2. /\ q \in Accounts \X Accounts
        /\ allowed[q] >= v
        /\ allowed' = IF allowed[q] < MaxUint THEN [allowed EXCEPT ![q] = @ - v] ELSE allowed
        /\ taken' = IF q \in unlimited THEN taken ELSE [taken EXCEPT ![q] = @ + v]
        /\ UNCHANGED <<totalSupply, granted, unlimited>>
    <3>1. q \in Accounts \X Accounts /\ allowed[q] \in Uint /\ allowed[q] >= v
      BY <1>3 DEF transferFrom
    <3>2. sub(allowed[q], v) = allowed[q] - v
      BY <3>1, SubExact DEF SubOK
    <3> QED
      BY <1>3, <3>1, <3>2 DEF transferFrom, Took
  <2> HIDE DEF q
  <2>3. TypeOK'
    BY <2>1, <2>2
  <2>4. ASSUME NEW p \in Accounts \X Accounts
        PROVE  /\ p \notin unlimited' => taken'[p] + allowed'[p] <= granted'[p]
               /\ allowed'[p] = MaxUint => p \in unlimited'
    <3>1. CASE p = q
      <4>1. /\ allowed[q] \in Uint /\ taken[q] \in Nat /\ granted[q] \in Nat
            /\ v \in Nat /\ v <= allowed[q]
        BY <2>2
      <4>2. allowed[q] = MaxUint => q \in unlimited
        BY <2>2
      <4>3. q \notin unlimited => taken[q] + allowed[q] <= granted[q]
        BY <2>2
      <4>4. unlimited' = unlimited /\ granted'[q] = granted[q]
        BY <2>2
      <4>5. CASE allowed[q] < MaxUint
        <5>1. allowed'[q] = allowed[q] - v
          BY <2>2, <4>5
        <5>2. q \notin unlimited => taken'[q] = taken[q] + v
          BY <2>2
        <5> HIDE DEF TypeOK, TokenInv, GrantInv, TakenWithinGrants
        <5> QED
          BY <3>1, <4>1, <4>3, <4>4, <4>5, <5>1, <5>2
      <4>6. CASE allowed[q] = MaxUint
        BY <3>1, <4>2, <4>4, <4>6
      <4> HIDE DEF TypeOK, TokenInv, GrantInv, TakenWithinGrants
      <4>7. allowed[q] < MaxUint \/ allowed[q] = MaxUint
        BY <4>1
      <4> QED
        BY <4>5, <4>6, <4>7
    <3>2. CASE p # q
      BY <2>2, <3>2
    <3> QED
      BY <3>1, <3>2
  <2> QED
    BY <2>3, <2>4
<1>4. ASSUME NEW s \in Accounts, NEW t \in Accounts, NEW v \in Uint, approve(s, t, v)
      PROVE  TokenInv'
  <2> DEFINE q == <<s, t>>
  <2>1. /\ q \in Accounts \X Accounts
        /\ v = 0 \/ allowed[q] = 0
        /\ allowed' = [allowed EXCEPT ![q] = v]
        /\ granted' = [granted EXCEPT ![q] = @ + v]
        /\ unlimited' = IF v = MaxUint THEN unlimited \cup {q} ELSE unlimited
        /\ UNCHANGED <<totalSupply, balances, taken>>
    BY <1>4 DEF approve
  <2> HIDE DEF q
  <2>2. TypeOK'
    BY <2>1
  <2>3. ASSUME NEW p \in Accounts \X Accounts
        PROVE  /\ p \notin unlimited' => taken'[p] + allowed'[p] <= granted'[p]
               /\ allowed'[p] = MaxUint => p \in unlimited'
    <3>1. CASE p = q
      BY <2>1, <3>1
    <3>2. CASE p # q
      BY <2>1, <3>2
    <3> QED
      BY <3>1, <3>2
  <2> QED
    BY <2>2, <2>3
<1> QED
  BY <1>1, <1>2, <1>3, <1>4 DEF Next

(* The inductive invariant of the token.                                   *)
THEOREM TokenInvCorrect == Spec => []TokenInv
<1>1. Init => TokenInv
  BY DEF Init, TokenInv, TypeOK, GrantInv, TakenWithinGrants
<1> QED
  BY <1>1, TokenStep, PTL DEF Spec

(* Every balance and allowance stays a word.                               *)
THEOREM TokenTypeCorrect == Spec => []TypeOK
<1>1. TokenInv => TypeOK
  BY DEF TokenInv
<1> QED
  BY <1>1, TokenInvCorrect, PTL

(* No sequence of approve and transferFrom gives a spender more than its   *)
(* owner has granted it.                                                   *)
THEOREM GrantsCorrect == Spec => []TakenWithinGrants
<1>1. TokenInv => TakenWithinGrants
  BY DEF TokenInv, GrantInv
<1> QED
  BY <1>1, TokenInvCorrect, PTL

(* A step that changes the balances takes from one account what it gives   *)
(* to another one.                                                         *)
MovesExactly ==
    \E from, to \in Accounts, v \in Uint :
       /\ from # to
       /\ balances' = [balances EXCEPT ![from] = @ - v, ![to] = @ + v]

(* transfer and transferFrom keep the sum: each is a move between two      *)
(* accounts, in exact arithmetic, or leaves the balances as they are; and  *)
(* nothing changes totalSupply.                                            *)
THEOREM MovesCorrect ==
    Spec => [][(balances' = balances \/ MovesExactly) /\ totalSupply' = totalSupply]_vars
<1>1. TypeOK /\ [Next]_vars
         => [(balances' = balances \/ MovesExactly) /\ totalSupply' = totalSupply]_vars
  <2> SUFFICES ASSUME TypeOK, Next
               PROVE  (balances' = balances \/ MovesExactly) /\ totalSupply' = totalSupply
    OBVIOUS
  <2>1. ASSUME NEW from \in Accounts, NEW to \in Accounts, NEW v \in Uint, Move(from, to, v)
        PROVE  balances' = balances \/ MovesExactly
    BY <2>1, MoveEffect DEF MovesExactly
  <2> QED
    BY <2>1 DEF Next, transfer, transferFrom, approve
<1> QED
  BY <1>1, TokenTypeCorrect, PTL DEF Spec

(* The tokens of one account above the lo-th and up to the hi-th.          *)
Slice(a, lo, hi) == {a} \X ((lo + 1)..hi)

LEMMA SliceSize ==
    ASSUME NEW a, NEW lo \in Nat, NEW hi \in Nat, lo <= hi
    PROVE  IsFiniteSet(Slice(a, lo, hi)) /\ Cardinality(Slice(a, lo, hi)) = hi - lo
<1>1. IsFiniteSet({a}) /\ Cardinality({a}) = 1
  BY FS_Singleton
<1>2. IsFiniteSet((lo + 1)..hi) /\ Cardinality((lo + 1)..hi) = hi - lo
  <2>1. lo + 1 \in Int /\ hi \in Int
    OBVIOUS
  <2>2. /\ IsFiniteSet((lo + 1)..hi)
        /\ Cardinality((lo + 1)..hi) = IF lo + 1 > hi THEN 0 ELSE hi - (lo + 1) + 1
    BY <2>1, FS_Interval
  <2> QED
    BY <2>2
<1>3. /\ IsFiniteSet({a} \X ((lo + 1)..hi))
      /\ Cardinality({a} \X ((lo + 1)..hi)) = Cardinality({a}) * Cardinality((lo + 1)..hi)
  BY <1>1, <1>2, FS_Product
<1> QED
  BY <1>1, <1>2, <1>3 DEF Slice

LEMMA TokensFinite == IsFiniteSet(Tokens)
<1>1. IsFiniteSet(1..MaxUint)
  BY FS_Interval
<1>2. IsFiniteSet(Accounts \X (1..MaxUint))
  BY <1>1, FS_Product
<1>3. Tokens \in SUBSET (Accounts \X (1..MaxUint))
  BY DEF Tokens
<1> QED
  BY <1>2, <1>3, FS_Subset

(* A move between two accounts keeps the number of tokens.                 *)
LEMMA MoveKeepsTokens ==
    ASSUME TypeOK, NEW from \in Accounts, NEW to \in Accounts, NEW v \in Uint, from # to,
           balances' \in [Accounts -> Uint],
           balances' = [balances EXCEPT ![from] = @ - v, ![to] = @ + v]
    PROVE  Cardinality(Tokens') = Cardinality(Tokens)
<1> DEFINE Left == Slice(from, balances[from] - v, balances[from])
           Come == Slice(to, balances[to], balances[to] + v)
           Rest == Tokens \ Left
<1>1. /\ balances \in [Accounts -> Uint]
      /\ balances[from] \in Nat /\ balances[to] \in Nat /\ v \in Nat
      /\ balances[from] <= MaxUint /\ balances[to] + v <= MaxUint
      /\ balances[from] - v \in Nat
  <2>1. balances'[from] = balances[from] - v /\ balances'[to] = balances[to] + v
    BY DEF TypeOK
  <2>2. balances'[from] \in Uint /\ balances'[to] \in Uint
    OBVIOUS
  <2> QED
    BY <2>1, <2>2 DEF TypeOK
<1>2. IsFiniteSet(Left) /\ Cardinality(Left) = v
  BY <1>1, SliceSize
<1>3. IsFiniteSet(Come) /\ Cardinality(Come) = v
  BY <1>1, SliceSize
<1>4. Tokens \cap Left = Left
  BY <1>1 DEF Tokens, Slice
<1>5. IsFiniteSet(Rest) /\ Cardinality(Rest) = Cardinality(Tokens) - v
  <2>1. /\ IsFiniteSet(Tokens \ Left)
        /\ Cardinality(Tokens \ Left) = Cardinality(Tokens) - Cardinality(Tokens \cap Left)
    BY TokensFinite, FS_Difference
  <2> QED
    BY <1>2, <1>4, <2>1
<1>6. Rest \cap Come = {}
  BY <1>1 DEF Tokens, Slice
<1>7. Tokens' = Rest \cup Come
  <2>1. ASSUME NEW a \in Accounts, NEW k \in 1..MaxUint
        PROVE  <<a, k>> \in Tokens' <=> <<a, k>> \in Rest \cup Come
    <3>1. CASE a = from
      BY <1>1, <3>1 DEF Tokens, Slice
    <3>2. CASE a = to
      BY <1>1, <3>2 DEF Tokens, Slice
    <3>3. CASE a # from /\ a # to
      BY <1>1, <3>3 DEF Tokens, Slice
    <3> QED
      BY <3>1, <3>2, <3>3
  <2>2. Tokens' \subseteq Accounts \X (1..MaxUint)
    BY DEF Tokens
  <2>3. Rest \cup Come \subseteq Accounts \X (1..MaxUint)
    BY <1>1 DEF Tokens, Slice
  <2> HIDE DEF Rest, Come
  <2> QED
    BY <2>1, <2>2, <2>3
<1>8. Cardinality(Rest \cup Come)
         = Cardinality(Rest) + Cardinality(Come) - Cardinality(Rest \cap Come)
  BY <1>3, <1>5, FS_Union
<1>9. Cardinality(Rest \cap Come) = 0
  BY <1>6, FS_EmptySet
<1>10. Cardinality(Tokens) \in Nat
  BY TokensFinite, FS_CardinalityType
<1> QED
  BY <1>1, <1>3, <1>5, <1>7, <1>8, <1>9, <1>10

(* The constructor's tokens: totalSupply of them, the creator's.           *)
LEMMA InitTokens == Init => Conservation
<1> SUFFICES ASSUME Init PROVE Conservation
  OBVIOUS
<1>1. PICK creator \in Accounts :
         balances = [a \in Accounts |-> IF a = creator THEN totalSupply ELSE 0]
  BY DEF Init
<1>2. totalSupply \in Nat /\ totalSupply <= MaxUint
  BY DEF Init
<1>3. Tokens = Slice(creator, 0, totalSupply)
  BY <1>1, <1>2 DEF Tokens, Slice
<1>4. Cardinality(Slice(creator, 0, totalSupply)) = totalSupply - 0
  BY <1>2, SliceSize
<1> QED
  BY <1>2, <1>3, <1>4 DEF Conservation

(* No sequence of calls, transfers to oneself and wrapping attempts        *)
(* included, makes or destroys a token.                                    *)
THEOREM ConservationCorrect == Spec => []Conservation
<1>1. TypeOK /\ Conservation /\ [Next]_vars => Conservation'
  <2> SUFFICES ASSUME TypeOK, Conservation, [Next]_vars PROVE Conservation'
    OBVIOUS
  <2>1. ASSUME balances' = balances, totalSupply' = totalSupply PROVE Conservation'
    BY <2>1 DEF Conservation, Tokens
  <2>2. ASSUME NEW from \in Accounts, NEW to \in Accounts, NEW v \in Uint,
               Move(from, to, v), totalSupply' = totalSupply
        PROVE  Conservation'
    <3>1. CASE from = to
      BY <2>1, <2>2, <3>1, MoveEffect
    <3>2. CASE from # to
      <4>1. /\ balances' \in [Accounts -> Uint]
            /\ balances' = [balances EXCEPT ![from] = @ - v, ![to] = @ + v]
        BY <2>2, <3>2, MoveEffect
      <4>2. Cardinality(Tokens') = Cardinality(Tokens)
        BY <3>2, <4>1, MoveKeepsTokens
      <4> QED
        BY <2>2, <4>2 DEF Conservation
    <3> QED
      BY <3>1, <3>2
  <2>3. CASE UNCHANGED vars
    BY <2>1, <2>3 DEF vars
  <2>4. ASSUME NEW s \in Accounts, NEW t \in Accounts, NEW n \in Uint, transfer(s, t, n)
        PROVE  Conservation'
    BY <2>2, <2>4 DEF transfer
  <2>5. ASSUME NEW s \in Accounts, NEW f \in Accounts, NEW t \in Accounts, NEW n \in Uint,
               transferFrom(s, f, t, n)
        PROVE  Conservation'
    BY <2>2, <2>5 DEF transferFrom
  <2>6. ASSUME NEW s \in Accounts, NEW t \in Accounts, NEW n \in Uint, approve(s, t, n)
        PROVE  Conservation'
    BY <2>1, <2>6 DEF approve
  <2> QED
    BY <2>3, <2>4, <2>5, <2>6 DEF Next
<1> QED
  BY <1>1, InitTokens, TokenTypeCorrect, PTL DEF Spec

(* Two accounts have no more than all the tokens.                          *)
LEMMA TwoBalances ==
    ASSUME TypeOK, Conservation, NEW a \in Accounts, NEW b \in Accounts, a # b
    PROVE  balances[a] + balances[b] <= MaxUint
<1> DEFINE A == Slice(a, 0, balances[a])
           B == Slice(b, 0, balances[b])
<1>1. balances[a] \in Uint /\ balances[b] \in Uint /\ totalSupply \in Uint
  BY DEF TypeOK
<1>2. /\ IsFiniteSet(A) /\ Cardinality(A) = balances[a]
      /\ IsFiniteSet(B) /\ Cardinality(B) = balances[b]
  BY <1>1, SliceSize
<1>3. A \cap B = {} /\ A \cup B \in SUBSET Tokens
  BY <1>1 DEF Slice, Tokens
<1>4. Cardinality(A \cup B) = Cardinality(A) + Cardinality(B) - Cardinality(A \cap B)
  BY <1>2, FS_Union
<1>5. Cardinality(A \cap B) = 0
  BY <1>3, FS_EmptySet
<1>6. Cardinality(A \cup B) <= Cardinality(Tokens)
  BY <1>3, TokensFinite, FS_Subset
<1> HIDE DEF A, B
<1> QED
  BY <1>1, <1>2, <1>4, <1>5, <1>6 DEF Conservation

(* The assert of add never reverts a transfer: as no call makes a token,   *)
(* what a sender has and a receiver gets always fits into a word.          *)
THEOREM CreditCorrect == Spec => []CreditFits
<1>1. TypeOK /\ Conservation => CreditFits
  <2> SUFFICES ASSUME TypeOK, Conservation, NEW from \in Accounts, NEW to \in Accounts,
                      NEW v \in 0..balances[from]
               PROVE  AddOK([balances EXCEPT ![from] = @ - v][to], v)
    BY DEF CreditFits
  <2> DEFINE d == [balances EXCEPT ![from] = @ - v][to]
  <2>1. balances[from] \in Uint /\ balances[to] \in Uint /\ v \in Nat
    BY DEF TypeOK
  <2>2. d = IF from = to THEN balances[to] - v ELSE balances[to]
    BY DEF TypeOK
  <2>3. d \in Nat /\ d + v \in 0..MaxUint
    BY <2>1, <2>2, TwoBalances
  <2> HIDE DEF d
  <2>4. (d + v) % (MaxUint + 1) = d + v
    BY <2>3
  <2>5. AddOK(d, v)
    BY <2>1, <2>3, <2>4 DEF AddOK, add
  <2> QED
    BY <2>5 DEF d
<1> QED
  BY <1>1, TokenTypeCorrect, ConservationCorrect, PTL
=============================================================================
