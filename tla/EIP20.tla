------------------------------- MODULE EIP20 -------------------------------
(***************************************************************************)
(* The token of src/contract/EIP20.sol with the arithmetic of              *)
(* src/contract/SafeMath.sol.  A call that fails a require or an assert    *)
(* reverts and is no step.                                                 *)
(***************************************************************************)
EXTENDS Integers, FiniteSets

CONSTANTS
    Accounts,
    MaxUint,     \* MAX_UINT256
    Approvers,   \* bound: the accounts that call approve
    MaxGrants    \* bound: what one account grants another in total

ASSUME TokenAssumption ==
    /\ IsFiniteSet(Accounts)
    /\ MaxUint \in Nat \ {0}
    /\ Approvers \subseteq Accounts
    /\ MaxGrants \in Nat

Uint == 0..MaxUint

VARIABLES
    totalSupply, balances, allowed,
    granted,     \* history: sum of the finite approvals of an owner for a spender
    taken,       \* history: sum of what the spender transferred
    unlimited    \* history: pairs for which MAX_UINT256 was approved

vars == <<totalSupply, balances, allowed, granted, taken, unlimited>>

TypeOK ==
    /\ totalSupply \in Uint
    /\ balances \in [Accounts -> Uint]
    /\ allowed \in [Accounts \X Accounts -> Uint]
    /\ granted \in [Accounts \X Accounts -> Nat]
    /\ taken \in [Accounts \X Accounts -> Nat]
    /\ unlimited \subseteq Accounts \X Accounts

(* constructor *)
Init ==
    /\ totalSupply \in Uint
    /\ \E creator \in Accounts :
          balances = [a \in Accounts |-> IF a = creator THEN totalSupply ELSE 0]
    /\ allowed = [p \in Accounts \X Accounts |-> 0]
    /\ granted = [p \in Accounts \X Accounts |-> 0]
    /\ taken = [p \in Accounts \X Accounts |-> 0]
    /\ unlimited = {}

(* Mutant: no assert.                                                      *)
SubOK_Open(a, b) == TRUE

(* SafeMath: the assert, and the result in machine arithmetic.             *)
SubOK(a, b) == b <= a

sub(a, b)   == (a - b) % (MaxUint + 1)
add(a, b)   == (a + b) % (MaxUint + 1)
AddOK(a, b) == add(a, b) >= a

(* Mutant: the receiver's balance is read before the sender's is written.  *)
Move_Stale(from, to, v) ==
    /\ SubOK(balances[from], v)
    /\ AddOK(balances[to], v)
    /\ balances' = [balances EXCEPT ![from] = sub(balances[from], v),
                                    ![to] = add(balances[to], v)]

(* balances[from] -= v; balances[to] += v, one after the other.            *)
Move(from, to, v) ==
    LET debited == [balances EXCEPT ![from] = sub(@, v)]
    IN  /\ SubOK(balances[from], v)
        /\ AddOK(debited[to], v)
        /\ balances' = [debited EXCEPT ![to] = add(@, v)]

(* History, as far as the grant is finite.                                 *)
Took(from, spender, v) ==
    taken' = IF <<from, spender>> \in unlimited THEN taken
             ELSE [taken EXCEPT ![<<from, spender>>] = @ + v]

transfer(sender, to, v) ==
    /\ Move(sender, to, v)
    /\ UNCHANGED <<totalSupply, allowed, granted, taken, unlimited>>

(* Mutant: the allowance is not used up.                                   *)
transferFrom_Keep(sender, from, to, v) ==
    /\ balances[from] >= v /\ allowed[<<from, sender>>] >= v
    /\ Move(from, to, v)
    /\ Took(from, sender, v)
    /\ UNCHANGED <<totalSupply, allowed, granted, unlimited>>

transferFrom(sender, from, to, v) ==
    /\ balances[from] >= v /\ allowed[<<from, sender>>] >= v
    /\ Move(from, to, v)
    /\ allowed' = IF allowed[<<from, sender>>] < MaxUint
                  THEN [allowed EXCEPT ![<<from, sender>>] = sub(@, v)]
                  ELSE allowed
    /\ Took(from, sender, v)
    /\ UNCHANGED <<totalSupply, granted, unlimited>>

approve(sender, spender, v) ==
    /\ v = 0 \/ allowed[<<sender, spender>>] = 0
    /\ allowed' = [allowed EXCEPT ![<<sender, spender>>] = v]
    /\ granted' = [granted EXCEPT ![<<sender, spender>>] = @ + v]
    /\ granted'[<<sender, spender>>] <= MaxGrants
    /\ unlimited' = IF v = MaxUint THEN unlimited \cup {<<sender, spender>>} ELSE unlimited
    /\ UNCHANGED <<totalSupply, balances, taken>>

Next ==
    \E sender \in Accounts, to \in Accounts, v \in Uint :
       \/ transfer(sender, to, v)
       \/ \E from \in Accounts : transferFrom(sender, from, to, v)
       \/ sender \in Approvers /\ approve(sender, to, v)

Spec == Init /\ [][Next]_vars

-----------------------------------------------------------------------------
(* The single tokens: the k-th one of each account, up to its balance.  Their *)
(* number is the sum of the balances.                                         *)
Tokens == {u \in Accounts \X (1..MaxUint) : u[2] <= balances[u[1]]}

(* transfer and transferFrom, also to oneself, neither make nor destroy      *)
(* tokens: the balances always add up to totalSupply.                        *)
Conservation == Cardinality(Tokens) = totalSupply

(* Whoever has the tokens can send them to anyone, also to oneself: the      *)
(* assert of add never reverts a transfer that the sender's balance covers.  *)
CreditFits ==
    \A from, to \in Accounts : \A v \in 0..balances[from] :
       AddOK([balances EXCEPT ![from] = @ - v][to], v)

(* Over any sequence of approve and transferFrom, what a spender has taken   *)
(* and may still take is within what the owner has granted it, unless the    *)
(* owner has granted MAX_UINT256.                                            *)
TakenWithinGrants ==
    \A p \in Accounts \X Accounts :
       p \notin unlimited => taken[p] + allowed[p] <= granted[p]
=============================================================================
