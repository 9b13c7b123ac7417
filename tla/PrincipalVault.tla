--------------------------- MODULE PrincipalVault ---------------------------
(***************************************************************************)
(* What the pool promises about principal, without saying how: a safe      *)
(* deposit.  Owners put tokens in and take out what is theirs; the vault   *)
(* moves with them and otherwise only grows.  There are no rewards, no     *)
(* pause, no clock and no total.                                           *)
(***************************************************************************)
EXTENDS Naturals

CONSTANTS Owners, StakeSupply

VARIABLES
    deposited,   \* what each owner can take out
    balance      \* what is in the vault

bankVars == <<deposited, balance>>

BankInit ==
    /\ deposited = [o \in Owners |-> 0]
    /\ balance = 0

Deposit(o, amount) ==
    /\ balance + amount <= StakeSupply
    /\ deposited' = [deposited EXCEPT ![o] = @ + amount]
    /\ balance' = balance + amount

Withdraw(o, amount) ==
    /\ amount <= deposited[o]
    /\ amount <= balance
    /\ deposited' = [deposited EXCEPT ![o] = @ - amount]
    /\ balance' = balance - amount

Gift(amount) ==
    /\ balance + amount <= StakeSupply
    /\ balance' = balance + amount
    /\ UNCHANGED deposited

BankNext ==
    \/ \E o \in Owners, amount \in 0 .. StakeSupply : Deposit(o, amount)
    \/ \E o \in Owners, amount \in 0 .. StakeSupply : Withdraw(o, amount)
    \/ \E amount \in 0 .. StakeSupply : Gift(amount)

BankSpec == BankInit /\ [][BankNext]_bankVars

=============================================================================
