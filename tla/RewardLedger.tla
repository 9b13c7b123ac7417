---------------------------- MODULE RewardLedger ----------------------------
(***************************************************************************)
(* What the pool promises about rewards, without saying how: a ledger of   *)
(* what every owner has earned of every reward mint, in whole tokens, and  *)
(* the vaults that stand behind it.  There are no rates, periods, slots or *)
(* settlements; how much is earned and when is left open.                  *)
(***************************************************************************)
EXTENDS Naturals, Functions

CONSTANTS Owners, Mints, RewardSupply

VARIABLES
    earned,   \* earned[o][m], not paid yet
    vault     \* balance of the vault of m

ledgerVars == <<earned, vault>>

TotalEarned(ledger, m) == SumFunction([o \in Owners |-> ledger[o][m]])

(* The vaults cover the whole ledger. *)
Covered(ledger) == \A m \in Mints : TotalEarned(ledger, m) <= vault[m]

LedgerInit ==
    /\ earned = [o \in Owners |-> [m \in Mints |-> 0]]
    /\ vault = [m \in Mints |-> 0]

(* Ledgers in which the owners of S have at least what they have now. *)
NotLowered(S) ==
    {ledger \in [Owners -> [Mints -> 0 .. RewardSupply]] :
        \A o \in S, m \in Mints : ledger[o][m] >= earned[o][m]}

Accrue ==
    /\ earned' \in NotLowered(Owners)
    /\ Covered(earned')
    /\ UNCHANGED vault

(* An owner is paid all that is earned of the mints in S, and no one else  *)
(* notices.                                                                *)
Pay(o, S) ==
    /\ earned' = [earned EXCEPT ![o] = [m \in Mints |-> IF m \in S THEN 0 ELSE @[m]]]
    /\ vault' = [m \in Mints |-> IF m \in S THEN vault[m] - earned[o][m] ELSE vault[m]]

(* An owner gives up everything that is earned; it may go to the others. *)
Forfeit(o) ==
    /\ earned' \in NotLowered(Owners \ {o})
    /\ earned'[o] = [m \in Mints |-> 0]
    /\ Covered(earned')
    /\ UNCHANGED vault

Fund(m, amount) ==
    /\ vault[m] + amount <= RewardSupply
    /\ vault' = [vault EXCEPT ![m] = @ + amount]
    /\ UNCHANGED earned

LedgerNext ==
    \/ Accrue
    \/ \E o \in Owners, S \in SUBSET Mints : Pay(o, S)
    \/ \E o \in Owners : Forfeit(o)
    \/ \E m \in Mints, amount \in 0 .. RewardSupply : Fund(m, amount)

LedgerSpec == LedgerInit /\ [][LedgerNext]_ledgerVars

=============================================================================
