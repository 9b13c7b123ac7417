------------------------- MODULE StakingRefinement -------------------------
(***************************************************************************)
(* The staking pool implements two abstract promises: PrincipalVault for   *)
(* the stakes and RewardLedger for the rewards.  Each is the whole pool    *)
(* seen through a mapping that forgets the rest, so every instruction of   *)
(* every signer, every transfer and every second is a step of the promise, *)
(* or no step.                                                             *)
(***************************************************************************)
EXTENDS StakingProperties

Bank == INSTANCE PrincipalVault
    WITH deposited <- [o \in Owners |-> stakers[o].staked_amount],
         balance <- stake_vault

(* Stakes are a safe deposit: an owner's stake is lowered by that owner's  *)
(* withdrawals alone, which take exactly the same out of the vault, and    *)
(* the vault moves in no other way but up.                                 *)
PrincipalIsSafe == Bank!BankSpec

(* What an owner has earned of a mint: of the one slot that holds it. *)
EarnedOf(o, m) ==
    IF \E i \in Slots : rewards[i].mint = m
    THEN EarnedNow(o, CHOOSE i \in Slots : rewards[i].mint = m)
    ELSE 0

Ledger == INSTANCE RewardLedger
    WITH earned <- [o \in Owners |-> [m \in Mints |-> EarnedOf(o, m)]],
         vault <- reward_vault

(* Rewards are a covered ledger, in whole tokens and at every moment, also *)
(* between two settlements: earnings only grow, until the owner is paid    *)
(* all of them or forfeits them; a payment leaves the others' alone; the   *)
(* vaults cover whatever is added, although an emergency withdrawal        *)
(* divides time that has passed anew.                                      *)
RewardsAreCovered == Ledger!LedgerSpec

=============================================================================
