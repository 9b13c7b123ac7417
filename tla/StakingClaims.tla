--------------------------- MODULE StakingClaims ---------------------------
(***************************************************************************)
(* What the repository's README, comments and tests say of the pool where  *)
(* the code does something else.  Each statement has a run that shows a    *)
(* behaviour of MMStaking against it.                                      *)
(***************************************************************************)
EXTENDS StakingProperties

(* update.rs: without stakers "the remainder rolls forward", and           *)
(* tests/invariants.test.ts: "rewards should roll forward, not evaporate"  *)
(* (a few lines on the same test calls them 'lost').  They roll forward    *)
(* only if the slot is settled before the period ends: a remainder still   *)
(* there when the idle clock reaches period_finish is dropped.             *)
IdleRewardsRollForward ==
    [][clock' # clock /\ pool.total_staked = 0 =>
         \A i \in Slots : Registered(i) => StreamNow(i)' = StreamNow(i)]_vars

(* README: "Stakers accrue each reward pro-rata to their share of          *)
(* total_staked", so what a staker has accrued depends on the time the     *)
(* stakes were held and no instruction adds to it.  emergency_withdraw     *)
(* lowers total_staked without settling the slots, and the time since      *)
(* their last settlement is then divided among those who stay.             *)
AccruesOnlyWithTime ==
    [][clock' = clock =>
         \A o \in Owners, i \in Slots : Registered(i) =>
            EarnedNow(o, i)' <= EarnedNow(o, i)]_vars

(* README: "rewards are claimable any time".  A slot whose period_finish   *)
(* is so close to the largest timestamp that the idle roll overflows makes *)
(* update_reward fail for every slot, and claim with it.                   *)
ClaimableAnyTime ==
    \A o \in Owners :
        (\E i \in Slots : stakers[o].entries[i].rewards_accrued > 0)
            => MayClaim(o, RegisteredMints)

=============================================================================
