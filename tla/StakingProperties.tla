------------------------- MODULE StakingProperties -------------------------
(***************************************************************************)
(* What the staking pool promises, over the state of MMStaking.            *)
(*                                                                         *)
(* Reward amounts are compared in the scaled unit of the program: a token  *)
(* is PRECISION scaled tokens, a slot's reward_rate is scaled tokens per   *)
(* second and a stake of s earns s for each unit of reward-per-token.      *)
(***************************************************************************)
EXTENDS MMStaking

TypeOK ==
    /\ clock \in 0 .. MaxClock
    /\ pool \in PoolType
    /\ rewards \in [Slots -> RewardInfoType]
    /\ stakers \in [Owners -> StakerType]
    /\ stake_vault \in 0 .. StakeSupply
    /\ reward_vault \in [Mints -> 0 .. RewardSupply]

-----------------------------------------------------------------------------
(* Principal. *)

Principal == SumFunction([o \in Owners |-> stakers[o].staked_amount])

(* The pool's total is the sum of the stakers' principals, and the stake   *)
(* vault holds at least that: whatever the order of stake, unstake and     *)
(* emergency_withdraw calls, everybody can be paid back.  The two          *)
(* accounts are updated separately, once with a saturating subtraction.    *)
PrincipalSolvent ==
    /\ pool.total_staked = Principal
    /\ stake_vault >= pool.total_staked

-----------------------------------------------------------------------------
(* Rewards. *)

(* What the accounts record as owed to an owner in slot i, scaled, and     *)
(* what the slot still has to stream after its last settlement.            *)
OwedStored(o, i) ==
    stakers[o].entries[i].rewards_accrued * PRECISION
    + stakers[o].staked_amount
      * (rewards[i].reward_per_token_stored - stakers[o].entries[i].reward_per_token_paid)

StreamOf(slot, from) ==
    IF from < slot.period_finish THEN slot.reward_rate * (slot.period_finish - from) ELSE 0

(* Every reward vault holds all that its slot owes to all stakers together *)
(* plus all that the slot still promises to stream.  Rounding, leftovers   *)
(* folded into a new rate, idle time and forfeits only ever favour the     *)
(* vault (README: "rounding always favors the vault").                     *)
RewardSolvent ==
    \A i \in Slots : Registered(i) =>
        reward_vault[rewards[i].mint] * PRECISION >=
            SumFunction([o \in Owners |-> OwedStored(o, i)])
            + StreamOf(rewards[i], rewards[i].last_update_time)

(* Reward-per-token, period and earnings as a settlement at the present    *)
(* time would leave them: EarnedNow is what a claim would pay.             *)
RptNow(i) == RewardPerToken(rewards[i], pool.total_staked, clock)

EarnedNow(o, i) ==
    Earned(stakers[o].staked_amount, RptNow(i),
           stakers[o].entries[i].reward_per_token_paid,
           stakers[o].entries[i].rewards_accrued)

OwedNow(o, i) ==
    stakers[o].entries[i].rewards_accrued * PRECISION
    + stakers[o].staked_amount * (RptNow(i) - stakers[o].entries[i].reward_per_token_paid)

StreamNow(i) ==
    StreamOf(SettleSlot(rewards[i], pool.total_staked, clock), clock)

(* No step lowers what an owner could claim from a slot, except that       *)
(* owner's own claim or emergency withdrawal: not the passing of time, not *)
(* another owner's stake or exit, not a deposit or an admin instruction.   *)
EarnedNeverTaken ==
    [][\A o \in Owners, i \in Slots :
         Registered(i) =>
            \/ EarnedNow(o, i)' >= EarnedNow(o, i)
            \/ \E S \in SUBSET Mints : rewards[i].mint \in S /\ Claim(o, S)
            \/ EmergencyWithdraw(o)]_vars

(* Within one instant nobody gains: the tokens a step takes out of a       *)
(* reward vault are exactly what the owners' earnings drop by, so staking  *)
(* next to a deposit, repeated claims and partial claims yield nothing     *)
(* extra.  Only time, and an emergency withdrawal, change the earnings     *)
(* without a payment.                                                      *)
PaidIsEarned ==
    [][clock' = clock /\ (\A o \in Owners : ~EmergencyWithdraw(o)) =>
         \A i \in Slots : Registered(i) =>
            LET m == rewards[i].mint
            IN  SumFunction([o \in Owners |-> EarnedNow(o, i)])
                - SumFunction([o \in Owners |-> EarnedNow(o, i)'])
                = SaturatingSub(reward_vault[m], reward_vault'[m])]_vars

(* Scaled tokens of a vault that are neither owed nor to be streamed.      *)
Stranded(i) ==
    reward_vault[rewards[i].mint] * PRECISION
    - SumFunction([o \in Owners |-> OwedNow(o, i)]) - StreamNow(i)

(* Time passes the end of a period while nobody stakes. *)
IdleExpiry(i) == pool.total_staked = 0 /\ clock' >= rewards[i].period_finish

(* Rewards reach the stakers: a step strands less than one reward-per-token*)
(* unit (time), less than one scaled token per second of the period        *)
(* (deposit) or less than one token (checkpoint).  The exceptions are the  *)
(* ones the program has: a forfeit, a transfer from outside, a period that *)
(* ends while nobody stakes.                                               *)
StrandedOnlyDust ==
    [][(\A o \in Owners : ~EmergencyWithdraw(o)) /\ ~Donation =>
         \A i \in Slots : Registered(i) =>
            LET dust == CASE clock' # clock -> pool.total_staked
                          [] clock' = clock /\ reward_vault'[rewards[i].mint]
                                                > reward_vault[rewards[i].mint]
                               -> rewards[i].duration
                          [] OTHER -> PRECISION
            IN  \/ Stranded(i)' - Stranded(i) <= SaturatingSub(dust, 1)
                \/ clock' # clock /\ IdleExpiry(i)]_vars

-----------------------------------------------------------------------------
(* Exits. *)

RegisteredMints == {rewards[i].mint : i \in Slots} \ {NoMint}

(* A staker can always leave with the whole principal and can always claim *)
(* every reward, paused or not: the settlement never fails, the totals     *)
(* never underflow and the vaults can always pay (README: "Principal is    *)
(* always exitable (even when paused)", "rewards are claimable any time"). *)
ExitNeverBlocked ==
    \A o \in Owners : stakers[o].created =>
        /\ MayClaim(o, RegisteredMints)
        /\ stakers[o].staked_amount > 0 => MayUnstake(o, stakers[o].staked_amount)

(* emergency_withdraw returns the principal in every state, also when the  *)
(* settlement fails (emergency_withdraw.rs: "must work even if reward math *)
(* is broken").                                                            *)
EmergencyAlwaysWorks ==
    \A o \in Owners : stakers[o].staked_amount > 0 => MayEmergencyWithdraw(o)

-----------------------------------------------------------------------------
(* The slot table: the registered slots are the first reward_count ones    *)
(* and hold distinct mints, as a mint's deposits and claims go to the      *)
(* first slot that matches.  Empty slots, and the entries paired with      *)
(* them, are zero, although emergency_withdraw writes all the entries and  *)
(* every other owner instruction checkpoints them.                         *)
SlotTable ==
    /\ \A i \in Slots : Registered(i) <=> i < pool.reward_count
    /\ \A i \in Slots : ~Registered(i) => rewards[i] = EmptySlot
    /\ \A i, j \in Slots : Registered(i) /\ rewards[i].mint = rewards[j].mint => i = j
    /\ \A o \in Owners, i \in Slots :
          ~Registered(i) => stakers[o].entries[i] = EmptyEntry

(* A slot keeps its mint for good: no instruction takes it out, and no     *)
(* add_reward moves another one in, so that the index which pairs a slot   *)
(* with the entries of a StakerAccount always means the same mint.  And a  *)
(* mint that moves into an empty slot owes nobody anything: not those who  *)
(* staked before it came, nor those who have left by emergency_withdraw.   *)
SlotKeepsMint ==
    [][\A i \in Slots :
         IF Registered(i)
         THEN rewards'[i].mint = rewards[i].mint
         ELSE rewards'[i].mint # NoMint => \A o \in Owners : EarnedNow(o, i)' = 0]_vars

=============================================================================
