----------------------------- MODULE MMStaking -----------------------------
(***************************************************************************)
(* One staking pool of the mm-staking program: its Pool account, the       *)
(* StakerAccounts of its owners, its stake vault and its reward vaults.    *)
(*                                                                         *)
(* An instruction is one transaction and the runtime runs the transactions *)
(* that write one pool in some order, each to completion or not at all.    *)
(* So every instruction is one action; what makes it return an error is    *)
(* the negation of a guard, since an error leaves no trace.  An action     *)
(* stands for the accounts struct (the constraints Anchor checks), the     *)
(* handler, the function of logic.rs it calls and the SPL transfer.        *)
(*                                                                         *)
(* Tokens outside the vaults are one lot per mint: whoever signs a         *)
(* transfer may hold all of it.                                            *)
(***************************************************************************)
EXTENDS RewardUpdate, FiniteSets, Functions

CONSTANTS
    Owners,         \* wallets that stake
    Keys,           \* public keys that may be admin or keeper
    NoKey,          \* the key fields of a pool that does not exist
    MaxClock,       \* bound: last second the model reaches
    StakeSupply,    \* supply of the stake mint
    RewardSupply,   \* supply of every reward mint
    StakeAmounts,   \* bound: amounts passed to stake, unstake, SPL transfers
    RewardAmounts,  \* bound: amounts passed to deposit_rewards, SPL transfers
    Durations       \* bound: durations passed to the admin instructions

ASSUME PoolAssumption ==
    /\ IsFiniteSet(Owners)
    /\ NoKey \notin Keys
    /\ MaxClock \in Nat /\ MaxClock <= I64Max
    /\ StakeSupply \in Nat /\ StakeSupply <= U64Max
    /\ RewardSupply \in Nat /\ RewardSupply <= U64Max
    /\ StakeAmounts \subseteq Nat
    /\ RewardAmounts \subseteq Nat
    /\ Durations \subseteq Int /\ \A d \in Durations : d <= I64Max

VARIABLES
    clock,        \* Clock::unix_timestamp
    pool,         \* Pool without its slots
    rewards,      \* Pool.rewards
    stakers,      \* the StakerAccount of every owner
    stake_vault,  \* balance of the stake vault
    reward_vault  \* balance of the reward vault of every mint

vars == <<clock, pool, rewards, stakers, stake_vault, reward_vault>>

-----------------------------------------------------------------------------
(* Pool without its slots, and StakerAccount. *)

PoolType ==
    [created : BOOLEAN, admin : Keys \cup {NoKey}, keeper_authority : Keys \cup {NoKey},
     paused : BOOLEAN, total_staked : U64, default_duration : Timestamp,
     reward_count : 0 .. MAX_REWARDS]

StakerType ==
    [created : BOOLEAN, staked_amount : U64, entries : [Slots -> RewardEntryType]]

NoPool ==
    [created |-> FALSE, admin |-> NoKey, keeper_authority |-> NoKey, paused |-> FALSE,
     total_staked |-> 0, default_duration |-> 0, reward_count |-> 0]

NoStaker ==
    [created |-> FALSE, staked_amount |-> 0, entries |-> [i \in Slots |-> EmptyEntry]]

Registered(i) == rewards[i].mint # NoMint

Init ==
    /\ clock = 0
    /\ pool = NoPool
    /\ rewards = [i \in Slots |-> EmptySlot]
    /\ stakers = [o \in Owners |-> NoStaker]
    /\ stake_vault = 0
    /\ reward_vault = [m \in Mints |-> 0]

-----------------------------------------------------------------------------
(* update_reward at the current time: the slots as settled, an owner's     *)
(* entries as checkpointed against them, and what keeps it from failing.   *)
(* The mutant leaves the slots unsettled.                                  *)

UnsettledSlots == rewards

SettledSlots == UpdateSlots(rewards, pool.total_staked, clock)

SettleOk == UpdateSlotsOk(rewards, pool.total_staked, clock)

Checkpoint(o) ==
    UpdateEntries(stakers[o].entries, stakers[o].staked_amount, SettledSlots)

CheckpointOk(o) ==
    /\ SettleOk
    /\ UpdateEntriesOk(stakers[o].entries, stakers[o].staked_amount, SettledSlots)

-----------------------------------------------------------------------------
(* Admin instructions. *)

AdminSigned(signer) == pool.created /\ signer = pool.admin

NewPool(admin, keeper, default_duration) ==
    [created |-> TRUE, admin |-> admin, keeper_authority |-> keeper, paused |-> FALSE,
     total_staked |-> 0, default_duration |-> default_duration, reward_count |-> 0]

(* initialize_pool: the pool address is derived from the stake mint, so    *)
(* `init` succeeds once.                                                   *)
InitializePool(admin, keeper, default_duration) ==
    /\ ~pool.created
    /\ default_duration > 0
    /\ pool' = NewPool(admin, keeper, default_duration)
    /\ UNCHANGED <<clock, rewards, stakers, stake_vault, reward_vault>>

NewSlot(m, duration_arg) ==
    [mint |-> m, reward_rate |-> 0, reward_per_token_stored |-> 0,
     period_finish |-> 0, last_update_time |-> clock,
     duration |-> IF duration_arg > 0 THEN duration_arg ELSE pool.default_duration,
     active |-> TRUE]

(* add_reward: first free slot; the vault is a new, empty token account.   *)
(* The mutant reuses a slot that was deactivated when none is free.        *)
AddRewardReusing(signer, m, duration_arg) ==
    /\ AdminSigned(signer)
    /\ \A i \in Slots : rewards[i].mint # m
    /\ \E i \in Slots :
        /\ \/ IsFirstSlot(rewards, i, NoMint)
           \/ ~rewards[i].active /\ \A j \in Slots : Registered(j)
        /\ rewards' = [rewards EXCEPT ![i] = NewSlot(m, duration_arg)]
        /\ pool' = [pool EXCEPT !.reward_count = IF Registered(i) THEN @ ELSE @ + 1]
    /\ UNCHANGED <<clock, stakers, stake_vault, reward_vault>>

AddReward(signer, m, duration_arg) ==
    /\ AdminSigned(signer)
    /\ \A i \in Slots : rewards[i].mint # m
    /\ \E i \in Slots :
        /\ IsFirstSlot(rewards, i, NoMint)
        /\ rewards' = [rewards EXCEPT ![i] = NewSlot(m, duration_arg)]
    /\ pool' = [pool EXCEPT !.reward_count = @ + 1]
    /\ UNCHANGED <<clock, stakers, stake_vault, reward_vault>>

SetRewardActive(signer, i, active) ==
    /\ AdminSigned(signer)
    /\ Registered(i)
    /\ rewards' = [rewards EXCEPT ![i].active = active]
    /\ UNCHANGED <<clock, pool, stakers, stake_vault, reward_vault>>

SetDuration(signer, i, duration) ==
    /\ AdminSigned(signer)
    /\ duration > 0
    /\ Registered(i)
    /\ rewards' = [rewards EXCEPT ![i].duration = duration]
    /\ UNCHANGED <<clock, pool, stakers, stake_vault, reward_vault>>

SetPaused(signer, paused) ==
    /\ AdminSigned(signer)
    /\ pool' = [pool EXCEPT !.paused = paused]
    /\ UNCHANGED <<clock, rewards, stakers, stake_vault, reward_vault>>

SetKeeperAuthority(signer, keeper) ==
    /\ AdminSigned(signer)
    /\ pool' = [pool EXCEPT !.keeper_authority = keeper]
    /\ UNCHANGED <<clock, rewards, stakers, stake_vault, reward_vault>>

SetAdmin(signer, new_admin) ==
    /\ AdminSigned(signer)
    /\ pool' = [pool EXCEPT !.admin = new_admin]
    /\ UNCHANGED <<clock, rewards, stakers, stake_vault, reward_vault>>

-----------------------------------------------------------------------------
(* Keeper instruction.  The tokens arrive first; what the vault gained is  *)
(* what is streamed, over a whole new period, with the rest of the old one.*)

Restreamed(slot, received) ==
    [slot EXCEPT !.reward_rate = NotifyRate(received, slot.reward_rate, clock,
                                            slot.period_finish, slot.duration),
                 !.last_update_time = clock,
                 !.period_finish = clock + slot.duration]

RestreamOk(slot, received) ==
    /\ slot.active
    /\ NotifyRateOk(received, slot.reward_rate, clock, slot.period_finish, slot.duration)
    /\ clock + slot.duration <= I64Max

DepositRewards(signer, m, amount) ==
    LET received == (reward_vault[m] + amount) - reward_vault[m]
    IN  /\ pool.created /\ signer = pool.keeper_authority
        /\ amount > 0
        /\ amount <= RewardSupply - reward_vault[m]
        /\ SettleOk
        /\ \E i \in Slots :
            /\ IsFirstSlot(rewards, i, m)
            /\ RestreamOk(SettledSlots[i], received)
            /\ rewards' = [SettledSlots EXCEPT ![i] = Restreamed(SettledSlots[i], received)]
        /\ reward_vault' = [reward_vault EXCEPT ![m] = @ + amount]
        /\ UNCHANGED <<clock, pool, stakers, stake_vault>>

-----------------------------------------------------------------------------
(* Owner instructions.  MayStake, MayUnstake, MayClaim and                 *)
(* MayEmergencyWithdraw are the whole guards of their actions: the         *)
(* instruction succeeds exactly when they hold, and the rest of the action *)
(* assigns.                                                                *)

MayStake(o, amount) ==
    /\ pool.created
    /\ amount > 0
    /\ ~pool.paused
    /\ CheckpointOk(o)
    /\ stakers[o].staked_amount + amount <= U64Max
    /\ pool.total_staked + amount <= U64Max
    /\ amount <= StakeSupply - stake_vault

(* stake: creates the StakerAccount on first use. *)
Stake(o, amount) ==
    /\ MayStake(o, amount)
    /\ rewards' = SettledSlots
    /\ stakers' = [stakers EXCEPT ![o] =
         [created |-> TRUE, staked_amount |-> stakers[o].staked_amount + amount,
          entries |-> Checkpoint(o)]]
    /\ pool' = [pool EXCEPT !.total_staked = @ + amount]
    /\ stake_vault' = stake_vault + amount
    /\ UNCHANGED <<clock, reward_vault>>

(* unstake: not stopped by a pause.  `total_staked -= amount` is checked   *)
(* too: the release profile turns overflow checks on.  The mutants stop    *)
(* when the pool is paused, as stake does, and compare with the pool's     *)
(* total only.                                                             *)
MayUnstakeUnlessPaused(o, amount) ==
    /\ stakers[o].created
    /\ ~pool.paused
    /\ amount > 0
    /\ stakers[o].staked_amount >= amount
    /\ CheckpointOk(o)
    /\ pool.total_staked >= amount
    /\ stake_vault >= amount

MayUnstakeFromPool(o, amount) ==
    /\ stakers[o].created
    /\ amount > 0
    /\ CheckpointOk(o)
    /\ pool.total_staked >= amount
    /\ stake_vault >= amount

MayUnstake(o, amount) ==
    /\ stakers[o].created
    /\ amount > 0
    /\ stakers[o].staked_amount >= amount
    /\ CheckpointOk(o)
    /\ pool.total_staked >= amount
    /\ stake_vault >= amount

Unstake(o, amount) ==
    /\ MayUnstake(o, amount)
    /\ rewards' = SettledSlots
    /\ stakers' = [stakers EXCEPT ![o] =
         [created |-> TRUE, staked_amount |-> stakers[o].staked_amount - amount,
          entries |-> Checkpoint(o)]]
    /\ pool' = [pool EXCEPT !.total_staked = @ - amount]
    /\ stake_vault' = stake_vault - amount
    /\ UNCHANGED <<clock, reward_vault>>

(* claim of the reward vaults of the mints in S: what it takes out of each *)
(* vault, and the entries it leaves.  A vault listed twice, or with        *)
(* nothing accrued, pays nothing the second time.  The mutant pays what    *)
(* the first slot has accrued, whichever vault is listed.                  *)
PayoutFirst(o, m) == Checkpoint(o)[0].rewards_accrued

Payout(o, m) ==
    LET i == CHOOSE j \in Slots : IsFirstSlot(rewards, j, m)
    IN  Checkpoint(o)[i].rewards_accrued

TakeSlots(o, S) ==
    [i \in Slots |->
        IF \E m \in S : IsFirstSlot(rewards, i, m)
        THEN [Checkpoint(o)[i] EXCEPT !.rewards_accrued = 0]
        ELSE Checkpoint(o)[i]]

MayClaim(o, S) ==
    /\ stakers[o].created
    /\ CheckpointOk(o)
    /\ \A m \in S : \E i \in Slots : rewards[i].mint = m
    /\ \A m \in S : Payout(o, m) <= reward_vault[m]

Claim(o, S) ==
    /\ MayClaim(o, S)
    /\ rewards' = SettledSlots
    /\ stakers' = [stakers EXCEPT ![o].entries = TakeSlots(o, S)]
    /\ reward_vault' = [m \in Mints |-> IF m \in S THEN reward_vault[m] - Payout(o, m)
                                                   ELSE reward_vault[m]]
    /\ UNCHANGED <<clock, pool, stake_vault>>

(* emergency_withdraw: no update_reward.  The slots keep their             *)
(* last_update_time, and the stored reward-per-token is taken as paid.     *)
Forfeited ==
    [i \in Slots |-> [reward_per_token_paid |-> rewards[i].reward_per_token_stored,
                      rewards_accrued |-> 0]]

(* The mutant settles first, and fails when the settlement does. *)
MayEmergencyWithdrawSettled(o) ==
    /\ stakers[o].created
    /\ stakers[o].staked_amount > 0
    /\ CheckpointOk(o)
    /\ stake_vault >= stakers[o].staked_amount

MayEmergencyWithdraw(o) ==
    /\ stakers[o].created
    /\ stakers[o].staked_amount > 0
    /\ stake_vault >= stakers[o].staked_amount

EmergencyWithdraw(o) ==
    LET amount == stakers[o].staked_amount
    IN  /\ MayEmergencyWithdraw(o)
        /\ stakers' = [stakers EXCEPT ![o] = [created |-> TRUE, staked_amount |-> 0,
                                              entries |-> Forfeited]]
        /\ pool' = [pool EXCEPT !.total_staked = SaturatingSub(@, amount)]
        /\ stake_vault' = stake_vault - amount
        /\ UNCHANGED <<clock, rewards, reward_vault>>

-----------------------------------------------------------------------------
(* The environment: the Clock sysvar, which does not run backwards, and    *)
(* plain SPL transfers into a vault, which no instruction records.         *)

Tick ==
    /\ clock < MaxClock
    /\ clock' = clock + 1
    /\ UNCHANGED <<pool, rewards, stakers, stake_vault, reward_vault>>

DonateStake(amount) ==
    /\ pool.created
    /\ amount <= StakeSupply - stake_vault
    /\ stake_vault' = stake_vault + amount
    /\ UNCHANGED <<clock, pool, rewards, stakers, reward_vault>>

DonateReward(m, amount) ==
    /\ \E i \in Slots : rewards[i].mint = m
    /\ amount <= RewardSupply - reward_vault[m]
    /\ reward_vault' = [reward_vault EXCEPT ![m] = @ + amount]
    /\ UNCHANGED <<clock, pool, rewards, stakers, stake_vault>>

-----------------------------------------------------------------------------

SetUpStep(signer) ==
    \/ \E k \in Keys, d \in Durations : InitializePool(signer, k, d)
    \/ \E m \in Mints, d \in Durations : AddReward(signer, m, d)
    \/ \E i \in Slots, active \in BOOLEAN : SetRewardActive(signer, i, active)

AdminOnlyStep(signer) ==
    \/ \E i \in Slots, d \in Durations : SetDuration(signer, i, d)
    \/ \E paused \in BOOLEAN : SetPaused(signer, paused)
    \/ \E k \in Keys : SetKeeperAuthority(signer, k)
    \/ \E k \in Keys : SetAdmin(signer, k)

AdminStep(signer) == SetUpStep(signer) \/ AdminOnlyStep(signer)

KeeperStep(signer) ==
    \E m \in Mints, a \in RewardAmounts : DepositRewards(signer, m, a)

OwnerStep(o) ==
    \/ \E a \in StakeAmounts : Stake(o, a)
    \/ \E a \in StakeAmounts : Unstake(o, a)
    \/ \E S \in SUBSET Mints : Claim(o, S)
    \/ EmergencyWithdraw(o)

Donation ==
    \/ \E a \in StakeAmounts : DonateStake(a)
    \/ \E m \in Mints, a \in RewardAmounts : DonateReward(m, a)

Next ==
    \/ \E k \in Keys : AdminStep(k)
    \/ \E k \in Keys : KeeperStep(k)
    \/ \E o \in Owners : OwnerStep(o)
    \/ Donation
    \/ Tick

Spec == Init /\ [][Next]_vars
=============================================================================
