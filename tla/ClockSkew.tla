----------------------------- MODULE ClockSkew -----------------------------
(***************************************************************************)
(* The staking pool under a clock that may also step back.  The program    *)
(* takes Clock::unix_timestamp as it comes; it does not refuse a time      *)
(* before last_update_time but credits nothing for it (`applicable >       *)
(* slot.last_update_time`, `elapsed_secs <= 0`) and then puts              *)
(* last_update_time back, so that the same seconds count again later.      *)
(* Rewards are therefore not covered here: replayed says how much a slot   *)
(* may be short of.  Principal must not notice.                            *)
(*                                                                         *)
(* replayed is a history variable: it is in no guard.                      *)
(***************************************************************************)
EXTENDS StakingProperties

CONSTANTS
    MaxStepBack,   \* bound: seconds the clock goes back at once
    MaxSkews       \* bound: times it does so

ASSUME SkewAssumption == MaxStepBack \in Nat /\ MaxSkews \in Nat

VARIABLES
    skews,      \* times the clock has stepped back
    replayed    \* replayed[i]: what slot i streams in the seconds that repeat, scaled

skewVars == <<vars, skews, replayed>>

SkewInit == Init /\ skews = 0 /\ replayed = [i \in Slots |-> 0]

StepBack(seconds) ==
    /\ skews < MaxSkews
    /\ seconds <= clock
    /\ skews' = skews + 1
    /\ clock' = clock - seconds
    /\ replayed' = [i \in Slots |-> replayed[i] + StreamOf(rewards[i], clock')
                                                - StreamOf(rewards[i], clock)]
    /\ UNCHANGED <<pool, rewards, stakers, stake_vault, reward_vault>>

SkewNext ==
    \/ Next /\ UNCHANGED <<skews, replayed>>
    \/ \E s \in 1 .. MaxStepBack : StepBack(s)

SkewSpec == SkewInit /\ [][SkewNext]_skewVars

(* Every staker gets the whole principal out through unstake, not only     *)
(* through emergency_withdraw, whatever the clock has done.                *)
PrincipalExits ==
    \A o \in Owners :
        stakers[o].staked_amount > 0 => MayUnstake(o, stakers[o].staked_amount)

(* A step back costs a reward vault at most what the slot streams in the   *)
(* seconds that repeat, at the rate and up to the end of the period of     *)
(* that moment, however often and far the clock steps back and whatever is *)
(* staked, claimed, deposited and settled in between (update.rs: a time    *)
(* before last_update_time credits nothing, but becomes last_update_time). *)
ShortByReplay ==
    \A i \in Slots : Registered(i) =>
        reward_vault[rewards[i].mint] * PRECISION + replayed[i] >=
            SumFunction([o \in Owners |-> OwedStored(o, i)])
            + StreamOf(rewards[i], MinOf(rewards[i].last_update_time, clock))

=============================================================================
