---------------------------- MODULE StakingMath ----------------------------
(***************************************************************************)
(* The pure arithmetic of math.rs.  Every function of that file returns a  *)
(* Result: the value is one operator here, and the condition under which   *)
(* the code returns Ok (no checked operation fails, no require! rejects)   *)
(* is a second one with the suffix Ok.  A handler propagates an Err with   *)
(* `?`, and the runtime rolls its transaction back, so an action that      *)
(* calls an operator has the Ok condition in its guard.                    *)
(*                                                                         *)
(* The widths of the Rust integer types are constants: TLC checks small    *)
(* ones, where the limits are met, and the theorems hold for every value.  *)
(***************************************************************************)
EXTENDS Integers

CONSTANTS
    PRECISION,  \* fixed-point scale of rates and of reward-per-token (1e12)
    U64Max,     \* largest token amount
    U128Max,    \* largest scaled intermediate
    I64Max      \* largest timestamp

ASSUME WidthAssumption ==
    /\ PRECISION \in Nat \ {0}
    /\ U64Max \in Nat
    /\ U128Max \in Nat
    /\ I64Max \in Nat

(* What the integer types hold; no timestamp of the program is negative. *)
U64 == 0 .. U64Max
U128 == 0 .. U128Max
Timestamp == 0 .. I64Max

(* The smaller of two timestamps (core::cmp::min). *)
MinOf(a, b) == IF a <= b THEN a ELSE b

(* u64::saturating_sub, and its mutant with the operands swapped. *)
SwappedSub(a, b) == IF b >= a THEN b - a ELSE 0

SaturatingSub(a, b) == IF a >= b THEN a - b ELSE 0

-----------------------------------------------------------------------------
(* accrue_rpt: reward-per-token after elapsed seconds at a scaled rate.    *)
(* The mutants trust that seconds never are negative, and round up.        *)

AccrueRptRoundedUp(rpt_stored, elapsed_secs, reward_rate, total_staked) ==
    IF total_staked = 0 \/ elapsed_secs <= 0
    THEN rpt_stored
    ELSE rpt_stored
         + ((elapsed_secs * reward_rate + total_staked - 1) \div total_staked)

AccrueRptTrusting(rpt_stored, elapsed_secs, reward_rate, total_staked) ==
    IF total_staked = 0
    THEN rpt_stored
    ELSE rpt_stored + ((elapsed_secs * reward_rate) \div total_staked)

AccrueRpt(rpt_stored, elapsed_secs, reward_rate, total_staked) ==
    IF total_staked = 0 \/ elapsed_secs <= 0
    THEN rpt_stored
    ELSE rpt_stored + ((elapsed_secs * reward_rate) \div total_staked)

AccrueRptOk(rpt_stored, elapsed_secs, reward_rate, total_staked) ==
    total_staked > 0 /\ elapsed_secs > 0 =>
        /\ elapsed_secs * reward_rate <= U128Max
        /\ AccrueRpt(rpt_stored, elapsed_secs, reward_rate, total_staked) <= U128Max

-----------------------------------------------------------------------------
(* earned: a staker's accrued tokens, rounded down towards the vault; the  *)
(* mutant rounds up.                                                       *)

EarnedRoundedUp(staked_amount, rpt, rpt_paid, rewards_accrued) ==
    rewards_accrued + ((staked_amount * (rpt - rpt_paid) + PRECISION - 1) \div PRECISION)

Earned(staked_amount, rpt, rpt_paid, rewards_accrued) ==
    rewards_accrued + ((staked_amount * (rpt - rpt_paid)) \div PRECISION)

EarnedOk(staked_amount, rpt, rpt_paid, rewards_accrued) ==
    /\ rpt_paid <= rpt
    /\ staked_amount * (rpt - rpt_paid) <= U128Max
    /\ Earned(staked_amount, rpt, rpt_paid, rewards_accrued) <= U64Max

-----------------------------------------------------------------------------
(* notify_rate: the scaled rate after a deposit, which folds in what the   *)
(* current period has not streamed yet.  The mutants forget the leftover,  *)
(* take one of a period that is over, and round the rate up.               *)

LeftoverUnguarded(current_rate, now, period_finish) ==
    (IF now < period_finish THEN period_finish - now ELSE now - period_finish)
    * current_rate

LeftoverForgotten(current_rate, now, period_finish) == 0

Leftover(current_rate, now, period_finish) ==
    IF now < period_finish THEN (period_finish - now) * current_rate ELSE 0

NotifyRateRoundedUp(amount, current_rate, now, period_finish, duration) ==
    (amount * PRECISION + Leftover(current_rate, now, period_finish) + duration - 1)
        \div duration

NotifyRate(amount, current_rate, now, period_finish, duration) ==
    (amount * PRECISION + Leftover(current_rate, now, period_finish)) \div duration

NotifyRateOk(amount, current_rate, now, period_finish, duration) ==
    /\ duration > 0
    /\ amount * PRECISION + Leftover(current_rate, now, period_finish) <= U128Max

=============================================================================
