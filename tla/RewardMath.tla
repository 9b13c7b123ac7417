----------------------------- MODULE RewardMath -----------------------------
(***************************************************************************)
(* The functions of math.rs by themselves: what they return when the same  *)
(* seconds, or the same tokens, reach them in two calls instead of one.    *)
(* Anybody can call an instruction at any time, so how time and tokens are *)
(* cut into calls is not the program's to choose; it must not matter by    *)
(* more than one unit, in the vault's favour, nor decide whether the       *)
(* arithmetic overflows.  And what a deposit promises must come out at the *)
(* other end of the three functions.                                       *)
(*                                                                         *)
(* The variable holds the arguments; it runs through all small ones.       *)
(***************************************************************************)
EXTENDS StakingMath

CONSTANT MaxInput   \* bound: largest argument

ASSUME InputAssumption == MaxInput \in Nat

VARIABLE input

(* Seconds and reward-per-token in two parts, a deposit in two parts, and  *)
(* the rest of the arguments.                                              *)
Inputs == {"part1", "part2", "stored", "rate", "staked", "now", "finish", "duration"}

MathInit == input = [n \in Inputs |-> 0]

MathNext ==
    \E n \in Inputs :
        /\ input[n] < MaxInput
        /\ input' = [input EXCEPT ![n] = @ + 1]

MathSpec == MathInit /\ [][MathNext]_input

-----------------------------------------------------------------------------

(* What two calls return against what one call returns: a quotient of the  *)
(* sum may be one more than the sum of the quotients, and no more.         *)
LosesAtMostOne(twice, once) == twice <= once /\ once <= twice + 1

(* accrue_rpt over seconds s1 and then s2. *)
AccrualSplits(rpt, s1, s2, rate, total) ==
    LET between == AccrueRpt(rpt, s1, rate, total)
    IN  AccrueRptOk(rpt, s1 + s2, rate, total) =>
            /\ AccrueRptOk(rpt, s1, rate, total)
            /\ AccrueRptOk(between, s2, rate, total)
            /\ LosesAtMostOne(AccrueRpt(between, s2, rate, total),
                                AccrueRpt(rpt, s1 + s2, rate, total))

(* earned up to reward-per-token paid + g1, and then up to paid + g1 + g2. *)
CheckpointSplits(staked, paid, g1, g2, accrued) ==
    LET between == Earned(staked, paid + g1, paid, accrued)
    IN  EarnedOk(staked, paid + g1 + g2, paid, accrued) =>
            /\ EarnedOk(staked, paid + g1, paid, accrued)
            /\ EarnedOk(staked, paid + g1 + g2, paid + g1, between)
            /\ LosesAtMostOne(Earned(staked, paid + g1 + g2, paid + g1, between),
                                Earned(staked, paid + g1 + g2, paid, accrued))

(* notify_rate of a1 and, in the same second, of a2 tokens. *)
DepositSplits(a1, a2, rate, now, finish, duration) ==
    NotifyRateOk(a1 + a2, rate, now, finish, duration) =>
        LET between == NotifyRate(a1, rate, now, finish, duration)
        IN  /\ NotifyRateOk(a1, rate, now, finish, duration)
            /\ NotifyRateOk(a2, between, now, now + duration, duration)
            /\ LosesAtMostOne(NotifyRate(a2, between, now, now + duration, duration),
                                NotifyRate(a1 + a2, rate, now, finish, duration))

(* A deposit into a period, streamed to the end of the new one, settled    *)
(* once and claimed by a staker of the whole total: the promise is the     *)
(* deposit and what the old rate would still have streamed.                *)
DepositPays(amount, rate, now, finish, duration, total) ==
    LET promise  == amount * PRECISION + rate * SaturatingSub(finish, now)
        new_rate == NotifyRate(amount, rate, now, finish, duration)
        rpt      == AccrueRpt(0, duration, new_rate, total)
        paid     == Earned(total, rpt, 0, 0) * PRECISION
    IN  NotifyRateOk(amount, rate, now, finish, duration) /\ total > 0 =>
            /\ AccrueRptOk(0, duration, new_rate, total)
            /\ promise <= U64Max * PRECISION => EarnedOk(total, rpt, 0, 0)
            /\ paid <= promise
            /\ promise - paid <= (duration - 1) + (total - 1) + (PRECISION - 1)

-----------------------------------------------------------------------------

(* Settling a slot twice instead of once adds nothing to reward-per-token, *)
(* loses at most one unit and overflows no sooner (accrue_rpt).            *)
SplitAccrual ==
    AccrualSplits(input["stored"], input["part1"], input["part2"], input["rate"],
                  input["staked"])

(* The same of a staker's checkpoints: claiming or staking in between      *)
(* costs at most one token and gains none (earned).                        *)
SplitCheckpoint ==
    CheckpointSplits(input["staked"], input["stored"], input["part1"], input["part2"],
                     input["rate"])

(* The same of deposits: the rate of two is at most one unit lower         *)
(* (notify_rate, with the leftover of the period the first has started).   *)
SplitDeposit ==
    DepositSplits(input["part1"], input["part2"], input["rate"], input["now"],
                  input["finish"], input["duration"])

(* What a deposit promises comes out: the three divisions a token passes   *)
(* on its way from deposit_rewards to claim (notify_rate by the duration,  *)
(* accrue_rpt by the total, earned by PRECISION) never pay more than the   *)
(* deposit and the rest of the old period, lose together no more than one  *)
(* remainder of each, and none of them overflows once the deposit is in.   *)
DepositStreamsOut ==
    DepositPays(input["part1"], input["rate"], input["now"], input["finish"],
                input["duration"], input["staked"])

=============================================================================
