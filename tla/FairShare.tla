----------------------------- MODULE FairShare -----------------------------
(***************************************************************************)
(* The staking pool beside an account, kept with fractions, of what every  *)
(* owner should get: second by second, the slot's rate divided pro-rata    *)
(* among the stakes of that very second (README: "Stakers accrue each      *)
(* reward pro-rata to their share of total_staked").  The program never    *)
(* looks at a second by itself: it divides the whole time since the last   *)
(* settlement, rounds three times, and relies on settling before every     *)
(* change of a stake or a rate.                                            *)
(*                                                                         *)
(* emergency_withdraw is the exception: it does not settle, and the leaver *)
(* forfeits.  What the leaver would have had of the seconds that nobody    *)
(* has settled yet is then divided among those who stay, so the account    *)
(* hands it to them, pro-rata.  Nothing else ever moves between owners.    *)
(*                                                                         *)
(* fair is a history variable: it is in no guard, every step of MMStaking  *)
(* is a step here, and the account follows from the rates, the stakes and  *)
(* the clock alone, never from what the program has credited.              *)
(***************************************************************************)
EXTENDS StakingProperties

CONSTANT SharesPerUnit  \* a scaled token in fractions, fine enough to divide it
                        \* by a total, and a part of it by what is left of the total

ASSUME ShareAssumption ==
    /\ SharesPerUnit \in Nat
    /\ \A total \in 1 .. StakeSupply : SharesPerUnit % total = 0
    /\ \A total, rest \in 1 .. StakeSupply :
          rest < total => SharesPerUnit % (total * rest) = 0

VARIABLE fair   \* fair[o][i]: what o should be owed in slot i, in fractions

fairVars == <<vars, fair>>

FairInit == Init /\ fair = [o \in Owners |-> [i \in Slots |-> 0]]

(* The share of a stake in seconds of slot i at its rate. *)
Share(o, i, seconds) ==
    seconds * rewards[i].reward_rate * stakers[o].staked_amount
    * (SharesPerUnit \div pool.total_staked)

Streaming(i) == pool.total_staked > 0 /\ clock < rewards[i].period_finish

FairTick ==
    /\ Tick
    /\ fair' = [o \in Owners |-> [i \in Slots |->
         IF Streaming(i) THEN fair[o][i] + Share(o, i, 1) ELSE fair[o][i]]]

FairClaim(o, S) ==
    /\ Claim(o, S)
    /\ fair' = [fair EXCEPT ![o] = [i \in Slots |->
         IF Registered(i) /\ rewards[i].mint \in S
         THEN @[i] - Payout(o, rewards[i].mint) * PRECISION * SharesPerUnit
         ELSE @[i]]]

(* The leaver forfeits.  The exact share of the leaver in the seconds of a *)
(* slot since its last settlement goes to those who stay, by their stakes. *)
SecondsUnsettled(i) ==
    SaturatingSub(MinOf(clock, rewards[i].period_finish), rewards[i].last_update_time)

Inherited(o, i, leaver) ==
    LET rest == pool.total_staked - stakers[leaver].staked_amount
    IN  IF rest > 0
        THEN (Share(leaver, i, SecondsUnsettled(i)) * stakers[o].staked_amount) \div rest
        ELSE 0

FairEmergency(o) ==
    /\ EmergencyWithdraw(o)
    /\ fair' = [p \in Owners |-> [i \in Slots |->
         IF p = o THEN 0 ELSE fair[p][i] + Inherited(p, i, o)]]

FairOther ==
    /\ \/ \E k \in Keys : AdminStep(k) \/ KeeperStep(k)
       \/ \E o \in Owners, a \in StakeAmounts : Stake(o, a) \/ Unstake(o, a)
       \/ Donation
    /\ UNCHANGED fair

FairNext ==
    \/ FairTick
    \/ \E o \in Owners, S \in SUBSET Mints : FairClaim(o, S)
    \/ \E o \in Owners : FairEmergency(o)
    \/ FairOther

FairSpec == FairInit /\ [][FairNext]_fairVars

-----------------------------------------------------------------------------

(* Nobody is ever owed more than the exact share and what leavers have     *)
(* left: no time before a stake arrived, after it left, past the end of a  *)
(* period or at another rate is counted, an emergency withdrawal hands out *)
(* the leaver's unsettled seconds and no more, and rounding never adds up  *)
(* in an owner's favour, however the calls of others cut the time.         *)
NeverAboveShare ==
    \A o \in Owners, i \in Slots :
        Registered(i) => OwedNow(o, i) * SharesPerUnit <= fair[o][i]

ShareMissing(o, i) == fair[o][i] - OwedNow(o, i) * SharesPerUnit

(* And nobody loses more than rounding: a step widens the distance to the  *)
(* exact share by less than one unit of reward-per-token on the stake      *)
(* (time, and an emergency withdrawal, which divides by another total) or  *)
(* less than one token (the owner's own checkpoint).  Nothing else that    *)
(* others, the admin or the keeper do widens it.                           *)
ShortByRounding ==
    [][\A o \in Owners, i \in Slots : Registered(i) =>
          LET more == ShareMissing(o, i)' - ShareMissing(o, i)
          IN  \/ more <= 0
              \/ /\ clock' # clock \/ \E p \in Owners \ {o} : EmergencyWithdraw(p)
                 /\ more < stakers[o].staked_amount * SharesPerUnit
              \/ stakers'[o] # stakers[o] /\ more < PRECISION * SharesPerUnit]_fairVars

=============================================================================
