----------------------------- MODULE ExitProofs -----------------------------
(***************************************************************************)
(* Everybody can leave, for every value of the constants: an emergency     *)
(* withdrawal always succeeds; unstake and claim always succeed when the   *)
(* integer types are wide enough for the supplies and for the time the     *)
(* pool runs.  With a clock that steps back, a reward vault is short of    *)
(* what the repeated seconds stream and of no more, so that unstake still  *)
(* always succeeds when the types are wide enough for that too.            *)
(***************************************************************************)
EXTENDS ClockSkew, EarnedProofs

-----------------------------------------------------------------------------
(* An owner without a StakerAccount has no stake. *)

Started == \A o \in Owners : ~stakers[o].created => stakers[o] = NoStaker

ExitInv == TableInv /\ PrincipalSolvent /\ Started

LEMMA StepStarted ==
    ASSUME TypeOK, Started, [Next]_vars
    PROVE  Started'
<1>a. stakers \in [Owners -> StakerType]
  BY DEF TypeOK
<1>1. ASSUME NEW o \in Owners, OwnerStep(o) PROVE Started'
  <2>1. stakers[o].created \/ stakers'[o].created
    BY <1>a, <1>1 DEF OwnerStep, Stake, Unstake, MayUnstake, Claim, MayClaim,
                      EmergencyWithdraw, StakerType
  <2>2. stakers'[o].created
    BY <1>a, <1>1, <2>1 DEF OwnerStep, Stake, Unstake, Claim, EmergencyWithdraw, StakerType
  <2>3. \A p \in Owners : p # o => stakers'[p] = stakers[p]
    BY <1>a, <1>1 DEF OwnerStep, Stake, Unstake, Claim, EmergencyWithdraw
  <2> QED BY <2>2, <2>3 DEF Started
<1>2. CASE stakers' = stakers
  BY <1>2 DEF Started
<1> QED BY <1>1, <1>2
        DEF Next, AdminStep, SetUpStep, AdminOnlyStep, KeeperStep, Donation, Tick, InitializePool, AddReward,
            SetRewardActive, SetDuration, SetPaused, SetKeeperAuthority, SetAdmin,
            DepositRewards, DonateStake, DonateReward, vars

LEMMA StakeCovered ==
    ASSUME TypeOK, PrincipalSolvent, NEW o \in Owners
    PROVE  /\ stakers[o].staked_amount \in Nat
           /\ stakers[o].staked_amount <= pool.total_staked
           /\ stakers[o].staked_amount <= stake_vault
<1>1. stakers[o].staked_amount \in Nat
  BY StakeOfType DEF StakeOf
<1>2. stakers[o].staked_amount <= pool.total_staked
  BY StakeOfType DEF PrincipalSolvent
<1> QED BY <1>1, <1>2, PoolNats DEF PrincipalSolvent

LEMMA EmergencyWorks == ExitInv => EmergencyAlwaysWorks
BY StakeCovered DEF ExitInv, TableInv, Started, NoStaker, EmergencyAlwaysWorks,
                    MayEmergencyWithdraw

LEMMA InitExit == Init => ExitInv
<1>1. Init => Started
  BY DEF Init, Started
<1> QED BY <1>1, InitTableInv, InitPrincipal DEF ExitInv

LEMMA StepExit == ExitInv /\ [Next]_vars => ExitInv'
BY StepTableInv, StepPrincipal, StepStarted DEF ExitInv, TableInv

(* Whoever has a stake can withdraw it in an emergency, whatever the       *)
(* state: paused, settled or not, and with a settlement that fails.        *)
THEOREM EmergencyWorksAlways == Spec => []EmergencyAlwaysWorks
BY InitExit, StepExit, EmergencyWorks, PTL DEF Spec

-----------------------------------------------------------------------------
(* A clock that steps back moves nothing else. *)

LEMMA StepBackKeeps ==
    ASSUME TableInv, PrincipalSolvent, NEW s \in 1 .. MaxStepBack, StepBack(s)
    PROVE  /\ TableInv' /\ PrincipalSolvent'
           /\ pool' = pool /\ rewards' = rewards /\ stakers' = stakers
           /\ reward_vault' = reward_vault
           /\ clock' \in Nat /\ clock' <= clock /\ clock - clock' = s
<1>1. /\ pool' = pool /\ rewards' = rewards /\ stakers' = stakers
      /\ stake_vault' = stake_vault /\ reward_vault' = reward_vault
  BY DEF StepBack
<1>2. /\ clock' \in 0 .. MaxClock /\ clock' \in Nat /\ clock' <= clock /\ clock - clock' = s
  BY SkewAssumption, PoolAssumption DEF StepBack, TableInv, TypeOK
<1>3. TypeOK'
  BY <1>1, <1>2 DEF TableInv, TypeOK
<1>4. SlotTable' /\ Fresh'
  BY <1>1 DEF TableInv, SlotTable, Fresh, Registered
<1>5. PrincipalSolvent'
  BY <1>1, PrincipalStays DEF PrincipalSolvent
<1> QED BY <1>1, <1>2, <1>3, <1>4, <1>5 DEF TableInv

LEMMA SkewStep == ExitInv /\ [SkewNext]_skewVars => ExitInv'
<1>1. ASSUME ExitInv, NEW s \in 1 .. MaxStepBack, StepBack(s) PROVE ExitInv'
  BY <1>1, StepBackKeeps DEF ExitInv, Started
<1> QED BY <1>1, StepExit DEF SkewNext, skewVars

LEMMA SkewExit == SkewSpec => []ExitInv
BY InitExit, SkewStep, PTL DEF SkewSpec, SkewInit

(* The stake vault covers the stakes, and total_staked is their sum, also  *)
(* when the clock steps back, however far and often.                       *)
THEOREM PrincipalSurvivesSkew == SkewSpec => []PrincipalSolvent
<1>1. ExitInv => PrincipalSolvent
  BY DEF ExitInv
<1> QED BY <1>1, SkewExit, PTL

(* And the emergency withdrawal still works.                               *)
THEOREM EmergencySurvivesSkew == SkewSpec => []EmergencyAlwaysWorks
BY EmergencyWorks, SkewExit, PTL

-----------------------------------------------------------------------------
(* What a step back costs a reward vault. *)

(* The stream that a step back from c to d brings back, of a slot that may *)
(* have been settled at any time, is within what the seconds from d to c   *)
(* stream, and that is within the rate for each of them.                   *)
LEMMA BackStream ==
    ASSUME NEW slot \in RewardInfoType, NEW c \in Nat, NEW d \in Nat, d <= c
    PROVE  LET back == StreamOf(slot, d) - StreamOf(slot, c)
           IN  /\ back \in Nat
               /\ back <= slot.reward_rate * (c - d)
               /\ StreamOf(slot, MinOf(slot.last_update_time, c)) \in Nat
               /\ StreamOf(slot, MinOf(slot.last_update_time, d)) \in Nat
               /\ StreamOf(slot, MinOf(slot.last_update_time, d))
                     <= StreamOf(slot, MinOf(slot.last_update_time, c)) + back
<1> DEFINE last == slot.last_update_time
           rate == slot.reward_rate
           finish == slot.period_finish
           C == StreamOf(slot, c)
           D == StreamOf(slot, d)
           L == StreamOf(slot, last)
<1>1. last \in Nat /\ rate \in Nat /\ finish \in Nat
  BY SlotNats
<1>2. C \in Nat /\ D \in Nat /\ L \in Nat /\ C <= D
  BY <1>1, StreamShrinks
<1>3. last <= c => C <= L
  BY <1>1, StreamShrinks
<1>4. D - C <= rate * (c - d)
  <2>1. CASE c < finish
    <3>1. finish - d = (finish - c) + (c - d)
      BY <1>1, <2>1
    <3>2. rate * (finish - d) = rate * (finish - c) + rate * (c - d)
      BY <1>1, <3>1, MulSplit
    <3>3. D = rate * (finish - d) /\ C = rate * (finish - c)
      BY <1>1, <2>1 DEF StreamOf
    <3>4. rate * (finish - c) \in Int /\ rate * (c - d) \in Int
      BY <1>1
    <3> QED BY <3>2, <3>3, <3>4
  <2>2. CASE ~(c < finish) /\ d < finish
    <3>1. finish - d \in Nat /\ c - d \in Nat /\ finish - d <= c - d
      BY <1>1, <2>2
    <3>2. rate * (finish - d) <= rate * (c - d)
      BY <1>1, <3>1, MulMonotone
    <3>3. D = rate * (finish - d) /\ C = 0
      BY <1>1, <2>2 DEF StreamOf
    <3>4. D - C = D
      BY <1>2, <3>3
    <3> QED BY <3>2, <3>3, <3>4
  <2>3. CASE ~(c < finish) /\ ~(d < finish)
    <3>1. D = 0 /\ C = 0
      BY <2>3 DEF StreamOf
    <3>2. rate * (c - d) \in Nat
      BY <1>1, MulType
    <3> QED BY <3>1, <3>2
  <2> QED BY <2>1, <2>2, <2>3
<1>5. D - C \in Nat
  BY <1>2
<1> HIDE DEF C, D, L
<1>6. CASE last <= d
  <2>1. MinOf(last, c) = last /\ MinOf(last, d) = last
    BY <1>1, <1>6 DEF MinOf
  <2>2. L <= L + (D - C)
    BY <1>2, <1>5
  <2> QED BY <1>2, <1>4, <1>5, <2>1, <2>2 DEF C, D, L
<1>7. CASE d < last /\ last <= c
  <2>1. MinOf(last, c) = last /\ MinOf(last, d) = d
    BY <1>1, <1>7 DEF MinOf
  <2>2. D <= L + (D - C)
    BY <1>2, <1>3, <1>5, <1>7
  <2> QED BY <1>2, <1>4, <1>5, <2>1, <2>2 DEF C, D, L
<1>8. CASE c < last
  <2>1. MinOf(last, c) = c /\ MinOf(last, d) = d
    BY <1>1, <1>8 DEF MinOf
  <2>2. D <= C + (D - C)
    BY <1>2, <1>5
  <2> QED BY <1>2, <1>4, <1>5, <2>1, <2>2 DEF C, D
<1> QED BY <1>1, <1>6, <1>7, <1>8

ReplayInv ==
    /\ Loose
    /\ replayed \in [Slots -> Nat]
    /\ AllWithin(replayed)

LEMMA InitReplay == SkewInit => ReplayInv
<1> SUFFICES ASSUME SkewInit PROVE ReplayInv
  OBVIOUS
<1>1. RewardInv /\ Loose /\ TypeOK /\ Past
  BY InitRewardInv DEF SkewInit, RewardInv, Loose, TableInv
<1>2. replayed = NoSlack
  BY DEF SkewInit, NoSlack
<1> QED BY <1>1, <1>2, NoSlackType, SolventIsWithin DEF ReplayInv, RewardInv

LEMMA NextReplay ==
    ASSUME ReplayInv, [Next]_vars, replayed' = replayed
    PROVE  ReplayInv'
<1>1. PICK slack \in [Slots -> Nat] : slack = replayed
  BY DEF ReplayInv
<1>2. AllWithin(slack)
  BY <1>1 DEF ReplayInv
<1>3. Loose' /\ AllWithin(slack)'
  BY <1>2, StepWithin DEF ReplayInv
<1>4. AllWithin(replayed)'
  BY <1>1, <1>3 DEF AllWithin, Within
<1> QED BY <1>1, <1>3, <1>4 DEF ReplayInv

LEMMA StepBackReplay ==
    ASSUME ReplayInv, NEW s \in 1 .. MaxStepBack, StepBack(s)
    PROVE  /\ ReplayInv'
           /\ \A i \in Slots : replayed'[i] <= replayed[i] + rewards[i].reward_rate * s
<1>1. TypeOK /\ TableInv /\ PrincipalSolvent /\ Paid
  BY DEF ReplayInv, Loose, TableInv
<1>2. /\ TableInv' /\ PrincipalSolvent'
      /\ pool' = pool /\ rewards' = rewards /\ stakers' = stakers
      /\ reward_vault' = reward_vault
      /\ clock' \in Nat /\ clock' <= clock /\ clock - clock' = s
  BY <1>1, StepBackKeeps
<1>3. Loose'
  BY <1>1, <1>2 DEF Loose, Paid
<1> DEFINE back(i) == StreamOf(rewards[i], clock') - StreamOf(rewards[i], clock)
<1>4. ASSUME NEW i \in Slots
      PROVE  /\ back(i) \in Nat
             /\ back(i) <= rewards[i].reward_rate * s
             /\ StreamOf(rewards[i], Since(i)) \in Nat
             /\ StreamOf(rewards[i], MinOf(rewards[i].last_update_time, clock')) \in Nat
             /\ StreamOf(rewards[i], MinOf(rewards[i].last_update_time, clock'))
                   <= StreamOf(rewards[i], Since(i)) + back(i)
             /\ rewards[i].reward_rate * s \in Nat
  <2>1. rewards[i] \in RewardInfoType /\ clock \in Nat /\ s \in Nat
    BY <1>1, SinceType
  <2> QED BY <1>2, <2>1, BackStream, SlotNats, MulType DEF Since
<1>5. ASSUME NEW i \in Slots
      PROVE  /\ replayed'[i] = replayed[i] + back(i)
             /\ replayed[i] \in Nat
  <2>1. replayed' = [j \in Slots |-> replayed[j] + StreamOf(rewards[j], clock')
                                                - StreamOf(rewards[j], clock)]
    BY DEF StepBack
  <2>2. /\ replayed[i] \in Nat
        /\ StreamOf(rewards[i], clock) \in Int /\ StreamOf(rewards[i], clock') \in Int
    <3>1. rewards[i] \in RewardInfoType /\ clock \in Nat
      BY <1>1, SinceType
    <3> QED BY <1>2, <3>1, StreamType DEF ReplayInv
  <2>3. replayed'[i] = replayed[i] + StreamOf(rewards[i], clock') - StreamOf(rewards[i], clock)
    BY <2>1
  <2> QED BY <2>2, <2>3
<1> HIDE DEF back
<1>6. replayed' \in [Slots -> Nat]
  <2>1. \A i \in Slots : replayed'[i] \in Nat
    BY <1>4, <1>5
  <2>2. replayed' = [i \in Slots |-> replayed'[i]]
    BY DEF StepBack
  <2> QED BY <2>1, <2>2
<1>7. ASSUME NEW i \in Slots, Registered(i)' PROVE Within(i, replayed[i])'
  <2> DEFINE V == reward_vault[rewards[i].mint] * PRECISION
             S == StreamOf(rewards[i], Since(i))
             R == StreamOf(rewards[i], MinOf(rewards[i].last_update_time, clock'))
             O == SumFunction(Owed(i))
  <2>1. Registered(i) /\ Within(i, replayed[i])
    BY <1>2, <1>7 DEF Registered, ReplayInv, AllWithin
  <2>2. V \in Nat /\ O \in Int
    BY <1>1, <2>1, VaultInt, OwedType
  <2>3. SumFunction(Owed(i))' = O
    BY <1>2 DEF Owed, OwedStored
  <2>4. V + replayed[i] >= O + S
    BY <2>1 DEF Within, Due
  <2>5. S \in Nat /\ R \in Nat /\ R <= S + back(i) /\ back(i) \in Nat
    BY <1>4
  <2> HIDE DEF V, S, R, O
  <2>6. V + replayed'[i] >= O + R
    BY <1>5, <2>2, <2>4, <2>5
  <2> QED BY <1>2, <2>3, <2>6 DEF Within, Due, Since, V, R, O
<1>8. \A i \in Slots : replayed'[i] <= replayed[i] + rewards[i].reward_rate * s
  BY <1>4, <1>5
<1> QED BY <1>3, <1>6, <1>7, <1>8 DEF ReplayInv, AllWithin

LEMMA SkewReplay == ReplayInv /\ [SkewNext]_skewVars => ReplayInv'
BY NextReplay, StepBackReplay DEF SkewNext, skewVars

(* However often the clock steps back and whatever happens in between, the *)
(* reward vault of a slot covers what the slot owes and has to stream but  *)
(* for what it streams in the seconds that repeat.                         *)
THEOREM ShortfallIsReplay == SkewSpec => []ShortByReplay
<1>1. ReplayInv => ShortByReplay
  BY DEF ReplayInv, AllWithin, Within, Due, Since, Owed, ShortByReplay
<1> QED BY <1>1, InitReplay, SkewReplay, PTL DEF SkewSpec

-----------------------------------------------------------------------------
(* Settlements that never fail.  A load says what the pool may be put to:  *)
(* the last second that is counted, the most that a slot is ever due, and  *)
(* the shortest period it is given.  A slot then streams no more than      *)
(* load.most over load.least seconds at once, and no settlement fails for  *)
(* as long as                                                              *)
(*   - the integer types hold what it is due, the reward-per-token of      *)
(*     streaming at that pace all the time, to a single staked token, and  *)
(*     the end of any period that starts before the horizon (Wide), and    *)
(*   - the load is not exceeded, and no more than n seconds have been      *)
(*     counted twice (Room).                                               *)

Loads == [horizon : Nat, most : Nat, least : Nat \ {0}]

Wide(load) ==
    /\ load.most <= U64Max * PRECISION
    /\ load.most <= U128Max
    /\ load.horizon * load.most <= U128Max * load.least
    /\ load.horizon <= I64Max
    /\ \A d \in Durations : load.horizon + d <= I64Max /\ (d > 0 => load.least <= d)

(* A slot that no settlement up to the horizon overflows, s seconds having *)
(* been counted: the idle roll moves the end of the period only as far as  *)
(* the last settlement moves with it.                                      *)
Fits(slot, s, load) ==
    /\ load.horizon + slot.duration <= I64Max
    /\ slot.duration > 0 => load.least <= slot.duration
    /\ slot.period_finish + load.horizon <= I64Max + s
    /\ slot.reward_per_token_stored * load.least <= s * load.most

AllFit(n, load) ==
    /\ load.horizon + pool.default_duration <= I64Max
    /\ pool.default_duration > 0 => load.least <= pool.default_duration
    /\ \A i \in Slots : Fits(rewards[i], Since(i) + n, load)

DueAtMost(bound) == \A i \in Slots : Registered(i) => Due(i) <= bound

Slow(bound, least) == \A i \in Slots : rewards[i].reward_rate * least <= bound

Room(n, load) ==
    /\ Loose
    /\ clock + n <= load.horizon
    /\ AllFit(n, load)
    /\ Slow(load.most, load.least)
    /\ DueAtMost(load.most)

LEMMA LoadNats ==
    ASSUME NEW load \in Loads
    PROVE  /\ load.horizon \in Nat /\ load.most \in Nat
           /\ load.least \in Nat /\ load.least > 0
BY DEF Loads

LEMMA FitsLater ==
    ASSUME NEW slot \in RewardInfoType, NEW load \in Loads,
           NEW s \in Nat, NEW t \in Nat, s <= t, Fits(slot, s, load)
    PROVE  Fits(slot, t, load)
<1> DEFINE r == slot.reward_per_token_stored * load.least
           most == load.most
<1>1. /\ slot.period_finish \in Nat /\ I64Max \in Nat /\ load.horizon \in Nat
      /\ most \in Nat /\ r \in Nat
  BY SlotNats, WidthAssumption, LoadNats, MulType
<1>2. r <= s * most
  BY DEF Fits
<1> HIDE DEF r, most
<1>3. r <= t * most
  <2>1. most * s <= most * t
    BY <1>1, MulMonotone
  <2>2. most * s = s * most /\ most * t = t * most /\ s * most \in Nat /\ t * most \in Nat
    BY <1>1, MulType
  <2> QED BY <1>1, <1>2, <2>1, <2>2
<1> QED BY <1>1, <1>3 DEF Fits, r, most

(* What a settlement adds to reward-per-token. *)
LEMMA RptAdds ==
    ASSUME TypeOK, NEW i \in Slots
    PROVE  LET e == Elapsed(rewards[i], clock)
           IN  /\ e \in Nat /\ e <= clock - Since(i)
               /\ RptNow(i) \in Nat
               /\ RptNow(i) <= rewards[i].reward_per_token_stored + e * rewards[i].reward_rate
<1> DEFINE r == rewards[i].reward_per_token_stored
           e == Elapsed(rewards[i], clock)
           q == e * rewards[i].reward_rate
           t == pool.total_staked
           c == RptNow(i)
<1>1. /\ rewards[i] \in RewardInfoType /\ clock \in Nat /\ t \in Nat
      /\ r \in Nat /\ q \in Nat /\ e \in Nat
  BY PoolNats, SinceType, ElapsedType, SlotNats
<1>2. e <= clock - Since(i)
  <2>1. CASE rewards[i].last_update_time < MinOf(clock, rewards[i].period_finish)
    BY <1>1, <2>1, SlotNats DEF MinOf, Since, Elapsed
  <2>2. CASE ~(rewards[i].last_update_time < MinOf(clock, rewards[i].period_finish))
    <3>1. e = 0 BY <2>2 DEF Elapsed
    <3>2. Since(i) \in Nat /\ Since(i) <= clock BY SinceType
    <3> QED BY <1>1, <3>1, <3>2
  <2> QED BY <2>1, <2>2
<1>3. c = r + IF t > 0 THEN q \div t ELSE 0
  BY <1>1, RptIs DEF RptNow
<1>4. t > 0 => q \div t \in Nat /\ q \div t <= q
  <2> SUFFICES ASSUME t > 0 PROVE q \div t \in Nat /\ q \div t <= q
    OBVIOUS
  <2> DEFINE p == q \div t
  <2>1. p \in Nat /\ t * p <= q
    BY <1>1, DivBounds
  <2> HIDE DEF p, q, t
  <2>2. p * 1 <= p * t
    BY <1>1, <2>1, MulMonotone
  <2>3. p * t = t * p /\ p * 1 = p /\ t * p \in Nat
    BY <1>1, <2>1, MulType
  <2>4. p <= q
    BY <1>1, <2>1, <2>2, <2>3
  <2> QED BY <2>1, <2>4 DEF p
<1> HIDE DEF r, q, t, c
<1>5. c \in Nat /\ c <= r + q
  BY <1>1, <1>3, <1>4
<1> QED BY <1>1, <1>2, <1>5 DEF r, q, c

LEMMA RptFits ==
    ASSUME NEW n \in Nat, NEW load \in Loads, Room(n, load), NEW i \in Slots
    PROVE  RptNow(i) \in Nat /\ RptNow(i) * load.least <= (clock + n) * load.most
<1> DEFINE r == rewards[i].reward_per_token_stored
           e == Elapsed(rewards[i], clock)
           v == rewards[i].reward_rate
           c == RptNow(i)
           a == Since(i) + n
           b == clock + n
           least == load.least
           most == load.most
<1>1. /\ e \in Nat /\ a \in Nat /\ b \in Nat /\ a + e <= b
      /\ r \in Nat /\ v \in Nat /\ c \in Nat /\ c <= r + e * v
      /\ least \in Nat /\ most \in Nat
  <2>1. TypeOK
    BY DEF Room, Loose, TableInv
  <2>2. rewards[i] \in RewardInfoType /\ clock \in Nat /\ Since(i) \in Nat /\ Since(i) <= clock
    BY <2>1, SinceType
  <2> QED BY <2>1, <2>2, RptAdds, SlotNats, LoadNats
<1>2. r * least <= a * most /\ v * least <= most
  BY DEF Room, AllFit, Fits, Slow
<1> HIDE DEF r, e, v, c, a, b, least, most
<1>3. c * least <= r * least + e * (v * least)
  <2>1. e * v \in Nat /\ r + e * v \in Nat
    BY <1>1, MulType
  <2>2. least * c <= least * (r + e * v)
    BY <1>1, <2>1, MulMonotone
  <2>3. least * (r + e * v) = least * r + least * (e * v)
    BY <1>1, <2>1, MulSplit
  <2>4. /\ least * c = c * least /\ least * r = r * least
        /\ least * (e * v) = e * (v * least)
    BY <1>1
  <2> QED BY <2>2, <2>3, <2>4
<1>4. e * (v * least) <= e * most
  BY <1>1, <1>2, MulType, MulMonotone
<1>5. a * most + e * most <= b * most
  <2>1. most * (a + e) <= most * b
    BY <1>1, MulMonotone
  <2>2. most * (a + e) = most * a + most * e
    BY <1>1, MulSplit
  <2>3. most * a = a * most /\ most * e = e * most /\ most * b = b * most
    BY <1>1
  <2> QED BY <2>1, <2>2, <2>3
<1>6. /\ c * least \in Nat /\ r * least \in Nat /\ e * (v * least) \in Nat
      /\ e * most \in Nat /\ a * most \in Nat /\ b * most \in Nat
  BY <1>1, MulType
<1>7. c * least <= b * most
  BY <1>2, <1>3, <1>4, <1>5, <1>6
<1> QED BY <1>1, <1>7 DEF b, c, least, most

(* The end of a period, rolled or not. *)
LEMMA FinishFits ==
    ASSUME NEW n \in Nat, NEW load \in Loads, Room(n, load),
           NEW i \in Slots
    PROVE  LET finish == RolledFinish(rewards[i], pool.total_staked, clock)
           IN  /\ finish \in Nat
               /\ finish + load.horizon <= I64Max + (clock + n)
               /\ finish <= I64Max
<1>1. /\ rewards[i] \in RewardInfoType /\ clock \in Nat /\ I64Max \in Nat
      /\ clock + n <= load.horizon /\ rewards[i].period_finish \in Nat
      /\ rewards[i].last_update_time \in Nat
      /\ rewards[i].period_finish + load.horizon <= I64Max + (Since(i) + n)
  <2>1. TypeOK /\ clock + n <= load.horizon /\ Fits(rewards[i], Since(i) + n, load)
    BY DEF Room, AllFit, Loose, TableInv
  <2> QED BY <2>1, SinceType, SlotNats, WidthAssumption DEF Fits
<1>2. load.horizon \in Nat
  BY LoadNats
<1> QED BY <1>1, <1>2 DEF RolledFinish, Since, MinOf

LEMMA SettleSlotFits ==
    ASSUME NEW n \in Nat, NEW load \in Loads, Wide(load), Room(n, load),
           NEW i \in Slots, Registered(i)
    PROVE  /\ SettleSlotOk(rewards[i], pool.total_staked, clock)
           /\ Fits(SettledSlots[i], clock + n, load)
<1> DEFINE slot == rewards[i]
           t == pool.total_staked
           d == MinOf(clock, slot.period_finish) - slot.last_update_time
           s == clock + n
<1>a. TypeOK /\ TableInv /\ Loose /\ s <= load.horizon /\ Due(i) <= load.most
      /\ Fits(slot, Since(i) + n, load)
  BY DEF Room, AllFit, DueAtMost, Loose, TableInv
<1>1. slot \in RewardInfoType /\ clock \in Nat /\ t \in Nat /\ s \in Nat
  BY <1>a, PoolNats
<1>2. RptNow(i) \in Nat /\ RptNow(i) * load.least <= s * load.most
  BY RptFits
<1>3. RptNow(i) <= U128Max
  <2> DEFINE c == RptNow(i)
             most == load.most
             least == load.least
             horizon == load.horizon
  <2>1. /\ U128Max \in Nat /\ horizon * most <= U128Max * least
        /\ most \in Nat /\ least \in Nat /\ least > 0 /\ horizon \in Nat
    BY WidthAssumption, LoadNats DEF Wide
  <2> HIDE DEF s, c, most, least, horizon
  <2>2. most * s <= most * horizon
    BY <1>1, <1>a, <2>1, MulMonotone DEF horizon
  <2>3. most * s = s * most /\ most * horizon = horizon * most
        /\ s * most \in Nat /\ horizon * most \in Nat
    BY <1>1, <2>1, MulType
  <2>4. c \in Nat /\ c * least <= s * most
    BY <1>2 DEF c, least, most
  <2>5. c * least \in Nat /\ U128Max * least \in Nat
    BY <2>1, <2>4, MulType
  <2>6. c * least <= U128Max * least
    BY <2>1, <2>2, <2>3, <2>4, <2>5
  <2>7. c <= U128Max
    BY <2>1, <2>4, <2>6, FactorKeepsOrder
  <2> QED BY <2>7 DEF c
<1>4. AccrueRptOk(slot.reward_per_token_stored, d, slot.reward_rate, t)
  <2> SUFFICES ASSUME t > 0, d > 0
               PROVE  /\ d * slot.reward_rate <= U128Max
                      /\ AccrueRpt(slot.reward_per_token_stored, d, slot.reward_rate, t)
                            <= U128Max
    BY DEF AccrueRptOk
  <2>1. d = Elapsed(slot, clock)
    BY <1>1, SlotNats DEF Elapsed, MinOf
  <2>2. Elapsed(slot, clock) * slot.reward_rate <= U128Max
    <3> DEFINE q == Elapsed(slot, clock) * slot.reward_rate
    <3>1. q \in Nat /\ q <= Due(i) /\ Due(i) \in Nat
      BY <1>a, <1>1, ElapsedType, OwedWithin
    <3>2. load.most <= U128Max /\ U128Max \in Nat /\ load.most \in Nat
      BY WidthAssumption, LoadNats DEF Wide
    <3> HIDE DEF q
    <3>3. q <= U128Max
      BY <1>a, <3>1, <3>2
    <3> QED BY <3>3 DEF q
  <2>3. RptNow(i) = AccrueRpt(slot.reward_per_token_stored, d, slot.reward_rate, t)
    BY DEF RptNow, RewardPerToken
  <2> QED BY <1>3, <2>1, <2>2, <2>3
<1>5. SettleSlotOk(slot, t, clock)
  BY <1>4, FinishFits DEF SettleSlotOk
<1>6. /\ SettledSlots[i].duration = slot.duration
      /\ SettledSlots[i].reward_per_token_stored = RptNow(i)
      /\ SettledSlots[i].period_finish = RolledFinish(slot, t, clock)
  <2>1. SettledSlots[i] = SettleSlot(slot, t, clock)
    BY <1>a, SettledNow
  <2> QED BY <1>1, <1>a, <2>1, SettledNow, SettledKeeps DEF SettleSlot, RewardInfoType
<1>7. Fits(SettledSlots[i], s, load)
  BY <1>a, <1>2, <1>6, FinishFits DEF Fits
<1> QED BY <1>5, <1>7

LEMMA SettleWorks ==
    ASSUME NEW n \in Nat, NEW load \in Loads, Wide(load), Room(n, load)
    PROVE  /\ SettleOk
           /\ \A i \in Slots : Fits(SettledSlots[i],
                                    MinOf(SettledSlots[i].last_update_time, clock) + n,
                                    load)
<1>a. TypeOK
  BY DEF Room, Loose, TableInv
<1>1. ASSUME NEW i \in Slots, Registered(i)
      PROVE  /\ SettleSlotOk(rewards[i], pool.total_staked, clock)
             /\ MinOf(SettledSlots[i].last_update_time, clock) = clock
             /\ Fits(SettledSlots[i], clock + n, load)
  BY <1>a, <1>1, SettleSlotFits, SettledNow DEF MinOf
<1>2. ASSUME NEW i \in Slots, ~Registered(i)
      PROVE  Fits(SettledSlots[i], MinOf(SettledSlots[i].last_update_time, clock) + n,
                  load)
  <2>1. SettledSlots[i] = rewards[i]
    BY <1>a, <1>2, SettledKeeps
  <2> QED BY <2>1 DEF Room, AllFit, Since
<1> QED BY <1>1, <1>2 DEF SettleOk, UpdateSlotsOk, Registered

LEMMA CheckpointWorks ==
    ASSUME NEW n \in Nat, NEW load \in Loads, Wide(load), Room(n, load), NEW o \in Owners
    PROVE  CheckpointOk(o)
<1>a. TypeOK /\ Paid /\ Loose
  BY DEF Room, Loose, TableInv
<1>1. ASSUME NEW i \in Slots, SettledSlots[i].mint # NoMint
      PROVE  EarnedOk(stakers[o].staked_amount, SettledSlots[i].reward_per_token_stored,
                      stakers[o].entries[i].reward_per_token_paid,
                      stakers[o].entries[i].rewards_accrued)
  <2>1. Registered(i)
    BY <1>a, <1>1, SettledKeeps DEF Registered
  <2>2. SettledSlots[i].reward_per_token_stored = RptNow(i)
    BY <1>a, <2>1, SettledNow
  <2>3. PaidAt(o, i) <= RptNow(i)
    BY <1>a, NowNats
  <2>4. /\ OwedNow(o, i) = AccruedAt(o, i) * PRECISION + Gained(o, i)
        /\ Gained(o, i) \in Nat /\ AccruedAt(o, i) * PRECISION \in Nat
        /\ EarnedNow(o, i) \in Nat /\ EarnedNow(o, i) * PRECISION \in Nat
        /\ EarnedNow(o, i) * PRECISION <= OwedNow(o, i)
    BY <1>a, EarnedIs, NowNats, PoolNats, MulType
  <2>5. OwedNow(o, i) \in Nat /\ OwedNow(o, i) <= load.most
    <3>1. OwedNow(o, i) \in Nat /\ OwedNow(o, i) <= Due(i) /\ Due(i) \in Nat
      BY <1>a, EarnedIs, OwedWithin
    <3>2. Due(i) <= load.most
      BY <2>1 DEF Room, DueAtMost
    <3> QED BY <3>1, <3>2, LoadNats
  <2>6. /\ load.most <= U128Max /\ U128Max \in Nat
        /\ load.most <= U64Max * PRECISION /\ U64Max * PRECISION \in Nat /\ U64Max \in Nat
        /\ PRECISION \in Nat /\ PRECISION > 0 /\ load.most \in Nat
    BY WidthAssumption, LoadNats, MulType DEF Wide
  <2>7. Gained(o, i) <= U128Max
    BY <2>4, <2>5, <2>6
  <2>8. EarnedNow(o, i) <= U64Max
    <3>1. EarnedNow(o, i) * PRECISION <= U64Max * PRECISION
      BY <2>4, <2>5, <2>6
    <3> QED BY <2>4, <2>6, <3>1, FactorKeepsOrder
  <2> QED BY <2>2, <2>3, <2>7, <2>8
          DEF EarnedOk, EarnedNow, Gained, StakeAt, PaidAt
<1> QED BY <1>1, SettleWorks DEF CheckpointOk, UpdateEntriesOk

(* So every staker can unstake everything. *)
LEMMA UnstakeWorks ==
    ASSUME NEW n \in Nat, NEW load \in Loads, Wide(load), Room(n, load),
           NEW o \in Owners, stakers[o].created, stakers[o].staked_amount > 0
    PROVE  MayUnstake(o, stakers[o].staked_amount)
BY CheckpointWorks, StakeCovered DEF MayUnstake, Room, Loose, TableInv

-----------------------------------------------------------------------------
(* Every step keeps every slot within the widths. *)

LEMMA RestreamFits ==
    ASSUME NEW n \in Nat, NEW load \in Loads, clock \in Nat,
           NEW slot \in RewardInfoType, NEW received, slot.last_update_time = clock,
           Fits(slot, clock + n, load)
    PROVE  LET new == Restreamed(slot, received)
           IN  Fits(new, MinOf(new.last_update_time, clock) + n, load)
<1> DEFINE new == Restreamed(slot, received)
<1>1. /\ new.duration = slot.duration /\ new.last_update_time = clock
      /\ new.period_finish = clock + slot.duration
      /\ new.reward_per_token_stored = slot.reward_per_token_stored
  BY DEF Restreamed, RewardInfoType
<1>2. /\ slot.duration \in Nat /\ I64Max \in Nat /\ load.horizon \in Nat
      /\ MinOf(clock, clock) = clock
  BY SlotNats, LoadNats, WidthAssumption DEF MinOf
<1> HIDE DEF new
<1>3. /\ load.horizon + new.duration <= I64Max
      /\ new.duration > 0 => load.least <= new.duration
      /\ new.reward_per_token_stored * load.least <= (clock + n) * load.most
  BY <1>1 DEF Fits
<1>4. new.period_finish + load.horizon <= I64Max + (clock + n)
  <2>1. load.horizon + slot.duration <= I64Max
    BY DEF Fits
  <2> QED BY <1>1, <1>2, <2>1
<1>5. Fits(new, clock + n, load)
  BY <1>3, <1>4 DEF Fits
<1> QED BY <1>1, <1>2, <1>5 DEF new

LEMMA NewSlotFits ==
    ASSUME NEW n \in Nat, NEW load \in Loads, Wide(load), Room(n, load),
           NEW m, NEW d \in Durations
    PROVE  LET new == NewSlot(m, d)
           IN  Fits(new, MinOf(new.last_update_time, clock) + n, load)
<1> DEFINE new == NewSlot(m, d)
<1>1. /\ new.period_finish = 0 /\ new.last_update_time = clock
      /\ new.reward_per_token_stored = 0
      /\ new.duration = d \/ new.duration = pool.default_duration
  BY DEF NewSlot
<1>2. /\ load.horizon + new.duration <= I64Max
      /\ new.duration > 0 => load.least <= new.duration
  BY <1>1 DEF Wide, Room, AllFit
<1>3. clock \in Nat /\ I64Max \in Nat /\ load.horizon <= I64Max /\ MinOf(clock, clock) = clock
  BY PoolNats, WidthAssumption DEF Room, Loose, TableInv, Wide, MinOf
<1>4. (clock + n) * load.most \in Nat /\ 0 * load.least = 0 /\ load.horizon \in Nat
  BY <1>3, LoadNats, MulType
<1> HIDE DEF new
<1>5. Fits(new, clock + n, load)
  BY <1>1, <1>2, <1>3, <1>4 DEF Fits
<1> QED BY <1>1, <1>3, <1>5 DEF new

LEMMA StepFits ==
    ASSUME NEW n \in Nat, NEW load \in Loads, Wide(load), Room(n, load),
           TypeOK', [Next]_vars
    PROVE  AllFit(n, load)'
<1> DEFINE F(slot, now) == Fits(slot, MinOf(slot.last_update_time, now) + n, load)
           Short == /\ load.horizon + pool'.default_duration <= I64Max
                    /\ pool'.default_duration > 0 => load.least <= pool'.default_duration
           Fit == \A i \in Slots : F(rewards'[i], clock')
<1>a. /\ rewards \in [Slots -> RewardInfoType] /\ pool \in PoolType /\ clock \in Nat
      /\ load.horizon + pool.default_duration <= I64Max
      /\ pool.default_duration > 0 => load.least <= pool.default_duration
      /\ \A i \in Slots : F(rewards[i], clock)
  BY PoolNats DEF Room, Loose, TableInv, TypeOK, AllFit, Since
<1>b. SettleOk /\ \A i \in Slots : F(SettledSlots[i], clock)
  BY SettleWorks
<1>1. ASSUME NEW k \in Keys, AdminStep(k) PROVE Short /\ Fit
  <2>1. ASSUME NEW k2 \in Keys, NEW d \in Durations, InitializePool(k, k2, d)
        PROVE  Short /\ Fit
    BY <1>a, <2>1 DEF InitializePool, NewPool, Wide
  <2>2. ASSUME NEW m \in Mints, NEW d \in Durations, AddReward(k, m, d) PROVE Short /\ Fit
    <3>1. PICK j \in Slots : rewards' = [rewards EXCEPT ![j] = NewSlot(m, d)]
      BY <2>2 DEF AddReward
    <3>2. clock' = clock
      BY <2>2 DEF AddReward
    <3>3. F(NewSlot(m, d), clock)
      BY NewSlotFits
    <3> HIDE DEF F
    <3>4. Fit
      BY <1>a, <3>1, <3>2, <3>3
    <3>5. Short
      BY <1>a, <2>2 DEF AddReward, PoolType
    <3> QED BY <3>4, <3>5
  <2>3. ASSUME NEW j \in Slots, NEW active \in BOOLEAN, SetRewardActive(k, j, active)
        PROVE  Short /\ Fit
    BY <1>a, <2>3 DEF SetRewardActive, Fits, RewardInfoType
  <2>4. ASSUME NEW j \in Slots, NEW d \in Durations, SetDuration(k, j, d) PROVE Short /\ Fit
    BY <1>a, <2>4 DEF SetDuration, Fits, RewardInfoType, Wide
  <2>5. ASSUME NEW paused \in BOOLEAN, SetPaused(k, paused) PROVE Short /\ Fit
    BY <1>a, <2>5 DEF SetPaused, PoolType
  <2>6. ASSUME NEW k2 \in Keys, SetKeeperAuthority(k, k2) \/ SetAdmin(k, k2)
        PROVE  Short /\ Fit
    BY <1>a, <2>6 DEF SetKeeperAuthority, SetAdmin, PoolType
  <2> QED BY <1>1, <2>1, <2>2, <2>3, <2>4, <2>5, <2>6 DEF AdminStep, SetUpStep, AdminOnlyStep
<1>2. ASSUME NEW k \in Keys, NEW m \in Mints, NEW a \in RewardAmounts, DepositRewards(k, m, a)
      PROVE  Short /\ Fit
  <2>1. PICK j \in Slots, x \in {(reward_vault[m] + a) - reward_vault[m]} :
          /\ IsFirstSlot(rewards, j, m)
          /\ rewards' = [SettledSlots EXCEPT ![j] = Restreamed(SettledSlots[j], x)]
    BY <1>2 DEF DepositRewards
  <2>2. SettledSlots \in [Slots -> RewardInfoType] /\ TypeOK
    BY <1>b, SettledType DEF Room, Loose, TableInv
  <2>3. Registered(j)
    BY <2>1, SlotAssumption DEF IsFirstSlot, Registered
  <2>4. SettledSlots[j].last_update_time = clock /\ MinOf(clock, clock) = clock
    BY <2>2, <2>3, SettledNow DEF MinOf
  <2>5. F(Restreamed(SettledSlots[j], x), clock)
    BY <1>a, <1>b, <2>2, <2>4, RestreamFits
  <2>6. pool' = pool /\ clock' = clock
    BY <1>2 DEF DepositRewards
  <2> HIDE DEF F
  <2>7. Fit
    BY <1>b, <2>1, <2>2, <2>5, <2>6
  <2> QED BY <1>a, <2>6, <2>7
<1>3. ASSUME NEW o \in Owners, OwnerStep(o) PROVE Short /\ Fit
  <2>1. clock' = clock /\ (rewards' = SettledSlots \/ rewards' = rewards)
    BY <1>3 DEF OwnerStep, Stake, Unstake, Claim, EmergencyWithdraw
  <2>2. pool'.default_duration = pool.default_duration
    BY <1>a, <1>3 DEF OwnerStep, Stake, Unstake, Claim, EmergencyWithdraw, PoolType
  <2> QED BY <1>a, <1>b, <2>1, <2>2
<1>4. ASSUME Tick PROVE Short /\ Fit
  <2>1. rewards' = rewards /\ pool' = pool /\ clock' = clock + 1 /\ clock' \in Nat
    BY <1>4, <1>a DEF Tick
  <2>2. ASSUME NEW i \in Slots PROVE F(rewards[i], clock + 1)
    <3> DEFINE s == MinOf(rewards[i].last_update_time, clock) + n
               t == MinOf(rewards[i].last_update_time, clock + 1) + n
    <3>1. rewards[i] \in RewardInfoType /\ s \in Nat /\ t \in Nat /\ s <= t
      BY <1>a, SlotNats DEF MinOf
    <3>2. Fits(rewards[i], s, load)
      BY <1>a
    <3> HIDE DEF s, t
    <3>3. Fits(rewards[i], t, load)
      BY <3>1, <3>2, FitsLater
    <3> QED BY <3>3 DEF t
  <2> QED BY <1>a, <2>1, <2>2
<1>5. ASSUME rewards' = rewards, pool' = pool, clock' = clock PROVE Short /\ Fit
  BY <1>a, <1>5
<1>6. Short /\ Fit
  BY <1>1, <1>2, <1>3, <1>4, <1>5
     DEF Next, KeeperStep, Donation, DonateStake, DonateReward, vars
<1> QED BY <1>6 DEF AllFit, Since

(* What a slot streams is within what it is due; so is a fresh rate times  *)
(* its duration, and a slot keeps its pace until the next deposit.         *)

StreamDue ==
    \A i \in Slots : Due(i) \in Nat /\ StreamOf(rewards[i], Since(i)) <= Due(i)

LEMMA StreamDueHolds == Loose => StreamDue
BY OwedWithin DEF StreamDue

LEMMA StreamDueNext == Loose' => StreamDue'
BY StreamDueHolds, PTL

LEMMA RestreamRate ==
    ASSUME NEW slot \in RewardInfoType, NEW received \in Nat, clock \in Nat,
           RestreamOk(slot, received)
    PROVE  LET new == Restreamed(slot, received)
           IN  /\ new.reward_rate \in Nat
               /\ slot.duration > 0
               /\ new.reward_rate * slot.duration = StreamOf(new, clock)
               /\ new.last_update_time = clock
               /\ new.mint = slot.mint
<1> DEFINE new == Restreamed(slot, received)
           d == slot.duration
           rest == Leftover(slot.reward_rate, clock, slot.period_finish)
           q == new.reward_rate
<1>1. d \in Nat /\ d > 0 /\ slot.reward_rate \in Nat /\ slot.period_finish \in Nat
  BY SlotNats DEF RestreamOk, NotifyRateOk
<1>2. rest \in Nat
  BY <1>1, MulType DEF Leftover
<1>3. q = (received * PRECISION + rest) \div d /\ new.period_finish = clock + d
      /\ new.last_update_time = clock /\ new.mint = slot.mint
  BY DEF Restreamed, NotifyRate, RewardInfoType
<1>4. received * PRECISION + rest \in Nat
  BY <1>2, MulType, WidthAssumption
<1> HIDE DEF rest
<1>5. q \in Nat
  BY <1>1, <1>3, <1>4, DivBounds
<1>6. StreamOf(new, clock) = q * d
  <2>1. clock < clock + d /\ (clock + d) - clock = d BY <1>1
  <2> QED BY <1>3, <2>1 DEF StreamOf
<1> QED BY <1>1, <1>3, <1>5, <1>6

LEMMA StepSlow ==
    ASSUME TypeOK, TypeOK', Loose', [Next]_vars, NEW bound \in Nat, NEW least \in Nat,
           \A i \in Slots : rewards[i].duration > 0 => least <= rewards[i].duration,
           Slow(bound, least), DueAtMost(bound)'
    PROVE  Slow(bound, least)'
<1> DEFINE Steady == \A i \in Slots : rewards'[i].reward_rate = rewards[i].reward_rate
           Fine == \A i \in Slots : rewards'[i].reward_rate * least <= bound
<1>a. rewards \in [Slots -> RewardInfoType] /\ clock \in Nat
  BY PoolNats DEF TypeOK
<1>b. \A i \in Slots : /\ SettledSlots[i].reward_rate = rewards[i].reward_rate
                       /\ SettledSlots[i].duration = rewards[i].duration
  BY <1>a DEF SettledSlots, UpdateSlots, SettleSlot, RewardInfoType
<1>c. Steady => Fine
  BY DEF Slow
<1>1. ASSUME NEW k \in Keys, AdminStep(k) PROVE Fine
  <2>1. ASSUME NEW m \in Mints, NEW d \in Durations, AddReward(k, m, d) PROVE Fine
    <3>1. PICK j \in Slots : rewards' = [rewards EXCEPT ![j] = NewSlot(m, d)]
      BY <2>1 DEF AddReward
    <3>2. NewSlot(m, d).reward_rate = 0 /\ 0 * least = 0
      BY DEF NewSlot
    <3>3. rewards'[j] = NewSlot(m, d) /\ \A i \in Slots : i # j => rewards'[i] = rewards[i]
      BY <1>a, <3>1
    <3> QED BY <3>2, <3>3 DEF Slow
  <2>2. ASSUME NEW i \in Slots,
               (\E a \in BOOLEAN : SetRewardActive(k, i, a))
               \/ (\E d \in Durations : SetDuration(k, i, d))
        PROVE  Steady
    BY <1>a, <2>2 DEF SetRewardActive, SetDuration, RewardInfoType
  <2> QED BY <1>1, <1>c, <2>1, <2>2
          DEF AdminStep, SetUpStep, AdminOnlyStep, InitializePool, SetPaused, SetKeeperAuthority, SetAdmin
<1>2. ASSUME NEW k \in Keys, NEW m \in Mints, NEW a \in RewardAmounts, DepositRewards(k, m, a)
      PROVE  Fine
  <2>1. SettleOk /\ clock' = clock /\ a \in Nat /\ (reward_vault[m] + a) - reward_vault[m] = a
    BY <1>2, PoolNats, PoolAssumption DEF DepositRewards
  <2>2. PICK j \in Slots :
          /\ rewards[j].mint = m
          /\ RestreamOk(SettledSlots[j], a)
          /\ rewards' = [SettledSlots EXCEPT ![j] = Restreamed(SettledSlots[j], a)]
    BY <1>2, <2>1 DEF DepositRewards, IsFirstSlot
  <2>3. SettledSlots \in [Slots -> RewardInfoType] /\ SettledSlots[j].mint = m
    BY <2>1, <2>2, SettledType, SettledKeeps
  <2> DEFINE new == Restreamed(SettledSlots[j], a)
             d == rewards[j].duration
             q == new.reward_rate
  <2>4. /\ q \in Nat /\ d > 0 /\ d \in Nat /\ q * d = StreamOf(new, clock)
        /\ new.last_update_time = clock /\ new.mint = m
    BY <1>a, <1>b, <2>1, <2>2, <2>3, RestreamRate, SlotNats
  <2>5. rewards'[j] = new /\ \A i \in Slots : i # j => rewards'[i] = SettledSlots[i]
    BY <2>2, <2>3
  <2>6. least <= d
    BY <2>4
  <2> HIDE DEF new
  <2>7. Registered(j)' /\ Since(j)' = clock
    BY <2>1, <2>4, <2>5, SlotAssumption DEF Registered, Since, MinOf
  <2>8. Due(j)' \in Nat /\ Due(j)' <= bound /\ StreamOf(new, clock) <= Due(j)'
    BY <2>5, <2>7, StreamDueNext DEF StreamDue, DueAtMost
  <2> HIDE DEF d, q
  <2>9. q * least <= q * d /\ q * least \in Nat /\ q * d \in Nat
    BY <2>4, <2>6, MulMonotone
  <2>10. q * least <= bound
    BY <2>4, <2>8, <2>9
  <2>11. rewards'[j].reward_rate * least <= bound
    BY <2>5, <2>10 DEF q
  <2> QED BY <1>b, <2>5, <2>11 DEF Slow
<1>3. ASSUME NEW o \in Owners, OwnerStep(o) PROVE Fine
  <2>1. rewards' = SettledSlots \/ rewards' = rewards
    BY <1>3 DEF OwnerStep, Stake, Unstake, Claim, EmergencyWithdraw
  <2> QED BY <1>b, <1>c, <2>1
<1>4. ASSUME rewards' = rewards PROVE Fine
  BY <1>c, <1>4
<1>5. Fine
  BY <1>1, <1>2, <1>3, <1>4
     DEF Next, KeeperStep, Donation, DonateStake, DonateReward, Tick, vars
<1> QED BY <1>5 DEF Slow

-----------------------------------------------------------------------------
(* A clock that only ticks: a slot is due no more than the whole supply.   *)

ScaledSupply == RewardSupply * PRECISION

(* What the integer types have to hold: the scaled supply; the reward-per- *)
(* token that it gives a single staked token if it is streamed all the     *)
(* time, once in each shortest period; and the end of any period.          *)
WidthsSuffice(least) ==
    /\ ScaledSupply <= U128Max
    /\ MaxClock * ScaledSupply <= U128Max * least
    /\ \A d \in Durations : MaxClock + d <= I64Max /\ (d > 0 => least <= d)

SupplyLoad(least) == [horizon |-> MaxClock, most |-> ScaledSupply, least |-> least]

LEMMA SupplyNat == ScaledSupply \in Nat /\ MaxClock \in Nat /\ RewardSupply \in Nat
BY PoolAssumption, WidthAssumption, MulType DEF ScaledSupply

LEMMA SupplyWide ==
    ASSUME NEW least \in Nat \ {0}, WidthsSuffice(least)
    PROVE  SupplyLoad(least) \in Loads /\ Wide(SupplyLoad(least))
<1>1. /\ RewardSupply \in Nat /\ U64Max \in Nat /\ PRECISION \in Nat
      /\ RewardSupply <= U64Max /\ MaxClock <= I64Max
  BY PoolAssumption, WidthAssumption
<1>2. PRECISION * RewardSupply <= PRECISION * U64Max
  BY <1>1, MulMonotone
<1>3. PRECISION * RewardSupply = RewardSupply * PRECISION
      /\ PRECISION * U64Max = U64Max * PRECISION
  BY <1>1
<1>4. ScaledSupply <= U64Max * PRECISION
  BY <1>2, <1>3 DEF ScaledSupply
<1>5. SupplyLoad(least) \in Loads
  BY SupplyNat DEF SupplyLoad, Loads
<1> QED BY <1>1, <1>4, <1>5 DEF Wide, WidthsSuffice, SupplyLoad

LEMMA VaultSupply ==
    ASSUME TypeOK, NEW i \in Slots, Registered(i)
    PROVE  /\ reward_vault[rewards[i].mint] * PRECISION \in Nat
           /\ reward_vault[rewards[i].mint] * PRECISION <= ScaledSupply
<1> DEFINE v == reward_vault[rewards[i].mint]
<1>1. /\ v \in Nat /\ v <= RewardSupply /\ RewardSupply \in Nat /\ PRECISION \in Nat
      /\ v * PRECISION \in Nat
  BY VaultInt, PoolAssumption, WidthAssumption DEF TypeOK
<1> HIDE DEF v
<1>2. PRECISION * v <= PRECISION * RewardSupply
  BY <1>1, MulMonotone
<1>3. PRECISION * v = v * PRECISION /\ PRECISION * RewardSupply = RewardSupply * PRECISION
  BY <1>1
<1> QED BY <1>1, <1>2, <1>3 DEF v, ScaledSupply

LEMMA DueSupply == RewardInv => DueAtMost(ScaledSupply)
<1> SUFFICES ASSUME RewardInv, NEW i \in Slots, Registered(i) PROVE Due(i) <= ScaledSupply
  BY DEF DueAtMost
<1>1. TypeOK /\ Loose
  BY DEF RewardInv, Loose, TableInv
<1>2. Due(i) \in Nat /\ Due(i) <= reward_vault[rewards[i].mint] * PRECISION
  BY <1>1, OwedWithin, OwedCovered
<1> QED BY <1>1, <1>2, VaultSupply, SupplyNat

LEMMA DueSupplyNext == RewardInv' => DueAtMost(ScaledSupply)'
BY DueSupply, PTL

FitsSupply(least) == AllFit(0, SupplyLoad(least)) /\ Slow(ScaledSupply, least)

LEMMA RewardRoom ==
    ASSUME NEW least \in Nat \ {0}, RewardInv, FitsSupply(least)
    PROVE  Room(0, SupplyLoad(least))
<1>1. TypeOK /\ Loose /\ DueAtMost(ScaledSupply)
  BY DueSupply DEF RewardInv, Loose, TableInv
<1>2. clock + 0 <= MaxClock
  BY <1>1, PoolAssumption DEF TypeOK
<1> QED BY <1>1, <1>2 DEF Room, SupplyLoad, FitsSupply

LEMMA ExitsOpen ==
    ASSUME NEW least \in Nat \ {0}, WidthsSuffice(least), RewardInv, FitsSupply(least)
    PROVE  ExitNeverBlocked
<1>a. TypeOK /\ SlotTable
  BY DEF RewardInv, TableInv
<1>b. /\ SupplyLoad(least) \in Loads /\ Wide(SupplyLoad(least))
      /\ Room(0, SupplyLoad(least)) /\ 0 \in Nat
  BY SupplyWide, RewardRoom
<1> SUFFICES ASSUME NEW o \in Owners, stakers[o].created
             PROVE  /\ MayClaim(o, RegisteredMints)
                    /\ stakers[o].staked_amount > 0
                         => MayUnstake(o, stakers[o].staked_amount)
  BY DEF ExitNeverBlocked
<1>1. CheckpointOk(o)
  BY <1>b, CheckpointWorks
<1>2. ASSUME NEW m \in RegisteredMints
      PROVE  (\E i \in Slots : rewards[i].mint = m) /\ Payout(o, m) <= reward_vault[m]
  <2>1. PICK i \in Slots : rewards[i].mint = m /\ Registered(i)
    BY DEF RegisteredMints, Registered
  <2>2. m \in Mints
    BY <1>a, <2>1, VaultInt
  <2>3. IsFirstSlot(rewards, i, m)
    BY <1>a, <2>1, <2>2, SlotAssumption DEF IsFirstSlot, SlotTable, Registered, Slots
  <2>4. Payout(o, m) = Checkpoint(o)[i].rewards_accrued
    BY <2>2, <2>3, PayoutOfSlot
  <2>5. Checkpoint(o)[i].rewards_accrued <= reward_vault[m]
    BY <2>1, CheckpointCovered
  <2> QED BY <2>1, <2>4, <2>5
<1>3. MayClaim(o, RegisteredMints)
  BY <1>1, <1>2 DEF MayClaim
<1>4. stakers[o].staked_amount > 0 => MayUnstake(o, stakers[o].staked_amount)
  BY <1>b, UnstakeWorks
<1> QED BY <1>3, <1>4

(* A pool that nothing has happened to carries any load. *)
LEMMA InitFits ==
    ASSUME NEW load \in Loads, load.horizon <= I64Max, Init
    PROVE  /\ AllFit(0, load)
           /\ \A bound \in Nat : Slow(bound, load.least)
<1>1. load.horizon \in Nat /\ load.most \in Nat /\ load.least \in Nat /\ I64Max \in Nat
  BY LoadNats, WidthAssumption
<1>2. /\ MinOf(0, 0) = 0 /\ 0 * load.most = 0 /\ 0 * load.least = 0
      /\ load.horizon + 0 <= I64Max /\ 0 + load.horizon <= I64Max + (0 + 0)
      /\ 0 <= (0 + 0) * load.most
  BY <1>1 DEF MinOf
<1>3. AllFit(0, load)
  BY <1>2 DEF Init, NoPool, EmptySlot, AllFit, Fits, Since
<1>4. ASSUME NEW bound \in Nat PROVE Slow(bound, load.least)
  BY <1>2 DEF Init, EmptySlot, Slow
<1> QED BY <1>3, <1>4

LEMMA StepFitsSupply ==
    ASSUME NEW least \in Nat \ {0}, WidthsSuffice(least), RewardInv, FitsSupply(least),
           [Next]_vars
    PROVE  RewardInv' /\ FitsSupply(least)'
<1>1. RewardInv' /\ TypeOK' /\ Loose' /\ TypeOK
  BY StepRewardInv DEF RewardInv, Loose, TableInv
<1>2. AllFit(0, SupplyLoad(least))'
  BY <1>1, SupplyWide, RewardRoom, StepFits
<1>3. \A i \in Slots : rewards[i].duration > 0 => least <= rewards[i].duration
  BY DEF FitsSupply, AllFit, Fits, SupplyLoad
<1>4. Slow(ScaledSupply, least)'
  BY <1>1, <1>3, SupplyNat, DueSupplyNext, StepSlow DEF FitsSupply
<1> QED BY <1>1, <1>2, <1>4 DEF FitsSupply

(* With wide enough integers no settlement ever fails and no total ever    *)
(* underflows: every staker can unstake everything and claim every reward  *)
(* at any time, paused or not.  The longer the shortest period, the less   *)
(* width it takes.                                                         *)
THEOREM ExitsNeverBlocked ==
    ASSUME NEW least \in Nat \ {0}, WidthsSuffice(least)
    PROVE  Spec => []ExitNeverBlocked
<1>1. Init => RewardInv /\ FitsSupply(least)
  <2>1. SupplyLoad(least) \in Loads /\ MaxClock <= I64Max
    BY SupplyWide, PoolAssumption
  <2> QED BY <2>1, InitRewardInv, InitFits, SupplyNat DEF FitsSupply, SupplyLoad
<1>2. (RewardInv /\ FitsSupply(least)) /\ [Next]_vars => (RewardInv /\ FitsSupply(least))'
  BY StepFitsSupply
<1>3. RewardInv /\ FitsSupply(least) => ExitNeverBlocked
  BY ExitsOpen
<1> QED BY <1>1, <1>2, <1>3, PTL DEF Spec

-----------------------------------------------------------------------------
(* A clock that steps back: what a slot is due grows.  After a step back   *)
(* it may stream again what it has streamed in those seconds, and a later  *)
(* deposit may spread that over a new period at a higher rate, which the   *)
(* next step back repeats.  limit[k] bounds what a slot is due after k     *)
(* steps back.  A step back adds at most MaxStepBack seconds of a stream   *)
(* that takes the shortest period at least for all of it.                  *)

Horizon == MaxClock + MaxSkews * MaxStepBack

Grows(limit, least) ==
    /\ ScaledSupply <= limit[0]
    /\ \A k \in 0 .. (MaxSkews - 1) :
          limit[k] * least + MaxStepBack * limit[k] <= limit[k + 1] * least

LEMMA HorizonNat ==
    /\ MaxStepBack \in Nat /\ MaxSkews \in Nat /\ MaxClock \in Nat /\ Horizon \in Nat
    /\ \A k \in 0 .. MaxSkews : k * MaxStepBack \in Nat /\ MaxClock + k * MaxStepBack <= Horizon
<1>1. /\ MaxStepBack \in Nat /\ MaxSkews \in Nat /\ MaxClock \in Nat
      /\ MaxSkews * MaxStepBack \in Nat
  BY SkewAssumption, SupplyNat, MulType
<1>2. ASSUME NEW k \in 0 .. MaxSkews
      PROVE  k * MaxStepBack \in Nat /\ k * MaxStepBack <= MaxSkews * MaxStepBack
  <2>1. k \in Nat /\ k <= MaxSkews
    BY <1>1
  <2>2. MaxStepBack * k <= MaxStepBack * MaxSkews
    BY <1>1, <2>1, MulMonotone
  <2>3. MaxStepBack * k = k * MaxStepBack /\ MaxStepBack * MaxSkews = MaxSkews * MaxStepBack
        /\ k * MaxStepBack \in Nat
    BY <1>1, <2>1, MulType
  <2> QED BY <2>2, <2>3
<1> DEFINE all == MaxSkews * MaxStepBack
<1> HIDE DEF all
<1>3. ASSUME NEW k \in 0 .. MaxSkews PROVE MaxClock + k * MaxStepBack <= MaxClock + all
  BY <1>1, <1>2 DEF all
<1>4. Horizon = MaxClock + all /\ all \in Nat
  BY <1>1 DEF Horizon, all
<1> QED BY <1>1, <1>2, <1>3, <1>4

(* The invariant: the tables and the stakes are right, the vaults are      *)
(* short of the replayed amounts only, and these amounts, the rates and    *)
(* the slots are within the limit for as many steps back.                  *)
SkewInv(limit, load) ==
    /\ ReplayInv
    /\ Started
    /\ skews \in 0 .. MaxSkews
    /\ \A i \in Slots : ScaledSupply + replayed[i] <= limit[skews]
    /\ Slow(limit[skews], load.least)
    /\ AllFit(skews * MaxStepBack, load)

LEMMA DueLimited ==
    ASSUME ReplayInv, NEW i \in Slots, Registered(i), NEW bound \in Nat,
           ScaledSupply + replayed[i] <= bound
    PROVE  Due(i) \in Nat /\ Due(i) <= bound
<1> DEFINE V == reward_vault[rewards[i].mint] * PRECISION
<1>1. TypeOK /\ Loose /\ replayed[i] \in Nat /\ Within(i, replayed[i])
  BY DEF ReplayInv, Loose, TableInv, AllWithin
<1>2. V \in Nat /\ V <= ScaledSupply /\ ScaledSupply \in Nat
  BY <1>1, VaultSupply, SupplyNat
<1>3. Due(i) \in Nat
  BY <1>1, OwedWithin
<1>4. V + replayed[i] >= Due(i)
  BY <1>1 DEF Within
<1> HIDE DEF V
<1> QED BY <1>1, <1>2, <1>3, <1>4

DueLimits ==
    \A i \in Slots, bound \in Nat :
        Registered(i) /\ ScaledSupply + replayed[i] <= bound => Due(i) <= bound

LEMMA DueLimitsHold == ReplayInv => DueLimits
BY DueLimited DEF DueLimits

LEMMA DueLimitsNext == ReplayInv' => DueLimits'
BY DueLimitsHold, PTL

LEMMA SkewRoom ==
    ASSUME NEW load \in Loads, load.horizon = Horizon,
           NEW limit \in [0 .. MaxSkews -> 0 .. load.most],
           SkewInv(limit, load), NEW n \in Nat, n = skews * MaxStepBack
    PROVE  Room(n, load)
<1>1. ReplayInv /\ Loose /\ TypeOK /\ skews \in 0 .. MaxSkews
      /\ limit[skews] \in Nat /\ limit[skews] <= load.most /\ load.most \in Nat
  BY LoadNats DEF SkewInv, ReplayInv, Loose, TableInv
<1>2. clock + n <= load.horizon
  <2>1. clock \in Nat /\ clock <= MaxClock /\ MaxClock \in Nat /\ Horizon \in Nat
        /\ MaxClock + n <= Horizon
    BY <1>1, HorizonNat DEF TypeOK
  <2> QED BY <2>1
<1>3. DueAtMost(load.most)
  <2> SUFFICES ASSUME NEW i \in Slots, Registered(i) PROVE Due(i) <= load.most
    BY DEF DueAtMost
  <2>1. Due(i) \in Nat /\ Due(i) <= limit[skews]
    BY <1>1, DueLimited DEF SkewInv
  <2> QED BY <1>1, <2>1
<1>4. AllFit(n, load)
  BY DEF SkewInv
<1>5. Slow(load.most, load.least)
  <2> SUFFICES ASSUME NEW i \in Slots
               PROVE  rewards[i].reward_rate * load.least <= load.most
    BY DEF Slow
  <2>1. rewards[i].reward_rate * load.least \in Nat
    <3>1. rewards[i].reward_rate \in Nat BY <1>1, SinceType, SlotNats
    <3> QED BY <3>1, LoadNats, MulType
  <2>2. rewards[i].reward_rate * load.least <= limit[skews]
    BY DEF SkewInv, Slow
  <2> QED BY <1>1, <2>1, <2>2
<1> QED BY <1>1, <1>2, <1>3, <1>4, <1>5 DEF Room

LEMMA NextSkew ==
    ASSUME NEW load \in Loads, load.horizon = Horizon, Wide(load),
           NEW limit \in [0 .. MaxSkews -> 0 .. load.most],
           SkewInv(limit, load), [Next]_vars, skews' = skews, replayed' = replayed
    PROVE  SkewInv(limit, load)'
<1> DEFINE bound == limit[skews]
<1>1. /\ ReplayInv /\ Loose /\ TypeOK /\ Started /\ skews \in 0 .. MaxSkews
      /\ bound \in Nat
      /\ \A i \in Slots : ScaledSupply + replayed[i] <= bound
      /\ Slow(bound, load.least)
  BY DEF SkewInv, ReplayInv, Loose, TableInv
<1>2. ReplayInv' /\ Loose' /\ TypeOK'
  BY <1>1, NextReplay DEF ReplayInv, Loose, TableInv
<1>3. Started'
  BY <1>1, StepStarted
<1>4. PICK n \in Nat : n = skews * MaxStepBack
  BY <1>1, HorizonNat
<1>5. Room(n, load)
  BY <1>4, SkewRoom
<1>6. AllFit(n, load)'
  BY <1>2, <1>5, StepFits
<1>7. AllFit(skews * MaxStepBack, load)'
  BY <1>4, <1>6 DEF AllFit
<1>8. PICK top \in Nat : top = bound
  BY <1>1
<1>9. DueAtMost(top)'
  BY <1>1, <1>2, <1>8, DueLimitsNext DEF DueLimits, DueAtMost
<1>10. \A i \in Slots : rewards[i].duration > 0 => load.least <= rewards[i].duration
  BY <1>5 DEF Room, AllFit, Fits
<1>11. Slow(top, load.least)
  BY <1>1, <1>8 DEF Slow
<1>12. Slow(top, load.least)'
  BY <1>1, <1>2, <1>9, <1>10, <1>11, LoadNats, StepSlow
<1>13. Slow(limit[skews], load.least)'
  BY <1>8, <1>12 DEF Slow
<1> QED BY <1>1, <1>2, <1>3, <1>7, <1>13 DEF SkewInv

LEMMA SinceBack ==
    ASSUME NEW last \in Nat, NEW c \in Nat, NEW d \in Nat, d <= c,
           NEW n \in Nat, NEW most \in Nat, c - d <= most
    PROVE  /\ MinOf(last, c) + n \in Nat /\ MinOf(last, d) + (n + most) \in Nat
           /\ MinOf(last, c) + n <= MinOf(last, d) + (n + most)
<1>1. CASE last <= d
  BY <1>1 DEF MinOf
<1>2. CASE d < last
  BY <1>2 DEF MinOf
<1> QED BY <1>1, <1>2

LEMMA StepGrows ==
    ASSUME NEW rate \in Nat, NEW old \in Nat, NEW new \in Nat, NEW top \in Nat,
           NEW next \in Nat, NEW least \in Nat, NEW far \in Nat, NEW s \in Nat,
           NEW supply \in Nat, least > 0, s <= far,
           rate * least <= top, supply + old <= top, new <= old + rate * s,
           top * least + far * top <= next * least
    PROVE  supply + new <= next /\ rate * least <= next
<1>1. /\ rate * s \in Nat /\ rate * least \in Nat /\ top * least \in Nat
      /\ next * least \in Nat /\ far * top \in Nat
  BY MulType
<1>2. (supply + new) * least <= top * least + s * (rate * least)
  <2>1. supply + new <= top + rate * s
    BY <1>1
  <2>2. least * (supply + new) <= least * (top + rate * s)
    BY <1>1, <2>1, MulMonotone
  <2>3. least * (top + rate * s) = least * top + least * (rate * s)
    BY <1>1, MulSplit
  <2>4. /\ least * (supply + new) = (supply + new) * least
        /\ least * top = top * least /\ least * (rate * s) = s * (rate * least)
    OBVIOUS
  <2> QED BY <2>2, <2>3, <2>4
<1>3. s * (rate * least) <= far * top
  <2>1. s * (rate * least) <= s * top
    BY <1>1, MulMonotone
  <2>2. top * s <= top * far
    BY MulMonotone
  <2>3. /\ top * s = s * top /\ top * far = far * top
        /\ s * (rate * least) \in Nat /\ s * top \in Nat
    BY <1>1, MulType
  <2> QED BY <1>1, <2>1, <2>2, <2>3
<1>4. s * (rate * least) \in Nat /\ (supply + new) * least \in Nat
  BY <1>1, MulType
<1>5. (supply + new) * least <= next * least
  BY <1>1, <1>2, <1>3, <1>4
<1>6. supply + new <= next
  BY <1>5, FactorKeepsOrder
<1>7. top <= next
  <2>1. top * least <= next * least
    BY <1>1
  <2> QED BY <2>1, FactorKeepsOrder
<1> QED BY <1>1, <1>6, <1>7

LEMMA StepBackSkew ==
    ASSUME NEW load \in Loads, NEW limit \in [0 .. MaxSkews -> 0 .. load.most],
           Grows(limit, load.least), SkewInv(limit, load),
           NEW s \in 1 .. MaxStepBack, StepBack(s)
    PROVE  SkewInv(limit, load)'
<1>1. /\ ReplayInv /\ Loose /\ TypeOK /\ TableInv /\ PrincipalSolvent /\ Started
      /\ skews \in 0 .. MaxSkews
      /\ replayed \in [Slots -> Nat]
  BY DEF SkewInv, ReplayInv, Loose, TableInv
<1>2. /\ pool' = pool /\ rewards' = rewards /\ stakers' = stakers
      /\ clock' \in Nat /\ clock' <= clock /\ clock - clock' = s
  BY <1>1, StepBackKeeps
<1>3. /\ ReplayInv'
      /\ \A i \in Slots : replayed'[i] <= replayed[i] + rewards[i].reward_rate * s
  BY <1>1, StepBackReplay
<1>4. PICK k \in 0 .. (MaxSkews - 1) : skews = k /\ skews' = k + 1
  BY <1>1, HorizonNat DEF StepBack
<1>5. /\ k \in Nat /\ k + 1 \in 0 .. MaxSkews /\ k \in 0 .. MaxSkews
      /\ limit[k] \in Nat /\ limit[k + 1] \in Nat
      /\ limit[k] * load.least + MaxStepBack * limit[k] <= limit[k + 1] * load.least
      /\ MaxStepBack \in Nat /\ s \in Nat /\ s <= MaxStepBack /\ ScaledSupply \in Nat
  BY HorizonNat, SupplyNat DEF Grows
<1>6. ASSUME NEW i \in Slots
      PROVE  /\ ScaledSupply + replayed'[i] <= limit[k + 1]
             /\ rewards'[i].reward_rate * load.least <= limit[k + 1]
  <2> DEFINE rate == rewards[i].reward_rate
             top == limit[k]
             next == limit[k + 1]
             old == replayed[i]
             new == replayed'[i]
             least == load.least
  <2>1. rate \in Nat /\ old \in Nat /\ new \in Nat
    BY <1>1, <1>3, SlotNats DEF TypeOK, ReplayInv
  <2>2. rate * least <= top /\ ScaledSupply + old <= top
    BY <1>4 DEF SkewInv, Slow
  <2>3. new <= old + rate * s
    BY <1>3
  <2>4. rewards'[i].reward_rate = rate
    BY <1>2
  <2>5. /\ top \in Nat /\ next \in Nat /\ top * least + MaxStepBack * top <= next * least
        /\ least \in Nat /\ least > 0
    BY <1>5, LoadNats
  <2> HIDE DEF rate, top, next, old, new, least
  <2>6. ScaledSupply + new <= next /\ rate * least <= next
    BY <1>5, <2>1, <2>2, <2>3, <2>5, StepGrows
  <2> QED BY <2>4, <2>6 DEF rate, next, new, least
<1>7. AllFit(skews * MaxStepBack, load)'
  <2>1. PICK n \in Nat : n = k * MaxStepBack
    BY <1>5, HorizonNat
  <2>2. (k + 1) * MaxStepBack = n + MaxStepBack
    <3>1. MaxStepBack * (k + 1) = MaxStepBack * k + MaxStepBack * 1
      BY <1>5, MulSplit
    <3>2. /\ MaxStepBack * (k + 1) = (k + 1) * MaxStepBack
          /\ MaxStepBack * k = k * MaxStepBack /\ MaxStepBack * 1 = MaxStepBack
      BY <1>5
    <3> QED BY <2>1, <3>1, <3>2
  <2>3. AllFit(n, load)
    BY <1>4, <2>1 DEF SkewInv
  <2>4. ASSUME NEW i \in Slots
        PROVE  Fits(rewards[i], Since(i)' + (n + MaxStepBack), load)
    <3> DEFINE last == rewards[i].last_update_time
               old == Since(i)
               new == Since(i)'
    <3>1. rewards[i] \in RewardInfoType /\ clock \in Nat /\ last \in Nat
      BY <1>1, SinceType
    <3>2. old = MinOf(last, clock) /\ new = MinOf(last, clock')
      BY <1>2 DEF Since
    <3>3. s \in Nat /\ s <= MaxStepBack /\ MaxStepBack \in Nat /\ clock' \in Nat
          /\ clock' <= clock /\ clock - clock' = s
      BY <1>2, SkewAssumption
    <3> HIDE DEF last, old, new
    <3>4. /\ old + n \in Nat /\ new + (n + MaxStepBack) \in Nat
          /\ old + n <= new + (n + MaxStepBack)
      BY <3>1, <3>2, <3>3, SinceBack
    <3>5. Fits(rewards[i], old + n, load)
      BY <2>3 DEF AllFit, old
    <3>6. Fits(rewards[i], new + (n + MaxStepBack), load)
      BY <3>1, <3>4, <3>5, FitsLater
    <3> QED BY <3>6 DEF new
  <2>5. AllFit(n + MaxStepBack, load)'
    BY <1>2, <2>3, <2>4 DEF AllFit
  <2> QED BY <1>4, <2>2, <2>5 DEF AllFit
<1>8. Started'
  BY <1>1, <1>2 DEF Started
<1>9. Slow(limit[skews], load.least)'
  BY <1>4, <1>6 DEF Slow
<1> QED BY <1>3, <1>4, <1>5, <1>6, <1>7, <1>8, <1>9 DEF SkewInv

LEMMA InitSkew ==
    ASSUME NEW load \in Loads, load.horizon = Horizon, Wide(load),
           NEW limit \in [0 .. MaxSkews -> 0 .. load.most], Grows(limit, load.least),
           SkewInit
    PROVE  SkewInv(limit, load)
<1>1. ReplayInv /\ Started
  BY InitReplay, InitExit DEF SkewInit, ExitInv
<1>2. /\ skews = 0 /\ 0 \in 0 .. MaxSkews /\ 0 * MaxStepBack = 0
      /\ ScaledSupply \in Nat /\ limit[0] \in Nat /\ ScaledSupply <= limit[0]
  BY HorizonNat, SupplyNat DEF SkewInit, Grows
<1>3. AllFit(0, load) /\ Slow(limit[0], load.least)
  BY <1>2, InitFits DEF SkewInit, Wide
<1>4. ASSUME NEW i \in Slots PROVE ScaledSupply + replayed[i] <= limit[0]
  <2>1. replayed[i] = 0
    BY DEF SkewInit
  <2> QED BY <1>2, <2>1
<1> QED BY <1>1, <1>2, <1>3, <1>4 DEF SkewInv

LEMMA StepSkew ==
    ASSUME NEW load \in Loads, load.horizon = Horizon, Wide(load),
           NEW limit \in [0 .. MaxSkews -> 0 .. load.most], Grows(limit, load.least),
           SkewInv(limit, load), [SkewNext]_skewVars
    PROVE  SkewInv(limit, load)'
BY NextSkew, StepBackSkew DEF SkewNext, skewVars

LEMMA SkewExits ==
    ASSUME NEW load \in Loads, load.horizon = Horizon, Wide(load),
           NEW limit \in [0 .. MaxSkews -> 0 .. load.most], SkewInv(limit, load)
    PROVE  PrincipalExits
<1> SUFFICES ASSUME NEW o \in Owners, stakers[o].staked_amount > 0
             PROVE  MayUnstake(o, stakers[o].staked_amount)
  BY DEF PrincipalExits
<1>1. PICK n \in Nat : n = skews * MaxStepBack
  BY HorizonNat DEF SkewInv
<1>2. Room(n, load)
  BY <1>1, SkewRoom
<1>3. stakers[o].created
  BY DEF SkewInv, Started, NoStaker
<1> QED BY <1>2, <1>3, UnstakeWorks

(* Wherever a clock that may step back has put the pool, every staker gets *)
(* the whole principal out through unstake, if u64 and u128 hold the most  *)
(* that a slot is ever due and i64 the seconds, the repeated ones too.     *)
(* `limit` is any function that grows from the scaled reward supply by the *)
(* factor 1 + MaxStepBack / load.least with each step back.                *)
THEOREM StakesExitSkewed ==
    ASSUME NEW load \in Loads, load.horizon = Horizon, Wide(load),
           NEW limit \in [0 .. MaxSkews -> 0 .. load.most], Grows(limit, load.least)
    PROVE  SkewSpec => []PrincipalExits
<1>1. SkewInit => SkewInv(limit, load)
  BY InitSkew
<1>2. SkewInv(limit, load) /\ [SkewNext]_skewVars => SkewInv(limit, load)'
  BY StepSkew
<1>3. SkewInv(limit, load) => PrincipalExits
  BY SkewExits
<1> QED BY <1>1, <1>2, <1>3, PTL DEF SkewSpec

=============================================================================
