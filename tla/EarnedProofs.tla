---------------------------- MODULE EarnedProofs ----------------------------
(***************************************************************************)
(* What the owners have earned, between settlements and across them, for   *)
(* every value of the constants.                                           *)
(*                                                                         *)
(* The argument rests on two facts about reward-per-token: it only grows   *)
(* with time and with a smaller total, and a slot that has just been       *)
(* settled has nothing left to add, whatever the total becomes.            *)
(***************************************************************************)
EXTENDS RewardProofs

-----------------------------------------------------------------------------
(* Quotients. *)

LEMMA DivBounds ==
    ASSUME NEW a \in Nat, NEW c \in Nat, c > 0
    PROVE  /\ a \div c \in Nat
           /\ c * (a \div c) <= a
           /\ a <= c * (a \div c) + (c - 1)
OBVIOUS

LEMMA DivLargest ==
    ASSUME NEW a \in Nat, NEW c \in Nat, c > 0, NEW q \in Nat, c * q <= a
    PROVE  q <= a \div c
<1> DEFINE d == a \div c
<1>1. d \in Nat /\ a <= c * d + (c - 1)
  BY DivBounds
<1> HIDE DEF d
<1> SUFFICES ASSUME d + 1 <= q PROVE FALSE
  BY <1>1 DEF d
<1>2. c * (d + 1) <= c * q
  BY <1>1, MulMonotone
<1>3. c * (d + 1) = c * d + c /\ c * d \in Nat /\ c * q \in Nat
  BY <1>1, MulType
<1> QED BY <1>1, <1>2, <1>3

LEMMA DivMonotone ==
    ASSUME NEW a \in Nat, NEW b \in Nat, NEW c \in Nat, c > 0, a <= b
    PROVE  a \div c \in Nat /\ b \div c \in Nat /\ a \div c <= b \div c
<1> DEFINE d == a \div c
<1>1. d \in Nat /\ c * d <= a /\ c * d \in Nat /\ b \div c \in Nat
  BY DivBounds, MulType
<1> HIDE DEF d
<1>2. c * d <= b
  BY <1>1
<1>3. d <= b \div c
  BY <1>1, <1>2, DivLargest
<1> QED BY <1>1, <1>3 DEF d

LEMMA DivFewer ==
    ASSUME NEW a \in Nat, NEW b \in Nat, NEW c \in Nat, c > 0, c <= b
    PROVE  a \div b \in Nat /\ a \div c \in Nat /\ a \div b <= a \div c
<1> DEFINE d == a \div b
<1>1. d \in Nat /\ b * d <= a /\ b * d \in Nat /\ a \div c \in Nat
  BY DivBounds, MulType
<1> HIDE DEF d
<1>2. d * c <= d * b /\ d * c \in Nat
  BY <1>1, MulMonotone
<1>3. c * d <= a
  BY <1>1, <1>2
<1>4. d <= a \div c
  BY <1>1, <1>3, DivLargest
<1> QED BY <1>1, <1>4 DEF d

-----------------------------------------------------------------------------
(* Reward-per-token at a time that is not before the last settlement.      *)

(* The seconds that a settlement would count, and what they add.           *)
Elapsed(slot, now) ==
    IF slot.last_update_time < MinOf(now, slot.period_finish)
    THEN MinOf(now, slot.period_finish) - slot.last_update_time
    ELSE 0

LEMMA SlotNats ==
    ASSUME NEW slot \in RewardInfoType
    PROVE  /\ slot.reward_rate \in Nat /\ slot.reward_per_token_stored \in Nat
           /\ slot.period_finish \in Nat /\ slot.last_update_time \in Nat
           /\ slot.duration \in Nat
BY WidthAssumption DEF RewardInfoType, U128, Timestamp

LEMMA ElapsedType ==
    ASSUME NEW slot \in RewardInfoType, NEW now \in Nat
    PROVE  /\ Elapsed(slot, now) \in Nat
           /\ Elapsed(slot, now) * slot.reward_rate \in Nat
<1>1. Elapsed(slot, now) \in Nat
  BY SlotNats DEF Elapsed, MinOf
<1> QED BY <1>1, SlotNats, MulType

LEMMA RptIs ==
    ASSUME NEW slot \in RewardInfoType, NEW total \in Nat, NEW now \in Nat
    PROVE  RewardPerToken(slot, total, now)
              = slot.reward_per_token_stored
                + IF total > 0 THEN (Elapsed(slot, now) * slot.reward_rate) \div total ELSE 0
<1>1. CASE total > 0 /\ slot.last_update_time < MinOf(now, slot.period_finish)
  BY <1>1, SlotNats DEF RewardPerToken, AccrueRpt, Elapsed, MinOf
<1>2. CASE total > 0 /\ ~(slot.last_update_time < MinOf(now, slot.period_finish))
  <2>1. RewardPerToken(slot, total, now) = slot.reward_per_token_stored
    BY <1>2, SlotNats DEF RewardPerToken, AccrueRpt, MinOf
  <2>2. Elapsed(slot, now) = 0
    BY <1>2 DEF Elapsed
  <2>3. (0 * slot.reward_rate) \div total = 0
    BY <1>2, SlotNats
  <2> QED BY <1>2, <2>1, <2>2, <2>3, SlotNats
<1>3. CASE total = 0
  BY <1>3, SlotNats DEF RewardPerToken
<1> QED BY <1>1, <1>2, <1>3

LEMMA RptType ==
    ASSUME NEW slot \in RewardInfoType, NEW total \in Nat, NEW now \in Nat
    PROVE  /\ RewardPerToken(slot, total, now) \in Nat
           /\ slot.reward_per_token_stored <= RewardPerToken(slot, total, now)
<1>1. CASE total > 0
  <2>1. (Elapsed(slot, now) * slot.reward_rate) \div total \in Nat
    BY <1>1, ElapsedType, DivBounds
  <2> QED BY <1>1, <2>1, RptIs, SlotNats
<1>2. CASE total = 0
  BY <1>2, RptIs, SlotNats
<1> QED BY <1>1, <1>2

(* It grows with time. *)
LEMMA RptLater ==
    ASSUME NEW slot \in RewardInfoType, NEW total \in Nat, NEW now \in Nat,
           NEW later \in Nat, now <= later
    PROVE  RewardPerToken(slot, total, now) <= RewardPerToken(slot, total, later)
<1> DEFINE e == Elapsed(slot, now)
           f == Elapsed(slot, later)
           r == slot.reward_rate
<1>1. e \in Nat /\ f \in Nat /\ r \in Nat
  BY ElapsedType, SlotNats
<1>2. e <= f
  BY SlotNats DEF Elapsed, MinOf
<1>3. RewardPerToken(slot, total, now)
         = slot.reward_per_token_stored + IF total > 0 THEN (e * r) \div total ELSE 0
  BY RptIs
<1>4. RewardPerToken(slot, total, later)
         = slot.reward_per_token_stored + IF total > 0 THEN (f * r) \div total ELSE 0
  BY RptIs
<1> HIDE DEF e, f, r
<1>5. e * r \in Nat /\ f * r \in Nat /\ e * r <= f * r
  <2>1. r * e \in Nat /\ r * f \in Nat /\ r * e <= r * f BY <1>1, <1>2, MulMonotone
  <2>2. r * e = e * r /\ r * f = f * r BY <1>1
  <2> QED BY <2>1, <2>2
<1>6. CASE total > 0
  BY <1>3, <1>4, <1>5, <1>6, DivMonotone, SlotNats
<1>7. CASE total = 0
  BY <1>3, <1>4, <1>7, SlotNats
<1> QED BY <1>6, <1>7

(* It grows when the same time is divided among fewer tokens. *)
LEMMA RptFewer ==
    ASSUME NEW slot \in RewardInfoType, NEW total \in Nat, NEW fewer \in Nat,
           0 < fewer, fewer <= total, NEW now \in Nat
    PROVE  RewardPerToken(slot, total, now) <= RewardPerToken(slot, fewer, now)
<1> DEFINE n == Elapsed(slot, now) * slot.reward_rate
<1>1. n \in Nat
  BY ElapsedType
<1>2. RewardPerToken(slot, total, now) = slot.reward_per_token_stored + n \div total
  BY RptIs
<1>3. RewardPerToken(slot, fewer, now) = slot.reward_per_token_stored + n \div fewer
  BY RptIs
<1> HIDE DEF n
<1> QED BY <1>1, <1>2, <1>3, DivFewer, SlotNats

(* A slot that has just been settled adds nothing. *)
LEMMA RptSettled ==
    ASSUME NEW slot \in RewardInfoType, NEW total \in Nat, NEW now \in Nat,
           slot.last_update_time = now
    PROVE  RewardPerToken(slot, total, now) = slot.reward_per_token_stored
<1>1. Elapsed(slot, now) = 0
  BY SlotNats DEF Elapsed, MinOf
<1>2. total > 0 => (0 * slot.reward_rate) \div total = 0
  BY SlotNats
<1> QED BY <1>1, <1>2, RptIs, SlotNats

-----------------------------------------------------------------------------
(* What an owner has earned and is owed at this moment. *)

StakeAt(o) == stakers[o].staked_amount
AccruedAt(o, i) == stakers[o].entries[i].rewards_accrued
PaidAt(o, i) == stakers[o].entries[i].reward_per_token_paid

(* The scaled tokens an owner has gained since the last checkpoint. *)
Gained(o, i) == StakeAt(o) * (RptNow(i) - PaidAt(o, i))

LEMMA PoolNats ==
    ASSUME TypeOK
    PROVE  /\ clock \in Nat /\ pool.total_staked \in Nat /\ stake_vault \in Nat
           /\ \A i \in Slots : rewards[i] \in RewardInfoType
           /\ \A m \in Mints : reward_vault[m] \in Nat
           /\ PRECISION \in Nat /\ PRECISION > 0
<1>1. PRECISION \in Nat /\ PRECISION > 0
  BY WidthAssumption
<1>2. clock \in Nat /\ pool.total_staked \in Nat /\ stake_vault \in Nat
  BY PoolAssumption, WidthAssumption DEF TypeOK, PoolType, U64
<1>3. \A m \in Mints : reward_vault[m] \in Nat
  BY PoolAssumption DEF TypeOK
<1> QED BY <1>1, <1>2, <1>3 DEF TypeOK

LEMMA NowNats ==
    ASSUME TypeOK, Paid, NEW o \in Owners, NEW i \in Slots
    PROVE  /\ RptNow(i) \in Nat
           /\ StakeAt(o) \in Nat /\ AccruedAt(o, i) \in Nat /\ PaidAt(o, i) \in Nat
           /\ PaidAt(o, i) <= RptNow(i)
           /\ RptNow(i) - PaidAt(o, i) \in Nat
           /\ Gained(o, i) \in Nat
<1>1. RptNow(i) \in Nat /\ rewards[i].reward_per_token_stored <= RptNow(i)
  BY PoolNats, RptType DEF RptNow
<1>2. /\ StakeAt(o) \in Nat /\ AccruedAt(o, i) \in Nat /\ PaidAt(o, i) \in Nat
      /\ rewards[i].reward_per_token_stored \in Nat
  BY OwedInt DEF TypeOK, StakeAt, AccruedAt, PaidAt
<1>3. PaidAt(o, i) <= rewards[i].reward_per_token_stored
  BY DEF Paid, PaidAt
<1>4. PaidAt(o, i) <= RptNow(i) /\ RptNow(i) - PaidAt(o, i) \in Nat
  BY <1>1, <1>2, <1>3
<1>5. Gained(o, i) \in Nat
  BY <1>2, <1>4, MulType DEF Gained
<1> QED BY <1>1, <1>2, <1>4, <1>5

(* EarnedNow is OwedNow in whole tokens, rounded down. *)
LEMMA EarnedIs ==
    ASSUME TypeOK, Paid, NEW o \in Owners, NEW i \in Slots
    PROVE  /\ EarnedNow(o, i) = AccruedAt(o, i) + Gained(o, i) \div PRECISION
           /\ OwedNow(o, i) = AccruedAt(o, i) * PRECISION + Gained(o, i)
           /\ EarnedNow(o, i) \in Nat
           /\ OwedNow(o, i) \in Nat
           /\ EarnedNow(o, i) * PRECISION <= OwedNow(o, i)
           /\ OwedNow(o, i) <= EarnedNow(o, i) * PRECISION + (PRECISION - 1)
<1> DEFINE a == AccruedAt(o, i)
           g == Gained(o, i)
           q == g \div PRECISION
<1>1. a \in Nat /\ g \in Nat /\ PRECISION \in Nat /\ PRECISION > 0
  BY NowNats, PoolNats
<1>2. EarnedNow(o, i) = a + q /\ OwedNow(o, i) = a * PRECISION + g
  BY DEF EarnedNow, Earned, OwedNow, Gained, StakeAt, AccruedAt, PaidAt
<1> HIDE DEF a, g
<1>3. q \in Nat /\ PRECISION * q <= g /\ g <= PRECISION * q + (PRECISION - 1)
  BY <1>1, DivBounds
<1> HIDE DEF q
<1>4. (a + q) * PRECISION = a * PRECISION + PRECISION * q
  BY <1>1, <1>3
<1>5. a * PRECISION \in Nat /\ PRECISION * q \in Nat
  BY <1>1, <1>3, MulType
<1>6. /\ a + q \in Nat
      /\ a * PRECISION + g \in Nat
      /\ (a + q) * PRECISION <= a * PRECISION + g
      /\ a * PRECISION + g <= (a + q) * PRECISION + (PRECISION - 1)
  BY <1>1, <1>3, <1>4, <1>5
<1> QED BY <1>2, <1>6 DEF a, g, q

-----------------------------------------------------------------------------
(* A settlement changes nothing: it writes down what holds already. *)

LEMMA SettledNow ==
    ASSUME TypeOK, NEW i \in Slots, Registered(i)
    PROVE  /\ SettledSlots[i] = SettleSlot(rewards[i], pool.total_staked, clock)
           /\ SettledSlots[i].reward_per_token_stored = RptNow(i)
           /\ SettledSlots[i].last_update_time = clock
           /\ SettledSlots[i].mint # NoMint
<1>1. SettledSlots[i] = SettleSlot(rewards[i], pool.total_staked, clock)
  BY DEF SettledSlots, UpdateSlots, Registered
<1>2. rewards[i] \in RewardInfoType
  BY PoolNats
<1> QED BY <1>1, <1>2, SettledKeeps DEF SettleSlot, RptNow, RewardInfoType, Registered

LEMMA CheckpointNow ==
    ASSUME TypeOK, NEW o \in Owners, NEW i \in Slots, Registered(i)
    PROVE  /\ Checkpoint(o)[i].rewards_accrued = EarnedNow(o, i)
           /\ Checkpoint(o)[i].reward_per_token_paid = RptNow(i)
BY SettledNow DEF Checkpoint, UpdateEntries, EarnedNow

LEMMA NextRptType ==
    ASSUME TypeOK', NEW i \in Slots
    PROVE  /\ rewards'[i] \in RewardInfoType /\ pool'.total_staked \in Nat /\ clock' \in Nat
           /\ RptNow(i)' \in Nat
           /\ RptNow(i)' = RewardPerToken(rewards'[i], pool'.total_staked, clock')
<1>1. rewards'[i] \in RewardInfoType /\ pool'.total_staked \in Nat /\ clock' \in Nat
  BY PoolAssumption, WidthAssumption DEF TypeOK, PoolType, U64
<1>2. RptNow(i)' = RewardPerToken(rewards'[i], pool'.total_staked, clock')
  BY DEF RptNow
<1> QED BY <1>1, <1>2, RptType

(* A step after which slot i is settled at the same moment. *)
SettlesSlot(i) ==
    /\ clock' = clock
    /\ rewards'[i].reward_per_token_stored = RptNow(i)
    /\ rewards'[i].last_update_time = clock

LEMMA SettlingKeepsRpt ==
    ASSUME TypeOK', NEW i \in Slots, SettlesSlot(i)
    PROVE  RptNow(i)' = RptNow(i)
<1>1. RewardPerToken(rewards'[i], pool'.total_staked, clock')
        = rewards'[i].reward_per_token_stored
  BY NextRptType, RptSettled DEF SettlesSlot
<1> QED BY <1>1, NextRptType DEF SettlesSlot

(* For an owner the step leaves alone. *)
LEMMA SettlingKeepsEarned ==
    ASSUME TypeOK', NEW i \in Slots, SettlesSlot(i), NEW o \in Owners,
           stakers'[o] = stakers[o]
    PROVE  EarnedNow(o, i)' = EarnedNow(o, i) /\ OwedNow(o, i)' = OwedNow(o, i)
BY SettlingKeepsRpt DEF EarnedNow, OwedNow

(* For the owner who is checkpointed, and takes c tokens. *)
LEMMA CheckpointKeepsEarned ==
    ASSUME TypeOK, TypeOK', Paid, NEW i \in Slots, SettlesSlot(i), NEW o \in Owners,
           NEW c \in Nat,
           PaidAt(o, i)' = RptNow(i), AccruedAt(o, i)' = EarnedNow(o, i) - c
    PROVE  /\ EarnedNow(o, i)' = EarnedNow(o, i) - c
           /\ OwedNow(o, i)' = (EarnedNow(o, i) - c) * PRECISION
<1>1. RptNow(i)' = RptNow(i) /\ RptNow(i) \in Nat /\ EarnedNow(o, i) \in Nat
  BY SettlingKeepsRpt, NowNats, EarnedIs
<1>2. stakers'[o].staked_amount \in Nat
  BY OwedInt DEF TypeOK
<1>3. stakers'[o].staked_amount * (RptNow(i) - RptNow(i)) = 0
  BY <1>1, <1>2
<1>4. 0 \div PRECISION = 0
  BY WidthAssumption
<1>5. EarnedNow(o, i)' = (EarnedNow(o, i) - c) + 0 \div PRECISION
  BY <1>1, <1>3 DEF EarnedNow, Earned, PaidAt, AccruedAt
<1>6. OwedNow(o, i)' = (EarnedNow(o, i) - c) * PRECISION + 0
  BY <1>1, <1>3 DEF OwedNow, PaidAt, AccruedAt
<1>7. (EarnedNow(o, i) - c) * PRECISION \in Int
  BY <1>1, WidthAssumption
<1> QED BY <1>1, <1>4, <1>5, <1>6, <1>7

-----------------------------------------------------------------------------
(* The effect of every action on the earnings of the slots registered      *)
(* before it.                                                              *)

SameFor(o, i) == EarnedNow(o, i)' = EarnedNow(o, i) /\ OwedNow(o, i)' = OwedNow(o, i)

(* Nothing a settlement reads is touched. *)
LEMMA QuietStep ==
    ASSUME TypeOK, clock' = clock, pool'.total_staked = pool.total_staked, NEW i \in Slots,
           /\ rewards'[i].reward_rate = rewards[i].reward_rate
           /\ rewards'[i].reward_per_token_stored = rewards[i].reward_per_token_stored
           /\ rewards'[i].period_finish = rewards[i].period_finish
           /\ rewards'[i].last_update_time = rewards[i].last_update_time
    PROVE  /\ RptNow(i)' = RptNow(i)
           /\ StreamNow(i)' = StreamNow(i)
           /\ \A o \in Owners : stakers'[o] = stakers[o] => SameFor(o, i)
<1>1. RptNow(i)' = RptNow(i)
  BY DEF RptNow, RewardPerToken
<1>2. rewards[i] \in RewardInfoType
  BY PoolNats
<1>3. StreamNow(i)' = StreamNow(i)
  BY <1>2 DEF StreamNow, StreamOf, SettleSlot, RolledFinish, RewardInfoType
<1>4. \A o \in Owners : stakers'[o] = stakers[o] => SameFor(o, i)
  BY <1>1 DEF EarnedNow, OwedNow, SameFor
<1> QED BY <1>1, <1>3, <1>4

(* An admin instruction leaves what a settlement of the slot reads alone. *)
LEMMA AdminLeaves ==
    ASSUME RewardInv, NEW k \in Keys, AdminStep(k), NEW i \in Slots, Registered(i)
    PROVE  /\ clock' = clock /\ stakers' = stakers /\ reward_vault' = reward_vault
           /\ pool'.total_staked = pool.total_staked
           /\ rewards'[i].mint = rewards[i].mint
           /\ rewards'[i].reward_rate = rewards[i].reward_rate
           /\ rewards'[i].reward_per_token_stored = rewards[i].reward_per_token_stored
           /\ rewards'[i].period_finish = rewards[i].period_finish
           /\ rewards'[i].last_update_time = rewards[i].last_update_time
<1>a. TypeOK /\ SlotTable /\ Fresh
  BY DEF RewardInv, TableInv
<1> DEFINE Untouched ==
      /\ clock' = clock /\ stakers' = stakers /\ reward_vault' = reward_vault
      /\ pool'.total_staked = pool.total_staked
      /\ rewards'[i].mint = rewards[i].mint
      /\ rewards'[i].reward_rate = rewards[i].reward_rate
      /\ rewards'[i].reward_per_token_stored = rewards[i].reward_per_token_stored
      /\ rewards'[i].period_finish = rewards[i].period_finish
      /\ rewards'[i].last_update_time = rewards[i].last_update_time
<1>b. pool \in PoolType /\ rewards \in [Slots -> RewardInfoType]
  BY <1>a DEF TypeOK
<1>1. ASSUME NEW k2 \in Keys, NEW d \in Durations, InitializePool(k, k2, d) PROVE Untouched
  BY <1>a, <1>1 DEF InitializePool, NewPool, Fresh, NoPool
<1>2. ASSUME NEW m \in Mints, NEW d \in Durations, AddReward(k, m, d) PROVE Untouched
  <2>1. PICK j \in Slots : /\ ~Registered(j)
                           /\ rewards' = [rewards EXCEPT ![j] = NewSlot(m, d)]
    BY <1>2 DEF AddReward, IsFirstSlot, Registered
  <2>2. rewards'[i] = rewards[i]
    BY <1>b, <2>1
  <2>3. pool'.total_staked = pool.total_staked
    BY <1>b, <1>2 DEF AddReward, PoolType
  <2> QED BY <1>2, <2>2, <2>3 DEF AddReward
<1>3. ASSUME NEW j \in Slots, NEW active \in BOOLEAN, SetRewardActive(k, j, active)
      PROVE  Untouched
  BY <1>3, <1>b DEF SetRewardActive, RewardInfoType
<1>4. ASSUME NEW j \in Slots, NEW d \in Durations, SetDuration(k, j, d) PROVE Untouched
  BY <1>4, <1>b DEF SetDuration, RewardInfoType
<1>5. ASSUME NEW paused \in BOOLEAN, SetPaused(k, paused) PROVE Untouched
  BY <1>5, <1>b DEF SetPaused, PoolType
<1>6. ASSUME NEW k2 \in Keys, SetKeeperAuthority(k, k2) \/ SetAdmin(k, k2) PROVE Untouched
  BY <1>6, <1>b DEF SetKeeperAuthority, SetAdmin, PoolType
<1>7. Untouched
  BY <1>1, <1>2, <1>3, <1>4, <1>5, <1>6 DEF AdminStep, SetUpStep, AdminOnlyStep
<1> QED BY <1>7

LEMMA AdminQuiet ==
    ASSUME RewardInv, NEW k \in Keys, AdminStep(k), NEW i \in Slots, Registered(i)
    PROVE  /\ clock' = clock /\ stakers' = stakers /\ reward_vault' = reward_vault
           /\ rewards'[i].mint = rewards[i].mint
           /\ RptNow(i)' = RptNow(i) /\ StreamNow(i)' = StreamNow(i)
           /\ \A o \in Owners : SameFor(o, i)
<1>1. TypeOK
  BY DEF RewardInv, TableInv
<1> QED BY <1>1, AdminLeaves, QuietStep

(* A deposit, into this slot or another one. *)
LEMMA DepositSettles ==
    ASSUME RewardInv, TypeOK', NEW k \in Keys, NEW m \in Mints, NEW a \in RewardAmounts,
           DepositRewards(k, m, a), NEW i \in Slots, Registered(i)
    PROVE  /\ SettlesSlot(i) /\ RptNow(i)' = RptNow(i)
           /\ rewards'[i].mint = rewards[i].mint
           /\ stakers' = stakers /\ pool' = pool
           /\ rewards[i].mint # m => rewards'[i] = SettledSlots[i]
           /\ rewards[i].mint = m => /\ RestreamOk(SettledSlots[i], a)
                                     /\ rewards'[i] = Restreamed(SettledSlots[i], a)
           /\ reward_vault' = [reward_vault EXCEPT ![m] = @ + a]
           /\ a \in Nat /\ a > 0
           /\ \A o \in Owners : SameFor(o, i)
<1>a. /\ TypeOK /\ SlotTable /\ SettleOk
      /\ clock' = clock /\ stakers' = stakers /\ pool' = pool
      /\ reward_vault' = [reward_vault EXCEPT ![m] = @ + a]
      /\ a \in Nat /\ a > 0
  BY PoolAssumption DEF RewardInv, TableInv, DepositRewards
<1>b. SettledSlots \in [Slots -> RewardInfoType] /\ SettledSlots[i] \in RewardInfoType
  BY <1>a, SettledType
<1>c. (reward_vault[m] + a) - reward_vault[m] = a
  <2>1. reward_vault[m] \in Nat BY <1>a, PoolNats
  <2> QED BY <1>a, <2>1
<1>1. PICK j \in Slots :
        /\ IsFirstSlot(rewards, j, m)
        /\ RestreamOk(SettledSlots[j], a)
        /\ rewards' = [SettledSlots EXCEPT ![j] = Restreamed(SettledSlots[j], a)]
  BY <1>c DEF DepositRewards
<1>2. rewards[i].mint = m <=> i = j
  BY <1>a, <1>1 DEF IsFirstSlot, SlotTable, Registered
<1>3. rewards[i].mint # m => rewards'[i] = SettledSlots[i]
  BY <1>b, <1>1, <1>2
<1>4. rewards[i].mint = m => /\ RestreamOk(SettledSlots[i], a)
                             /\ rewards'[i] = Restreamed(SettledSlots[i], a)
  BY <1>b, <1>1, <1>2
<1>5. /\ SettledSlots[i].reward_per_token_stored = RptNow(i)
      /\ SettledSlots[i].last_update_time = clock
      /\ SettledSlots[i].mint = rewards[i].mint
  BY <1>a, SettledNow, SettledKeeps
<1>6. /\ Restreamed(SettledSlots[i], a).reward_per_token_stored = RptNow(i)
      /\ Restreamed(SettledSlots[i], a).last_update_time = clock
      /\ Restreamed(SettledSlots[i], a).mint = rewards[i].mint
  BY <1>b, <1>5 DEF Restreamed, RewardInfoType
<1>7. SettlesSlot(i) /\ rewards'[i].mint = rewards[i].mint
  BY <1>a, <1>3, <1>4, <1>5, <1>6 DEF SettlesSlot
<1>8. RptNow(i)' = RptNow(i) /\ \A o \in Owners : SameFor(o, i)
  BY <1>a, <1>7, SettlingKeepsRpt, SettlingKeepsEarned DEF SameFor
<1> QED BY <1>a, <1>3, <1>4, <1>7, <1>8

(* A stake or a partial exit: the owner is checkpointed. *)
LEMMA StakeSettles ==
    ASSUME RewardInv, TypeOK', NEW o \in Owners, NEW a \in StakeAmounts,
           Stake(o, a) \/ Unstake(o, a), NEW i \in Slots, Registered(i)
    PROVE  /\ SettlesSlot(i) /\ RptNow(i)' = RptNow(i)
           /\ rewards' = SettledSlots /\ rewards'[i].mint = rewards[i].mint
           /\ reward_vault' = reward_vault
           /\ \A p \in Owners : p # o => SameFor(p, i)
           /\ EarnedNow(o, i)' = EarnedNow(o, i)
           /\ OwedNow(o, i)' = EarnedNow(o, i) * PRECISION
<1>a. TypeOK /\ Paid /\ CheckpointOk(o)
  BY DEF RewardInv, TableInv, Stake, MayStake, Unstake, MayUnstake
<1>1. /\ rewards' = SettledSlots /\ clock' = clock /\ reward_vault' = reward_vault
      /\ stakers'[o].entries = Checkpoint(o)
      /\ \A p \in Owners : p # o => stakers'[p] = stakers[p]
  BY <1>a DEF Stake, Unstake, TypeOK
<1>2. SettlesSlot(i) /\ rewards'[i].mint = rewards[i].mint
  BY <1>a, <1>1, SettledNow, SettledKeeps DEF SettlesSlot
<1>3. RptNow(i)' = RptNow(i) /\ \A p \in Owners : p # o => SameFor(p, i)
  BY <1>1, <1>2, SettlingKeepsRpt, SettlingKeepsEarned DEF SameFor
<1>4. EarnedNow(o, i) \in Nat
  BY <1>a, EarnedIs
<1>5. PaidAt(o, i)' = RptNow(i) /\ AccruedAt(o, i)' = EarnedNow(o, i) - 0
  BY <1>a, <1>1, <1>4, CheckpointNow DEF PaidAt, AccruedAt
<1>6. /\ EarnedNow(o, i)' = EarnedNow(o, i) - 0
      /\ OwedNow(o, i)' = (EarnedNow(o, i) - 0) * PRECISION
  BY <1>a, <1>2, <1>5, CheckpointKeepsEarned
<1> QED BY <1>1, <1>2, <1>3, <1>4, <1>6

(* What a claim of S pays an owner out of slot i. *)
Paying(o, S, i) == IF rewards[i].mint \in S THEN EarnedNow(o, i) ELSE 0

LEMMA ClaimSettles ==
    ASSUME RewardInv, TypeOK', NEW o \in Owners, NEW S \in SUBSET Mints, Claim(o, S),
           NEW i \in Slots, Registered(i)
    PROVE  /\ SettlesSlot(i) /\ RptNow(i)' = RptNow(i)
           /\ rewards' = SettledSlots /\ rewards'[i].mint = rewards[i].mint
           /\ \A p \in Owners : p # o => SameFor(p, i)
           /\ Paying(o, S, i) \in Nat
           /\ EarnedNow(o, i)' = EarnedNow(o, i) - Paying(o, S, i)
           /\ OwedNow(o, i)' = (EarnedNow(o, i) - Paying(o, S, i)) * PRECISION
           /\ rewards[i].mint \in S => Payout(o, rewards[i].mint) = EarnedNow(o, i)
           /\ reward_vault'[rewards[i].mint] = reward_vault[rewards[i].mint] - Paying(o, S, i)
           /\ Paying(o, S, i) <= reward_vault[rewards[i].mint]
<1> DEFINE m == rewards[i].mint
           c == Paying(o, S, i)
<1>a. /\ TypeOK /\ TableInv /\ SlotTable /\ Paid /\ CheckpointOk(o)
      /\ Checkpoint(o) \in [Slots -> RewardEntryType]
  BY CheckpointType DEF RewardInv, TableInv, Claim, MayClaim
<1>1. /\ rewards' = SettledSlots /\ clock' = clock
      /\ stakers'[o].entries = TakeSlots(o, S)
      /\ \A p \in Owners : p # o => stakers'[p] = stakers[p]
  BY <1>a DEF Claim, TypeOK, StakerType
<1>2. SettlesSlot(i) /\ rewards'[i].mint = rewards[i].mint
  BY <1>a, <1>1, SettledNow, SettledKeeps DEF SettlesSlot
<1>3. RptNow(i)' = RptNow(i) /\ \A p \in Owners : p # o => SameFor(p, i)
  BY <1>1, <1>2, SettlingKeepsRpt, SettlingKeepsEarned DEF SameFor
<1>4. EarnedNow(o, i) \in Nat /\ c \in Nat
  BY <1>a, EarnedIs DEF Paying
<1>5. m \in Mints /\ reward_vault[m] \in Nat /\ IsFirstSlot(rewards, i, m)
  BY <1>a, VaultInt DEF IsFirstSlot, SlotTable, Slots
<1>6. /\ Checkpoint(o)[i].rewards_accrued = EarnedNow(o, i)
      /\ Checkpoint(o)[i].reward_per_token_paid = RptNow(i)
      /\ Checkpoint(o)[i] \in RewardEntryType
  BY <1>a, CheckpointNow
<1>7. Payout(o, m) = EarnedNow(o, i)
  BY <1>5, <1>6, PayoutOfSlot
<1>8. (\E n \in S : IsFirstSlot(rewards, i, n)) <=> m \in S
  BY <1>5 DEF IsFirstSlot
<1>9. PaidAt(o, i)' = RptNow(i)
  BY <1>1, <1>6 DEF PaidAt, TakeSlots, RewardEntryType
<1>10. AccruedAt(o, i)' = EarnedNow(o, i) - c
  <2>1. CASE m \in S
    <3>1. TakeSlots(o, S)[i].rewards_accrued = 0
      BY <1>6, <1>8, <2>1 DEF TakeSlots, RewardEntryType
    <3> QED BY <1>1, <1>4, <2>1, <3>1 DEF AccruedAt, Paying
  <2>2. CASE m \notin S
    <3>1. TakeSlots(o, S)[i].rewards_accrued = EarnedNow(o, i)
      BY <1>6, <1>8, <2>2 DEF TakeSlots
    <3> QED BY <1>1, <1>4, <2>2, <3>1 DEF AccruedAt, Paying
  <2> QED BY <2>1, <2>2
<1>11. /\ EarnedNow(o, i)' = EarnedNow(o, i) - c
       /\ OwedNow(o, i)' = (EarnedNow(o, i) - c) * PRECISION
  <2> HIDE DEF c
  <2> QED BY <1>a, <1>2, <1>4, <1>9, <1>10, CheckpointKeepsEarned
<1>12. reward_vault'[m] = reward_vault[m] - c /\ c <= reward_vault[m]
  <2>1. CASE m \in S
    <3>1. reward_vault'[m] = reward_vault[m] - Payout(o, m)
      BY <1>5, <2>1 DEF Claim
    <3>2. Payout(o, m) <= reward_vault[m]
      BY <2>1 DEF Claim, MayClaim
    <3> QED BY <1>7, <2>1, <3>1, <3>2 DEF Paying
  <2>2. CASE m \notin S
    BY <1>5, <2>2 DEF Claim, Paying
  <2> QED BY <2>1, <2>2
<1> QED BY <1>1, <1>2, <1>3, <1>4, <1>7, <1>11, <1>12

(* An owner's earnings follow reward-per-token. *)
LEMMA EarnedFollowsRpt ==
    ASSUME TypeOK, TypeOK', Paid, NEW o \in Owners, NEW i \in Slots, stakers'[o] = stakers[o],
           StakeAt(o) = 0 \/ RptNow(i) <= RptNow(i)'
    PROVE  EarnedNow(o, i)' \in Nat /\ EarnedNow(o, i) <= EarnedNow(o, i)'
<1> DEFINE s == StakeAt(o)
           a == AccruedAt(o, i)
           p == PaidAt(o, i)
           r == RptNow(i)
           n == RptNow(i)'
<1>1. /\ r \in Nat /\ n \in Nat /\ s \in Nat /\ a \in Nat /\ p \in Nat /\ p <= r
      /\ PRECISION \in Nat /\ PRECISION > 0
  BY NowNats, NextRptType, PoolNats
<1>2. /\ EarnedNow(o, i) = a + (s * (r - p)) \div PRECISION
      /\ EarnedNow(o, i)' = a + (s * (n - p)) \div PRECISION
  BY DEF EarnedNow, Earned, StakeAt, AccruedAt, PaidAt
<1>3. CASE s = 0
  <2>1. s * (r - p) = 0 /\ s * (n - p) = 0
    BY <1>1, <1>3
  <2>2. 0 \div PRECISION = 0
    BY <1>1
  <2> QED BY <1>1, <1>2, <2>1, <2>2
<1>4. CASE r <= n
  <2> HIDE DEF s, a, p, r, n
  <2>1. r - p \in Nat /\ n - p \in Nat /\ r - p <= n - p
    BY <1>1, <1>4
  <2>2. s * (r - p) \in Nat /\ s * (n - p) \in Nat /\ s * (r - p) <= s * (n - p)
    BY <1>1, <2>1, MulMonotone
  <2>3. /\ (s * (r - p)) \div PRECISION \in Nat /\ (s * (n - p)) \div PRECISION \in Nat
        /\ (s * (r - p)) \div PRECISION <= (s * (n - p)) \div PRECISION
    BY <1>1, <2>2, DivMonotone
  <2> QED BY <1>1, <1>2, <2>3
<1> QED BY <1>3, <1>4

LEMMA TickGrows ==
    ASSUME RewardInv, TypeOK', Tick, NEW i \in Slots
    PROVE  /\ RptNow(i)' \in Nat /\ RptNow(i) <= RptNow(i)'
           /\ stakers' = stakers /\ rewards' = rewards /\ reward_vault' = reward_vault
           /\ pool' = pool /\ clock' = clock + 1
           /\ \A o \in Owners : EarnedNow(o, i)' \in Nat /\ EarnedNow(o, i) <= EarnedNow(o, i)'
<1>a. /\ TypeOK /\ Paid
      /\ stakers' = stakers /\ rewards' = rewards /\ reward_vault' = reward_vault
      /\ pool' = pool /\ clock' = clock + 1
  BY DEF RewardInv, TableInv, Tick
<1>1. RptNow(i)' = RewardPerToken(rewards[i], pool.total_staked, clock + 1)
  BY <1>a DEF RptNow
<1>2. clock \in Nat /\ clock + 1 \in Nat /\ clock <= clock + 1
      /\ rewards[i] \in RewardInfoType /\ pool.total_staked \in Nat
  BY <1>a, PoolNats
<1>3. RptNow(i) <= RptNow(i)' /\ RptNow(i)' \in Nat
  BY <1>1, <1>2, RptLater, RptType DEF RptNow
<1> QED BY <1>a, <1>3, EarnedFollowsRpt

(* An emergency withdrawal only lets the others gain; if nobody else has a *)
(* stake, time up to now adds nothing to anyone any more, and nobody else  *)
(* has a stake that it could have added to.                                *)
LEMMA EmergencyGrows ==
    ASSUME RewardInv, TypeOK', NEW o \in Owners, EmergencyWithdraw(o), NEW i \in Slots
    PROVE  /\ stakers'[o] = [created |-> TRUE, staked_amount |-> 0, entries |-> Forfeited]
           /\ \A p \in Owners : p # o => stakers'[p] = stakers[p]
           /\ rewards' = rewards /\ clock' = clock /\ reward_vault' = reward_vault
           /\ pool'.total_staked = pool.total_staked - StakeAt(o)
           /\ StakeAt(o) > 0
           /\ EarnedNow(o, i)' = 0 /\ OwedNow(o, i)' = 0
           /\ \A p \in Owners : p # o =>
                /\ StakeAt(p) = 0 \/ RptNow(i) <= RptNow(i)'
                /\ EarnedNow(p, i)' \in Nat /\ EarnedNow(p, i) <= EarnedNow(p, i)'
<1>a. TypeOK /\ Paid /\ PrincipalSolvent
  BY DEF RewardInv, TableInv
<1>1. /\ rewards' = rewards /\ clock' = clock /\ reward_vault' = reward_vault
      /\ stakers'[o] = [created |-> TRUE, staked_amount |-> 0, entries |-> Forfeited]
      /\ \A p \in Owners : p # o => stakers'[p] = stakers[p]
      /\ pool' = [pool EXCEPT !.total_staked = SaturatingSub(@, StakeAt(o))]
      /\ StakeAt(o) > 0
  BY <1>a DEF EmergencyWithdraw, MayEmergencyWithdraw, TypeOK, StakeAt
<1>2. \A p \in Owners : StakeAt(p) \in Nat /\ StakeAt(p) <= pool.total_staked
  BY <1>a, StakeOfType, OwedInt DEF PrincipalSolvent, StakeAt, TypeOK
<1>3. pool.total_staked \in Nat /\ clock \in Nat /\ rewards[i] \in RewardInfoType
  BY <1>a, PoolNats
<1>4. pool'.total_staked = pool.total_staked - StakeAt(o)
  <2>1. pool'.total_staked = SaturatingSub(pool.total_staked, StakeAt(o))
    BY <1>a, <1>1 DEF TypeOK, PoolType
  <2> QED BY <1>2, <1>3, <2>1 DEF SaturatingSub
<1>5. RptNow(i)' = RewardPerToken(rewards[i], pool'.total_staked, clock)
      /\ RptNow(i)' \in Nat /\ pool'.total_staked \in Nat
  BY <1>1, NextRptType
<1>6. EarnedNow(o, i)' = 0 /\ OwedNow(o, i)' = 0
  <2> DEFINE d == RptNow(i)' - rewards[i].reward_per_token_stored
  <2>1. d \in Int BY <1>3, <1>5, SlotNats
  <2>2. /\ EarnedNow(o, i)' = 0 + (0 * d) \div PRECISION
        /\ OwedNow(o, i)' = 0 * PRECISION + 0 * d
    BY <1>1 DEF EarnedNow, Earned, OwedNow, Forfeited
  <2>3. 0 * d = 0 /\ 0 \div PRECISION = 0 /\ 0 * PRECISION = 0
    BY <2>1, WidthAssumption
  <2> QED BY <2>2, <2>3
<1>7. ASSUME NEW p \in Owners, p # o
      PROVE  StakeAt(p) = 0 \/ RptNow(i) <= RptNow(i)'
  <2>1. StakeAt(p) <= pool'.total_staked
    <3>1. PrincipalSolvent' /\ TypeOK'
      BY StepPrincipal, StepTableInv DEF RewardInv, Next, OwnerStep
    <3> DEFINE g == [q \in Owners |-> stakers'[q].staked_amount]
    <3>2. g \in [Owners -> Nat]
      BY <3>1, OwedInt DEF TypeOK
    <3>3. pool'.total_staked = SumFunction(g)
      BY <3>1 DEF PrincipalSolvent, Principal
    <3>4. g[p] = StakeAt(p)
      BY <1>1, <1>7 DEF StakeAt
    <3> HIDE DEF g
    <3> QED BY <3>2, <3>3, <3>4, PoolAssumption, SumElement
  <2>2. CASE StakeAt(p) # 0
    <3>1. 0 < pool'.total_staked /\ pool'.total_staked <= pool.total_staked
      BY <1>2, <1>3, <1>4, <1>5, <2>1, <2>2
    <3>2. RewardPerToken(rewards[i], pool.total_staked, clock)
             <= RewardPerToken(rewards[i], pool'.total_staked, clock)
      BY <1>3, <1>5, <3>1, RptFewer
    <3> QED BY <1>5, <3>2 DEF RptNow
  <2> QED BY <2>2
<1>8. ASSUME NEW p \in Owners, p # o
      PROVE  EarnedNow(p, i)' \in Nat /\ EarnedNow(p, i) <= EarnedNow(p, i)'
  <2>1. stakers'[p] = stakers[p] BY <1>1, <1>8
  <2> QED BY <1>a, <1>7, <1>8, <2>1, EarnedFollowsRpt
<1> QED BY <1>1, <1>4, <1>6, <1>7, <1>8

(* A transfer into a vault, or no step at all. *)
LEMMA DonationQuiet ==
    ASSUME TypeOK, Donation \/ UNCHANGED vars, NEW i \in Slots
    PROVE  /\ clock' = clock /\ stakers' = stakers /\ rewards' = rewards /\ pool' = pool
           /\ \A m \in Mints : reward_vault'[m] \in Nat /\ reward_vault[m] <= reward_vault'[m]
           /\ RptNow(i)' = RptNow(i) /\ StreamNow(i)' = StreamNow(i)
           /\ \A o \in Owners : SameFor(o, i)
<1>a. reward_vault \in [Mints -> Nat]
  BY PoolAssumption DEF TypeOK
<1>1. /\ clock' = clock /\ stakers' = stakers /\ rewards' = rewards /\ pool' = pool
      /\ \A m \in Mints : reward_vault'[m] \in Nat /\ reward_vault[m] <= reward_vault'[m]
  <2>1. ASSUME NEW n \in Mints, NEW a \in RewardAmounts, DonateReward(n, a)
        PROVE  \A m \in Mints : reward_vault'[m] \in Nat /\ reward_vault[m] <= reward_vault'[m]
    <3>1. a \in Nat BY PoolAssumption
    <3> QED BY <1>a, <2>1, <3>1 DEF DonateReward
  <2>2. ASSUME reward_vault' = reward_vault
        PROVE  \A m \in Mints : reward_vault'[m] \in Nat /\ reward_vault[m] <= reward_vault'[m]
    BY <1>a, <2>2
  <2> QED BY <2>1, <2>2 DEF Donation, DonateStake, DonateReward, vars
<1>2. /\ RptNow(i)' = RptNow(i) /\ StreamNow(i)' = StreamNow(i)
      /\ \A o \in Owners : SameFor(o, i)
  BY <1>1, QuietStep
<1> QED BY <1>1, <1>2

-----------------------------------------------------------------------------
(* Nobody's earnings are taken. *)

LEMMA StepEarned ==
    ASSUME RewardInv, TypeOK', [Next]_vars, NEW o \in Owners, NEW i \in Slots, Registered(i)
    PROVE  \/ EarnedNow(o, i)' >= EarnedNow(o, i)
           \/ \E S \in SUBSET Mints : rewards[i].mint \in S /\ Claim(o, S)
           \/ EmergencyWithdraw(o)
<1>a. TypeOK /\ Paid /\ EarnedNow(o, i) \in Nat
  BY EarnedIs DEF RewardInv, TableInv
<1> DEFINE Kept == EarnedNow(o, i)' >= EarnedNow(o, i)
<1>b. ASSUME EarnedNow(o, i)' = EarnedNow(o, i) PROVE Kept
  BY <1>a, <1>b
<1>1. ASSUME NEW k \in Keys, AdminStep(k) PROVE Kept
  BY <1>1, <1>b, AdminQuiet DEF SameFor
<1>2. ASSUME NEW k \in Keys, KeeperStep(k) PROVE Kept
  BY <1>2, <1>b, DepositSettles DEF KeeperStep, SameFor
<1>3. ASSUME NEW p \in Owners, NEW a \in StakeAmounts, Stake(p, a) \/ Unstake(p, a) PROVE Kept
  BY <1>3, <1>b, StakeSettles DEF SameFor
<1>4. ASSUME NEW p \in Owners, NEW S \in SUBSET Mints, Claim(p, S),
             ~(p = o /\ rewards[i].mint \in S)
      PROVE  Kept
  <2>1. CASE p # o
    BY <1>4, <1>b, <2>1, ClaimSettles DEF SameFor
  <2>2. CASE p = o /\ rewards[i].mint \notin S
    <3>1. EarnedNow(o, i)' = EarnedNow(o, i) - 0
      BY <1>4, <2>2, ClaimSettles DEF Paying
    <3> QED BY <1>a, <1>b, <3>1
  <2> QED BY <1>4, <2>1, <2>2
<1>5. ASSUME NEW p \in Owners, EmergencyWithdraw(p), p # o PROVE Kept
  BY <1>5, <1>a, EmergencyGrows
<1>6. CASE Donation \/ UNCHANGED vars
  BY <1>6, <1>a, <1>b, DonationQuiet DEF SameFor
<1>7. CASE Tick
  BY <1>7, <1>a, TickGrows
<1>8. CASE \E p \in Owners : OwnerStep(p)
  BY <1>8, <1>3, <1>4, <1>5 DEF OwnerStep
<1> QED BY <1>1, <1>2, <1>6, <1>7, <1>8 DEF Next

(* No step lowers what an owner could claim of a slot, but that owner's    *)
(* own claim of it and the emergency withdrawal that forfeits it.          *)
THEOREM EarningsAreNeverTaken == Spec => EarnedNeverTaken
<1> DEFINE Step ==
      \A o \in Owners, i \in Slots :
         Registered(i) =>
            \/ EarnedNow(o, i)' >= EarnedNow(o, i)
            \/ \E S \in SUBSET Mints : rewards[i].mint \in S /\ Claim(o, S)
            \/ EmergencyWithdraw(o)
<1>1. RewardInv /\ RewardInv' /\ [Next]_vars => [Step]_vars
  BY StepEarned DEF RewardInv, TableInv
<1> QED BY <1>1, RewardInvariant, PTL DEF Spec, EarnedNeverTaken

-----------------------------------------------------------------------------
(* Tokens leave a vault as the owners' earnings drop, within one moment. *)

EarnedOfAll(i) == [o \in Owners |-> EarnedNow(o, i)]

LEMMA SameSum ==
    ASSUME NEW i \in Slots, \A o \in Owners : EarnedNow(o, i)' = EarnedNow(o, i)
    PROVE  EarnedOfAll(i)' = EarnedOfAll(i)
BY DEF EarnedOfAll

LEMMA EarnedSum ==
    ASSUME TypeOK, Paid, NEW i \in Slots
    PROVE  EarnedOfAll(i) \in [Owners -> Nat] /\ SumFunction(EarnedOfAll(i)) \in Int
<1>1. EarnedOfAll(i) \in [Owners -> Nat]
  BY EarnedIs DEF EarnedOfAll
<1>2. EarnedOfAll(i) \in [Owners -> Int]
  BY <1>1
<1> QED BY <1>1, <1>2, PoolAssumption, SumType

(* A claim lowers one term of the sum by what it pays. *)
LEMMA ClaimLowersSum ==
    ASSUME RewardInv, RewardInv', NEW o \in Owners, NEW S \in SUBSET Mints, Claim(o, S),
           NEW i \in Slots, Registered(i)
    PROVE  SumFunction(EarnedOfAll(i)') = SumFunction(EarnedOfAll(i)) - Paying(o, S, i)
<1>a. TypeOK /\ Paid /\ TypeOK'
  BY DEF RewardInv, TableInv
<1>1. EarnedOfAll(i) \in [Owners -> Int] /\ SumFunction(EarnedOfAll(i)) \in Int
  BY <1>a, EarnedSum
<1>2. /\ \A p \in Owners : p # o => EarnedNow(p, i)' = EarnedNow(p, i)
      /\ EarnedNow(o, i)' = EarnedNow(o, i) - Paying(o, S, i)
      /\ Paying(o, S, i) \in Nat
  BY <1>a, ClaimSettles DEF SameFor
<1>3. EarnedOfAll(i)' = [p \in Owners |-> EarnedNow(p, i)']
  BY DEF EarnedOfAll
<1>4. \A p \in Owners : EarnedNow(p, i)' \in Int
  BY <1>1, <1>2 DEF EarnedOfAll
<1>5. PICK h : h = EarnedOfAll(i)'
  OBVIOUS
<1>6. /\ h \in [Owners -> Int]
      /\ \A p \in Owners : p # o => h[p] = EarnedOfAll(i)[p]
      /\ h[o] = EarnedOfAll(i)[o] - Paying(o, S, i)
  BY <1>2, <1>3, <1>4, <1>5 DEF EarnedOfAll
<1>7. SumFunction(h) = SumFunction(EarnedOfAll(i)) + (h[o] - EarnedOfAll(i)[o])
  BY <1>1, <1>6, PoolAssumption, SumUpdate
<1>8. EarnedOfAll(i)[o] \in Int
  BY <1>1
<1> QED BY <1>1, <1>2, <1>5, <1>6, <1>7, <1>8

LEMMA StepPaid ==
    ASSUME RewardInv, RewardInv', [Next]_vars, clock' = clock,
           \A o \in Owners : ~EmergencyWithdraw(o),
           NEW i \in Slots, Registered(i)
    PROVE  SumFunction(EarnedOfAll(i)) - SumFunction(EarnedOfAll(i)')
              = SaturatingSub(reward_vault[rewards[i].mint], reward_vault'[rewards[i].mint])
<1> DEFINE m == rewards[i].mint
<1>a. TypeOK /\ TypeOK' /\ Paid
  BY DEF RewardInv, TableInv
<1>b. m \in Mints /\ reward_vault[m] \in Nat /\ SumFunction(EarnedOfAll(i)) \in Int
  BY <1>a, VaultInt, EarnedSum
<1> DEFINE Fits == SumFunction(EarnedOfAll(i)) - SumFunction(EarnedOfAll(i)')
                      = SaturatingSub(reward_vault[m], reward_vault'[m])
<1>c. ASSUME \A o \in Owners : EarnedNow(o, i)' = EarnedNow(o, i),
             reward_vault'[m] \in Nat, reward_vault[m] <= reward_vault'[m]
      PROVE  Fits
  <2>1. SaturatingSub(reward_vault[m], reward_vault'[m]) = 0
    BY <1>b, <1>c DEF SaturatingSub
  <2>2. EarnedOfAll(i)' = EarnedOfAll(i)
    BY <1>c, SameSum
  <2> QED BY <1>b, <2>1, <2>2
<1>1. ASSUME NEW k \in Keys, AdminStep(k) PROVE Fits
  BY <1>1, <1>a, <1>b, <1>c, AdminQuiet DEF SameFor
<1>2. ASSUME NEW k \in Keys, NEW n \in Mints, NEW a \in RewardAmounts, DepositRewards(k, n, a)
      PROVE  Fits
  <2>1. /\ \A o \in Owners : EarnedNow(o, i)' = EarnedNow(o, i)
        /\ reward_vault' = [reward_vault EXCEPT ![n] = @ + a] /\ a \in Nat
    BY <1>2, <1>a, DepositSettles DEF SameFor
  <2>2. reward_vault'[m] \in Nat /\ reward_vault[m] <= reward_vault'[m]
    BY <1>a, <1>b, <2>1 DEF TypeOK
  <2> QED BY <1>c, <2>1, <2>2
<1>3. ASSUME NEW o \in Owners, NEW a \in StakeAmounts, Stake(o, a) \/ Unstake(o, a) PROVE Fits
  <2>1. /\ \A p \in Owners : EarnedNow(p, i)' = EarnedNow(p, i)
        /\ reward_vault' = reward_vault
    BY <1>3, <1>a, StakeSettles DEF SameFor
  <2> QED BY <1>b, <1>c, <2>1
<1>4. ASSUME NEW o \in Owners, NEW S \in SUBSET Mints, Claim(o, S) PROVE Fits
  <2> DEFINE c == Paying(o, S, i)
  <2>1. c \in Nat /\ c <= reward_vault[m] /\ reward_vault'[m] = reward_vault[m] - c
    BY <1>4, <1>a, ClaimSettles
  <2>2. SumFunction(EarnedOfAll(i)') = SumFunction(EarnedOfAll(i)) - c
    BY <1>4, ClaimLowersSum
  <2> HIDE DEF c
  <2>3. SaturatingSub(reward_vault[m], reward_vault'[m]) = c
    BY <1>b, <2>1 DEF SaturatingSub
  <2> QED BY <1>b, <2>1, <2>2, <2>3
<1>5. CASE Donation \/ UNCHANGED vars
  BY <1>5, <1>a, <1>b, <1>c, DonationQuiet DEF SameFor
<1>6. CASE Tick
  <2>1. clock' = clock + 1 /\ clock \in Nat
    BY <1>6, <1>a, PoolNats DEF Tick
  <2> QED BY <2>1
<1> QED BY <1>1, <1>2, <1>3, <1>4, <1>5, <1>6 DEF Next, KeeperStep, OwnerStep

(* Within one moment, the tokens that leave a reward vault are exactly     *)
(* what the owners' earnings drop by: no order of stakes, exits, deposits  *)
(* and claims creates or destroys any.                                     *)
THEOREM PaymentsAreEarned == Spec => PaidIsEarned
<1> DEFINE Step ==
      clock' = clock /\ (\A o \in Owners : ~EmergencyWithdraw(o)) =>
         \A i \in Slots : Registered(i) =>
            LET m == rewards[i].mint
            IN  SumFunction([o \in Owners |-> EarnedNow(o, i)])
                - SumFunction([o \in Owners |-> EarnedNow(o, i)'])
                = SaturatingSub(reward_vault[m], reward_vault'[m])
<1>1. RewardInv /\ RewardInv' /\ [Next]_vars => [Step]_vars
  BY StepPaid DEF EarnedOfAll
<1> QED BY <1>1, RewardInvariant, PTL DEF Spec, PaidIsEarned

-----------------------------------------------------------------------------
(* What a step strands in a vault. *)

LEMMA StreamType ==
    ASSUME NEW slot \in RewardInfoType, NEW t \in Nat
    PROVE  StreamOf(slot, t) \in Nat
<1>1. t <= t OBVIOUS
<1> QED BY <1>1, StreamShrinks

LEMMA StreamNowIs ==
    ASSUME TypeOK, NEW i \in Slots
    PROVE  /\ Registered(i) => StreamNow(i) = StreamOf(SettledSlots[i], clock)
           /\ StreamNow(i) \in Nat
<1>1. rewards[i] \in RewardInfoType /\ clock \in Nat /\ pool.total_staked \in Nat
  BY PoolNats
<1> DEFINE s == SettleSlot(rewards[i], pool.total_staked, clock)
<1>2. s.period_finish = RolledFinish(rewards[i], pool.total_staked, clock)
      /\ s.reward_rate = rewards[i].reward_rate
  BY <1>1 DEF SettleSlot, RewardInfoType
<1>3. RolledFinish(rewards[i], pool.total_staked, clock) \in Int
      /\ rewards[i].reward_rate \in Nat
  BY <1>1, SlotNats DEF RolledFinish
<1>4. StreamNow(i) \in Nat
  <2>1. CASE clock < s.period_finish
    <3>1. s.period_finish - clock \in Nat BY <1>1, <1>2, <1>3, <2>1
    <3> QED BY <1>2, <1>3, <2>1, <3>1, MulType DEF StreamNow, StreamOf
  <2>2. CASE ~(clock < s.period_finish)
    BY <2>2 DEF StreamNow, StreamOf
  <2> QED BY <2>1, <2>2
<1> QED BY <1>4, SettledNow DEF StreamNow

(* A slot that is settled at this moment streams on from here. *)
LEMMA SettledStream ==
    ASSUME TypeOK', NEW i \in Slots, SettlesSlot(i)
    PROVE  StreamNow(i)' = StreamOf(rewards'[i], clock)
<1>1. rewards'[i] \in RewardInfoType /\ clock' \in Nat
  BY NextRptType
<1>2. SettleSlot(rewards'[i], pool'.total_staked, clock').period_finish
        = rewards'[i].period_finish
  BY <1>1 DEF SettlesSlot, SettleSlot, RolledFinish, RewardInfoType
<1>3. SettleSlot(rewards'[i], pool'.total_staked, clock').reward_rate
        = rewards'[i].reward_rate
  BY <1>1 DEF SettleSlot, RewardInfoType
<1> QED BY <1>2, <1>3 DEF StreamNow, StreamOf, SettlesSlot

LEMMA OneMoreTime ==
    ASSUME NEW e \in Nat, NEW r \in Nat
    PROVE  e * r \in Nat /\ (e + 1) * r = e * r + r
OBVIOUS

(* A second with stake gives the stakers what the stream gives up, less    *)
(* than one unit of reward-per-token short; a second without stake leaves  *)
(* the stream as it is, unless the period ends.                            *)
LEMMA SecondStreams ==
    ASSUME NEW slot \in RewardInfoType, NEW total \in Nat, NEW now \in Nat,
           slot.last_update_time <= now
    PROVE  LET gain == RewardPerToken(slot, total, now + 1) - RewardPerToken(slot, total, now)
               before == StreamOf(SettleSlot(slot, total, now), now)
               after == StreamOf(SettleSlot(slot, total, now + 1), now + 1)
           IN  /\ gain \in Nat
               /\ total > 0 => before <= gain * total + after + (total - 1)
               /\ total = 0 => before = after \/ slot.period_finish <= now + 1
<1> DEFINE last == slot.last_update_time
           finish == slot.period_finish
           rate == slot.reward_rate
           gain == RewardPerToken(slot, total, now + 1) - RewardPerToken(slot, total, now)
           before == StreamOf(SettleSlot(slot, total, now), now)
           after == StreamOf(SettleSlot(slot, total, now + 1), now + 1)
<1>1. last \in Nat /\ finish \in Nat /\ rate \in Nat /\ last <= now
  BY SlotNats
<1>2. gain \in Nat
  <2>1. now + 1 \in Nat /\ now <= now + 1 OBVIOUS
  <2>2. RewardPerToken(slot, total, now) \in Nat /\ RewardPerToken(slot, total, now + 1) \in Nat
        /\ RewardPerToken(slot, total, now) <= RewardPerToken(slot, total, now + 1)
    BY <2>1, RptType, RptLater
  <2> QED BY <2>2
<1>3. ASSUME NEW t \in Nat
      PROVE  StreamOf(SettleSlot(slot, total, t), t)
               = IF t < RolledFinish(slot, total, t)
                 THEN rate * (RolledFinish(slot, total, t) - t) ELSE 0
  BY DEF StreamOf, SettleSlot, RewardInfoType
<1>4. now + 1 \in Nat
  OBVIOUS
<1>5. CASE total > 0
  <2>1. RolledFinish(slot, total, now) = finish /\ RolledFinish(slot, total, now + 1) = finish
    BY <1>5 DEF RolledFinish
  <2>2. before = (IF now < finish THEN rate * (finish - now) ELSE 0)
        /\ after = (IF now + 1 < finish THEN rate * (finish - (now + 1)) ELSE 0)
    BY <1>3, <1>4, <2>1
  <2>3. CASE now < finish
    <3> DEFINE e == now - last
               n == e * rate
               q == n \div total
               w == (n + rate) \div total
    <3>1. e \in Nat /\ e + 1 \in Nat
      BY <1>1
    <3>2. Elapsed(slot, now) = e /\ Elapsed(slot, now + 1) = e + 1
      BY <1>1, <2>3 DEF Elapsed, MinOf
    <3>3. n \in Nat /\ (e + 1) * rate = n + rate
      <4> HIDE DEF e, rate
      <4> QED BY <1>1, <3>1, OneMoreTime
    <3>4. gain = w - q
      <4>1. RewardPerToken(slot, total, now) = slot.reward_per_token_stored + q
        BY <1>5, <3>2, RptIs
      <4>2. RewardPerToken(slot, total, now + 1)
               = slot.reward_per_token_stored + ((e + 1) * rate) \div total
        BY <1>4, <1>5, <3>2, RptIs
      <4>3. q \in Nat /\ w \in Nat
        BY <1>1, <1>5, <3>3, DivBounds
      <4> HIDE DEF e, n
      <4> QED BY <3>3, <4>1, <4>2, <4>3, SlotNats
    <3> HIDE DEF e, n
    <3>5. q \in Nat /\ total * q <= n
      BY <1>5, <3>3, DivBounds
    <3>6. w \in Nat /\ n + rate <= total * w + (total - 1)
      BY <1>1, <1>5, <3>3, DivBounds
    <3> HIDE DEF q, w, gain
    <3>7. gain * total = total * w - total * q
          /\ total * w \in Nat /\ total * q \in Nat
      BY <3>4, <3>5, <3>6, MulType
    <3>8. before = rate + after /\ after \in Nat
      <4>1. CASE now + 1 < finish
        <5>1. finish - now = 1 + (finish - (now + 1)) /\ finish - (now + 1) \in Nat
          BY <1>1, <4>1
        <5>2. rate * (finish - now) = rate * 1 + rate * (finish - (now + 1))
              /\ rate * (finish - (now + 1)) \in Nat
          BY <1>1, <5>1, MulSplit, MulType
        <5> QED BY <1>1, <2>2, <2>3, <4>1, <5>2
      <4>2. CASE ~(now + 1 < finish)
        <5>1. finish - now = 1 BY <1>1, <2>3, <4>2
        <5>2. rate * 1 = rate BY <1>1
        <5> QED BY <1>1, <2>2, <2>3, <4>2, <5>1, <5>2
      <4> QED BY <4>1, <4>2
    <3> HIDE DEF before, after
    <3>9. before <= gain * total + after + (total - 1)
      BY <1>1, <3>3, <3>5, <3>6, <3>7, <3>8
    <3> QED BY <1>2, <1>5, <3>9 DEF gain, before, after
  <2>4. CASE ~(now < finish)
    <3>1. before = 0 /\ after = 0
      BY <1>1, <2>2, <2>4
    <3>2. gain * total \in Nat
      BY <1>2, MulType
    <3> HIDE DEF gain, before, after
    <3>3. before <= gain * total + after + (total - 1)
      BY <1>5, <3>1, <3>2
    <3> QED BY <1>2, <1>5, <3>3 DEF gain, before, after
  <2> QED BY <2>3, <2>4
<1>6. CASE total = 0 /\ now + 1 < finish
  <2>1. RolledFinish(slot, total, now) = finish + (now - last)
    BY <1>1, <1>6 DEF RolledFinish
  <2>2. RolledFinish(slot, total, now + 1) = finish + ((now + 1) - last)
    BY <1>1, <1>6 DEF RolledFinish
  <2>3. RolledFinish(slot, total, now) - now = RolledFinish(slot, total, now + 1) - (now + 1)
        /\ now < RolledFinish(slot, total, now)
        /\ now + 1 < RolledFinish(slot, total, now + 1)
    BY <1>1, <1>6, <2>1, <2>2
  <2>4. before = after
    BY <1>3, <1>4, <2>3
  <2> QED BY <1>2, <1>6, <2>4
<1>7. CASE total = 0 /\ ~(now + 1 < finish)
  BY <1>1, <1>2, <1>7
<1> QED BY <1>5, <1>6, <1>7

OwedOfAll(i) == [o \in Owners |-> OwedNow(o, i)]

LEMMA OwedSum ==
    ASSUME TypeOK, Paid, NEW i \in Slots
    PROVE  OwedOfAll(i) \in [Owners -> Int] /\ SumFunction(OwedOfAll(i)) \in Int
<1>1. OwedOfAll(i) \in [Owners -> Int]
  BY EarnedIs DEF OwedOfAll
<1> QED BY <1>1, PoolAssumption, SumType

LEMMA OneOwedLess ==
    ASSUME TypeOK, Paid, NEW i \in Slots, NEW o \in Owners, NEW x \in Int,
           \A p \in Owners : p # o => OwedNow(p, i)' = OwedNow(p, i),
           OwedNow(o, i)' = OwedNow(o, i) - x
    PROVE  SumFunction(OwedOfAll(i))' = SumFunction(OwedOfAll(i)) - x
<1>1. OwedOfAll(i) \in [Owners -> Int] /\ SumFunction(OwedOfAll(i)) \in Int
  BY OwedSum
<1>2. \A p \in Owners : OwedNow(p, i) \in Int
  BY EarnedIs
<1>3. PICK h : h = [p \in Owners |-> OwedNow(p, i)']
  OBVIOUS
<1>4. SumFunction(OwedOfAll(i))' = SumFunction(h)
  BY <1>3 DEF OwedOfAll
<1>5. /\ h \in [Owners -> Int]
      /\ \A p \in Owners : p # o => h[p] = OwedOfAll(i)[p]
      /\ h[o] = OwedOfAll(i)[o] - x
  BY <1>2, <1>3 DEF OwedOfAll
<1>6. SumFunction(h) = SumFunction(OwedOfAll(i)) + (h[o] - OwedOfAll(i)[o])
  BY <1>1, <1>5, PoolAssumption, SumUpdate
<1>7. OwedOfAll(i)[o] \in Int
  BY <1>1
<1> QED BY <1>1, <1>4, <1>5, <1>6, <1>7

LEMMA NobodyOwedLess ==
    ASSUME NEW i \in Slots, \A o \in Owners : OwedNow(o, i)' = OwedNow(o, i)
    PROVE  SumFunction(OwedOfAll(i))' = SumFunction(OwedOfAll(i))
BY DEF OwedOfAll

(* Time that raises reward-per-token by g raises what all are owed by g    *)
(* for each token staked.                                                  *)
LEMMA AllOwedMore ==
    ASSUME TypeOK, Paid, NEW i \in Slots, NEW g \in Int, stakers' = stakers,
           RptNow(i)' = RptNow(i) + g
    PROVE  /\ SumFunction(OwedOfAll(i))' = SumFunction(OwedOfAll(i)) + g * Principal
           /\ \A o \in Owners : OwedNow(o, i)' = OwedNow(o, i) + g * StakeAt(o)
<1>1. OwedOfAll(i) \in [Owners -> Int] /\ SumFunction(OwedOfAll(i)) \in Int
  BY OwedSum
<1>2. StakeOf \in [Owners -> Int] /\ Principal = SumFunction(StakeOf)
  BY StakeOfType
<1>3. ASSUME NEW o \in Owners
      PROVE  /\ OwedNow(o, i)' = OwedNow(o, i) + g * StakeAt(o)
             /\ OwedNow(o, i)' \in Int
  <2> DEFINE s == StakeAt(o)
             a == AccruedAt(o, i) * PRECISION
             p == PaidAt(o, i)
             r == RptNow(i)
  <2>1. s \in Nat /\ a \in Nat /\ p \in Nat /\ r \in Nat
    BY NowNats, PoolNats, MulType
  <2>2. OwedNow(o, i) = a + s * (r - p) /\ OwedNow(o, i)' = a + s * ((r + g) - p)
    BY DEF OwedNow, StakeAt, AccruedAt, PaidAt
  <2> HIDE DEF s, a, p, r
  <2>3. s * ((r + g) - p) = s * (r - p) + s * g
    BY <2>1, MulSplit
  <2>4. s * g = g * s /\ s * (r - p) \in Int /\ g * s \in Int
    BY <2>1
  <2>5. a + s * ((r + g) - p) = (a + s * (r - p)) + g * s /\ a + s * ((r + g) - p) \in Int
    BY <2>1, <2>3, <2>4
  <2> QED BY <2>2, <2>5 DEF s
<1>4. PICK h : h = [o \in Owners |-> OwedNow(o, i)']
  OBVIOUS
<1>5. SumFunction(OwedOfAll(i))' = SumFunction(h)
  BY <1>4 DEF OwedOfAll
<1>6. h \in [Owners -> Int] /\ \A o \in Owners : h[o] = OwedOfAll(i)[o] + g * StakeOf[o]
  BY <1>3, <1>4 DEF OwedOfAll, StakeOf, StakeAt
<1>7. SumFunction(h) = SumFunction(OwedOfAll(i)) + g * SumFunction(StakeOf)
  <2>1. PICK f : f = OwedOfAll(i)
    OBVIOUS
  <2>2. PICK k : k = StakeOf
    OBVIOUS
  <2>3. f \in [Owners -> Int] /\ k \in [Owners -> Int] /\ h \in [Owners -> Int]
        /\ \A o \in Owners : h[o] = f[o] + g * k[o]
    BY <1>1, <1>2, <1>6, <2>1, <2>2
  <2>4. SumFunction(h) = SumFunction(f) + g * SumFunction(k)
    BY <2>3, PoolAssumption, SumLinear
  <2> QED BY <2>1, <2>2, <2>4
<1> QED BY <1>2, <1>3, <1>5, <1>7

LEMMA TickStrands ==
    ASSUME RewardInv, TypeOK', Tick, NEW i \in Slots, Registered(i)
    PROVE  \/ Stranded(i)' - Stranded(i) <= SaturatingSub(pool.total_staked, 1)
           \/ IdleExpiry(i)
<1> DEFINE g == RptNow(i)' - RptNow(i)
           V == reward_vault[rewards[i].mint] * PRECISION
           O == SumFunction(OwedOfAll(i))
           S == StreamNow(i)
           R == StreamNow(i)'
           T == pool.total_staked
<1>a. /\ TypeOK /\ Paid /\ Past /\ PrincipalSolvent
      /\ stakers' = stakers /\ rewards' = rewards /\ reward_vault' = reward_vault
      /\ pool' = pool /\ clock' = clock + 1
      /\ RptNow(i) \in Nat /\ RptNow(i)' \in Nat
  BY TickGrows, PoolNats, RptType DEF RewardInv, TableInv, RptNow
<1>1. /\ clock \in Nat /\ T \in Nat /\ rewards[i] \in RewardInfoType /\ V \in Nat
      /\ rewards[i].last_update_time <= clock
  BY <1>a, PoolNats, VaultInt DEF Past
<1>2. /\ g = RewardPerToken(rewards[i], T, clock + 1) - RewardPerToken(rewards[i], T, clock)
      /\ S = StreamOf(SettleSlot(rewards[i], T, clock), clock)
      /\ R = StreamOf(SettleSlot(rewards[i], T, clock + 1), clock + 1)
  BY <1>a DEF RptNow, StreamNow
<1>3. /\ g \in Nat
      /\ T > 0 => S <= g * T + R + (T - 1)
      /\ T = 0 => S = R \/ rewards[i].period_finish <= clock + 1
  BY <1>1, <1>2, SecondStreams
<1>4. RptNow(i)' = RptNow(i) + g
  BY <1>a
<1>5. SumFunction(OwedOfAll(i))' = O + g * T /\ O \in Int
  <2> HIDE DEF g
  <2> QED BY <1>a, <1>3, <1>4, AllOwedMore, OwedSum DEF PrincipalSolvent
<1>6. Stranded(i) = V - O - S /\ Stranded(i)' = V - (O + g * T) - R
  BY <1>a, <1>5 DEF Stranded, OwedOfAll
<1>7. S \in Nat /\ R \in Int /\ g * T \in Int
  <2>1. S \in Nat BY <1>a, StreamNowIs
  <2>2. R \in Int
    <3>1. clock + 1 \in Nat BY <1>1
    <3> DEFINE x == SettleSlot(rewards[i], T, clock + 1)
    <3>2. x.reward_rate \in Nat /\ x.period_finish \in Int
      BY <1>1, <3>1, SlotNats DEF SettleSlot, RewardInfoType, RolledFinish
    <3> QED BY <1>2, <3>1, <3>2 DEF StreamOf
  <2> QED BY <1>1, <1>3, <2>1, <2>2
<1> HIDE DEF g, V, O, S, R
<1>8. CASE T > 0
  <2>1. SaturatingSub(T, 1) = T - 1 BY <1>1, <1>8 DEF SaturatingSub
  <2> QED BY <1>1, <1>3, <1>5, <1>6, <1>7, <1>8, <2>1
<1>9. CASE T = 0
  <2>1. g * T = 0 BY <1>3, <1>9
  <2>2. SaturatingSub(T, 1) = 0 BY <1>9 DEF SaturatingSub
  <2>3. CASE S = R
    BY <1>1, <1>5, <1>6, <1>7, <2>1, <2>2, <2>3
  <2>4. CASE rewards[i].period_finish <= clock + 1
    <3>1. clock' >= rewards[i].period_finish
      BY <1>a, <1>1, <2>4, SlotNats
    <3> QED BY <1>9, <3>1 DEF IdleExpiry
  <2> QED BY <1>3, <1>9, <2>3, <2>4
<1> QED BY <1>1, <1>8, <1>9

LEMMA StrandedIs ==
    ASSUME TypeOK, Paid, NEW i \in Slots, Registered(i)
    PROVE  /\ reward_vault[rewards[i].mint] \in Nat
           /\ reward_vault[rewards[i].mint] * PRECISION \in Nat
           /\ SumFunction(OwedOfAll(i)) \in Int
           /\ StreamNow(i) \in Nat
           /\ Stranded(i) = reward_vault[rewards[i].mint] * PRECISION
                            - SumFunction(OwedOfAll(i)) - StreamNow(i)
           /\ Stranded(i) \in Int
<1>1. /\ reward_vault[rewards[i].mint] \in Nat
      /\ reward_vault[rewards[i].mint] * PRECISION \in Nat
      /\ SumFunction(OwedOfAll(i)) \in Int /\ StreamNow(i) \in Nat
  BY VaultInt, OwedSum, StreamNowIs
<1>2. Stranded(i) = reward_vault[rewards[i].mint] * PRECISION
                    - SumFunction(OwedOfAll(i)) - StreamNow(i)
  BY DEF Stranded, OwedOfAll
<1> QED BY <1>1, <1>2

(* The owner who is checkpointed and takes c tokens loses the fraction of  *)
(* a token.                                                                *)
LEMMA CheckpointStrands ==
    ASSUME TypeOK, TypeOK', Paid, NEW i \in Slots, Registered(i), SettlesSlot(i),
           rewards'[i] = SettledSlots[i], NEW o \in Owners, NEW c \in Nat,
           \A p \in Owners : p # o => SameFor(p, i),
           OwedNow(o, i)' = (EarnedNow(o, i) - c) * PRECISION,
           reward_vault'[rewards[i].mint] = reward_vault[rewards[i].mint] - c
    PROVE  Stranded(i)' - Stranded(i) <= PRECISION - 1
<1> DEFINE V == reward_vault[rewards[i].mint]
           O == SumFunction(OwedOfAll(i))
           E == EarnedNow(o, i)
           x == OwedNow(o, i) - (E - c) * PRECISION
<1>1. /\ V \in Nat /\ V * PRECISION \in Nat /\ O \in Int /\ StreamNow(i) \in Nat
      /\ Stranded(i) = V * PRECISION - O - StreamNow(i)
  BY StrandedIs
<1>2. /\ E \in Nat /\ OwedNow(o, i) \in Nat /\ OwedNow(o, i) <= E * PRECISION + (PRECISION - 1)
      /\ PRECISION \in Nat
  BY EarnedIs, PoolNats
<1>3. /\ (E - c) * PRECISION = E * PRECISION - c * PRECISION
      /\ (V - c) * PRECISION = V * PRECISION - c * PRECISION
      /\ c * PRECISION \in Nat /\ E * PRECISION \in Nat
  BY <1>1, <1>2, MulType
<1>4. x \in Int /\ OwedNow(o, i)' = OwedNow(o, i) - x
  BY <1>2, <1>3
<1>5. SumFunction(OwedOfAll(i))' = O - x
  <2>1. \A p \in Owners : p # o => OwedNow(p, i)' = OwedNow(p, i)
    BY DEF SameFor
  <2> HIDE DEF x
  <2> QED BY <1>4, <2>1, OneOwedLess
<1>6. StreamNow(i)' = StreamNow(i)
  BY SettledStream, StreamNowIs
<1>7. rewards'[i].mint = rewards[i].mint
  BY SettledKeeps
<1>8. Stranded(i)' = (V - c) * PRECISION - (O - x) - StreamNow(i)
  <2>1. Stranded(i)' = reward_vault'[rewards'[i].mint] * PRECISION
                       - SumFunction(OwedOfAll(i))' - StreamNow(i)'
    BY DEF Stranded, OwedOfAll
  <2> QED BY <1>5, <1>6, <1>7, <2>1
<1> HIDE DEF V, O, E
<1> QED BY <1>1, <1>2, <1>3, <1>4, <1>8

(* A deposit turns what came in and what was left into whole scaled tokens *)
(* for each second of the period.                                          *)
LEMMA RestreamStrands ==
    ASSUME NEW slot \in RewardInfoType, NEW received \in Nat, clock \in Nat,
           RestreamOk(slot, received)
    PROVE  /\ slot.duration > 0
           /\ received * PRECISION + StreamOf(slot, clock)
                <= StreamOf(Restreamed(slot, received), clock) + (slot.duration - 1)
<1> DEFINE d == slot.duration
           n == received * PRECISION
                + Leftover(slot.reward_rate, clock, slot.period_finish)
           q == n \div d
           r == Restreamed(slot, received)
<1>1. d \in Nat /\ d > 0 /\ slot.reward_rate \in Nat /\ slot.period_finish \in Nat
  BY SlotNats DEF RestreamOk, NotifyRateOk
<1>2. r.reward_rate = q /\ r.period_finish = clock + d
  BY DEF Restreamed, NotifyRate, RewardInfoType
<1>3. Leftover(slot.reward_rate, clock, slot.period_finish) = StreamOf(slot, clock)
  <2>1. CASE clock < slot.period_finish
    <3>1. slot.period_finish - clock \in Nat BY <1>1, <2>1
    <3>2. (slot.period_finish - clock) * slot.reward_rate
          = slot.reward_rate * (slot.period_finish - clock)
      BY <1>1, <3>1
    <3> QED BY <2>1, <3>2 DEF Leftover, StreamOf
  <2>2. CASE ~(clock < slot.period_finish) BY <2>2 DEF Leftover, StreamOf
  <2> QED BY <2>1, <2>2
<1>4. StreamOf(slot, clock) \in Nat
  BY StreamType
<1>5. n \in Nat /\ n = received * PRECISION + StreamOf(slot, clock)
  BY <1>3, <1>4, MulType, WidthAssumption
<1> HIDE DEF n
<1>6. q \in Nat /\ n <= d * q + (d - 1)
  BY <1>1, <1>5, DivBounds
<1> HIDE DEF q, d, r
<1>7. StreamOf(r, clock) = q * d
  <2>1. clock < clock + d /\ (clock + d) - clock = d BY <1>1
  <2> QED BY <1>2, <2>1 DEF StreamOf
<1>8. q * d = d * q /\ d * q \in Nat
  BY <1>1, <1>6, MulType
<1>9. received * PRECISION + StreamOf(slot, clock) <= StreamOf(r, clock) + (d - 1)
  BY <1>1, <1>5, <1>6, <1>7, <1>8
<1> QED BY <1>1, <1>9 DEF r, d

LEMMA DepositStrands ==
    ASSUME RewardInv, TypeOK', NEW k \in Keys, NEW m \in Mints, NEW a \in RewardAmounts,
           DepositRewards(k, m, a), NEW i \in Slots, Registered(i)
    PROVE  /\ clock' = clock
           /\ rewards[i].mint = m =>
                /\ reward_vault'[rewards[i].mint] > reward_vault[rewards[i].mint]
                /\ rewards[i].duration > 0
                /\ Stranded(i)' - Stranded(i) <= rewards[i].duration - 1
           /\ rewards[i].mint # m =>
                /\ reward_vault'[rewards[i].mint] = reward_vault[rewards[i].mint]
                /\ Stranded(i)' - Stranded(i) = 0
<1> DEFINE n == rewards[i].mint
           V == reward_vault[n]
           O == SumFunction(OwedOfAll(i))
           S == StreamNow(i)
<1>a. TypeOK /\ Paid /\ SettleOk
  BY DEF RewardInv, TableInv, DepositRewards
<1>b. /\ SettledSlots[i] \in RewardInfoType /\ clock \in Nat
      /\ SettledSlots[i].duration = rewards[i].duration
  <2>1. SettledSlots[i] = SettleSlot(rewards[i], pool.total_staked, clock)
        /\ rewards[i] \in RewardInfoType
    BY <1>a, SettledNow, PoolNats
  <2>2. SettledSlots[i].duration = rewards[i].duration
    BY <2>1 DEF SettleSlot, RewardInfoType
  <2> QED BY <1>a, <2>2, SettledType, PoolNats
<1>1. /\ SettlesSlot(i) /\ rewards'[i].mint = n
      /\ n # m => rewards'[i] = SettledSlots[i]
      /\ n = m => /\ RestreamOk(SettledSlots[i], a)
                  /\ rewards'[i] = Restreamed(SettledSlots[i], a)
      /\ reward_vault' = [reward_vault EXCEPT ![m] = @ + a]
      /\ a \in Nat /\ a > 0
      /\ \A o \in Owners : OwedNow(o, i)' = OwedNow(o, i)
  BY DepositSettles DEF SameFor
<1>2. /\ n \in Mints /\ V \in Nat /\ V * PRECISION \in Nat /\ O \in Int /\ S \in Nat
      /\ Stranded(i) = V * PRECISION - O - S
  BY <1>a, VaultInt, StrandedIs
<1>3. SumFunction(OwedOfAll(i))' = O
  BY <1>1, NobodyOwedLess
<1>4. StreamNow(i)' = StreamOf(rewards'[i], clock) /\ S = StreamOf(SettledSlots[i], clock)
  BY <1>a, <1>1, SettledStream, StreamNowIs
<1>5. Stranded(i)' = reward_vault'[n] * PRECISION - O - StreamOf(rewards'[i], clock)
  <2>1. Stranded(i)' = reward_vault'[rewards'[i].mint] * PRECISION
                       - SumFunction(OwedOfAll(i))' - StreamNow(i)'
    BY DEF Stranded, OwedOfAll
  <2> QED BY <1>1, <1>3, <1>4, <2>1
<1>6. reward_vault'[n] = IF n = m THEN V + a ELSE V
  BY <1>a, <1>1, <1>2 DEF TypeOK
<1>7. CASE n = m
  <2> DEFINE R == StreamOf(rewards'[i], clock)
  <2>1. /\ rewards[i].duration > 0
        /\ a * PRECISION + S <= R + (rewards[i].duration - 1)
    BY <1>b, <1>1, <1>4, <1>7, RestreamStrands
  <2>2. R \in Nat
    BY <1>b, NextRptType, StreamType
  <2>3. rewards[i].duration \in Nat
    BY <1>a, PoolNats, SlotNats
  <2>4. (V + a) * PRECISION = V * PRECISION + a * PRECISION /\ a * PRECISION \in Nat
    BY <1>1, <1>2, MulType, WidthAssumption
  <2>5. Stranded(i)' = (V + a) * PRECISION - O - R
    BY <1>5, <1>6, <1>7
  <2> HIDE DEF V, O, S, R
  <2>6. Stranded(i)' - Stranded(i) <= rewards[i].duration - 1
    BY <1>2, <2>1, <2>2, <2>3, <2>4, <2>5
  <2>7. V + a > V
    BY <1>1, <1>2
  <2> QED BY <1>1, <1>6, <1>7, <2>1, <2>6, <2>7 DEF SettlesSlot, V
<1>8. CASE n # m
  <2>1. Stranded(i)' = V * PRECISION - O - S
    BY <1>1, <1>4, <1>5, <1>6, <1>8
  <2>2. Stranded(i)' - Stranded(i) = 0
    <3> HIDE DEF V, O, S
    <3> QED BY <1>2, <2>1
  <2> QED BY <1>1, <1>6, <1>8, <2>2 DEF SettlesSlot
<1> QED BY <1>7, <1>8

(* What a step may strand. *)
Dust(i) ==
    CASE clock' # clock -> pool.total_staked
      [] clock' = clock /\ reward_vault'[rewards[i].mint] > reward_vault[rewards[i].mint]
           -> rewards[i].duration
      [] OTHER -> PRECISION

LEMMA StepStrands ==
    ASSUME RewardInv, TypeOK', [Next]_vars, ~Donation,
           \A o \in Owners : ~EmergencyWithdraw(o), NEW i \in Slots, Registered(i)
    PROVE  \/ Stranded(i)' - Stranded(i) <= SaturatingSub(Dust(i), 1)
           \/ clock' # clock /\ IdleExpiry(i)
<1> DEFINE m == rewards[i].mint
           Fits == \/ Stranded(i)' - Stranded(i) <= SaturatingSub(Dust(i), 1)
                   \/ clock' # clock /\ IdleExpiry(i)
<1>a. TypeOK /\ Paid
  BY DEF RewardInv, TableInv
<1>b. /\ reward_vault[m] \in Nat /\ Stranded(i) \in Int /\ clock \in Nat
      /\ rewards[i].duration \in Nat /\ PRECISION \in Nat /\ PRECISION > 0
      /\ SumFunction(OwedOfAll(i)) \in Int
  BY <1>a, StrandedIs, PoolNats, SlotNats
<1>c. ASSUME clock' = clock, Stranded(i)' - Stranded(i) <= PRECISION - 1,
             ~(reward_vault'[m] > reward_vault[m])
      PROVE  Fits
  <2>1. Dust(i) = PRECISION
    BY <1>c DEF Dust
  <2>2. SaturatingSub(PRECISION, 1) = PRECISION - 1
    BY <1>b DEF SaturatingSub
  <2> QED BY <1>c, <2>1, <2>2
<1>d. ASSUME clock' = clock, Stranded(i)' = Stranded(i), reward_vault'[m] = reward_vault[m]
      PROVE  Fits
  <2>1. Stranded(i)' - Stranded(i) <= PRECISION - 1
    BY <1>b, <1>d
  <2>2. ~(reward_vault'[m] > reward_vault[m])
    BY <1>b, <1>d
  <2> QED BY <1>c, <1>d, <2>1, <2>2
<1>e. ASSUME clock' = clock, rewards'[i].mint = m, reward_vault' = reward_vault,
             StreamNow(i)' = StreamNow(i), \A o \in Owners : SameFor(o, i)
      PROVE  Fits
  <2>1. SumFunction(OwedOfAll(i))' = SumFunction(OwedOfAll(i))
    BY <1>e, NobodyOwedLess DEF SameFor
  <2>2. Stranded(i)' = Stranded(i)
    BY <1>e, <2>1 DEF Stranded, OwedOfAll
  <2> QED BY <1>d, <1>e, <2>2
<1>1. ASSUME NEW k \in Keys, AdminStep(k) PROVE Fits
  BY <1>1, <1>e, AdminQuiet
<1>2. ASSUME NEW k \in Keys, NEW n \in Mints, NEW a \in RewardAmounts, DepositRewards(k, n, a)
      PROVE  Fits
  <2>1. CASE m = n
    <3>1. /\ clock' = clock /\ reward_vault'[m] > reward_vault[m] /\ rewards[i].duration > 0
          /\ Stranded(i)' - Stranded(i) <= rewards[i].duration - 1
      BY <1>2, <2>1, DepositStrands
    <3>2. Dust(i) = rewards[i].duration
      BY <3>1 DEF Dust
    <3>3. SaturatingSub(rewards[i].duration, 1) = rewards[i].duration - 1
      BY <1>b, <3>1 DEF SaturatingSub
    <3> QED BY <3>1, <3>2, <3>3
  <2>2. CASE m # n
    <3>1. /\ clock' = clock /\ reward_vault'[m] = reward_vault[m]
          /\ Stranded(i)' - Stranded(i) = 0
      BY <1>2, <2>2, DepositStrands
    <3>2. Stranded(i)' - Stranded(i) <= PRECISION - 1
      BY <1>b, <3>1
    <3>3. ~(reward_vault'[m] > reward_vault[m])
      BY <1>b, <3>1
    <3> QED BY <1>c, <3>1, <3>2, <3>3
  <2> QED BY <2>1, <2>2
<1>3. ASSUME NEW o \in Owners, NEW a \in StakeAmounts, Stake(o, a) \/ Unstake(o, a) PROVE Fits
  <2>1. /\ SettlesSlot(i) /\ rewards'[i] = SettledSlots[i]
        /\ reward_vault'[m] = reward_vault[m] - 0
        /\ \A p \in Owners : p # o => SameFor(p, i)
        /\ OwedNow(o, i)' = EarnedNow(o, i) * PRECISION
    BY <1>3, <1>b, StakeSettles
  <2>2. OwedNow(o, i)' = (EarnedNow(o, i) - 0) * PRECISION
    <3>1. EarnedNow(o, i) \in Nat BY <1>a, EarnedIs
    <3> QED BY <2>1, <3>1
  <2>3. Stranded(i)' - Stranded(i) <= PRECISION - 1
    BY <1>a, <2>1, <2>2, CheckpointStrands
  <2>4. ~(reward_vault'[m] > reward_vault[m])
    BY <1>b, <2>1
  <2> QED BY <1>c, <2>1, <2>3, <2>4 DEF SettlesSlot
<1>4. ASSUME NEW o \in Owners, NEW S \in SUBSET Mints, Claim(o, S) PROVE Fits
  <2> DEFINE c == Paying(o, S, i)
  <2>1. /\ SettlesSlot(i) /\ rewards'[i] = SettledSlots[i] /\ c \in Nat
        /\ reward_vault'[m] = reward_vault[m] - c
        /\ \A p \in Owners : p # o => SameFor(p, i)
        /\ OwedNow(o, i)' = (EarnedNow(o, i) - c) * PRECISION
    BY <1>4, ClaimSettles
  <2> HIDE DEF c
  <2>2. Stranded(i)' - Stranded(i) <= PRECISION - 1
    BY <1>a, <2>1, CheckpointStrands
  <2>3. ~(reward_vault'[m] > reward_vault[m])
    BY <1>b, <2>1
  <2> QED BY <1>c, <2>1, <2>2, <2>3 DEF SettlesSlot
<1>5. CASE UNCHANGED vars
  <2>1. reward_vault' = reward_vault
    BY <1>5 DEF vars
  <2>2. /\ clock' = clock /\ rewards' = rewards /\ StreamNow(i)' = StreamNow(i)
        /\ \A o \in Owners : SameFor(o, i)
    BY <1>5, <1>a, DonationQuiet
  <2> QED BY <1>e, <2>1, <2>2
<1>6. CASE Tick
  <2>1. clock' # clock
    BY <1>6, <1>b DEF Tick
  <2>2. Dust(i) = pool.total_staked
    BY <2>1 DEF Dust
  <2>3. \/ Stranded(i)' - Stranded(i) <= SaturatingSub(pool.total_staked, 1)
        \/ IdleExpiry(i)
    BY <1>6, TickStrands
  <2> QED BY <2>1, <2>2, <2>3
<1> QED BY <1>1, <1>2, <1>3, <1>4, <1>5, <1>6 DEF Next, KeeperStep, OwnerStep

(* What a reward vault holds reaches the stakers: but for forfeits, direct *)
(* transfers and periods that end while nobody stakes, a step strands no   *)
(* more than the rounding of one division.                                 *)
THEOREM OnlyDustIsStranded == Spec => StrandedOnlyDust
<1> DEFINE Step ==
      (\A o \in Owners : ~EmergencyWithdraw(o)) /\ ~Donation =>
         \A i \in Slots : Registered(i) =>
            LET dust == CASE clock' # clock -> pool.total_staked
                          [] clock' = clock /\ reward_vault'[rewards[i].mint]
                                                > reward_vault[rewards[i].mint]
                               -> rewards[i].duration
                          [] OTHER -> PRECISION
            IN  \/ Stranded(i)' - Stranded(i) <= SaturatingSub(dust, 1)
                \/ clock' # clock /\ IdleExpiry(i)
<1>1. RewardInv /\ RewardInv' /\ [Next]_vars => [Step]_vars
  BY StepStrands DEF RewardInv, TableInv, Dust
<1> QED BY <1>1, RewardInvariant, PTL DEF Spec, StrandedOnlyDust

-----------------------------------------------------------------------------
(* What a slot is due covers what all owners together could claim now: the *)
(* time since the last settlement takes from the stream what it adds.      *)

LEMMA ElapsedStream ==
    ASSUME NEW slot \in RewardInfoType, NEW now \in Nat
    PROVE  LET since == MinOf(slot.last_update_time, now)
           IN  /\ StreamOf(slot, since) \in Nat
               /\ Elapsed(slot, now) * slot.reward_rate <= StreamOf(slot, since)
<1> DEFINE last == slot.last_update_time
           finish == slot.period_finish
           rate == slot.reward_rate
           e == Elapsed(slot, now)
           since == MinOf(last, now)
           S == StreamOf(slot, since)
<1>1. /\ last \in Nat /\ finish \in Nat /\ rate \in Nat
      /\ e \in Nat /\ e * rate \in Nat /\ S \in Nat
  <2>1. last \in Nat /\ since \in Nat
    BY SlotNats DEF MinOf
  <2> QED BY <2>1, SlotNats, ElapsedType, StreamType
<1>2. CASE last < MinOf(now, finish)
  <2>1. finish - last \in Nat /\ last < finish /\ e <= finish - last
    BY <1>1, <1>2 DEF Elapsed, MinOf
  <2>2. rate * e <= rate * (finish - last)
    BY <1>1, <2>1, MulMonotone
  <2>3. S = rate * (finish - last)
    <3>1. since = last BY <1>1, <1>2 DEF MinOf
    <3> QED BY <2>1, <3>1 DEF StreamOf
  <2>4. e * rate = rate * e
    BY <1>1
  <2> QED BY <1>1, <2>2, <2>3, <2>4
<1>3. CASE ~(last < MinOf(now, finish))
  <2>1. e = 0 BY <1>3 DEF Elapsed
  <2>2. e * rate = 0 BY <1>1, <2>1
  <2> QED BY <1>1, <2>2
<1> QED BY <1>2, <1>3

LEMMA GapStream ==
    ASSUME NEW slot \in RewardInfoType, NEW total \in Nat, NEW now \in Nat
    PROVE  LET gap == RewardPerToken(slot, total, now) - slot.reward_per_token_stored
           IN  /\ gap \in Nat
               /\ gap * total <= StreamOf(slot, MinOf(slot.last_update_time, now))
<1> DEFINE n == Elapsed(slot, now) * slot.reward_rate
           gap == RewardPerToken(slot, total, now) - slot.reward_per_token_stored
           S == StreamOf(slot, MinOf(slot.last_update_time, now))
<1>1. n \in Nat /\ S \in Nat /\ n <= S
  BY ElapsedType, ElapsedStream
<1>2. gap = IF total > 0 THEN n \div total ELSE 0
  <2>1. total > 0 => n \div total \in Nat
    BY <1>1, DivBounds
  <2> QED BY <2>1, RptIs, SlotNats
<1> HIDE DEF n, S, gap
<1>3. CASE total > 0
  <2>1. gap \in Nat /\ total * gap <= n
    BY <1>1, <1>2, <1>3, DivBounds
  <2>2. gap * total = total * gap /\ total * gap \in Nat
    BY <2>1, MulType
  <2>3. gap * total <= S
    BY <1>1, <2>1, <2>2
  <2> QED BY <2>1, <2>3 DEF gap, S
<1>4. CASE total = 0
  <2>1. gap \in Nat /\ gap * total = 0
    BY <1>2, <1>4
  <2> QED BY <1>1, <2>1 DEF gap, S
<1> QED BY <1>3, <1>4

LEMMA OwedSumNat ==
    ASSUME TypeOK, Paid, NEW i \in Slots
    PROVE  SumFunction(Owed(i)) \in Nat
<1> DEFINE f == Owed(i)
           z == [o \in Owners |-> 0]
<1>1. f \in [Owners -> Int] /\ SumFunction(f) \in Int /\ \A o \in Owners : f[o] \in Nat
  BY OwedType, OwedNat DEF Owed
<1>2. z \in [Owners -> Int] /\ \A o \in Owners : z[o] = 0 /\ z[o] <= f[o]
  BY <1>1
<1> HIDE DEF z, f
<1>3. SumFunction(z) = 0 /\ SumFunction(z) <= SumFunction(f)
  BY <1>1, <1>2, PoolAssumption, SumZero, SumMonotone
<1> QED BY <1>1, <1>3 DEF f

LEMMA OwedWithin ==
    ASSUME Loose, NEW i \in Slots
    PROVE  /\ Due(i) \in Nat
           /\ Elapsed(rewards[i], clock) * rewards[i].reward_rate <= Due(i)
           /\ StreamOf(rewards[i], Since(i)) <= Due(i)
           /\ SumFunction(OwedOfAll(i)) <= Due(i)
           /\ \A o \in Owners : OwedNow(o, i) <= Due(i)
<1> DEFINE V == Due(i)
           e == Elapsed(rewards[i], clock) * rewards[i].reward_rate
           g == RptNow(i) - rewards[i].reward_per_token_stored
           S == StreamOf(rewards[i], Since(i))
           W == OwedOfAll(i)
           h == [o \in Owners |-> OwedStored(o, i) + g * stakers[o].staked_amount]
<1>a. TypeOK /\ Paid /\ PrincipalSolvent
  BY DEF Loose, TableInv
<1>1. V = SumFunction(Owed(i)) + S /\ SumFunction(Owed(i)) \in Nat
  BY <1>a, OwedSumNat DEF Due
<1>2. g \in Nat /\ g * Principal <= S /\ S \in Nat /\ e \in Nat /\ e <= S
  <2>1. rewards[i] \in RewardInfoType /\ pool.total_staked \in Nat /\ clock \in Nat
    BY <1>a, PoolNats
  <2>2. g \in Nat /\ g * pool.total_staked <= S
    BY <2>1, GapStream DEF RptNow, Since
  <2>3. S \in Nat /\ e \in Nat /\ e <= S
    BY <2>1, ElapsedType, ElapsedStream DEF Since
  <2> QED BY <1>a, <2>2, <2>3 DEF PrincipalSolvent
<1>3. SumFunction(h) = SumFunction(Owed(i)) + g * Principal
  <2> HIDE DEF g
  <2> QED BY <1>a, <1>2, OwedSettled
<1>4. ASSUME NEW o \in Owners
      PROVE  OwedNow(o, i) = OwedStored(o, i) + g * stakers[o].staked_amount
  <2> DEFINE s == stakers[o].staked_amount
             a == stakers[o].entries[i].rewards_accrued * PRECISION
             p == stakers[o].entries[i].reward_per_token_paid
             r == rewards[i].reward_per_token_stored
             n == RptNow(i)
  <2>1. s \in Nat /\ a \in Nat /\ p \in Nat /\ r \in Nat /\ n \in Nat
    BY <1>a, OwedInt, NowNats DEF TypeOK
  <2>2. OwedNow(o, i) = a + s * (n - p) /\ OwedStored(o, i) = a + s * (r - p)
    BY DEF OwedNow, OwedStored
  <2>3. g = n - r
    OBVIOUS
  <2> HIDE DEF s, a, p, r, n, g
  <2>4. s * (n - p) = s * (r - p) + s * (n - r)
    BY <2>1, MulSplit
  <2>5. s * (n - r) = (n - r) * s /\ s * (r - p) \in Int /\ (n - r) * s \in Int
    BY <2>1
  <2>6. OwedNow(o, i) = OwedStored(o, i) + g * s
    BY <2>1, <2>2, <2>3, <2>4, <2>5
  <2> QED BY <2>6 DEF s
<1>5. W = h
  BY <1>4 DEF OwedOfAll
<1>6. W \in [Owners -> Nat] /\ W \in [Owners -> Int] /\ \A o \in Owners : W[o] = OwedNow(o, i)
  BY <1>a, EarnedIs DEF OwedOfAll
<1>7. g * Principal \in Int
  BY <1>a, <1>2, StakeOfType
<1> HIDE DEF V, e, g, S, W, h
<1>8. SumFunction(W) <= V /\ SumFunction(W) \in Int
  BY <1>1, <1>2, <1>3, <1>5, <1>7
<1>9. \A o \in Owners : W[o] <= SumFunction(W) /\ W[o] \in Nat
  BY <1>6, PoolAssumption, SumElement
<1>10. \A o \in Owners : OwedNow(o, i) <= V
  BY <1>1, <1>2, <1>6, <1>8, <1>9
<1>11. V \in Nat /\ e <= V /\ S <= V
  BY <1>1, <1>2
<1> QED BY <1>8, <1>10, <1>11 DEF V, W, e, S

LEMMA OwedCovered ==
    ASSUME RewardInv, NEW i \in Slots, Registered(i)
    PROVE  /\ Due(i) <= reward_vault[rewards[i].mint] * PRECISION
           /\ SumFunction(OwedOfAll(i)) <= reward_vault[rewards[i].mint] * PRECISION
           /\ \A o \in Owners : OwedNow(o, i) <= reward_vault[rewards[i].mint] * PRECISION
<1>1. Loose /\ TypeOK /\ AllWithin(NoSlack)
  BY SolventIsWithin DEF RewardInv, Loose, TableInv
<1>2. reward_vault[rewards[i].mint] * PRECISION \in Nat
  BY <1>1, VaultInt
<1>3. Due(i) <= reward_vault[rewards[i].mint] * PRECISION
  BY <1>1, <1>2, NoSlackType DEF AllWithin, Within
<1>4. SumFunction(OwedOfAll(i)) \in Int /\ \A o \in Owners : OwedNow(o, i) \in Nat
  BY <1>1, OwedSum, EarnedIs DEF Loose
<1>5. /\ Due(i) \in Nat /\ SumFunction(OwedOfAll(i)) <= Due(i)
      /\ \A o \in Owners : OwedNow(o, i) <= Due(i)
  BY <1>1, OwedWithin
<1> QED BY <1>2, <1>3, <1>4, <1>5

LEMMA EarningsCovered ==
    ASSUME RewardInv, NEW i \in Slots, Registered(i)
    PROVE  /\ SumFunction(EarnedOfAll(i)) <= reward_vault[rewards[i].mint]
           /\ \A o \in Owners : EarnedNow(o, i) <= reward_vault[rewards[i].mint]
<1> DEFINE V == reward_vault[rewards[i].mint]
           E == EarnedOfAll(i)
           W == OwedOfAll(i)
           k == [o \in Owners |-> PRECISION * EarnedNow(o, i)]
<1>a. TypeOK /\ Paid
  BY DEF RewardInv, TableInv
<1>1. V \in Nat /\ V * PRECISION \in Nat /\ PRECISION \in Nat /\ PRECISION > 0
  BY <1>a, VaultInt, PoolNats
<1>2. W \in [Owners -> Int] /\ SumFunction(W) \in Int /\ SumFunction(W) <= V * PRECISION
  BY <1>a, OwedSum, OwedCovered
<1>3. E \in [Owners -> Nat] /\ E \in [Owners -> Int] /\ SumFunction(E) \in Int
  BY <1>a, EarnedSum
<1>4. ASSUME NEW o \in Owners
      PROVE  PRECISION * EarnedNow(o, i) \in Int /\ PRECISION * EarnedNow(o, i) <= OwedNow(o, i)
  <2>1. EarnedNow(o, i) \in Nat /\ EarnedNow(o, i) * PRECISION <= OwedNow(o, i)
    BY <1>a, EarnedIs
  <2>2. EarnedNow(o, i) * PRECISION = PRECISION * EarnedNow(o, i)
        /\ PRECISION * EarnedNow(o, i) \in Int
    BY <1>1, <2>1
  <2> QED BY <2>1, <2>2
<1>5. k \in [Owners -> Int] /\ \A o \in Owners : k[o] = PRECISION * E[o] /\ k[o] <= W[o]
  BY <1>4 DEF EarnedOfAll, OwedOfAll
<1> HIDE DEF V, E, W, k
<1>6. SumFunction(k) = PRECISION * SumFunction(E)
  BY <1>1, <1>3, <1>5, PoolAssumption, SumTimes
<1>7. SumFunction(k) <= SumFunction(W)
  BY <1>2, <1>5, PoolAssumption, SumMonotone
<1>8. SumFunction(E) \in Nat /\ \A o \in Owners : E[o] <= SumFunction(E) /\ E[o] \in Nat
  <2> DEFINE z == [o \in Owners |-> 0]
  <2>1. z \in [Owners -> Int] /\ \A o \in Owners : z[o] = 0 /\ z[o] <= E[o]
    BY <1>3
  <2> HIDE DEF z
  <2>2. SumFunction(z) = 0 /\ SumFunction(z) <= SumFunction(E)
    BY <1>3, <2>1, PoolAssumption, SumZero, SumMonotone
  <2> QED BY <1>3, <2>2, PoolAssumption, SumElement
<1>9. SumFunction(E) * PRECISION <= V * PRECISION
  <2>1. PRECISION * SumFunction(E) = SumFunction(E) * PRECISION
        /\ SumFunction(E) * PRECISION \in Nat
    BY <1>1, <1>8, MulType
  <2> QED BY <1>1, <1>2, <1>6, <1>7, <2>1
<1>10. SumFunction(E) <= V
  BY <1>1, <1>8, <1>9, FactorKeepsOrder
<1>11. \A o \in Owners : E[o] <= V
  BY <1>1, <1>8, <1>10
<1> QED BY <1>10, <1>11 DEF E, V, EarnedOfAll

LEMMA CheckpointCovered ==
    ASSUME RewardInv, NEW o \in Owners, NEW i \in Slots, Registered(i)
    PROVE  Checkpoint(o)[i].rewards_accrued <= reward_vault[rewards[i].mint]
BY CheckpointNow, EarningsCovered DEF RewardInv, TableInv

-----------------------------------------------------------------------------
(* A slot and its mint. *)

(* A slot that streams nothing and has credited nobody anything. *)
Blank(i) ==
    /\ rewards[i].reward_rate = 0 /\ rewards[i].reward_per_token_stored = 0
    /\ \A o \in Owners : stakers[o].entries[i] = EmptyEntry

BlankEarns == \A i \in Slots, o \in Owners : Blank(i) => EarnedNow(o, i) = 0

LEMMA BlankEarnsNothing == RewardInv => BlankEarns
<1> SUFFICES ASSUME RewardInv, NEW i \in Slots, NEW o \in Owners, Blank(i)
             PROVE  EarnedNow(o, i) = 0
  BY DEF BlankEarns
<1>1. /\ rewards[i] \in RewardInfoType /\ clock \in Nat /\ pool.total_staked \in Nat
      /\ StakeAt(o) \in Nat /\ PRECISION \in Nat /\ PRECISION > 0
  BY PoolNats, NowNats DEF RewardInv, TableInv
<1>2. RptNow(i) = 0
  <2>1. Elapsed(rewards[i], clock) * 0 = 0
    BY <1>1, ElapsedType
  <2>2. pool.total_staked > 0 => 0 \div pool.total_staked = 0
    BY <1>1
  <2> QED BY <1>1, <2>1, <2>2, RptIs DEF RptNow, Blank
<1>3. EarnedNow(o, i) = 0 + ((StakeAt(o) * (0 - 0)) \div PRECISION)
  BY <1>2 DEF EarnedNow, Earned, StakeAt, Blank, EmptyEntry
<1>4. StakeAt(o) * (0 - 0) = 0 /\ 0 \div PRECISION = 0
  BY <1>1
<1> QED BY <1>3, <1>4

LEMMA BlankEarnsNext == RewardInv' => BlankEarns'
BY BlankEarnsNothing, PTL

(* The mint of a slot stays, or a mint moves into an empty slot with a     *)
(* fresh stream, for which nobody has entries.                             *)
LEMMA MintMoves ==
    ASSUME RewardInv, [Next]_vars, NEW i \in Slots
    PROVE  rewards'[i].mint = rewards[i].mint \/ (~Registered(i) /\ Blank(i)')
<1> DEFINE Stays == rewards'[i].mint = rewards[i].mint
<1>a. TypeOK /\ SlotTable /\ rewards \in [Slots -> RewardInfoType]
  BY DEF RewardInv, TableInv, TypeOK
<1>1. ASSUME NEW k \in Keys, AdminStep(k) PROVE Stays \/ (~Registered(i) /\ Blank(i)')
  <2>1. CASE Registered(i)
    BY <1>1, <2>1, AdminLeaves
  <2>2. ASSUME NEW m \in Mints, NEW d \in Durations, AddReward(k, m, d), ~Registered(i)
        PROVE  Stays \/ Blank(i)'
    <3>1. PICK j \in Slots : rewards' = [rewards EXCEPT ![j] = NewSlot(m, d)]
      BY <2>2 DEF AddReward
    <3>2. CASE i = j
      <4>1. rewards'[i] = NewSlot(m, d) /\ stakers' = stakers
        BY <1>a, <2>2, <3>1, <3>2 DEF AddReward
      <4>2. \A o \in Owners : stakers[o].entries[i] = EmptyEntry
        BY <1>a, <2>2 DEF SlotTable
      <4> QED BY <4>1, <4>2 DEF Blank, NewSlot
    <3>3. CASE i # j
      BY <1>a, <3>1, <3>3
    <3> QED BY <3>2, <3>3
  <2>3. ASSUME NEW j \in Slots, NEW active \in BOOLEAN, SetRewardActive(k, j, active)
        PROVE  Stays
    BY <1>a, <2>3 DEF SetRewardActive, RewardInfoType
  <2>4. ASSUME NEW j \in Slots, NEW d \in Durations, SetDuration(k, j, d) PROVE Stays
    BY <1>a, <2>4 DEF SetDuration, RewardInfoType
  <2> QED BY <1>1, <2>1, <2>2, <2>3, <2>4
          DEF AdminStep, SetUpStep, AdminOnlyStep, InitializePool, SetPaused,
              SetKeeperAuthority, SetAdmin
<1>2. ASSUME NEW k \in Keys, KeeperStep(k) PROVE Stays
  <2>1. PICK m \in Mints, a \in RewardAmounts : DepositRewards(k, m, a)
    BY <1>2 DEF KeeperStep
  <2>2. PICK j \in Slots, received \in Int :
          rewards' = [SettledSlots EXCEPT ![j] = Restreamed(SettledSlots[j], received)]
    <3>1. (reward_vault[m] + a) - reward_vault[m] \in Int
      BY <1>a, PoolAssumption DEF TypeOK
    <3> QED BY <2>1, <3>1 DEF DepositRewards
  <2>3. SettledSlots[i].mint = rewards[i].mint /\ DOMAIN SettledSlots = Slots
    BY <1>a, SettledKeeps DEF SettledSlots, UpdateSlots
  <2>4. SettledSlots[i] \in RewardInfoType
    <3>1. SettleOk
      BY <2>1 DEF DepositRewards
    <3> QED BY <1>a, <3>1, SettledType
  <2> QED BY <2>2, <2>3, <2>4 DEF Restreamed, RewardInfoType
<1>3. ASSUME NEW o \in Owners, OwnerStep(o) PROVE Stays
  <2>1. rewards' = SettledSlots \/ rewards' = rewards
    BY <1>3 DEF OwnerStep, Stake, Unstake, Claim, EmergencyWithdraw
  <2> QED BY <1>a, <2>1, SettledKeeps
<1>4. CASE Donation \/ Tick \/ UNCHANGED vars
  BY <1>4 DEF Donation, DonateStake, DonateReward, Tick, vars
<1> QED BY <1>1, <1>2, <1>3, <1>4 DEF Next

(* A slot keeps its mint whatever instructions run (update_reward,         *)
(* add_reward, deposit_rewards and the admin's), and a mint that moves in  *)
(* owes nobody anything, not for an entry written before it came either.   *)
THEOREM SlotsKeepTheirMint == Spec => SlotKeepsMint
<1> DEFINE Kept ==
      \A i \in Slots :
         IF Registered(i)
         THEN rewards'[i].mint = rewards[i].mint
         ELSE rewards'[i].mint # NoMint => \A o \in Owners : EarnedNow(o, i)' = 0
<1>1. ASSUME RewardInv, [Next]_vars PROVE Kept
  <2>1. RewardInv'
    BY <1>1, StepRewardInv
  <2>2. \A i \in Slots : Blank(i)' => \A o \in Owners : EarnedNow(o, i)' = 0
    BY <2>1, BlankEarnsNext DEF BlankEarns
  <2> QED BY <1>1, <2>2, MintMoves DEF Registered
<1>2. RewardInv /\ [Next]_vars => [Kept]_vars
  BY <1>1
<1> QED BY <1>2, RewardInvariant, PTL DEF Spec, SlotKeepsMint

=============================================================================
