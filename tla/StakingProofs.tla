--------------------------- MODULE StakingProofs ---------------------------
(***************************************************************************)
(* Type correctness, the slot table and the solvency of the principal, for *)
(* every value of the constants.                                           *)
(*                                                                         *)
(* Types and slot table are one induction: that reward_count stays within  *)
(* the number of slots follows from the slot table, and that a claim finds *)
(* the slot of a mint follows from the mints being distinct.               *)
(***************************************************************************)
EXTENDS StakingProperties, SumLemmas

LEMMA DivType ==
    ASSUME NEW a \in Nat, NEW b \in Nat, b > 0
    PROVE  a \div b \in Nat /\ a \div b <= a
OBVIOUS

LEMMA MulType ==
    ASSUME NEW a \in Nat, NEW b \in Nat
    PROVE  a * b \in Nat
OBVIOUS

-----------------------------------------------------------------------------
(* The functions of math.rs and update.rs keep the types when they return  *)
(* Ok.                                                                     *)

LEMMA AccrueRptType ==
    ASSUME NEW rpt \in U128, NEW elapsed \in Int, NEW rate \in U128, NEW total \in U64,
           AccrueRptOk(rpt, elapsed, rate, total)
    PROVE  AccrueRpt(rpt, elapsed, rate, total) \in U128
<1>1. CASE total = 0 \/ elapsed <= 0
  BY <1>1 DEF AccrueRpt
<1>2. CASE total > 0 /\ elapsed > 0
  <2>1. elapsed * rate \in Nat BY <1>2, MulType, WidthAssumption DEF U128
  <2>2. (elapsed * rate) \div total \in Nat
    BY <1>2, <2>1, DivType, WidthAssumption DEF U64
  <2> QED BY <1>2, <2>2, WidthAssumption DEF AccrueRpt, AccrueRptOk, U128
<1> QED BY <1>1, <1>2, WidthAssumption DEF U64

LEMMA EarnedType ==
    ASSUME NEW s \in U64, NEW rpt \in U128, NEW paid \in U128, NEW accrued \in U64,
           EarnedOk(s, rpt, paid, accrued)
    PROVE  Earned(s, rpt, paid, accrued) \in U64
<1>1. rpt - paid \in Nat
  BY WidthAssumption DEF EarnedOk, U128
<1>2. s * (rpt - paid) \in Nat
  BY <1>1, MulType, WidthAssumption DEF U64
<1>3. (s * (rpt - paid)) \div PRECISION \in Nat
  BY <1>2, DivType, WidthAssumption
<1> QED BY <1>3, WidthAssumption DEF Earned, EarnedOk, U64

LEMMA NotifyRateType ==
    ASSUME NEW amount \in Nat, NEW rate \in U128, NEW now \in Timestamp,
           NEW finish \in Timestamp, NEW duration \in Timestamp,
           NotifyRateOk(amount, rate, now, finish, duration)
    PROVE  NotifyRate(amount, rate, now, finish, duration) \in U128
<1>1. Leftover(rate, now, finish) \in Nat
  <2>1. CASE now < finish
    <3>1. finish - now \in Nat BY <2>1, WidthAssumption DEF Timestamp
    <3> QED BY <2>1, <3>1, MulType, WidthAssumption DEF Leftover, U128
  <2>2. CASE ~(now < finish) BY <2>2 DEF Leftover
  <2> QED BY <2>1, <2>2
<1> DEFINE n == amount * PRECISION + Leftover(rate, now, finish)
<1>2. n \in Nat
  BY <1>1, MulType, WidthAssumption
<1>3. duration \in Nat /\ duration > 0
  BY WidthAssumption DEF NotifyRateOk, Timestamp
<1>4. n \div duration \in Nat /\ n \div duration <= n
  BY <1>2, <1>3, DivType
<1>5. n <= U128Max
  BY DEF NotifyRateOk
<1>6. NotifyRate(amount, rate, now, finish, duration) = n \div duration
  BY DEF NotifyRate
<1> HIDE DEF n
<1> QED BY <1>2, <1>4, <1>5, <1>6, WidthAssumption DEF U128

LEMMA SettleSlotType ==
    ASSUME NEW slot \in RewardInfoType, NEW total \in U64, NEW now \in Timestamp,
           SettleSlotOk(slot, total, now)
    PROVE  SettleSlot(slot, total, now) \in RewardInfoType
<1>1. RewardPerToken(slot, total, now) \in U128
  <2>1. CASE total > 0
    <3>1. MinOf(now, slot.period_finish) - slot.last_update_time \in Int
      BY WidthAssumption DEF MinOf, RewardInfoType, Timestamp
    <3> QED BY <2>1, <3>1, AccrueRptType DEF RewardPerToken, SettleSlotOk, RewardInfoType
  <2>2. CASE ~(total > 0) BY <2>2 DEF RewardPerToken, RewardInfoType
  <2> QED BY <2>1, <2>2
<1>2. RolledFinish(slot, total, now) \in Timestamp
  BY WidthAssumption DEF RolledFinish, SettleSlotOk, RewardInfoType, Timestamp
<1> QED BY <1>1, <1>2 DEF SettleSlot, RewardInfoType

-----------------------------------------------------------------------------
(* update_reward on the state of the pool. *)

LEMMA SettledType ==
    ASSUME TypeOK, SettleOk
    PROVE  SettledSlots \in [Slots -> RewardInfoType]
<1>1. pool.total_staked \in U64 /\ clock \in Timestamp
  BY PoolAssumption, WidthAssumption DEF TypeOK, PoolType, Timestamp
<1>2. ASSUME NEW i \in Slots
      PROVE  (IF rewards[i].mint = NoMint THEN rewards[i]
              ELSE SettleSlot(rewards[i], pool.total_staked, clock)) \in RewardInfoType
  <2>1. rewards[i] \in RewardInfoType BY DEF TypeOK
  <2>2. CASE rewards[i].mint = NoMint BY <2>1, <2>2
  <2>3. CASE rewards[i].mint # NoMint
    <3>1. SettleSlotOk(rewards[i], pool.total_staked, clock)
      BY <2>3 DEF SettleOk, UpdateSlotsOk
    <3> QED BY <1>1, <2>1, <2>3, <3>1, SettleSlotType
  <2> QED BY <2>2, <2>3
<1> QED BY <1>2 DEF SettledSlots, UpdateSlots

(* Settling touches reward-per-token, finish and time of a slot only. *)
LEMMA SettledKeeps ==
    ASSUME TypeOK, NEW i \in Slots
    PROVE  /\ SettledSlots[i].mint = rewards[i].mint
           /\ SettledSlots[i].reward_rate = rewards[i].reward_rate
           /\ SettledSlots[i].duration = rewards[i].duration
           /\ SettledSlots[i].active = rewards[i].active
           /\ ~Registered(i) => SettledSlots[i] = rewards[i]
<1>1. rewards[i] \in RewardInfoType
  BY DEF TypeOK
<1> QED BY <1>1 DEF SettledSlots, UpdateSlots, SettleSlot, RewardInfoType, Registered

LEMMA CheckpointType ==
    ASSUME TypeOK, NEW o \in Owners, CheckpointOk(o)
    PROVE  Checkpoint(o) \in [Slots -> RewardEntryType]
<1>1. SettledSlots \in [Slots -> RewardInfoType]
  BY SettledType DEF CheckpointOk
<1>2. stakers[o].entries \in [Slots -> RewardEntryType] /\ stakers[o].staked_amount \in U64
  BY DEF TypeOK, StakerType
<1>3. ASSUME NEW i \in Slots
      PROVE  (IF SettledSlots[i].mint = NoMint
              THEN stakers[o].entries[i]
              ELSE [reward_per_token_paid |-> SettledSlots[i].reward_per_token_stored,
                    rewards_accrued |-> Earned(stakers[o].staked_amount,
                                               SettledSlots[i].reward_per_token_stored,
                                               stakers[o].entries[i].reward_per_token_paid,
                                               stakers[o].entries[i].rewards_accrued)])
             \in RewardEntryType
  <2>1. SettledSlots[i].reward_per_token_stored \in U128
    BY <1>1 DEF RewardInfoType
  <2>2. /\ stakers[o].entries[i] \in RewardEntryType
        /\ stakers[o].entries[i].reward_per_token_paid \in U128
        /\ stakers[o].entries[i].rewards_accrued \in U64
    BY <1>2 DEF RewardEntryType
  <2>3. CASE SettledSlots[i].mint = NoMint BY <2>2, <2>3
  <2>4. CASE SettledSlots[i].mint # NoMint
    <3>1. EarnedOk(stakers[o].staked_amount, SettledSlots[i].reward_per_token_stored,
                   stakers[o].entries[i].reward_per_token_paid,
                   stakers[o].entries[i].rewards_accrued)
      BY <2>4 DEF CheckpointOk, UpdateEntriesOk
    <3>2. Earned(stakers[o].staked_amount, SettledSlots[i].reward_per_token_stored,
                 stakers[o].entries[i].reward_per_token_paid,
                 stakers[o].entries[i].rewards_accrued) \in U64
      BY <1>2, <2>1, <2>2, <3>1, EarnedType
    <3> QED BY <2>1, <2>4, <3>2 DEF RewardEntryType
  <2> QED BY <2>3, <2>4
<1> QED BY <1>3 DEF Checkpoint, UpdateEntries

-----------------------------------------------------------------------------
(* Types and slot table. *)

Fresh == ~pool.created => pool = NoPool /\ \A o \in Owners : stakers[o] = NoStaker

TableInv == TypeOK /\ SlotTable /\ Fresh

LEMMA InitTableInv == Init => TableInv
<1> SUFFICES ASSUME Init PROVE TableInv
  OBVIOUS
<1> USE WidthAssumption, SlotAssumption, PoolAssumption DEF Init
<1>1. [i \in Slots |-> EmptySlot] \in [Slots -> RewardInfoType]
  BY DEF EmptySlot, RewardInfoType, U128, Timestamp
<1>2. [i \in Slots |-> EmptyEntry] \in [Slots -> RewardEntryType]
  BY DEF EmptyEntry, RewardEntryType, U64, U128
<1>3. NoStaker \in StakerType
  BY <1>2 DEF NoStaker, StakerType, U64
<1>4. NoPool \in PoolType
  BY DEF NoPool, PoolType, U64, Timestamp
<1>5. TypeOK
  BY <1>1, <1>3, <1>4 DEF TypeOK
<1>6. SlotTable
  <2>1. \A i \in Slots : ~Registered(i) /\ ~(i < pool.reward_count)
    BY DEF Registered, EmptySlot, NoPool, Slots
  <2>2. \A o \in Owners, i \in Slots : stakers[o].entries[i] = EmptyEntry
    BY DEF NoStaker
  <2>3. \A i \in Slots : rewards[i] = EmptySlot
    OBVIOUS
  <2> QED BY <2>1, <2>2, <2>3 DEF SlotTable
<1> QED BY <1>5, <1>6 DEF TableInv, Fresh

(* A step that leaves the mints of the slots, reward_count and the entries *)
(* of empty slots alone keeps the slot table.                              *)
LEMMA TableKept ==
    ASSUME TableInv, TypeOK',
           \A i \in Slots : rewards'[i].mint = rewards[i].mint,
           \A i \in Slots : ~Registered(i) => rewards'[i] = rewards[i],
           pool'.reward_count = pool.reward_count,
           \A o \in Owners, i \in Slots :
              ~Registered(i) => stakers'[o].entries[i] = stakers[o].entries[i]
    PROVE  SlotTable'
BY DEF TableInv, SlotTable, Registered

(* The entries of an empty slot pass a checkpoint untouched. *)
LEMMA CheckpointKeeps ==
    ASSUME TypeOK, NEW o \in Owners, NEW i \in Slots, ~Registered(i)
    PROVE  Checkpoint(o)[i] = stakers[o].entries[i]
BY SettledKeeps DEF Checkpoint, UpdateEntries, Registered

(* A claim pays what a registered slot has accrued, and no more than the   *)
(* vault holds.                                                            *)
LEMMA PayoutType ==
    ASSUME TableInv, NEW o \in Owners, NEW S \in SUBSET Mints, Claim(o, S), NEW m \in S
    PROVE  /\ \E i \in Slots : IsFirstSlot(rewards, i, m)
                               /\ Payout(o, m) = Checkpoint(o)[i].rewards_accrued
           /\ Payout(o, m) \in 0 .. reward_vault[m]
<1>1. PICK i \in Slots : rewards[i].mint = m
  BY DEF Claim, MayClaim
<1>2. m # NoMint
  BY SlotAssumption
<1>3. IsFirstSlot(rewards, i, m)
  BY <1>1, <1>2 DEF IsFirstSlot, TableInv, SlotTable, Registered, Slots
<1> DEFINE j == CHOOSE k \in Slots : IsFirstSlot(rewards, k, m)
<1>4. j \in Slots /\ IsFirstSlot(rewards, j, m)
  BY <1>3
<1>5. Payout(o, m) = Checkpoint(o)[j].rewards_accrued
  BY DEF Payout
<1>6. Checkpoint(o)[j].rewards_accrued \in U64
  <2>1. Checkpoint(o) \in [Slots -> RewardEntryType]
    BY CheckpointType DEF Claim, MayClaim, TableInv
  <2> HIDE DEF j
  <2> QED BY <1>4, <2>1 DEF RewardEntryType
<1>7. Payout(o, m) <= reward_vault[m]
  BY DEF Claim, MayClaim
<1>8. reward_vault[m] \in Nat
  BY PoolAssumption DEF TableInv, TypeOK
<1> HIDE DEF j
<1> QED BY <1>4, <1>5, <1>6, <1>7, <1>8, WidthAssumption DEF U64

-----------------------------------------------------------------------------
(* Every action keeps types and slot table. *)

LEMMA AdminTableInv ==
    ASSUME TableInv, NEW k \in Keys, AdminStep(k)
    PROVE  TableInv'
<1> USE WidthAssumption, SlotAssumption, PoolAssumption DEF TableInv
<1>1. ASSUME NEW k2 \in Keys, NEW d \in Durations, InitializePool(k, k2, d) PROVE TableInv'
  <2>1. d \in Timestamp BY <1>1 DEF InitializePool, Timestamp
  <2>2. pool' \in PoolType
    BY <1>1, <2>1 DEF InitializePool, NewPool, PoolType, U64
  <2>3. TypeOK' BY <1>1, <2>2 DEF InitializePool, TypeOK
  <2>4. pool.reward_count = 0 /\ pool'.reward_count = 0
    <3>1. pool'.reward_count = 0 BY <1>1 DEF InitializePool, NewPool
    <3>2. pool.reward_count = 0 BY <1>1 DEF InitializePool, Fresh, NoPool
    <3> QED BY <3>1, <3>2
  <2>5. SlotTable' BY <1>1, <2>3, <2>4, TableKept DEF InitializePool
  <2>6. Fresh' BY <1>1 DEF Fresh, InitializePool, NewPool
  <2> QED BY <2>3, <2>5, <2>6
<1>2. ASSUME NEW m \in Mints, NEW d \in Durations, AddReward(k, m, d) PROVE TableInv'
  <2>1. PICK i \in Slots : /\ IsFirstSlot(rewards, i, NoMint)
                           /\ rewards' = [rewards EXCEPT ![i] = NewSlot(m, d)]
    BY <1>2 DEF AddReward
  <2>2. NewSlot(m, d) \in RewardInfoType /\ NewSlot(m, d).mint = m
    <3>1. pool.default_duration \in Timestamp /\ clock \in Timestamp
      BY DEF TypeOK, PoolType, Timestamp
    <3>2. (IF d > 0 THEN d ELSE pool.default_duration) \in Timestamp
      BY <3>1 DEF Timestamp
    <3> QED BY <3>1, <3>2 DEF NewSlot, RewardInfoType, U128, Timestamp
  <2>3. rewards' \in [Slots -> RewardInfoType]
    BY <2>1, <2>2 DEF TypeOK
  <2>4. i = pool.reward_count
    <3> DEFINE n == pool.reward_count
    <3>1. n \in Nat BY DEF TypeOK, PoolType
    <3>2. i \in Nat /\ i < MAX_REWARDS BY DEF Slots
    <3>3. ~(i < n) BY <2>1 DEF IsFirstSlot, SlotTable, Registered
    <3>4. ASSUME n < i PROVE FALSE
      <4>1. n \in Slots BY <3>1, <3>2, <3>4 DEF Slots
      <4>2. rewards[n].mint = NoMint BY <3>1, <4>1 DEF SlotTable, Registered
      <4> QED BY <2>1, <3>1, <3>2, <3>4, <4>1, <4>2 DEF IsFirstSlot
    <3> QED BY <3>1, <3>2, <3>3, <3>4
  <2>5. pool' \in PoolType /\ pool'.reward_count = pool.reward_count + 1
    <3>1. pool.reward_count + 1 \in 0 .. MAX_REWARDS BY <2>4 DEF Slots
    <3>2. pool' = [pool EXCEPT !.reward_count = pool.reward_count + 1]
      BY <1>2 DEF AddReward
    <3> QED BY <3>1, <3>2 DEF TypeOK, PoolType
  <2>6. TypeOK' BY <1>2, <2>3, <2>5 DEF AddReward, TypeOK
  <2>7. \A j \in Slots : rewards'[j].mint = IF j = i THEN m ELSE rewards[j].mint
    BY <2>1, <2>2 DEF TypeOK
  <2>8. SlotTable'
    <3>1. ASSUME NEW j \in Slots PROVE Registered(j)' <=> j < pool'.reward_count
      <4>1. j \in Nat /\ pool.reward_count \in Nat BY DEF Slots, TypeOK, PoolType
      <4>2. rewards[j].mint # NoMint <=> j < pool.reward_count
        BY DEF SlotTable, Registered
      <4>3. m # NoMint BY SlotAssumption
      <4>4. rewards'[j].mint # NoMint <=> j = i \/ j < pool.reward_count
        BY <2>7, <4>2, <4>3
      <4> QED BY <2>4, <2>5, <4>1, <4>4 DEF Registered
    <3>2. \A j \in Slots : rewards[j].mint # m
      BY <1>2 DEF AddReward
    <3>3. \A j, l \in Slots :
             Registered(j)' /\ rewards'[j].mint = rewards'[l].mint => j = l
      BY <2>7, <3>2 DEF SlotTable, Registered
    <3>4. \A o \in Owners, j \in Slots :
             ~Registered(j)' => stakers'[o].entries[j] = EmptyEntry
      BY <1>2, <2>7 DEF SlotTable, Registered, AddReward
    <3>5. \A j \in Slots : ~Registered(j)' => rewards'[j] = EmptySlot
      BY <2>1, <2>7 DEF SlotTable, Registered, TypeOK
    <3> QED BY <3>1, <3>3, <3>4, <3>5 DEF SlotTable
  <2>9. Fresh' BY <1>2 DEF Fresh, AddReward, AdminSigned, TypeOK, PoolType
  <2> QED BY <2>6, <2>8, <2>9
<1>3. ASSUME NEW i \in Slots, NEW active \in BOOLEAN, SetRewardActive(k, i, active)
      PROVE  TableInv'
  <2>1. rewards' \in [Slots -> RewardInfoType]
    BY <1>3 DEF SetRewardActive, TypeOK, RewardInfoType
  <2>2. /\ \A j \in Slots : rewards'[j].mint = rewards[j].mint
        /\ \A j \in Slots : ~Registered(j) => rewards'[j] = rewards[j]
    BY <1>3 DEF SetRewardActive, TypeOK, RewardInfoType
  <2>3. TypeOK' BY <1>3, <2>1 DEF SetRewardActive, TypeOK
  <2>8. SlotTable' BY <1>3, <2>2, <2>3, TableKept DEF SetRewardActive
  <2>9. Fresh' BY <1>3 DEF Fresh, SetRewardActive, AdminSigned, TypeOK, PoolType
  <2> QED BY <2>3, <2>8, <2>9
<1>4. ASSUME NEW i \in Slots, NEW d \in Durations, SetDuration(k, i, d) PROVE TableInv'
  <2>1. d \in Timestamp BY <1>4 DEF SetDuration, Timestamp
  <2>2. rewards' \in [Slots -> RewardInfoType]
    BY <1>4, <2>1 DEF SetDuration, TypeOK, RewardInfoType
  <2>3. /\ \A j \in Slots : rewards'[j].mint = rewards[j].mint
        /\ \A j \in Slots : ~Registered(j) => rewards'[j] = rewards[j]
    BY <1>4 DEF SetDuration, TypeOK, RewardInfoType
  <2>4. TypeOK' BY <1>4, <2>2 DEF SetDuration, TypeOK
  <2>8. SlotTable' BY <1>4, <2>3, <2>4, TableKept DEF SetDuration
  <2>9. Fresh' BY <1>4 DEF Fresh, SetDuration, AdminSigned, TypeOK, PoolType
  <2> QED BY <2>4, <2>8, <2>9
<1>5. ASSUME NEW paused \in BOOLEAN, SetPaused(k, paused) PROVE TableInv'
  <2>1. pool' \in PoolType /\ pool'.reward_count = pool.reward_count
    BY <1>5 DEF SetPaused, TypeOK, PoolType
  <2>2. TypeOK' BY <1>5, <2>1 DEF SetPaused, TypeOK
  <2>8. SlotTable' BY <1>5, <2>1, <2>2, TableKept DEF SetPaused
  <2>9. Fresh' BY <1>5 DEF Fresh, SetPaused, AdminSigned, TypeOK, PoolType
  <2> QED BY <2>2, <2>8, <2>9
<1>6. ASSUME NEW k2 \in Keys, SetKeeperAuthority(k, k2) PROVE TableInv'
  <2>1. pool' \in PoolType /\ pool'.reward_count = pool.reward_count
    BY <1>6 DEF SetKeeperAuthority, TypeOK, PoolType
  <2>2. TypeOK' BY <1>6, <2>1 DEF SetKeeperAuthority, TypeOK
  <2>8. SlotTable' BY <1>6, <2>1, <2>2, TableKept DEF SetKeeperAuthority
  <2>9. Fresh' BY <1>6 DEF Fresh, SetKeeperAuthority, AdminSigned, TypeOK, PoolType
  <2> QED BY <2>2, <2>8, <2>9
<1>7. ASSUME NEW k2 \in Keys, SetAdmin(k, k2) PROVE TableInv'
  <2>1. pool' \in PoolType /\ pool'.reward_count = pool.reward_count
    BY <1>7 DEF SetAdmin, TypeOK, PoolType
  <2>2. TypeOK' BY <1>7, <2>1 DEF SetAdmin, TypeOK
  <2>8. SlotTable' BY <1>7, <2>1, <2>2, TableKept DEF SetAdmin
  <2>9. Fresh' BY <1>7 DEF Fresh, SetAdmin, AdminSigned, TypeOK, PoolType
  <2> QED BY <2>2, <2>8, <2>9
<1> QED BY <1>1, <1>2, <1>3, <1>4, <1>5, <1>6, <1>7 DEF AdminStep, SetUpStep, AdminOnlyStep

LEMMA DepositTableInv ==
    ASSUME TableInv, NEW k \in Keys, NEW m \in Mints, NEW a \in RewardAmounts,
           DepositRewards(k, m, a)
    PROVE  TableInv'
<1> USE WidthAssumption, SlotAssumption, PoolAssumption DEF TableInv
<1>1. /\ SettleOk
      /\ SettledSlots \in [Slots -> RewardInfoType]
      /\ a \in Nat /\ reward_vault[m] \in Nat /\ (reward_vault[m] + a) - reward_vault[m] = a
  BY SettledType DEF DepositRewards, TypeOK
<1>2. PICK i \in Slots :
        /\ Registered(i)
        /\ RestreamOk(SettledSlots[i], a)
        /\ rewards' = [SettledSlots EXCEPT ![i] = Restreamed(SettledSlots[i], a)]
  BY <1>1 DEF DepositRewards, IsFirstSlot, Registered
<1>3. /\ Restreamed(SettledSlots[i], a) \in RewardInfoType
      /\ Restreamed(SettledSlots[i], a).mint = SettledSlots[i].mint
  <2> DEFINE s == SettledSlots[i]
             rate == NotifyRate(a, s.reward_rate, clock, s.period_finish, s.duration)
  <2>1. s \in RewardInfoType BY <1>1
  <2>2. clock \in Timestamp BY DEF TypeOK, Timestamp
  <2>3. rate \in U128
    <3> HIDE DEF s
    <3> QED BY <1>1, <1>2, <2>1, <2>2, NotifyRateType DEF RestreamOk, RewardInfoType, s
  <2>4. clock + s.duration \in Timestamp
    <3>1. clock + s.duration <= I64Max BY <1>2 DEF RestreamOk
    <3>2. s.duration \in Timestamp BY <2>1 DEF RewardInfoType
    <3> HIDE DEF s
    <3> QED BY <2>2, <3>1, <3>2 DEF Timestamp
  <2>5. Restreamed(s, a) = [s EXCEPT !.reward_rate = rate, !.last_update_time = clock,
                                     !.period_finish = clock + s.duration]
    BY DEF Restreamed
  <2> HIDE DEF s, rate
  <2>6. Restreamed(s, a) \in RewardInfoType /\ Restreamed(s, a).mint = s.mint
    BY <2>1, <2>2, <2>3, <2>4, <2>5 DEF RewardInfoType
  <2> QED BY <2>6 DEF s
<1>4. rewards' \in [Slots -> RewardInfoType]
  BY <1>1, <1>2, <1>3
<1>5. \A j \in Slots : rewards'[j].mint = rewards[j].mint
  BY <1>1, <1>2, <1>3, SettledKeeps
<1>6. reward_vault' \in [Mints -> 0 .. RewardSupply]
  BY <1>1 DEF DepositRewards, TypeOK
<1>7. TypeOK' BY <1>4, <1>6 DEF DepositRewards, TypeOK
<1>8. SlotTable'
  <2>1. \A j \in Slots : ~Registered(j) => rewards'[j] = rewards[j]
    BY <1>1, <1>2, SettledKeeps
  <2> QED BY <1>5, <1>7, <2>1, TableKept DEF DepositRewards
<1>9. Fresh' BY DEF Fresh, DepositRewards
<1> QED BY <1>7, <1>8, <1>9

LEMMA OwnerTableInv ==
    ASSUME TableInv, NEW o \in Owners, OwnerStep(o)
    PROVE  TableInv'
<1> USE WidthAssumption, SlotAssumption, PoolAssumption DEF TableInv
<1>a. /\ stakers[o] \in StakerType /\ stakers[o].staked_amount \in Nat
      /\ pool.total_staked \in Nat /\ stake_vault \in Nat
  BY DEF TypeOK, StakerType, PoolType, U64
<1>1. ASSUME NEW a \in StakeAmounts, Stake(o, a) PROVE TableInv'
  <2>1. /\ SettledSlots \in [Slots -> RewardInfoType]
        /\ Checkpoint(o) \in [Slots -> RewardEntryType]
    BY <1>1, SettledType, CheckpointType DEF Stake, MayStake, CheckpointOk
  <2>2. stakers' \in [Owners -> StakerType]
    <3>1. stakers[o].staked_amount + a \in U64
      BY <1>1, <1>a DEF Stake, MayStake, U64
    <3>2. [created |-> TRUE, staked_amount |-> stakers[o].staked_amount + a,
           entries |-> Checkpoint(o)] \in StakerType
      BY <2>1, <3>1 DEF StakerType
    <3> QED BY <1>1, <3>2 DEF Stake, TypeOK
  <2>3. pool' \in PoolType /\ pool'.reward_count = pool.reward_count
    <3>1. pool.total_staked + a \in U64 BY <1>1, <1>a DEF Stake, MayStake, U64
    <3> QED BY <1>1, <3>1 DEF Stake, TypeOK, PoolType
  <2>4. stake_vault' \in 0 .. StakeSupply BY <1>1, <1>a DEF Stake, MayStake, TypeOK
  <2>5. TypeOK' BY <1>1, <2>1, <2>2, <2>3, <2>4 DEF Stake, TypeOK
  <2>6. /\ \A i \in Slots : rewards'[i].mint = rewards[i].mint
        /\ \A i \in Slots : ~Registered(i) => rewards'[i] = rewards[i]
    BY <1>1, SettledKeeps DEF Stake
  <2>7. \A p \in Owners, i \in Slots :
          ~Registered(i) => stakers'[p].entries[i] = stakers[p].entries[i]
    BY <1>1, CheckpointKeeps DEF Stake, TypeOK
  <2>8. SlotTable' BY <2>3, <2>5, <2>6, <2>7, TableKept
  <2>9. Fresh' BY <1>1 DEF Fresh, Stake, MayStake, TypeOK, PoolType
  <2> QED BY <2>5, <2>8, <2>9
<1>2. ASSUME NEW a \in StakeAmounts, Unstake(o, a) PROVE TableInv'
  <2>1. /\ SettledSlots \in [Slots -> RewardInfoType]
        /\ Checkpoint(o) \in [Slots -> RewardEntryType]
    BY <1>2, SettledType, CheckpointType DEF Unstake, MayUnstake, CheckpointOk
  <2>2. stakers' \in [Owners -> StakerType]
    <3>1. stakers[o].staked_amount - a \in U64
      BY <1>2, <1>a DEF Unstake, MayUnstake, U64, TypeOK, StakerType
    <3>2. [created |-> TRUE, staked_amount |-> stakers[o].staked_amount - a,
           entries |-> Checkpoint(o)] \in StakerType
      BY <2>1, <3>1 DEF StakerType
    <3> QED BY <1>2, <3>2 DEF Unstake, TypeOK
  <2>3. pool' \in PoolType /\ pool'.reward_count = pool.reward_count
    <3>1. pool.total_staked - a \in U64
      BY <1>2, <1>a DEF Unstake, MayUnstake, U64, TypeOK, PoolType
    <3> QED BY <1>2, <3>1 DEF Unstake, TypeOK, PoolType
  <2>4. stake_vault' \in 0 .. StakeSupply BY <1>2, <1>a DEF Unstake, MayUnstake, TypeOK
  <2>5. TypeOK' BY <1>2, <2>1, <2>2, <2>3, <2>4 DEF Unstake, TypeOK
  <2>6. /\ \A i \in Slots : rewards'[i].mint = rewards[i].mint
        /\ \A i \in Slots : ~Registered(i) => rewards'[i] = rewards[i]
    BY <1>2, SettledKeeps DEF Unstake
  <2>7. \A p \in Owners, i \in Slots :
          ~Registered(i) => stakers'[p].entries[i] = stakers[p].entries[i]
    BY <1>2, CheckpointKeeps DEF Unstake, TypeOK
  <2>8. SlotTable' BY <2>3, <2>5, <2>6, <2>7, TableKept
  <2>9. Fresh'
    <3>1. pool.created BY <1>2, <1>a DEF Fresh, Unstake, MayUnstake, NoStaker
    <3> QED BY <1>2, <3>1 DEF Fresh, Unstake, TypeOK, PoolType
  <2> QED BY <2>5, <2>8, <2>9
<1>3. ASSUME NEW S \in SUBSET Mints, Claim(o, S) PROVE TableInv'
  <2>1. /\ SettledSlots \in [Slots -> RewardInfoType]
        /\ Checkpoint(o) \in [Slots -> RewardEntryType]
    BY <1>3, SettledType, CheckpointType DEF Claim, MayClaim, CheckpointOk
  <2>2. TakeSlots(o, S) \in [Slots -> RewardEntryType]
    <3>1. ASSUME NEW i \in Slots
          PROVE  [Checkpoint(o)[i] EXCEPT !.rewards_accrued = 0] \in RewardEntryType
      BY <2>1 DEF RewardEntryType, U64
    <3> QED BY <2>1, <3>1 DEF TakeSlots
  <2>3. stakers' \in [Owners -> StakerType]
    BY <1>3, <1>a, <2>2 DEF Claim, TypeOK, StakerType
  <2>4. reward_vault' \in [Mints -> 0 .. RewardSupply]
    <3>1. ASSUME NEW m \in S PROVE reward_vault[m] - Payout(o, m) \in 0 .. RewardSupply
      <4>1. Payout(o, m) \in 0 .. reward_vault[m] BY <1>3, PayoutType
      <4>2. reward_vault[m] \in 0 .. RewardSupply BY DEF TypeOK
      <4> QED BY <4>1, <4>2
    <3> QED BY <1>3, <3>1 DEF Claim, TypeOK
  <2>5. TypeOK' BY <1>3, <2>1, <2>3, <2>4 DEF Claim, TypeOK
  <2>6. /\ \A i \in Slots : rewards'[i].mint = rewards[i].mint
        /\ \A i \in Slots : ~Registered(i) => rewards'[i] = rewards[i]
    BY <1>3, SettledKeeps DEF Claim
  <2>7. ASSUME NEW p \in Owners, NEW i \in Slots, ~Registered(i)
        PROVE  stakers'[p].entries[i] = stakers[p].entries[i]
    <3>1. \A m \in S : ~IsFirstSlot(rewards, i, m)
      BY <2>7 DEF IsFirstSlot, Registered
    <3>2. TakeSlots(o, S)[i] = stakers[o].entries[i]
      BY <2>7, <3>1, CheckpointKeeps DEF TakeSlots
    <3> QED BY <1>3, <3>2 DEF Claim, TypeOK, StakerType
  <2>8. SlotTable' BY <1>3, <2>5, <2>6, <2>7, TableKept DEF Claim
  <2>9. Fresh'
    <3>1. pool.created BY <1>3 DEF Fresh, Claim, MayClaim, NoStaker
    <3> QED BY <1>3, <3>1 DEF Fresh, Claim
  <2> QED BY <2>5, <2>8, <2>9
<1>4. ASSUME EmergencyWithdraw(o) PROVE TableInv'
  <2> DEFINE amount == stakers[o].staked_amount
  <2>1. Forfeited \in [Slots -> RewardEntryType]
    BY DEF Forfeited, RewardEntryType, TypeOK, RewardInfoType, U64
  <2>2. stakers' \in [Owners -> StakerType]
    <3>1. [created |-> TRUE, staked_amount |-> 0, entries |-> Forfeited] \in StakerType
      BY <2>1 DEF StakerType, U64
    <3> QED BY <1>4, <3>1 DEF EmergencyWithdraw, TypeOK
  <2>3. pool' \in PoolType /\ pool'.reward_count = pool.reward_count
    <3>1. SaturatingSub(pool.total_staked, amount) \in U64
      BY <1>a DEF SaturatingSub, TypeOK, PoolType, U64
    <3> QED BY <1>4, <3>1 DEF EmergencyWithdraw, TypeOK, PoolType
  <2>4. stake_vault' \in 0 .. StakeSupply BY <1>4, <1>a DEF EmergencyWithdraw, MayEmergencyWithdraw, TypeOK
  <2>5. TypeOK' BY <1>4, <2>2, <2>3, <2>4 DEF EmergencyWithdraw, TypeOK
  <2>6. SlotTable'
    <3>1. ASSUME NEW i \in Slots, ~Registered(i) PROVE Forfeited[i] = EmptyEntry
      <4>1. rewards[i] = EmptySlot BY <3>1 DEF SlotTable
      <4> QED BY <4>1 DEF Forfeited, EmptySlot, EmptyEntry
    <3>2. \A p \in Owners, i \in Slots :
            ~Registered(i) => stakers'[p].entries[i] = stakers[p].entries[i]
      BY <1>4, <3>1 DEF EmergencyWithdraw, TypeOK, SlotTable
    <3> QED BY <1>4, <2>3, <2>5, <3>2, TableKept DEF EmergencyWithdraw
  <2>7. Fresh'
    <3>1. pool.created BY <1>4 DEF Fresh, EmergencyWithdraw, MayEmergencyWithdraw, NoStaker
    <3> QED BY <1>4, <3>1 DEF Fresh, EmergencyWithdraw, TypeOK, PoolType
  <2> QED BY <2>5, <2>6, <2>7
<1> QED BY <1>1, <1>2, <1>3, <1>4 DEF OwnerStep

LEMMA StepTableInv == TableInv /\ [Next]_vars => TableInv'
<1> SUFFICES ASSUME TableInv, [Next]_vars PROVE TableInv'
  OBVIOUS
<1> USE PoolAssumption DEF TableInv
<1>1. ASSUME NEW k \in Keys, AdminStep(k) PROVE TableInv'
  BY <1>1, AdminTableInv
<1>2. ASSUME NEW k \in Keys, KeeperStep(k) PROVE TableInv'
  BY <1>2, DepositTableInv DEF KeeperStep
<1>3. ASSUME NEW o \in Owners, OwnerStep(o) PROVE TableInv'
  BY <1>3, OwnerTableInv
<1>4. ASSUME NEW a \in StakeAmounts, DonateStake(a) PROVE TableInv'
  <2>1. TypeOK' BY <1>4 DEF DonateStake, TypeOK
  <2>2. SlotTable' /\ Fresh' BY <1>4 DEF DonateStake, SlotTable, Fresh, Registered
  <2> QED BY <2>1, <2>2
<1>5. ASSUME NEW m \in Mints, NEW a \in RewardAmounts, DonateReward(m, a) PROVE TableInv'
  <2>1. TypeOK' BY <1>5 DEF DonateReward, TypeOK
  <2>2. SlotTable' /\ Fresh' BY <1>5 DEF DonateReward, SlotTable, Fresh, Registered
  <2> QED BY <2>1, <2>2
<1>6. CASE Tick
  <2>1. TypeOK' BY <1>6 DEF Tick, TypeOK
  <2>2. SlotTable' /\ Fresh' BY <1>6 DEF Tick, SlotTable, Fresh, Registered
  <2> QED BY <2>1, <2>2
<1>7. CASE UNCHANGED vars
  <2>1. TypeOK' BY <1>7 DEF vars, TypeOK
  <2>2. SlotTable' /\ Fresh' BY <1>7 DEF vars, SlotTable, Fresh, Registered
  <2> QED BY <2>1, <2>2
<1> QED BY <1>1, <1>2, <1>3, <1>4, <1>5, <1>6, <1>7 DEF Next, Donation

LEMMA TableInvariant == Spec => []TableInv
<1> QED BY InitTableInv, StepTableInv, PTL DEF Spec

(* Every field of every account stays in the range of its Rust type and    *)
(* every balance within the supply, in any sequence of instructions.       *)
THEOREM TypeCorrectness == Spec => []TypeOK
<1>1. TableInv => TypeOK BY DEF TableInv
<1> QED BY <1>1, TableInvariant, PTL

(* The slots in use are the first reward_count ones, with distinct mints,  *)
(* and the entries of an unused slot are zero when a mint moves in.        *)
THEOREM SlotTableHolds == Spec => []SlotTable
<1>1. TableInv => SlotTable BY DEF TableInv
<1> QED BY <1>1, TableInvariant, PTL

-----------------------------------------------------------------------------
(* The principal.  PrincipalSolvent is inductive next to TypeOK: the total *)
(* follows the sum of the stakes, of which a step changes one term.        *)

StakeOf == [o \in Owners |-> stakers[o].staked_amount]

LEMMA StakeOfType ==
    ASSUME TypeOK
    PROVE  /\ StakeOf \in [Owners -> Nat] /\ StakeOf \in [Owners -> Int]
           /\ Principal = SumFunction(StakeOf)
           /\ Principal \in Int
           /\ \A o \in Owners : stakers[o].staked_amount <= Principal
<1>1. \A o \in Owners : stakers[o].staked_amount \in Nat
  BY WidthAssumption DEF TypeOK, StakerType, U64
<1>2. StakeOf \in [Owners -> Nat] /\ StakeOf \in [Owners -> Int]
  BY <1>1 DEF StakeOf
<1>3. Principal = SumFunction(StakeOf)
  BY DEF Principal, StakeOf
<1>4. SumFunction(StakeOf) \in Int
  BY <1>2, PoolAssumption, SumType
<1>5. ASSUME NEW o \in Owners PROVE StakeOf[o] <= SumFunction(StakeOf)
  BY <1>2, PoolAssumption, SumElement
<1>6. \A o \in Owners : stakers[o].staked_amount <= Principal
  BY <1>3, <1>5 DEF StakeOf
<1> QED BY <1>2, <1>3, <1>4, <1>6

(* The effect on the sum of a step that changes the stake of one owner. *)
LEMMA PrincipalMoves ==
    ASSUME TypeOK, TypeOK', NEW o \in Owners,
           \A p \in Owners : p # o => stakers'[p].staked_amount = stakers[p].staked_amount
    PROVE  Principal' = Principal + (stakers'[o].staked_amount - stakers[o].staked_amount)
<1> DEFINE h == [p \in Owners |-> stakers'[p].staked_amount]
<1>1. StakeOf \in [Owners -> Int] /\ Principal = SumFunction(StakeOf)
  BY StakeOfType
<1>2. \A p \in Owners : stakers'[p].staked_amount \in Int
  BY WidthAssumption DEF TypeOK, StakerType, U64
<1>3. h \in [Owners -> Int]
  BY <1>2
<1>4. Principal' = SumFunction(h)
  BY DEF Principal
<1>5. \A p \in Owners : p # o => h[p] = StakeOf[p]
  BY DEF StakeOf
<1>6. h[o] = stakers'[o].staked_amount /\ StakeOf[o] = stakers[o].staked_amount
  BY DEF StakeOf
<1> HIDE DEF h
<1>7. SumFunction(h) = SumFunction(StakeOf) + (h[o] - StakeOf[o])
  BY <1>1, <1>3, <1>5, PoolAssumption, SumUpdate
<1> QED BY <1>1, <1>4, <1>6, <1>7

(* A step that changes nobody's stake. *)
LEMMA PrincipalStays ==
    ASSUME \A o \in Owners : stakers'[o].staked_amount = stakers[o].staked_amount
    PROVE  Principal' = Principal
BY DEF Principal

LEMMA InitPrincipal == Init => PrincipalSolvent
<1> SUFFICES ASSUME Init PROVE PrincipalSolvent
  OBVIOUS
<1>1. TypeOK
  BY InitTableInv DEF TableInv
<1>2. \A o \in Owners : StakeOf[o] = 0
  BY DEF Init, NoStaker, StakeOf
<1>3. Principal = 0
  BY <1>1, <1>2, StakeOfType, PoolAssumption, SumZero
<1> QED BY <1>3 DEF Init, NoPool, PrincipalSolvent

LEMMA StepPrincipal ==
    TableInv /\ TableInv' /\ PrincipalSolvent /\ [Next]_vars => PrincipalSolvent'
<1> SUFFICES ASSUME TableInv, TableInv', PrincipalSolvent, [Next]_vars
             PROVE  PrincipalSolvent'
  OBVIOUS
<1>a. /\ TypeOK /\ TypeOK'
      /\ pool.total_staked \in Int /\ stake_vault \in Int /\ Principal \in Int
      /\ pool.total_staked = Principal /\ stake_vault >= Principal
  BY StakeOfType DEF TableInv, TypeOK, PrincipalSolvent
<1>b. ASSUME stakers' = stakers, pool'.total_staked = pool.total_staked,
             stake_vault' = stake_vault
      PROVE  PrincipalSolvent'
  BY <1>b, PrincipalStays DEF PrincipalSolvent
<1>c. pool \in PoolType /\ \A o \in Owners : stakers[o] \in StakerType
                                             /\ stakers[o].staked_amount \in Nat
  BY <1>a, WidthAssumption DEF TypeOK, StakerType, U64
<1>d. StakeAmounts \subseteq Nat
  BY PoolAssumption
<1>1. ASSUME NEW k \in Keys, AdminStep(k) PROVE PrincipalSolvent'
  <2>1. ASSUME NEW j \in Keys, NEW d \in Durations, InitializePool(k, j, d)
        PROVE  pool'.total_staked = pool.total_staked
    BY <2>1 DEF InitializePool, NewPool, TableInv, Fresh, NoPool
  <2> QED BY <1>1, <1>b, <1>c, <2>1
          DEF AdminStep, SetUpStep, AdminOnlyStep, InitializePool, AddReward, SetRewardActive, SetDuration,
              SetPaused, SetKeeperAuthority, SetAdmin, PoolType
<1>2. ASSUME NEW k \in Keys, KeeperStep(k) PROVE PrincipalSolvent'
  BY <1>2, <1>b DEF KeeperStep, DepositRewards
<1>3. ASSUME NEW o \in Owners, OwnerStep(o) PROVE PrincipalSolvent'
  <2>1. ASSUME NEW a \in StakeAmounts, Stake(o, a) PROVE PrincipalSolvent'
    <3>1. stakers'[o].staked_amount = stakers[o].staked_amount + a
      BY <2>1, <1>a DEF Stake, TypeOK
    <3>2. \A p \in Owners : p # o =>
            stakers'[p].staked_amount = stakers[p].staked_amount
      BY <2>1, <1>a DEF Stake, TypeOK
    <3>3. Principal' = Principal + a
      BY <1>a, <1>c, <1>d, <3>1, <3>2, PrincipalMoves
    <3>4. pool'.total_staked = pool.total_staked + a /\ stake_vault' = stake_vault + a
      BY <2>1, <1>c DEF Stake, PoolType
    <3> QED BY <1>a, <1>d, <3>3, <3>4 DEF PrincipalSolvent
  <2>2. ASSUME NEW a \in StakeAmounts, Unstake(o, a) PROVE PrincipalSolvent'
    <3>1. stakers'[o].staked_amount = stakers[o].staked_amount - a
      BY <2>2, <1>a DEF Unstake, TypeOK
    <3>2. \A p \in Owners : p # o =>
            stakers'[p].staked_amount = stakers[p].staked_amount
      BY <2>2, <1>a DEF Unstake, TypeOK
    <3>3. Principal' = Principal - a
      BY <1>a, <1>c, <1>d, <3>1, <3>2, PrincipalMoves
    <3>4. pool'.total_staked = pool.total_staked - a /\ stake_vault' = stake_vault - a
      BY <2>2, <1>c DEF Unstake, PoolType
    <3> QED BY <1>a, <1>d, <3>3, <3>4 DEF PrincipalSolvent
  <2>3. ASSUME NEW S \in SUBSET Mints, Claim(o, S) PROVE PrincipalSolvent'
    <3>1. \A p \in Owners : stakers'[p].staked_amount = stakers[p].staked_amount
      BY <2>3, <1>a, <1>c DEF Claim, TypeOK, StakerType
    <3> QED BY <2>3, <3>1, PrincipalStays DEF Claim, PrincipalSolvent
  <2>4. ASSUME EmergencyWithdraw(o) PROVE PrincipalSolvent'
    <3> DEFINE a == stakers[o].staked_amount
    <3>1. stakers'[o].staked_amount = 0
      BY <2>4, <1>a DEF EmergencyWithdraw, TypeOK
    <3>2. \A p \in Owners : p # o =>
            stakers'[p].staked_amount = stakers[p].staked_amount
      BY <2>4, <1>a DEF EmergencyWithdraw, TypeOK
    <3>3. Principal' = Principal + (0 - a)
      BY <1>a, <3>1, <3>2, PrincipalMoves
    <3>4. a \in Nat /\ a <= pool.total_staked
      BY <1>a, <1>c, StakeOfType
    <3>5. pool'.total_staked = pool.total_staked - a /\ stake_vault' = stake_vault - a
      BY <2>4, <1>a, <1>c, <3>4 DEF EmergencyWithdraw, SaturatingSub, PoolType
    <3> QED BY <1>a, <3>3, <3>4, <3>5 DEF PrincipalSolvent
  <2> QED BY <1>3, <2>1, <2>2, <2>3, <2>4 DEF OwnerStep
<1>4. ASSUME NEW a \in StakeAmounts, DonateStake(a) PROVE PrincipalSolvent'
  <2>1. Principal' = Principal BY <1>4, PrincipalStays DEF DonateStake
  <2> QED BY <1>4, <1>a, <1>d, <2>1 DEF DonateStake, PrincipalSolvent
<1>5. ASSUME NEW m \in Mints, NEW a \in RewardAmounts, DonateReward(m, a)
      PROVE  PrincipalSolvent'
  BY <1>5, <1>b DEF DonateReward
<1>6. CASE Tick
  BY <1>6, <1>b DEF Tick
<1>7. CASE UNCHANGED vars
  BY <1>7, <1>b DEF vars
<1> QED BY <1>1, <1>2, <1>3, <1>4, <1>5, <1>6, <1>7 DEF Next, Donation

(* total_staked is the sum of the stakes and the stake vault covers it, in *)
(* any order of stakes, unstakes and emergency withdrawals: the saturating *)
(* subtraction of emergency_withdraw never saturates.                      *)
THEOREM PrincipalSolvency == Spec => []PrincipalSolvent
<1> QED BY TableInvariant, InitPrincipal, StepPrincipal, PTL DEF Spec

=============================================================================
