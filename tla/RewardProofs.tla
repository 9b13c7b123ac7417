---------------------------- MODULE RewardProofs ----------------------------
(***************************************************************************)
(* The solvency of the reward vaults, for every value of the constants.    *)
(*                                                                         *)
(* For every slot the vault covers what is owed and what is still to be    *)
(* streamed.  A settlement moves tokens from the stream to the stakers and *)
(* never more than the stream gives up, a checkpoint rounds down, a claim  *)
(* takes from both sides the same amount, and a new rate streams at most   *)
(* what came in and what was left.                                         *)
(*                                                                         *)
(* None of this needs the time to be past the last settlement: a slot that *)
(* was settled in the future of a clock that went back gains nothing, as   *)
(* one settled now.  So the steps are proved for a vault that is short of  *)
(* any amount; a clock that never goes back keeps it short of nothing.     *)
(***************************************************************************)
EXTENDS StakingProofs

-----------------------------------------------------------------------------
(* Arithmetic. *)

LEMMA DivTimes ==
    ASSUME NEW a \in Nat, NEW b \in Nat, b > 0
    PROVE  a \div b \in Nat /\ b * (a \div b) <= a
OBVIOUS

LEMMA MulMonotone ==
    ASSUME NEW r \in Nat, NEW a \in Nat, NEW b \in Nat, a <= b
    PROVE  r * a \in Nat /\ r * b \in Nat /\ r * a <= r * b
<1>1. r * b = r * a + r * (b - a)
  OBVIOUS
<1>2. r * (b - a) \in Nat
  OBVIOUS
<1> QED BY <1>1, <1>2

LEMMA MulSplit ==
    ASSUME NEW r \in Int, NEW a \in Int, NEW b \in Int, NEW c \in Int, c = a + b
    PROVE  r * c = r * a + r * b
OBVIOUS

(* What a slot still streams from a time on shrinks as time goes by. *)
LEMMA StreamShrinks ==
    ASSUME NEW slot \in RewardInfoType, NEW s \in Nat, NEW t \in Nat, s <= t
    PROVE  /\ StreamOf(slot, s) \in Nat /\ StreamOf(slot, t) \in Nat
           /\ StreamOf(slot, t) <= StreamOf(slot, s)
<1>1. slot.reward_rate \in Nat /\ slot.period_finish \in Nat
  BY WidthAssumption DEF RewardInfoType, U128, Timestamp
<1>2. CASE t < slot.period_finish
  <2>1. slot.period_finish - t \in Nat /\ slot.period_finish - s \in Nat
        /\ slot.period_finish - t <= slot.period_finish - s
    BY <1>1, <1>2
  <2> QED BY <1>1, <1>2, <2>1, MulMonotone DEF StreamOf
<1>3. CASE ~(t < slot.period_finish) /\ s < slot.period_finish
  <2>1. slot.period_finish - s \in Nat BY <1>1, <1>3
  <2> QED BY <1>1, <1>3, <2>1, MulType DEF StreamOf
<1>4. CASE ~(t < slot.period_finish) /\ ~(s < slot.period_finish)
  BY <1>4 DEF StreamOf
<1> QED BY <1>1, <1>2, <1>3, <1>4

-----------------------------------------------------------------------------
(* A settlement gives the stakers no more than it takes from the stream.   *)
LEMMA SettlePastStream ==
    ASSUME NEW slot \in RewardInfoType, NEW total \in U64, NEW now \in Timestamp,
           SettleSlotOk(slot, total, now), slot.last_update_time <= now
    PROVE  LET settled == SettleSlot(slot, total, now)
               gain == settled.reward_per_token_stored - slot.reward_per_token_stored
           IN  /\ settled.last_update_time = now
               /\ gain \in Nat
               /\ StreamOf(settled, now) \in Nat
               /\ StreamOf(slot, slot.last_update_time) \in Nat
               /\ gain * total + StreamOf(settled, now)
                     <= StreamOf(slot, slot.last_update_time)
<1> DEFINE last == slot.last_update_time
           finish == slot.period_finish
           rate == slot.reward_rate
           rpt == slot.reward_per_token_stored
           settled == SettleSlot(slot, total, now)
<1>1. /\ last \in Nat /\ finish \in Nat /\ rate \in Nat /\ rpt \in Nat
      /\ total \in Nat /\ now \in Nat /\ last <= now
  BY WidthAssumption DEF RewardInfoType, U64, U128, Timestamp
<1>2. /\ settled.last_update_time = now
      /\ settled.reward_rate = rate
      /\ settled.reward_per_token_stored = RewardPerToken(slot, total, now)
      /\ settled.period_finish = RolledFinish(slot, total, now)
  BY DEF SettleSlot, RewardInfoType
<1>3. settled \in RewardInfoType
  BY SettleSlotType
<1>4. StreamOf(settled, now) \in Nat /\ StreamOf(slot, last) \in Nat
      /\ StreamOf(slot, now) \in Nat /\ StreamOf(slot, now) <= StreamOf(slot, last)
  BY <1>1, <1>3, StreamShrinks
<1> DEFINE gain == settled.reward_per_token_stored - rpt
<1>5. CASE total > 0 /\ last < MinOf(now, finish)
  <2> DEFINE e == MinOf(now, finish) - last
  <2>1. e \in Nat /\ e > 0 /\ e * rate \in Nat
    BY <1>1, <1>5, MulType DEF MinOf
  <2>2. gain = (e * rate) \div total
    BY <1>1, <1>2, <1>5, <2>1 DEF RewardPerToken, AccrueRpt
  <2>3. gain \in Nat /\ total * gain <= e * rate
    BY <1>1, <1>5, <2>1, <2>2, DivTimes
  <2>4. settled.period_finish = finish
    BY <1>1, <1>2, <1>5 DEF RolledFinish
  <2>5. StreamOf(settled, now) = StreamOf(slot, now)
    BY <1>2, <2>4 DEF StreamOf
  <2>6. StreamOf(slot, last) = rate * (finish - last)
    BY <1>1, <1>5 DEF StreamOf, MinOf
  <2>7. rate * e + StreamOf(slot, now) = rate * (finish - last)
    <3>1. CASE now < finish
      <4>1. finish - last = e + (finish - now) BY <1>1, <3>1 DEF MinOf
      <4>2. rate * (finish - last) = rate * e + rate * (finish - now)
        BY <1>1, <2>1, <4>1, MulSplit
      <4> QED BY <3>1, <4>2 DEF StreamOf
    <3>2. CASE ~(now < finish)
      <4>1. finish - last = e BY <1>1, <3>2 DEF MinOf
      <4>2. StreamOf(slot, now) = 0 BY <3>2 DEF StreamOf
      <4>3. rate * e \in Nat BY <1>1, <2>1, MulType
      <4> QED BY <4>1, <4>2, <4>3
    <3> QED BY <3>1, <3>2
  <2>8. rate * e = e * rate /\ total * gain = gain * total
    BY <1>1, <2>1, <2>3
  <2>9. gain * total \in Nat
    BY <1>1, <2>3, MulType
  <2> HIDE DEF e, gain
  <2>10. gain * total + StreamOf(settled, now) <= StreamOf(slot, last)
    BY <1>4, <2>1, <2>3, <2>5, <2>6, <2>7, <2>8, <2>9
  <2> USE DEF gain
  <2> QED BY <1>2, <1>4, <2>3, <2>10
<1>6. CASE ~(total > 0 /\ last < MinOf(now, finish))
  <2>1. gain = 0
    BY <1>1, <1>2, <1>6 DEF RewardPerToken, AccrueRpt, MinOf
  <2>2. gain * total = 0
    BY <1>1, <2>1
  <2>3. StreamOf(settled, now) <= StreamOf(slot, last)
    <3>1. CASE total = 0 /\ now < finish /\ last < now
      <4>1. settled.period_finish = finish + (now - last)
        BY <1>2, <3>1 DEF RolledFinish
      <4>2. settled.period_finish - now = finish - last /\ now < settled.period_finish
            /\ last < finish
        BY <1>1, <3>1, <4>1
      <4> QED BY <1>2, <1>4, <4>2 DEF StreamOf
    <3>2. CASE ~(total = 0 /\ now < finish /\ last < now)
      <4>1. settled.period_finish = finish
        BY <1>2, <3>2 DEF RolledFinish
      <4>2. StreamOf(settled, now) = StreamOf(slot, now)
        BY <1>2, <4>1 DEF StreamOf
      <4> QED BY <1>4, <4>2
    <3> QED BY <3>1, <3>2
  <2> QED BY <1>2, <1>4, <2>1, <2>2, <2>3
<1> QED BY <1>5, <1>6

(* The same of a slot settled in the future: it streams from now on.       *)
LEMMA SettleSlotStream ==
    ASSUME NEW slot \in RewardInfoType, NEW total \in U64, NEW now \in Timestamp,
           SettleSlotOk(slot, total, now)
    PROVE  LET settled == SettleSlot(slot, total, now)
               gain == settled.reward_per_token_stored - slot.reward_per_token_stored
               since == MinOf(slot.last_update_time, now)
           IN  /\ settled.last_update_time = now
               /\ gain \in Nat
               /\ StreamOf(settled, now) \in Nat
               /\ StreamOf(slot, since) \in Nat
               /\ gain * total + StreamOf(settled, now) <= StreamOf(slot, since)
<1> DEFINE settled == SettleSlot(slot, total, now)
           gain == settled.reward_per_token_stored - slot.reward_per_token_stored
<1>1. /\ slot.last_update_time \in Nat /\ slot.period_finish \in Nat
      /\ slot.reward_per_token_stored \in Nat /\ total \in Nat /\ now \in Nat
  BY WidthAssumption DEF RewardInfoType, U64, U128, Timestamp
<1>2. CASE slot.last_update_time <= now
  BY <1>2, SettlePastStream DEF MinOf
<1>3. CASE ~(slot.last_update_time <= now)
  <2>1. /\ settled.last_update_time = now
        /\ settled.reward_rate = slot.reward_rate
        /\ settled.reward_per_token_stored = slot.reward_per_token_stored
        /\ settled.period_finish = slot.period_finish
    BY <1>1, <1>3 DEF SettleSlot, RewardInfoType, RewardPerToken, AccrueRpt, RolledFinish, MinOf
  <2>2. MinOf(slot.last_update_time, now) = now /\ now <= now
    BY <1>1, <1>3 DEF MinOf
  <2>3. StreamOf(settled, now) = StreamOf(slot, now) /\ StreamOf(slot, now) \in Nat
    BY <1>1, <2>1, <2>2, StreamShrinks DEF StreamOf
  <2>4. gain = 0 /\ 0 * total = 0
    BY <1>1, <2>1
  <2> HIDE DEF settled
  <2> QED BY <2>1, <2>2, <2>3, <2>4 DEF settled
<1> QED BY <1>1, <1>2, <1>3

-----------------------------------------------------------------------------
(* What all stakers together are owed in a slot. *)

Owed(i) == [o \in Owners |-> OwedStored(o, i)]

LEMMA OwedInt ==
    ASSUME NEW s \in StakerType, NEW r \in RewardInfoType, NEW i \in Slots
    PROVE  /\ s.entries[i].rewards_accrued \in Nat
           /\ s.entries[i].reward_per_token_paid \in Nat
           /\ s.staked_amount \in Nat
           /\ r.reward_per_token_stored \in Nat
           /\ s.entries[i].rewards_accrued * PRECISION \in Nat
           /\ s.staked_amount
              * (r.reward_per_token_stored - s.entries[i].reward_per_token_paid) \in Int
           /\ s.entries[i].rewards_accrued * PRECISION
              + s.staked_amount
                * (r.reward_per_token_stored - s.entries[i].reward_per_token_paid) \in Int
<1>1. s.entries[i] \in RewardEntryType
  BY DEF StakerType
<1>2. /\ s.entries[i].rewards_accrued \in Nat
      /\ s.entries[i].reward_per_token_paid \in Nat
      /\ s.staked_amount \in Nat
      /\ r.reward_per_token_stored \in Nat
  BY <1>1, WidthAssumption DEF RewardEntryType, StakerType, RewardInfoType, U64, U128
<1>3. s.entries[i].rewards_accrued * PRECISION \in Nat
  BY <1>2, MulType, WidthAssumption
<1>4. r.reward_per_token_stored - s.entries[i].reward_per_token_paid \in Int
  BY <1>2
<1>5. s.staked_amount * (r.reward_per_token_stored - s.entries[i].reward_per_token_paid) \in Int
  BY <1>2, <1>4
<1> QED BY <1>2, <1>3, <1>5

LEMMA OwedType ==
    ASSUME TypeOK, NEW i \in Slots
    PROVE  Owed(i) \in [Owners -> Int] /\ SumFunction(Owed(i)) \in Int
<1>1. \A o \in Owners : OwedStored(o, i) \in Int
  BY OwedInt DEF OwedStored, TypeOK
<1>2. Owed(i) \in [Owners -> Int]
  BY <1>1 DEF Owed
<1> QED BY <1>2, PoolAssumption, SumType

(* When the owed amounts follow the stakes by a factor d, their sum        *)
(* follows the principal.                                                  *)
LEMMA OwedSettled ==
    ASSUME TypeOK, NEW i \in Slots, NEW d \in Int
    PROVE  LET h == [o \in Owners |-> OwedStored(o, i) + d * stakers[o].staked_amount]
           IN  /\ h \in [Owners -> Int]
               /\ SumFunction(h) = SumFunction(Owed(i)) + d * Principal
<1> DEFINE h == [o \in Owners |-> OwedStored(o, i) + d * stakers[o].staked_amount]
<1>1. Owed(i) \in [Owners -> Int]
  BY OwedType
<1>2. StakeOf \in [Owners -> Int] /\ Principal = SumFunction(StakeOf)
  BY StakeOfType
<1>3. \A o \in Owners : h[o] = Owed(i)[o] + d * StakeOf[o]
  BY DEF Owed, StakeOf
<1>4. ASSUME NEW o \in Owners PROVE OwedStored(o, i) + d * stakers[o].staked_amount \in Int
  <2>1. Owed(i)[o] \in Int /\ StakeOf[o] \in Int BY <1>1, <1>2
  <2>2. d * StakeOf[o] \in Int BY <2>1
  <2> QED BY <2>1, <2>2 DEF Owed, StakeOf
<1>5. h \in [Owners -> Int]
  BY <1>4
<1> HIDE DEF h
<1>6. SumFunction(h) = SumFunction(Owed(i)) + d * SumFunction(StakeOf)
  <2> DEFINE f == Owed(i)
             s == StakeOf
  <2>1. /\ f \in [Owners -> Int] /\ s \in [Owners -> Int] /\ IsFiniteSet(Owners)
        /\ \A o \in Owners : h[o] = f[o] + d * s[o]
    BY <1>1, <1>2, <1>3, PoolAssumption
  <2> HIDE DEF f, s
  <2>2. SumFunction(h) = SumFunction(f) + d * SumFunction(s)
    BY <1>5, <2>1, SumLinear
  <2> QED BY <2>2 DEF f, s
<1> QED BY <1>2, <1>5, <1>6 DEF h

(* A step that raises what each owner is owed by at most d for each token  *)
(* staked.                                                                 *)
LEMMA OwedMoves ==
    ASSUME TypeOK, TypeOK', NEW i \in Slots, NEW d \in Int,
           \A o \in Owners :
             OwedStored(o, i)' <= OwedStored(o, i) + d * stakers[o].staked_amount
    PROVE  /\ SumFunction(Owed(i)) \in Int /\ SumFunction(Owed(i))' \in Int
           /\ SumFunction(Owed(i))' <= SumFunction(Owed(i)) + d * Principal
<1> DEFINE h == [o \in Owners |-> OwedStored(o, i) + d * stakers[o].staked_amount]
           g == [o \in Owners |-> OwedStored(o, i)']
<1>1. h \in [Owners -> Int] /\ SumFunction(h) = SumFunction(Owed(i)) + d * Principal
  BY OwedSettled
<1>2. \A o \in Owners : OwedStored(o, i)' \in Int
  BY OwedInt DEF OwedStored, TypeOK
<1>3. g \in [Owners -> Int]
  BY <1>2
<1>4. SumFunction(Owed(i))' = SumFunction(g)
  BY DEF Owed
<1>5. \A o \in Owners : g[o] <= h[o]
  OBVIOUS
<1>6. SumFunction(Owed(i)) \in Int
  BY OwedType
<1> HIDE DEF g, h
<1>7. SumFunction(g) <= SumFunction(h) /\ SumFunction(g) \in Int
  BY <1>1, <1>3, <1>5, PoolAssumption, SumMonotone, SumType
<1> QED BY <1>1, <1>4, <1>6, <1>7

(* The same, with one owner who is owed c less afterwards. *)
LEMMA OwedDrops ==
    ASSUME TypeOK, TypeOK', NEW i \in Slots, NEW d \in Int, NEW x \in Owners, NEW c \in Int,
           \A o \in Owners : o # x =>
             OwedStored(o, i)' <= OwedStored(o, i) + d * stakers[o].staked_amount,
           OwedStored(x, i)' <= OwedStored(x, i) + d * stakers[x].staked_amount - c
    PROVE  /\ SumFunction(Owed(i)) \in Int /\ SumFunction(Owed(i))' \in Int
           /\ SumFunction(Owed(i))' <= SumFunction(Owed(i)) + d * Principal - c
<1> DEFINE h == [o \in Owners |-> OwedStored(o, i) + d * stakers[o].staked_amount]
           k == [o \in Owners |-> IF o = x THEN h[o] - c ELSE h[o]]
           g == [o \in Owners |-> OwedStored(o, i)']
<1>1. h \in [Owners -> Int] /\ SumFunction(h) = SumFunction(Owed(i)) + d * Principal
  BY OwedSettled
<1>2. \A o \in Owners : OwedStored(o, i)' \in Int
  BY OwedInt DEF OwedStored, TypeOK
<1>3. g \in [Owners -> Int]
  BY <1>2
<1>4. SumFunction(Owed(i))' = SumFunction(g)
  BY DEF Owed
<1>5. ASSUME NEW o \in Owners PROVE g[o] <= k[o]
  <2>1. CASE o = x
    <3> DEFINE w == OwedStored(x, i)
               s == stakers[x].staked_amount
    <3>0. w \in Int /\ s \in Int /\ w' \in Int
      BY <1>2, OwedInt DEF OwedStored, TypeOK
    <3>1. g[x] = OwedStored(x, i)' OBVIOUS
    <3>2. h[x] = OwedStored(x, i) + d * stakers[x].staked_amount OBVIOUS
    <3> HIDE DEF g, h
    <3>3. k[x] = h[x] - c OBVIOUS
    <3> HIDE DEF k
    <3>4. g[x] <= k[x] BY <3>0, <3>1, <3>2, <3>3
    <3> QED BY <2>1, <3>4
  <2>2. CASE o # x
    BY <2>2
  <2> QED BY <2>1, <2>2
<1>6. SumFunction(Owed(i)) \in Int
  BY OwedType
<1> HIDE DEF g, h
<1>7. k \in [Owners -> Int] /\ k[x] = h[x] - c /\ \A o \in Owners : o # x => k[o] = h[o]
  BY <1>1
<1> HIDE DEF k
<1>8. SumFunction(k) = SumFunction(h) + (k[x] - h[x])
  BY <1>1, <1>7, PoolAssumption, SumUpdate
<1>9. SumFunction(g) <= SumFunction(k) /\ SumFunction(g) \in Int
  BY <1>3, <1>5, <1>7, PoolAssumption, SumMonotone, SumType
<1>10. SumFunction(h) \in Int /\ h[x] \in Int
  BY <1>1, PoolAssumption, SumType
<1>11. SumFunction(k) = SumFunction(h) - c
  BY <1>7, <1>8, <1>10
<1>12. d * Principal \in Int
  BY StakeOfType
<1> QED BY <1>1, <1>4, <1>6, <1>9, <1>10, <1>11, <1>12

-----------------------------------------------------------------------------
(* The invariant.  In every state of the pool its tables are right, its    *)
(* principal is covered and no owner is ahead of a slot; the vault of a    *)
(* slot covers what the slot is due, short of some amount.                 *)

Paid ==
    \A o \in Owners, i \in Slots :
        stakers[o].entries[i].reward_per_token_paid <= rewards[i].reward_per_token_stored

Loose == TableInv /\ PrincipalSolvent /\ Paid

(* A slot streams from its last settlement, or from now if that is earlier.*)
Since(i) == MinOf(rewards[i].last_update_time, clock)

Due(i) == SumFunction(Owed(i)) + StreamOf(rewards[i], Since(i))

Within(i, slack) == reward_vault[rewards[i].mint] * PRECISION + slack >= Due(i)

AllWithin(slack) == \A i \in Slots : Registered(i) => Within(i, slack[i])

(* While the clock does not go back, no settlement lies in the future and  *)
(* the vaults are short of nothing.                                        *)
Past == \A i \in Slots : rewards[i].last_update_time <= clock

SolventSlot(i) ==
    reward_vault[rewards[i].mint] * PRECISION >=
        SumFunction(Owed(i)) + StreamOf(rewards[i], rewards[i].last_update_time)

RewardInv == TableInv /\ PrincipalSolvent /\ Past /\ Paid /\ RewardSolvent

LEMMA SolventSlots == RewardSolvent <=> \A i \in Slots : Registered(i) => SolventSlot(i)
BY DEF RewardSolvent, SolventSlot, Owed

LEMMA SinceType ==
    ASSUME TypeOK, NEW i \in Slots
    PROVE  /\ rewards[i] \in RewardInfoType /\ clock \in Nat /\ Since(i) \in Nat
           /\ rewards[i].last_update_time \in Nat /\ Since(i) <= clock
           /\ Since(i) <= rewards[i].last_update_time
           /\ StreamOf(rewards[i], Since(i)) \in Nat
<1>1. /\ rewards[i] \in RewardInfoType /\ clock \in Nat
      /\ rewards[i].last_update_time \in Nat
  BY PoolAssumption, WidthAssumption DEF TypeOK, RewardInfoType, Timestamp
<1>2. Since(i) \in Nat /\ Since(i) <= clock /\ Since(i) <= rewards[i].last_update_time
      /\ Since(i) <= Since(i)
  BY <1>1 DEF Since, MinOf
<1> QED BY <1>1, <1>2, StreamShrinks

LEMMA VaultInt ==
    ASSUME TypeOK, NEW i \in Slots, Registered(i)
    PROVE  /\ rewards[i].mint \in Mints
           /\ reward_vault[rewards[i].mint] \in Nat
           /\ reward_vault[rewards[i].mint] * PRECISION \in Nat
<1>1. rewards[i].mint \in Mints
  BY DEF TypeOK, RewardInfoType, Registered
<1>2. reward_vault[rewards[i].mint] \in Nat
  BY <1>1, PoolAssumption DEF TypeOK
<1> QED BY <1>1, <1>2, MulType, WidthAssumption

NoSlack == [i \in Slots |-> 0]

LEMMA NoSlackType == NoSlack \in [Slots -> Nat] /\ \A i \in Slots : NoSlack[i] = 0
BY DEF NoSlack

LEMMA SolventIsWithin ==
    ASSUME TypeOK, Past
    PROVE  RewardSolvent <=> AllWithin(NoSlack)
<1>1. ASSUME NEW i \in Slots, Registered(i)
      PROVE  SolventSlot(i) <=> Within(i, NoSlack[i])
  <2>1. Since(i) = rewards[i].last_update_time
    BY DEF Past, Since, MinOf
  <2>2. reward_vault[rewards[i].mint] * PRECISION + 0 = reward_vault[rewards[i].mint] * PRECISION
    BY <1>1, VaultInt
  <2> QED BY <2>1, <2>2, NoSlackType DEF SolventSlot, Within, Due
<1> QED BY <1>1, SolventSlots DEF AllWithin

Gain(i) == SettledSlots[i].reward_per_token_stored - rewards[i].reward_per_token_stored

(* update_reward moves every slot forward. *)
LEMMA SettledGives ==
    ASSUME TypeOK, SettleOk, NEW i \in Slots
    PROVE  /\ Gain(i) \in Nat
           /\ Registered(i) =>
                /\ SettledSlots[i].last_update_time = clock
                /\ StreamOf(SettledSlots[i], clock) \in Nat
                /\ StreamOf(rewards[i], Since(i)) \in Nat
                /\ Gain(i) * pool.total_staked + StreamOf(SettledSlots[i], clock)
                      <= StreamOf(rewards[i], Since(i))
<1>1. rewards[i] \in RewardInfoType /\ pool.total_staked \in U64 /\ clock \in Timestamp
  BY PoolAssumption, WidthAssumption DEF TypeOK, PoolType, Timestamp
<1>2. CASE Registered(i)
  <2>1. SettledSlots[i] = SettleSlot(rewards[i], pool.total_staked, clock)
    BY <1>2 DEF SettledSlots, UpdateSlots, Registered
  <2>2. SettleSlotOk(rewards[i], pool.total_staked, clock)
    BY <1>2 DEF SettleOk, UpdateSlotsOk, Registered
  <2> QED BY <1>1, <2>1, <2>2, SettleSlotStream DEF Gain, Since
<1>3. CASE ~Registered(i)
  <2>1. SettledSlots[i] = rewards[i] BY <1>3, SettledKeeps
  <2>2. rewards[i].reward_per_token_stored \in Int
    BY <1>1, WidthAssumption DEF RewardInfoType, U128
  <2> QED BY <1>3, <2>1, <2>2 DEF Gain
<1> QED BY <1>2, <1>3

LEMMA SettledGrows ==
    ASSUME TypeOK, Past, SettleOk, NEW i \in Slots
    PROVE  /\ Gain(i) \in Nat
           /\ SettledSlots[i].last_update_time <= clock
           /\ Registered(i) =>
                /\ SettledSlots[i].last_update_time = clock
                /\ StreamOf(SettledSlots[i], clock) \in Nat
                /\ StreamOf(rewards[i], rewards[i].last_update_time) \in Nat
                /\ Gain(i) * pool.total_staked + StreamOf(SettledSlots[i], clock)
                      <= StreamOf(rewards[i], rewards[i].last_update_time)
<1>1. Since(i) = rewards[i].last_update_time
  BY DEF Past, Since, MinOf
<1>2. SettledSlots[i].last_update_time <= clock
  <2>1. CASE Registered(i) BY <2>1, SettledGives, SinceType
  <2>2. CASE ~Registered(i) BY <2>2, SettledKeeps DEF Past
  <2> QED BY <2>1, <2>2
<1> QED BY <1>1, <1>2, SettledGives

(* The owners a step leaves alone are owed the gain on their stake. *)
LEMMA SettledOwed ==
    ASSUME TypeOK, TypeOK', SettleOk, NEW i \in Slots, NEW o \in Owners,
           rewards'[i].reward_per_token_stored = SettledSlots[i].reward_per_token_stored,
           stakers'[o] = stakers[o]
    PROVE  OwedStored(o, i)' <= OwedStored(o, i) + Gain(i) * stakers[o].staked_amount
<1> DEFINE s == stakers[o].staked_amount
           a == stakers[o].entries[i].rewards_accrued * PRECISION
           p == stakers[o].entries[i].reward_per_token_paid
           r == rewards[i].reward_per_token_stored
           n == SettledSlots[i].reward_per_token_stored
<1>1. s \in Nat /\ a \in Nat /\ p \in Nat /\ r \in Nat
  BY OwedInt DEF TypeOK
<1>2. n \in Nat
  BY SettledType, WidthAssumption DEF RewardInfoType, U128
<1>3. /\ OwedStored(o, i) = a + s * (r - p)
      /\ OwedStored(o, i)' = a + s * (n - p)
      /\ Gain(i) = n - r
  BY DEF OwedStored, Gain
<1> HIDE DEF s, a, p, r, n
<1>4. s * (n - p) = s * (r - p) + s * (n - r)
  BY <1>1, <1>2, MulSplit
<1>5. s * (n - r) = (n - r) * s /\ s * (r - p) \in Int /\ s * (n - r) \in Int
  BY <1>1, <1>2
<1>6. a + s * (n - p) = (a + s * (r - p)) + (n - r) * s /\ a + s * (n - p) \in Int
  BY <1>1, <1>4, <1>5
<1>7. OwedStored(o, i)' <= OwedStored(o, i) + Gain(i) * s
  BY <1>3, <1>6
<1> QED BY <1>7 DEF s

(* A checkpoint turns what an owner is owed into whole tokens, rounded     *)
(* down; a claim then takes c of them.                                     *)
LEMMA CheckpointedOwed ==
    ASSUME TypeOK, TypeOK', NEW o \in Owners, CheckpointOk(o), NEW i \in Slots, Registered(i),
           NEW c \in Nat,
           rewards'[i].reward_per_token_stored = SettledSlots[i].reward_per_token_stored,
           stakers'[o].entries[i].reward_per_token_paid
               = SettledSlots[i].reward_per_token_stored,
           stakers'[o].entries[i].rewards_accrued = Checkpoint(o)[i].rewards_accrued - c
    PROVE  OwedStored(o, i)'
              <= OwedStored(o, i) + Gain(i) * stakers[o].staked_amount - c * PRECISION
<1> DEFINE s == stakers[o].staked_amount
           t == stakers[o].entries[i].rewards_accrued
           p == stakers[o].entries[i].reward_per_token_paid
           r == rewards[i].reward_per_token_stored
           n == SettledSlots[i].reward_per_token_stored
           q == (s * (n - p)) \div PRECISION
           v == stakers'[o].staked_amount
<1>1. s \in Nat /\ t \in Nat /\ p \in Nat /\ r \in Nat /\ PRECISION \in Nat /\ PRECISION > 0
  BY OwedInt, WidthAssumption DEF TypeOK
<1>2. n \in Nat
  BY SettledType, WidthAssumption DEF CheckpointOk, RewardInfoType, U128
<1>3. Checkpoint(o)[i].rewards_accrued = t + q
  BY SettledKeeps DEF Checkpoint, UpdateEntries, Earned, Registered
<1>4. p <= n
  BY SettledKeeps DEF CheckpointOk, UpdateEntriesOk, EarnedOk, Registered
<1>5. v \in Nat
  BY OwedInt DEF TypeOK
<1> HIDE DEF s, t, p, r, n, v
<1>6. s * (n - p) \in Nat
  BY <1>1, <1>2, <1>4, MulType
<1>7. q \in Nat /\ PRECISION * q <= s * (n - p)
  BY <1>1, <1>6, DivTimes
<1> HIDE DEF q
<1>8. OwedStored(o, i)' = (t + q - c) * PRECISION + v * (n - n)
  <2>1. stakers'[o].entries[i].rewards_accrued = t + q - c
    BY <1>1, <1>3, <1>7
  <2>2. rewards'[i].reward_per_token_stored = n
        /\ stakers'[o].entries[i].reward_per_token_paid = n
    BY DEF n
  <2> QED BY <2>1, <2>2 DEF OwedStored, v
<1>9. OwedStored(o, i) = t * PRECISION + s * (r - p) /\ Gain(i) = n - r
  BY DEF OwedStored, Gain, s, t, p, r, n
<1>10. v * (n - n) = 0
  BY <1>2, <1>5
<1>11. (t + q - c) * PRECISION = t * PRECISION + PRECISION * q - c * PRECISION
  BY <1>1, <1>7
<1>12. s * (n - p) = s * (r - p) + (n - r) * s
  <2>1. s * (n - p) = s * (r - p) + s * (n - r) BY <1>1, <1>2, MulSplit
  <2> QED BY <1>1, <1>2, <2>1
<1>13. /\ t * PRECISION \in Int /\ c * PRECISION \in Int /\ PRECISION * q \in Int
       /\ s * (r - p) \in Int /\ (n - r) * s \in Int /\ (t + q - c) * PRECISION \in Int
  BY <1>1, <1>2, <1>7
<1>14. OwedStored(o, i)' <= OwedStored(o, i) + Gain(i) * s - c * PRECISION
  BY <1>7, <1>8, <1>9, <1>10, <1>11, <1>12, <1>13
<1> QED BY <1>14 DEF s

-----------------------------------------------------------------------------
(* One slot through a step of each kind. *)

(* An owner who settles and takes c tokens out. *)
LEMMA OwnerKeepsSlot ==
    ASSUME Loose, TypeOK', NEW o \in Owners, CheckpointOk(o),
           NEW i \in Slots, Registered(i), NEW slack \in Nat, Within(i, slack), NEW c \in Nat,
           rewards' = SettledSlots, clock' = clock,
           \A p \in Owners : p # o => stakers'[p] = stakers[p],
           stakers'[o].entries[i].reward_per_token_paid
               = Checkpoint(o)[i].reward_per_token_paid,
           stakers'[o].entries[i].rewards_accrued = Checkpoint(o)[i].rewards_accrued - c,
           reward_vault'[rewards[i].mint] = reward_vault[rewards[i].mint] - c
    PROVE  Within(i, slack)'
<1> DEFINE V == reward_vault[rewards[i].mint]
           S == StreamOf(rewards[i], Since(i))
           R == StreamOf(SettledSlots[i], clock)
           O == SumFunction(Owed(i))
           g == Gain(i) * Principal
           k == c * PRECISION
<1>a. TypeOK /\ SettleOk /\ PrincipalSolvent
  BY DEF Loose, TableInv, CheckpointOk
<1>b. SettledSlots[i].mint = rewards[i].mint
  BY <1>a, SettledKeeps
<1>c. Checkpoint(o)[i].reward_per_token_paid = SettledSlots[i].reward_per_token_stored
  BY <1>b DEF Checkpoint, UpdateEntries, Registered
<1>1. /\ Gain(i) \in Int /\ R \in Int /\ S \in Int
      /\ g + R <= S /\ SettledSlots[i].last_update_time = clock
  BY <1>a, SettledGives DEF PrincipalSolvent
<1>2. k \in Int /\ V \in Nat /\ V * PRECISION \in Int /\ g \in Int
  BY <1>a, <1>1, VaultInt, MulType, WidthAssumption, StakeOfType
<1>3. ASSUME NEW p \in Owners, p # o
      PROVE  OwedStored(p, i)' <= OwedStored(p, i) + Gain(i) * stakers[p].staked_amount
  BY <1>3, <1>a, SettledOwed
<1>4. OwedStored(o, i)' <= OwedStored(o, i) + Gain(i) * stakers[o].staked_amount - k
  BY <1>a, <1>c, CheckpointedOwed
<1>5. O \in Int /\ SumFunction(Owed(i))' \in Int /\ SumFunction(Owed(i))' <= O + g - k
  <2> HIDE DEF k
  <2> QED BY <1>a, <1>1, <1>2, <1>3, <1>4, OwedDrops
<1>6. V * PRECISION + slack >= O + S
  BY DEF Within, Due
<1>7. (V - c) * PRECISION = V * PRECISION - k
  BY <1>2, WidthAssumption
<1>8. /\ reward_vault'[rewards'[i].mint] = V - c
      /\ StreamOf(rewards'[i], MinOf(rewards'[i].last_update_time, clock')) = R
  BY <1>b, <1>1 DEF MinOf
<1> HIDE DEF V, S, R, O, g, k
<1>9. (V - c) * PRECISION + slack >= SumFunction(Owed(i))' + R
  BY <1>1, <1>2, <1>5, <1>6, <1>7
<1> QED BY <1>8, <1>9 DEF Within, Due, Since

LEMMA OwnerKeepsOrder ==
    ASSUME Loose, TypeOK', NEW o \in Owners, CheckpointOk(o), rewards' = SettledSlots,
           \A p \in Owners : p # o => stakers'[p] = stakers[p],
           \A i \in Slots : stakers'[o].entries[i].reward_per_token_paid
                               = Checkpoint(o)[i].reward_per_token_paid
    PROVE  Paid'
<1>a. TypeOK /\ Paid /\ SettleOk
  BY DEF Loose, TableInv, CheckpointOk
<1>1. ASSUME NEW i \in Slots
      PROVE  /\ rewards[i].reward_per_token_stored \in Int
             /\ SettledSlots[i].reward_per_token_stored \in Int
             /\ rewards[i].reward_per_token_stored <= SettledSlots[i].reward_per_token_stored
  <2>1. rewards[i].reward_per_token_stored \in Int
        /\ SettledSlots[i].reward_per_token_stored \in Int
    BY <1>a, SettledType, WidthAssumption DEF TypeOK, RewardInfoType, U128
  <2> QED BY <1>a, <2>1, SettledGives DEF Gain
<1>2. ASSUME NEW p \in Owners, NEW i \in Slots
      PROVE  stakers'[p].entries[i].reward_per_token_paid
                <= SettledSlots[i].reward_per_token_stored
  <2>1. stakers[p].entries[i].reward_per_token_paid \in Int
    BY <1>a, OwedInt DEF TypeOK
  <2>2. stakers[p].entries[i].reward_per_token_paid <= rewards[i].reward_per_token_stored
    BY <1>a DEF Paid
  <2>3. CASE p # o BY <1>1, <2>1, <2>2, <2>3
  <2>4. CASE p = o /\ SettledSlots[i].mint = NoMint
    BY <1>1, <2>1, <2>2, <2>4 DEF Checkpoint, UpdateEntries
  <2>5. CASE p = o /\ SettledSlots[i].mint # NoMint
    BY <1>1, <2>5 DEF Checkpoint, UpdateEntries
  <2> QED BY <2>3, <2>4, <2>5
<1> QED BY <1>2 DEF Paid

(* A step that leaves stakers and streams alone and takes nothing out. *)
LEMMA NothingMoves ==
    ASSUME Loose, NEW slack \in [Slots -> Nat], AllWithin(slack), TypeOK',
           stakers' = stakers, clock' >= clock,
           \A i \in Slots :
              /\ rewards'[i].mint = rewards[i].mint
              /\ rewards'[i].reward_rate = rewards[i].reward_rate
              /\ rewards'[i].reward_per_token_stored = rewards[i].reward_per_token_stored
              /\ rewards'[i].period_finish = rewards[i].period_finish
              /\ rewards'[i].last_update_time = rewards[i].last_update_time,
           \A m \in Mints : reward_vault'[m] >= reward_vault[m]
    PROVE  Paid' /\ AllWithin(slack)'
<1>a. TypeOK /\ Paid
  BY DEF Loose, TableInv
<1>1. Paid'
  BY <1>a DEF Paid
<1>2. ASSUME NEW i \in Slots, Registered(i)' PROVE Within(i, slack[i])'
  <2> DEFINE V == reward_vault[rewards[i].mint]
             W == reward_vault'[rewards[i].mint]
             s == Since(i)
             t == MinOf(rewards[i].last_update_time, clock')
             S == StreamOf(rewards[i], s)
             R == StreamOf(rewards[i], t)
             k == slack[i]
  <2>1. Registered(i) /\ Within(i, k)
    BY <1>2 DEF Registered, AllWithin
  <2>2. V \in Nat /\ W \in Nat /\ V <= W
    BY <1>a, <2>1, VaultInt, PoolAssumption DEF TypeOK
  <2>3. PRECISION * V <= PRECISION * W BY <2>2, MulMonotone, WidthAssumption
  <2>4. SumFunction(Owed(i))' = SumFunction(Owed(i)) /\ SumFunction(Owed(i)) \in Int
    BY <1>a, OwedType DEF Owed, OwedStored
  <2>5. /\ StreamOf(rewards'[i], MinOf(rewards'[i].last_update_time, clock')) = R
        /\ reward_vault'[rewards'[i].mint] = W
    BY DEF StreamOf
  <2>6. S \in Nat /\ R \in Nat /\ R <= S
    <3>1. /\ rewards[i] \in RewardInfoType /\ rewards[i].last_update_time \in Nat
          /\ clock \in Nat /\ s \in Nat
      BY <1>a, SinceType
    <3>2. clock' \in Nat BY PoolAssumption DEF TypeOK
    <3>3. t \in Nat /\ s <= t BY <3>1, <3>2 DEF MinOf, Since
    <3> HIDE DEF s, t
    <3> QED BY <3>1, <3>3, StreamShrinks
  <2>7. V * PRECISION + k >= SumFunction(Owed(i)) + S BY <2>1 DEF Within, Due
  <2>8. k \in Nat OBVIOUS
  <2>9. V * PRECISION = PRECISION * V /\ W * PRECISION = PRECISION * W
        /\ V * PRECISION \in Int /\ W * PRECISION \in Int
    BY <2>2, WidthAssumption
  <2> HIDE DEF V, W, S, R, k
  <2>10. W * PRECISION + k >= SumFunction(Owed(i)) + R
    BY <2>3, <2>4, <2>6, <2>7, <2>8, <2>9
  <2> QED BY <2>4, <2>5, <2>10 DEF Within, Due, Since, k
<1> QED BY <1>1, <1>2 DEF AllWithin

-----------------------------------------------------------------------------
(* Every action keeps the invariant. *)

LEMMA AddRewardStep ==
    ASSUME Loose, NEW slack \in [Slots -> Nat], AllWithin(slack), TypeOK',
           NEW k \in Keys, NEW m \in Mints, NEW d \in Durations, AddReward(k, m, d)
    PROVE  Paid' /\ AllWithin(slack)'
<1>a. TypeOK /\ SlotTable /\ Paid
  BY DEF Loose, TableInv
<1>b. clock \in Nat /\ stakers' = stakers /\ clock' = clock /\ reward_vault' = reward_vault
  BY <1>a, PoolAssumption DEF TypeOK, AddReward
<1>1. PICK i \in Slots : /\ ~Registered(i)
                         /\ rewards' = [rewards EXCEPT ![i] = NewSlot(m, d)]
  BY DEF AddReward, IsFirstSlot, Registered
<1>2. /\ rewards'[i] = NewSlot(m, d)
      /\ \A j \in Slots : j # i => rewards'[j] = rewards[j]
  BY <1>1, <1>a DEF TypeOK
<1>3. \A o \in Owners : stakers[o].entries[i] = EmptyEntry
  BY <1>1, <1>a DEF SlotTable
<1>4. Paid'
  BY <1>a, <1>b, <1>2, <1>3 DEF Paid, NewSlot, EmptyEntry
<1>5. Within(i, slack[i])'
  <2>1. ASSUME NEW o \in Owners PROVE OwedStored(o, i)' = 0
    <3>1. stakers[o].staked_amount \in Nat BY <1>a, OwedInt DEF TypeOK
    <3>2. stakers[o].staked_amount * (0 - 0) = 0 /\ 0 * PRECISION = 0
      BY <3>1, WidthAssumption
    <3> QED BY <1>b, <1>2, <1>3, <3>2 DEF OwedStored, NewSlot, EmptyEntry
  <2> DEFINE z == [o \in Owners |-> OwedStored(o, i)']
  <2>2. z \in [Owners -> Int] /\ \A o \in Owners : z[o] = 0 BY <2>1
  <2>3. SumFunction(Owed(i))' = SumFunction(z) BY DEF Owed
  <2> HIDE DEF z
  <2>4. SumFunction(Owed(i))' = 0 BY <2>2, <2>3, PoolAssumption, SumZero
  <2>5. StreamOf(NewSlot(m, d), clock) = 0 /\ MinOf(clock, clock) = clock
    BY <1>b DEF StreamOf, NewSlot, MinOf
  <2>6. reward_vault[m] * PRECISION \in Nat /\ slack[i] \in Nat
    BY <1>a, PoolAssumption, MulType, WidthAssumption DEF TypeOK
  <2>7. NewSlot(m, d).mint = m /\ NewSlot(m, d).last_update_time = clock BY DEF NewSlot
  <2>8. reward_vault[m] * PRECISION + slack[i] >= 0 + 0 BY <2>6
  <2> QED BY <1>b, <1>2, <2>4, <2>5, <2>7, <2>8 DEF Within, Due, Since
<1>6. ASSUME NEW j \in Slots, j # i, Registered(j)' PROVE Within(j, slack[j])'
  <2>1. rewards'[j] = rewards[j] /\ Within(j, slack[j])
    BY <1>2, <1>6 DEF Registered, AllWithin
  <2> QED BY <1>b, <2>1 DEF Within, Due, Since, Owed, OwedStored
<1> QED BY <1>4, <1>5, <1>6 DEF AllWithin

(* A rate streams at most what came in and what was left. *)
LEMMA RestreamedCovered ==
    ASSUME NEW slot \in RewardInfoType, NEW received \in Nat, clock \in Nat,
           RestreamOk(slot, received)
    PROVE  /\ StreamOf(Restreamed(slot, received), clock) \in Nat
           /\ StreamOf(slot, clock) \in Nat
           /\ StreamOf(Restreamed(slot, received), clock)
                 <= received * PRECISION + StreamOf(slot, clock)
           /\ Restreamed(slot, received).mint = slot.mint
           /\ Restreamed(slot, received).last_update_time = clock
           /\ Restreamed(slot, received).reward_per_token_stored
                 = slot.reward_per_token_stored
<1> DEFINE d == slot.duration
           n == received * PRECISION
                + Leftover(slot.reward_rate, clock, slot.period_finish)
           q == n \div d
           r == Restreamed(slot, received)
<1>1. d \in Nat /\ d > 0 /\ slot.reward_rate \in Nat /\ slot.period_finish \in Nat
  BY WidthAssumption DEF RestreamOk, NotifyRateOk, RewardInfoType, Timestamp, U128
<1>2. /\ r.reward_rate = q /\ r.period_finish = clock + d /\ r.last_update_time = clock
      /\ r.mint = slot.mint /\ r.reward_per_token_stored = slot.reward_per_token_stored
  BY DEF Restreamed, NotifyRate, RewardInfoType
<1>3. Leftover(slot.reward_rate, clock, slot.period_finish) = StreamOf(slot, clock)
  <2>1. CASE clock < slot.period_finish
    <3>1. slot.period_finish - clock \in Nat BY <1>1, <2>1
    <3>2. (slot.period_finish - clock) * slot.reward_rate
          = slot.reward_rate * (slot.period_finish - clock)
      BY <1>1, <3>1
    <3> QED BY <2>1, <3>2 DEF Leftover, StreamOf
  <2>2. CASE ~(clock < slot.period_finish) BY <2>2 DEF Leftover, StreamOf
  <2> QED BY <2>1, <2>2
<1>4. StreamOf(slot, clock) \in Nat
  <2>1. clock <= clock OBVIOUS
  <2> QED BY <2>1, StreamShrinks
<1>5. n \in Nat /\ n = received * PRECISION + StreamOf(slot, clock)
  BY <1>3, <1>4, MulType, WidthAssumption
<1> HIDE DEF n
<1>6. q \in Nat /\ d * q <= n
  BY <1>1, <1>5, DivTimes
<1> HIDE DEF q, d, r
<1>7. StreamOf(r, clock) = q * d
  <2>1. clock < clock + d /\ (clock + d) - clock = d BY <1>1
  <2> QED BY <1>2, <2>1 DEF StreamOf
<1>8. q * d = d * q /\ q * d \in Nat
  BY <1>1, <1>6, MulType
<1>9. StreamOf(r, clock) \in Nat
      /\ StreamOf(r, clock) <= received * PRECISION + StreamOf(slot, clock)
  BY <1>5, <1>6, <1>7, <1>8
<1> QED BY <1>2, <1>4, <1>9 DEF r

LEMMA DepositStep ==
    ASSUME Loose, NEW slack \in [Slots -> Nat], AllWithin(slack), TypeOK',
           NEW k \in Keys, NEW m \in Mints, NEW a \in RewardAmounts, DepositRewards(k, m, a)
    PROVE  Paid' /\ AllWithin(slack)'
<1>a. TypeOK /\ SlotTable /\ Paid /\ PrincipalSolvent /\ SettleOk
  BY DEF Loose, TableInv, DepositRewards
<1>b. /\ clock \in Nat /\ stakers' = stakers /\ clock' = clock
      /\ a \in Nat /\ reward_vault[m] \in Nat /\ (reward_vault[m] + a) - reward_vault[m] = a
      /\ SettledSlots \in [Slots -> RewardInfoType]
  <2>1. clock \in Nat /\ stakers' = stakers /\ clock' = clock /\ a \in Nat
    BY <1>a, PoolAssumption DEF TypeOK, DepositRewards
  <2>2. reward_vault[m] \in Nat
    BY <1>a, PoolAssumption DEF TypeOK
  <2>3. (reward_vault[m] + a) - reward_vault[m] = a
    BY <2>1, <2>2
  <2>4. SettledSlots \in [Slots -> RewardInfoType]
    BY <1>a, SettledType
  <2> QED BY <2>1, <2>2, <2>3, <2>4
<1>1. PICK i \in Slots :
        /\ rewards[i].mint = m
        /\ RestreamOk(SettledSlots[i], a)
        /\ rewards' = [SettledSlots EXCEPT ![i] = Restreamed(SettledSlots[i], a)]
  BY <1>b DEF DepositRewards, IsFirstSlot
<1> DEFINE new == Restreamed(SettledSlots[i], a)
<1>2. /\ rewards'[i] = new
      /\ \A j \in Slots : j # i => rewards'[j] = SettledSlots[j]
  BY <1>1, <1>b
<1>3. /\ StreamOf(new, clock) \in Nat /\ StreamOf(SettledSlots[i], clock) \in Nat
      /\ StreamOf(new, clock) <= a * PRECISION + StreamOf(SettledSlots[i], clock)
      /\ new.mint = SettledSlots[i].mint /\ new.last_update_time = clock
      /\ new.reward_per_token_stored = SettledSlots[i].reward_per_token_stored
  BY <1>1, <1>b, RestreamedCovered
<1> HIDE DEF new
<1>4. \A j \in Slots :
        rewards'[j].reward_per_token_stored = SettledSlots[j].reward_per_token_stored
  BY <1>2, <1>3
<1>5. Paid'
  <2>1. ASSUME NEW o \in Owners, NEW j \in Slots
        PROVE  stakers[o].entries[j].reward_per_token_paid
                  <= SettledSlots[j].reward_per_token_stored
    <3>1. /\ rewards[j].reward_per_token_stored \in Int
          /\ SettledSlots[j].reward_per_token_stored \in Int
          /\ stakers[o].entries[j].reward_per_token_paid \in Int
      BY <1>a, <1>b, OwedInt, WidthAssumption DEF TypeOK, RewardInfoType, U128
    <3>2. Gain(j) \in Nat BY <1>a, SettledGives
    <3> QED BY <1>a, <3>1, <3>2 DEF Paid, Gain
  <2> QED BY <1>b, <1>4, <2>1 DEF Paid
<1>6. ASSUME NEW j \in Slots, Registered(j)
      PROVE  /\ SumFunction(Owed(j))' \in Int /\ SumFunction(Owed(j)) \in Int
             /\ StreamOf(SettledSlots[j], clock) \in Int
             /\ reward_vault[rewards[j].mint] * PRECISION \in Int
             /\ SettledSlots[j].last_update_time = clock
             /\ reward_vault[rewards[j].mint] * PRECISION + slack[j]
                   >= SumFunction(Owed(j))' + StreamOf(SettledSlots[j], clock)
  <2> DEFINE g == Gain(j) * Principal
             S == StreamOf(rewards[j], Since(j))
             R == StreamOf(SettledSlots[j], clock)
             V == reward_vault[rewards[j].mint]
             l == slack[j]
  <2>1. /\ Gain(j) \in Int /\ R \in Int /\ S \in Int /\ g + R <= S
        /\ SettledSlots[j].last_update_time = clock
    BY <1>a, <1>6, SettledGives DEF PrincipalSolvent
  <2>2. g \in Int BY <1>a, <2>1, StakeOfType
  <2>3. ASSUME NEW o \in Owners
        PROVE  OwedStored(o, j)' <= OwedStored(o, j) + Gain(j) * stakers[o].staked_amount
    BY <1>a, <1>b, <1>4, SettledOwed
  <2>4. /\ SumFunction(Owed(j)) \in Int /\ SumFunction(Owed(j))' \in Int
        /\ SumFunction(Owed(j))' <= SumFunction(Owed(j)) + g
    BY <1>a, <2>1, <2>3, OwedMoves
  <2>5. V * PRECISION + l >= SumFunction(Owed(j)) + S BY <1>6 DEF AllWithin, Within, Due
  <2>6. V * PRECISION \in Int /\ l \in Nat BY <1>a, <1>6, VaultInt
  <2> HIDE DEF g, S, R, V, l
  <2>7. V * PRECISION + l >= SumFunction(Owed(j))' + R BY <2>1, <2>2, <2>4, <2>5, <2>6
  <2> QED BY <2>1, <2>4, <2>6, <2>7 DEF R, V, l
<1>c. MinOf(clock, clock) = clock BY DEF MinOf
<1>7. Within(i, slack[i])'
  <2> DEFINE l == slack[i]
  <2>1. Registered(i) BY <1>1, SlotAssumption DEF Registered
  <2>2. rewards'[i].mint = m BY <1>a, <1>1, <1>2, <1>3, SettledKeeps
  <2>3. reward_vault'[m] = reward_vault[m] + a BY <1>a DEF DepositRewards, TypeOK
  <2>4. (reward_vault[m] + a) * PRECISION = reward_vault[m] * PRECISION + a * PRECISION
        /\ a * PRECISION \in Int
    BY <1>b, WidthAssumption
  <2>5. reward_vault[m] * PRECISION + l
           >= SumFunction(Owed(i))' + StreamOf(SettledSlots[i], clock)
    BY <1>1, <1>6, <2>1
  <2>6. reward_vault[m] * PRECISION \in Int /\ SumFunction(Owed(i))' \in Int /\ l \in Nat
    BY <1>1, <1>6, <2>1
  <2> HIDE DEF l
  <2>7. (reward_vault[m] + a) * PRECISION + l
           >= SumFunction(Owed(i))' + StreamOf(new, clock)
    BY <1>3, <2>4, <2>5, <2>6
  <2> QED BY <1>b, <1>c, <1>2, <1>3, <2>2, <2>3, <2>7 DEF Within, Due, Since, l
<1>8. ASSUME NEW j \in Slots, j # i, Registered(j)' PROVE Within(j, slack[j])'
  <2>1. rewards'[j] = SettledSlots[j] /\ SettledSlots[j].mint = rewards[j].mint
    BY <1>a, <1>2, <1>8, SettledKeeps
  <2>2. Registered(j) BY <1>8, <2>1 DEF Registered
  <2>3. rewards[j].mint # m BY <1>a, <1>1, <1>8, <2>2 DEF SlotTable
  <2>4. reward_vault'[rewards[j].mint] = reward_vault[rewards[j].mint]
    BY <1>a, <2>2, <2>3, VaultInt DEF DepositRewards, TypeOK
  <2> QED BY <1>b, <1>c, <1>6, <2>1, <2>2, <2>4 DEF Within, Due, Since
<1> QED BY <1>5, <1>7, <1>8 DEF AllWithin

LEMMA StakeStep ==
    ASSUME Loose, NEW slack \in [Slots -> Nat], AllWithin(slack), TypeOK',
           NEW o \in Owners, NEW a \in StakeAmounts, Stake(o, a) \/ Unstake(o, a)
    PROVE  Paid' /\ AllWithin(slack)'
<1>a. TypeOK /\ CheckpointOk(o)
  BY DEF Loose, TableInv, Stake, MayStake, Unstake, MayUnstake
<1>1. /\ rewards' = SettledSlots /\ clock' = clock /\ reward_vault' = reward_vault
      /\ stakers'[o].entries = Checkpoint(o)
      /\ \A p \in Owners : p # o => stakers'[p] = stakers[p]
  BY <1>a DEF Stake, Unstake, TypeOK
<1>2. Paid'
  BY <1>a, <1>1, OwnerKeepsOrder
<1>3. ASSUME NEW i \in Slots, Registered(i)' PROVE Within(i, slack[i])'
  <2>1. Registered(i) /\ Within(i, slack[i]) /\ slack[i] \in Nat
    BY <1>a, <1>1, <1>3, SettledKeeps DEF Registered, AllWithin
  <2>2. Checkpoint(o)[i].rewards_accrued \in Nat
    BY <1>a, CheckpointType, WidthAssumption DEF RewardEntryType, U64
  <2>3. reward_vault[rewards[i].mint] \in Nat BY <1>a, <2>1, VaultInt
  <2>4. /\ stakers'[o].entries[i].rewards_accrued = Checkpoint(o)[i].rewards_accrued - 0
        /\ reward_vault'[rewards[i].mint] = reward_vault[rewards[i].mint] - 0
    BY <1>1, <2>2, <2>3
  <2> QED BY <1>a, <1>1, <2>1, <2>4, OwnerKeepsSlot
<1> QED BY <1>2, <1>3 DEF AllWithin

LEMMA ClaimStep ==
    ASSUME Loose, NEW slack \in [Slots -> Nat], AllWithin(slack), TypeOK',
           NEW o \in Owners, NEW S \in SUBSET Mints, Claim(o, S)
    PROVE  Paid' /\ AllWithin(slack)'
<1>a. /\ TypeOK /\ SlotTable /\ CheckpointOk(o)
      /\ Checkpoint(o) \in [Slots -> RewardEntryType]
  BY CheckpointType DEF Loose, TableInv, Claim, MayClaim
<1>1. /\ rewards' = SettledSlots /\ clock' = clock
      /\ stakers'[o].entries = TakeSlots(o, S)
      /\ \A p \in Owners : p # o => stakers'[p] = stakers[p]
  BY <1>a DEF Claim, TypeOK, StakerType
<1>2. \A i \in Slots : TakeSlots(o, S)[i].reward_per_token_paid
                          = Checkpoint(o)[i].reward_per_token_paid
  BY <1>a DEF TakeSlots, RewardEntryType
<1>3. Paid'
  BY <1>a, <1>1, <1>2, OwnerKeepsOrder
<1>4. ASSUME NEW i \in Slots, Registered(i)' PROVE Within(i, slack[i])'
  <2> DEFINE m == rewards[i].mint
             t == Checkpoint(o)[i].rewards_accrued
  <2>1. Registered(i) /\ Within(i, slack[i]) /\ slack[i] \in Nat
    BY <1>a, <1>1, <1>4, SettledKeeps DEF Registered, AllWithin
  <2>2. t \in Nat BY <1>a, WidthAssumption DEF RewardEntryType, U64
  <2>3. m \in Mints /\ reward_vault[m] \in Nat BY <1>a, <2>1, VaultInt
  <2>4. \A j \in Slots : rewards[j].mint = m => j = i
    BY <1>a, <2>1 DEF SlotTable, Registered
  <2>5. CASE m \in S
    <3>1. \A j \in Slots : IsFirstSlot(rewards, j, m) => j = i
      BY <2>4 DEF IsFirstSlot
    <3>2. IsFirstSlot(rewards, i, m)
      BY <2>4 DEF IsFirstSlot, Slots
    <3>3. Payout(o, m) = t
      <4>1. \E j \in Slots : IsFirstSlot(rewards, j, m)
                             /\ Payout(o, m) = Checkpoint(o)[j].rewards_accrued
        BY <2>5, PayoutType DEF Loose
      <4> QED BY <3>1, <4>1
    <3>4. TakeSlots(o, S)[i].rewards_accrued = 0
      BY <1>a, <2>5, <3>2 DEF TakeSlots, RewardEntryType
    <3>5. reward_vault'[m] = reward_vault[m] - t
      BY <2>3, <2>5, <3>3 DEF Claim
    <3>6. stakers'[o].entries[i].rewards_accrued = t - t
      BY <1>1, <2>2, <3>4
    <3> QED BY <1>a, <1>1, <1>2, <2>1, <2>2, <3>5, <3>6, OwnerKeepsSlot
  <2>6. CASE m \notin S
    <3>1. \A n \in S : ~IsFirstSlot(rewards, i, n) BY <2>6 DEF IsFirstSlot
    <3>2. TakeSlots(o, S)[i].rewards_accrued = t BY <3>1 DEF TakeSlots
    <3>3. reward_vault'[m] = reward_vault[m] BY <2>3, <2>6 DEF Claim
    <3>4. stakers'[o].entries[i].rewards_accrued = t - 0
          /\ reward_vault'[m] = reward_vault[m] - 0
      BY <1>1, <2>2, <2>3, <3>2, <3>3
    <3> QED BY <1>a, <1>1, <1>2, <2>1, <3>4, OwnerKeepsSlot
  <2> QED BY <2>5, <2>6
<1> QED BY <1>3, <1>4 DEF AllWithin

(* An emergency withdrawal settles nothing: what the owner was owed, which *)
(* is never negative, is cancelled, and everything else stays.             *)
LEMMA EmergencyStep ==
    ASSUME Loose, NEW slack \in [Slots -> Nat], AllWithin(slack), TypeOK',
           NEW o \in Owners, EmergencyWithdraw(o)
    PROVE  Paid' /\ AllWithin(slack)'
<1>a. TypeOK /\ Paid
  BY DEF Loose, TableInv
<1>1. /\ rewards' = rewards /\ clock' = clock /\ reward_vault' = reward_vault
      /\ stakers'[o] = [created |-> TRUE, staked_amount |-> 0, entries |-> Forfeited]
      /\ \A p \in Owners : p # o => stakers'[p] = stakers[p]
  BY <1>a DEF EmergencyWithdraw, TypeOK
<1>2. ASSUME NEW i \in Slots
      PROVE  /\ stakers'[o].entries[i].reward_per_token_paid
                   = rewards[i].reward_per_token_stored
             /\ stakers'[o].entries[i].rewards_accrued = 0
             /\ stakers'[o].staked_amount = 0
             /\ rewards[i].reward_per_token_stored \in Nat
  BY <1>a, <1>1, WidthAssumption DEF Forfeited, TypeOK, RewardInfoType, U128
<1>3. Paid'
  <2>1. ASSUME NEW p \in Owners, NEW i \in Slots
        PROVE  stakers'[p].entries[i].reward_per_token_paid
                  <= rewards[i].reward_per_token_stored
    <3>1. CASE p = o BY <1>2, <3>1
    <3>2. CASE p # o BY <1>a, <1>1, <3>2 DEF Paid
    <3> QED BY <3>1, <3>2
  <2> QED BY <1>1, <2>1 DEF Paid
<1>4. ASSUME NEW i \in Slots, Registered(i)' PROVE Within(i, slack[i])'
  <2> DEFINE r == rewards[i].reward_per_token_stored
             V == reward_vault[rewards[i].mint] * PRECISION
             R == StreamOf(rewards[i], Since(i))
             l == slack[i]
  <2>1. Registered(i) /\ Within(i, l) BY <1>a, <1>1, <1>4 DEF Registered, AllWithin
  <2>2. OwedStored(o, i)' = 0
    <3>1. 0 * PRECISION + 0 * (r - r) = 0 BY <1>2, WidthAssumption
    <3> QED BY <1>1, <1>2, <3>1 DEF OwedStored
  <2>3. OwedStored(o, i) \in Nat
    <3> DEFINE s == stakers[o].staked_amount
               t == stakers[o].entries[i].rewards_accrued
               p == stakers[o].entries[i].reward_per_token_paid
    <3>1. s \in Nat /\ t * PRECISION \in Nat /\ p \in Nat BY <1>a, OwedInt DEF TypeOK
    <3>2. p <= r BY <1>a DEF Paid
    <3>3. r - p \in Nat BY <1>2, <3>1, <3>2
    <3>4. s * (r - p) \in Nat BY <3>1, <3>3, MulType
    <3>5. OwedStored(o, i) = t * PRECISION + s * (r - p) BY DEF OwedStored
    <3> HIDE DEF s, t, p, r
    <3> QED BY <3>1, <3>4, <3>5
  <2>4. ASSUME NEW p \in Owners
        PROVE  OwedStored(p, i)' <= OwedStored(p, i) + 0 * stakers[p].staked_amount
    <3>1. OwedStored(p, i) \in Int BY <1>a, OwedInt DEF OwedStored, TypeOK
    <3>2. 0 * stakers[p].staked_amount = 0
      <4>1. stakers[p].staked_amount \in Nat BY <1>a, OwedInt DEF TypeOK
      <4> QED BY <4>1
    <3>3. CASE p = o BY <2>2, <2>3, <3>1, <3>2, <3>3
    <3>4. CASE p # o
      <4>1. OwedStored(p, i)' = OwedStored(p, i) BY <1>1, <3>4 DEF OwedStored
      <4> QED BY <3>1, <3>2, <4>1
    <3> QED BY <3>3, <3>4
  <2>5. /\ SumFunction(Owed(i)) \in Int /\ SumFunction(Owed(i))' \in Int
        /\ SumFunction(Owed(i))' <= SumFunction(Owed(i)) + 0 * Principal
    BY <1>a, <2>4, OwedMoves
  <2>6. 0 * Principal = 0
    <3>1. Principal \in Int BY <1>a, StakeOfType
    <3> QED BY <3>1
  <2>7. V \in Int /\ R \in Int /\ l \in Nat
    BY <1>a, <2>1, VaultInt, SinceType
  <2>8. V + l >= SumFunction(Owed(i)) + R BY <2>1 DEF Within, Due
  <2> HIDE DEF V, R, l
  <2>9. V + l >= SumFunction(Owed(i))' + R BY <2>5, <2>6, <2>7, <2>8
  <2> QED BY <1>1, <2>9 DEF Within, Due, Since, V, R, l
<1> QED BY <1>3, <1>4 DEF AllWithin

(* A vault stays within whatever it is short of. *)
LEMMA StepWithin ==
    ASSUME Loose, NEW slack \in [Slots -> Nat], AllWithin(slack), [Next]_vars
    PROVE  Loose' /\ AllWithin(slack)'
<1>a. TableInv /\ TypeOK /\ PrincipalSolvent /\ TableInv' /\ TypeOK'
  BY StepTableInv DEF Loose, TableInv
<1>b. PrincipalSolvent'
  BY <1>a, StepPrincipal
<1>c. /\ clock \in Int /\ RewardAmounts \subseteq Nat
      /\ \A m \in Mints : reward_vault[m] \in Int /\ reward_vault[m] >= reward_vault[m]
  BY <1>a, PoolAssumption DEF TypeOK
<1>d. rewards \in [Slots -> RewardInfoType] /\ reward_vault \in [Mints -> Int]
  BY <1>a, PoolAssumption DEF TypeOK
<1> DEFINE Kept == Paid' /\ AllWithin(slack)'
<1>1. ASSUME NEW k \in Keys, AdminStep(k) PROVE Kept
  <2>1. ASSUME NEW m \in Mints, NEW d \in Durations, AddReward(k, m, d) PROVE Kept
    BY <1>a, <2>1, AddRewardStep
  <2>2. ASSUME NEW i \in Slots,
               (\E a \in BOOLEAN : SetRewardActive(k, i, a))
               \/ (\E d \in Durations : SetDuration(k, i, d))
        PROVE  Kept
    <3>1. /\ stakers' = stakers /\ clock' = clock /\ reward_vault' = reward_vault
          /\ (\E a \in BOOLEAN : rewards' = [rewards EXCEPT ![i].active = a])
             \/ (\E d \in Durations : rewards' = [rewards EXCEPT ![i].duration = d])
      BY <2>2 DEF SetRewardActive, SetDuration
    <3>2. \A j \in Slots :
              /\ rewards'[j].mint = rewards[j].mint
              /\ rewards'[j].reward_rate = rewards[j].reward_rate
              /\ rewards'[j].reward_per_token_stored = rewards[j].reward_per_token_stored
              /\ rewards'[j].period_finish = rewards[j].period_finish
              /\ rewards'[j].last_update_time = rewards[j].last_update_time
      BY <1>d, <3>1 DEF RewardInfoType
    <3> QED BY <1>a, <1>c, <3>1, <3>2, NothingMoves
  <2>3. CASE UNCHANGED <<clock, rewards, stakers, stake_vault, reward_vault>>
    BY <1>a, <1>c, <2>3, NothingMoves
  <2> QED BY <1>1, <2>1, <2>2, <2>3
          DEF AdminStep, SetUpStep, AdminOnlyStep, InitializePool, SetPaused, SetKeeperAuthority, SetAdmin
<1>2. ASSUME NEW k \in Keys, KeeperStep(k) PROVE Kept
  BY <1>2, <1>a, DepositStep DEF KeeperStep
<1>3. ASSUME NEW o \in Owners, OwnerStep(o) PROVE Kept
  BY <1>3, <1>a, StakeStep, ClaimStep, EmergencyStep DEF OwnerStep
<1>4. ASSUME NEW a \in StakeAmounts, DonateStake(a) PROVE Kept
  BY <1>4, <1>a, <1>c, NothingMoves DEF DonateStake
<1>5. ASSUME NEW m \in Mints, NEW a \in RewardAmounts, DonateReward(m, a) PROVE Kept
  <2>1. \A n \in Mints : reward_vault'[n] >= reward_vault[n]
    BY <1>5, <1>c, <1>d DEF DonateReward
  <2> QED BY <1>5, <1>a, <1>c, <2>1, NothingMoves DEF DonateReward
<1>6. ASSUME Tick PROVE Kept
  <2>1. clock' >= clock BY <1>6, <1>c DEF Tick
  <2> QED BY <1>6, <1>a, <1>c, <2>1, NothingMoves DEF Tick
<1>7. ASSUME UNCHANGED vars PROVE Kept
  BY <1>7, <1>a, <1>c, NothingMoves DEF vars
<1>8. Kept
  BY <1>1, <1>2, <1>3, <1>4, <1>5, <1>6, <1>7 DEF Next, Donation
<1> QED BY <1>a, <1>b, <1>8 DEF Loose

(* No settlement gets ahead of a clock that only ticks. *)
LEMMA StepPast ==
    ASSUME TypeOK, Past, [Next]_vars
    PROVE  Past'
<1> DEFINE Times(slots) == \A i \in Slots : slots[i].last_update_time <= clock
<1>a. /\ rewards \in [Slots -> RewardInfoType] /\ clock \in Int /\ clock <= clock
      /\ \A i \in Slots : rewards[i].last_update_time \in Int
  BY SinceType DEF TypeOK
<1>b. SettleOk => SettledSlots \in [Slots -> RewardInfoType] /\ Times(SettledSlots)
  BY SettledType, SettledGrows
<1>1. ASSUME NEW k \in Keys, AdminStep(k) PROVE Past'
  <2>1. ASSUME NEW m \in Mints, NEW d \in Durations, AddReward(k, m, d) PROVE Past'
    BY <1>a, <2>1 DEF AddReward, NewSlot, Past
  <2>2. ASSUME NEW i \in Slots,
               (\E a \in BOOLEAN : SetRewardActive(k, i, a))
               \/ (\E d \in Durations : SetDuration(k, i, d))
        PROVE  Past'
    BY <1>a, <2>2 DEF SetRewardActive, SetDuration, RewardInfoType, Past
  <2> QED BY <1>1, <2>1, <2>2
          DEF AdminStep, SetUpStep, AdminOnlyStep, InitializePool, SetPaused, SetKeeperAuthority, SetAdmin, Past
<1>2. ASSUME NEW k \in Keys, NEW m \in Mints, NEW a \in RewardAmounts, DepositRewards(k, m, a)
      PROVE  Past'
  <2>1. PICK i \in Slots, x \in {(reward_vault[m] + a) - reward_vault[m]} :
          rewards' = [SettledSlots EXCEPT ![i] = Restreamed(SettledSlots[i], x)]
    BY <1>2 DEF DepositRewards
  <2>2. Restreamed(SettledSlots[i], x).last_update_time = clock
    BY <1>b, <1>2 DEF DepositRewards, Restreamed, RewardInfoType
  <2> QED BY <1>a, <1>b, <1>2, <2>1, <2>2 DEF DepositRewards, Past
<1>3. ASSUME NEW o \in Owners, OwnerStep(o) PROVE Past'
  <2>1. clock' = clock /\ (rewards' = rewards \/ (SettleOk /\ rewards' = SettledSlots))
    BY <1>3 DEF OwnerStep, Stake, MayStake, Unstake, MayUnstake, Claim, MayClaim,
                EmergencyWithdraw, CheckpointOk
  <2> QED BY <1>b, <2>1 DEF Past
<1>4. ASSUME Tick PROVE Past'
  <2>1. rewards' = rewards /\ clock' = clock + 1 BY <1>4 DEF Tick
  <2> QED BY <1>a, <2>1 DEF Past
<1>5. ASSUME Donation \/ UNCHANGED vars PROVE Past'
  BY <1>5 DEF Donation, DonateStake, DonateReward, vars, Past
<1> QED BY <1>1, <1>2, <1>3, <1>4, <1>5 DEF Next, KeeperStep

LEMMA InitRewardInv == Init => RewardInv
<1> SUFFICES ASSUME Init PROVE RewardInv
  OBVIOUS
<1>1. TableInv /\ PrincipalSolvent
  BY InitTableInv, InitPrincipal
<1>2. Past /\ Paid
  BY DEF Init, EmptySlot, NoStaker, EmptyEntry, Past, Paid
<1>3. RewardSolvent
  BY DEF Init, EmptySlot, RewardSolvent, Registered
<1> QED BY <1>1, <1>2, <1>3 DEF RewardInv

LEMMA StepRewardInv == RewardInv /\ [Next]_vars => RewardInv'
<1> SUFFICES ASSUME RewardInv, [Next]_vars PROVE RewardInv'
  OBVIOUS
<1>1. TypeOK /\ Past /\ Loose
  BY DEF RewardInv, Loose, TableInv
<1>2. AllWithin(NoSlack)
  BY <1>1, SolventIsWithin DEF RewardInv
<1>3. Loose' /\ AllWithin(NoSlack)'
  BY <1>1, <1>2, NoSlackType, StepWithin
<1>4. Past' /\ TypeOK'
  BY <1>1, <1>3, StepPast DEF Loose, TableInv
<1>5. RewardSolvent'
  <2>1. (TypeOK /\ Past => (RewardSolvent <=> AllWithin(NoSlack)))'
    BY SolventIsWithin, PTL
  <2> QED BY <1>3, <1>4, <2>1
<1> QED BY <1>3, <1>4, <1>5 DEF RewardInv, Loose

LEMMA RewardInvariant == Spec => []RewardInv
<1> QED BY InitRewardInv, StepRewardInv, PTL DEF Spec

(* Every reward vault covers what its slot owes to all stakers and what    *)
(* the slot still promises to stream, after any sequence of stakes, exits, *)
(* claims, deposits, changes of duration and emergency withdrawals.        *)
THEOREM RewardSolvency == Spec => []RewardSolvent
<1>1. RewardInv => RewardSolvent BY DEF RewardInv
<1> QED BY <1>1, RewardInvariant, PTL

-----------------------------------------------------------------------------
(* What an owner is owed is never negative.                                *)

LEMMA FactorKeepsOrder ==
    ASSUME NEW a \in Nat, NEW b \in Nat, NEW k \in Nat, k > 0, a * k <= b * k
    PROVE  a <= b
<1> SUFFICES ASSUME b + 1 <= a PROVE FALSE
  OBVIOUS
<1>1. k * (b + 1) \in Nat /\ k * a \in Nat /\ k * (b + 1) <= k * a
  BY MulMonotone
<1>2. k * (b + 1) = b * k + k /\ k * a = a * k /\ b * k \in Nat
  BY MulType
<1> QED BY <1>1, <1>2

LEMMA OwedNat ==
    ASSUME TypeOK, Paid, NEW o \in Owners, NEW i \in Slots
    PROVE  OwedStored(o, i) \in Nat
<1> DEFINE s == stakers[o].staked_amount
           t == stakers[o].entries[i].rewards_accrued
           p == stakers[o].entries[i].reward_per_token_paid
           r == rewards[i].reward_per_token_stored
<1>1. s \in Nat /\ t * PRECISION \in Nat /\ p \in Nat /\ r \in Nat
  BY OwedInt DEF TypeOK
<1>2. p <= r
  BY DEF Paid
<1>3. OwedStored(o, i) = t * PRECISION + s * (r - p)
  BY DEF OwedStored
<1> HIDE DEF s, t, p, r
<1>4. r - p \in Nat
  BY <1>1, <1>2
<1>5. s * (r - p) \in Nat
  BY <1>1, <1>4, MulType
<1> QED BY <1>1, <1>3, <1>5

(* A vault pays out of the one slot that holds its mint. *)
LEMMA PayoutOfSlot ==
    ASSUME NEW o \in Owners, NEW i \in Slots, NEW v \in Mints, IsFirstSlot(rewards, i, v)
    PROVE  Payout(o, v) = Checkpoint(o)[i].rewards_accrued
<1>1. \A j \in Slots : IsFirstSlot(rewards, j, v) => j = i
  BY SlotAssumption DEF IsFirstSlot, Slots
<1>2. (CHOOSE j \in Slots : IsFirstSlot(rewards, j, v)) = i
  BY <1>1
<1> QED BY <1>2 DEF Payout

=============================================================================
