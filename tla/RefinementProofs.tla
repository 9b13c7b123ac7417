-------------------------- MODULE RefinementProofs --------------------------
(***************************************************************************)
(* What the staking pool implements, for every value of the constants:     *)
(* every step of the pool is a step of the abstract safe deposit           *)
(* PrincipalVault, or leaves it alone; every step is a step of the covered *)
(* ledger RewardLedger, or leaves it alone; and the claim loop of          *)
(* ClaimWalk is the one-step claim of the pool.                            *)
(***************************************************************************)
EXTENDS StakingRefinement, ClaimWalk, EarnedProofs

-----------------------------------------------------------------------------
(* The stakes are a safe deposit. *)

Stakes == [o \in Owners |-> stakers[o].staked_amount]

(* A step of the deposit, or none. *)
BankStep == [Bank!BankNext]_(Bank!bankVars)

(* One owner's stake is raised, and the vault with it. *)
LEMMA DepositMaps ==
    ASSUME TypeOK, TypeOK', NEW o \in Owners, NEW amount \in Nat,
           Stakes' = [Stakes EXCEPT ![o] = @ + amount],
           stake_vault' = stake_vault + amount
    PROVE  BankStep
<1>1. stake_vault \in Nat /\ stake_vault + amount <= StakeSupply /\ StakeSupply \in Nat
  BY PoolAssumption DEF TypeOK
<1>2. amount \in 0 .. StakeSupply
  BY <1>1
<1>3. Bank!Deposit(o, amount)
  BY <1>1 DEF Bank!Deposit, Stakes
<1> QED BY <1>2, <1>3 DEF BankStep, Bank!BankNext

(* One owner's stake is lowered, and the vault with it. *)
LEMMA WithdrawMaps ==
    ASSUME TypeOK, NEW o \in Owners, NEW amount \in Nat,
           amount <= stakers[o].staked_amount, amount <= stake_vault,
           Stakes' = [Stakes EXCEPT ![o] = @ - amount],
           stake_vault' = stake_vault - amount
    PROVE  BankStep
<1>1. stake_vault \in Nat /\ stake_vault <= StakeSupply /\ StakeSupply \in Nat
  BY PoolAssumption DEF TypeOK
<1>2. amount \in 0 .. StakeSupply
  BY <1>1
<1>3. Bank!Withdraw(o, amount)
  BY DEF Bank!Withdraw, Stakes
<1> QED BY <1>2, <1>3 DEF BankStep, Bank!BankNext

LEMMA SameStakesMap ==
    ASSUME Stakes' = Stakes, stake_vault' = stake_vault
    PROVE  BankStep
BY DEF BankStep, Bank!bankVars, Stakes

LEMMA InitBank == Init => Bank!BankInit
BY DEF Init, NoStaker, Bank!BankInit

-----------------------------------------------------------------------------

LEMMA OwnerBank ==
    ASSUME TypeOK, TypeOK', NEW o \in Owners, OwnerStep(o)
    PROVE  BankStep
<1>1. stakers \in [Owners -> StakerType] /\ stakers[o].staked_amount \in Nat
  BY WidthAssumption DEF TypeOK, StakerType, U64
<1>2. ASSUME NEW a \in StakeAmounts, Stake(o, a) PROVE BankStep
  <2>1. a \in Nat BY PoolAssumption
  <2>2. Stakes' = [Stakes EXCEPT ![o] = @ + a]
    BY <1>1, <1>2 DEF Stake, Stakes
  <2>3. stake_vault' = stake_vault + a
    BY <1>2 DEF Stake
  <2> QED BY <2>1, <2>2, <2>3, DepositMaps
<1>3. ASSUME NEW a \in StakeAmounts, Unstake(o, a) PROVE BankStep
  <2>1. a \in Nat BY PoolAssumption
  <2>2. Stakes' = [Stakes EXCEPT ![o] = @ - a]
    BY <1>1, <1>3 DEF Unstake, Stakes
  <2>3. /\ stake_vault' = stake_vault - a
        /\ a <= stakers[o].staked_amount
        /\ a <= stake_vault
    BY <2>1, <1>1, <1>3 DEF Unstake, MayUnstake, TypeOK
  <2> QED BY <2>1, <2>2, <2>3, WithdrawMaps
<1>4. ASSUME NEW S \in SUBSET Mints, Claim(o, S) PROVE BankStep
  <2>1. Stakes' = Stakes
    BY <1>1, <1>4 DEF Claim, Stakes, StakerType
  <2> QED BY <1>4, <2>1, SameStakesMap DEF Claim
<1>5. CASE EmergencyWithdraw(o)
  <2> DEFINE a == stakers[o].staked_amount
  <2>1. Stakes' = [Stakes EXCEPT ![o] = @ - a]
    <3>1. Stakes' = [Stakes EXCEPT ![o] = 0]
      BY <1>1, <1>5 DEF EmergencyWithdraw, Stakes
    <3>2. Stakes[o] - a = 0
      BY <1>1 DEF Stakes
    <3> QED BY <3>1, <3>2
  <2>2. stake_vault' = stake_vault - a /\ a <= stake_vault
    BY <1>1, <1>5 DEF EmergencyWithdraw, MayEmergencyWithdraw, TypeOK
  <2> HIDE DEF a
  <2>3. a \in Nat /\ a <= stakers[o].staked_amount
    BY <1>1 DEF a
  <2> QED BY <2>1, <2>2, <2>3, WithdrawMaps
<1> QED BY <1>2, <1>3, <1>4, <1>5 DEF OwnerStep

LEMMA GiftBank ==
    ASSUME TypeOK, TypeOK', NEW a \in StakeAmounts, DonateStake(a)
    PROVE  BankStep
<1>1. a \in Nat /\ stake_vault \in Nat /\ StakeSupply \in Nat
  BY PoolAssumption DEF TypeOK
<1>2. stake_vault' = stake_vault + a /\ stake_vault + a <= StakeSupply
  BY <1>1 DEF DonateStake, TypeOK
<1>3. Bank!Gift(a)
  BY <1>2 DEF DonateStake, Bank!Gift
<1>4. a \in 0 .. StakeSupply
  BY <1>1, <1>2
<1> QED BY <1>3, <1>4 DEF BankStep, Bank!BankNext

LEMMA StepBank ==
    ASSUME TypeOK, TypeOK', [Next]_vars
    PROVE  BankStep
<1>1. ASSUME NEW k \in Keys, AdminStep(k) PROVE BankStep
  <2>1. stakers' = stakers /\ stake_vault' = stake_vault
    BY <1>1 DEF AdminStep, SetUpStep, AdminOnlyStep, InitializePool, AddReward, SetRewardActive, SetDuration,
       SetPaused, SetKeeperAuthority, SetAdmin
  <2> QED BY <2>1, SameStakesMap DEF Stakes
<1>2. ASSUME NEW k \in Keys, KeeperStep(k) PROVE BankStep
  <2>1. stakers' = stakers /\ stake_vault' = stake_vault
    BY <1>2 DEF KeeperStep, DepositRewards
  <2> QED BY <2>1, SameStakesMap DEF Stakes
<1>3. ASSUME NEW o \in Owners, OwnerStep(o) PROVE BankStep
  BY <1>3, OwnerBank
<1>4. ASSUME NEW a \in StakeAmounts, DonateStake(a) PROVE BankStep
  BY <1>4, GiftBank
<1>5. ASSUME NEW m \in Mints, NEW a \in RewardAmounts, DonateReward(m, a) PROVE BankStep
  BY <1>5, SameStakesMap DEF DonateReward, Stakes
<1>6. CASE Tick
  BY <1>6, SameStakesMap DEF Tick, Stakes
<1>7. CASE UNCHANGED vars
  BY <1>7, SameStakesMap DEF vars, Stakes
<1> QED BY <1>1, <1>2, <1>3, <1>4, <1>5, <1>6, <1>7 DEF Next, Donation

(* The stakes are a safe deposit: nobody's stake is lowered but by the     *)
(* owner, who then receives exactly that much, and the vault pays for      *)
(* nothing else.                                                           *)
THEOREM PrincipalIsSafeAlways == Spec => PrincipalIsSafe
<1>1. TypeOK /\ TypeOK' /\ [Next]_vars => [Bank!BankNext]_(Bank!bankVars)
  BY StepBank DEF BankStep
<1> QED BY <1>1, InitBank, TypeCorrectness, PTL DEF Spec, PrincipalIsSafe, Bank!BankSpec

-----------------------------------------------------------------------------
(* The rewards are a covered ledger. *)

LedgerNow == [o \in Owners |-> [m \in Mints |-> EarnedOf(o, m)]]

(* A step of the ledger, or none. *)
LedgerStep == [Ledger!LedgerNext]_(Ledger!ledgerVars)

(* A mint's column of the ledger is what the owners have earned in the one *)
(* slot that holds the mint, or nothing.                                   *)
Column(m) ==
    \/ \E i \in Slots : /\ Registered(i) /\ rewards[i].mint = m
                        /\ \A o \in Owners : EarnedOf(o, m) = EarnedNow(o, i)
    \/ /\ \A i \in Slots : rewards[i].mint # m
       /\ \A o \in Owners : EarnedOf(o, m) = 0

ColumnCovered(m) ==
    /\ \A o \in Owners : EarnedOf(o, m) \in 0 .. RewardSupply
    /\ SumFunction([o \in Owners |-> EarnedOf(o, m)]) <= reward_vault[m]

LedgerOk == \A m \in Mints : Column(m) /\ ColumnCovered(m)

LEMMA SlotColumn ==
    ASSUME SlotTable, NEW i \in Slots, Registered(i), NEW o \in Owners
    PROVE  EarnedOf(o, rewards[i].mint) = EarnedNow(o, i)
<1>1. \A j \in Slots : rewards[j].mint = rewards[i].mint => j = i
  BY DEF SlotTable, Registered
<1>2. (CHOOSE j \in Slots : rewards[j].mint = rewards[i].mint) = i
  BY <1>1
<1> QED BY <1>2 DEF EarnedOf

LEMMA LedgerHolds == RewardInv => LedgerOk
<1> SUFFICES ASSUME RewardInv, NEW m \in Mints PROVE Column(m) /\ ColumnCovered(m)
  BY DEF LedgerOk
<1>a. TypeOK /\ Paid /\ SlotTable /\ RewardSupply \in Nat
      /\ reward_vault[m] \in Nat /\ reward_vault[m] <= RewardSupply
  BY PoolAssumption DEF RewardInv, TableInv, TypeOK
<1>1. CASE \E i \in Slots : rewards[i].mint = m
  <2>1. PICK i \in Slots : rewards[i].mint = m
    BY <1>1
  <2>2. Registered(i)
    BY <2>1, SlotAssumption DEF Registered
  <2>3. \A o \in Owners : EarnedOf(o, m) = EarnedNow(o, i)
    BY <1>a, <2>1, <2>2, SlotColumn
  <2>4. \A o \in Owners : EarnedNow(o, i) \in Nat /\ EarnedNow(o, i) <= reward_vault[m]
    BY <1>a, <2>1, <2>2, EarnedIs, EarningsCovered
  <2>5. [o \in Owners |-> EarnedOf(o, m)] = EarnedOfAll(i)
    BY <2>3 DEF EarnedOfAll
  <2>6. SumFunction(EarnedOfAll(i)) <= reward_vault[m]
    BY <2>1, <2>2, EarningsCovered
  <2>7. \A o \in Owners : EarnedOf(o, m) \in 0 .. RewardSupply
    BY <1>a, <2>3, <2>4
  <2> QED BY <2>1, <2>2, <2>3, <2>5, <2>6, <2>7 DEF Column, ColumnCovered
<1>2. CASE \A i \in Slots : rewards[i].mint # m
  <2>1. \A o \in Owners : EarnedOf(o, m) = 0
    BY <1>2 DEF EarnedOf
  <2>2. SumFunction([o \in Owners |-> EarnedOf(o, m)]) = 0
    <3> DEFINE z == [o \in Owners |-> EarnedOf(o, m)]
    <3>1. z \in [Owners -> Int] /\ \A o \in Owners : z[o] = 0 BY <2>1
    <3> HIDE DEF z
    <3>2. SumFunction(z) = 0 BY <3>1, PoolAssumption, SumZero
    <3> QED BY <3>2 DEF z
  <2> QED BY <1>a, <1>2, <2>1, <2>2 DEF Column, ColumnCovered
<1> QED BY <1>1, <1>2

LEMMA LedgerHoldsNext == RewardInv' => LedgerOk'
BY LedgerHolds, PTL

(* From slots to columns: what a step does to the earnings in every slot   *)
(* it does to every column.                                                *)
LEMMA ColumnMoves ==
    ASSUME RewardInv, RewardInv', \A i \in Slots : rewards'[i].mint = rewards[i].mint,
           NEW m \in Mints
    PROVE  \/ \E i \in Slots :
                /\ Registered(i) /\ rewards[i].mint = m
                /\ \A o \in Owners : /\ EarnedOf(o, m) = EarnedNow(o, i)
                                     /\ EarnedOf(o, m)' = EarnedNow(o, i)'
           \/ \A o \in Owners : EarnedOf(o, m) = 0 /\ EarnedOf(o, m)' = 0
<1>1. Column(m) /\ Column(m)'
  BY LedgerHolds, LedgerHoldsNext DEF LedgerOk
<1>2. CASE \E i \in Slots : rewards[i].mint = m
  <2>1. PICK i \in Slots : /\ Registered(i) /\ rewards[i].mint = m
                           /\ \A o \in Owners : EarnedOf(o, m) = EarnedNow(o, i)
    BY <1>1, <1>2 DEF Column
  <2>2. PICK j \in Slots : /\ rewards'[j].mint = m
                           /\ \A o \in Owners : EarnedOf(o, m)' = EarnedNow(o, j)'
    BY <1>1, <2>1 DEF Column
  <2>3. i = j
    BY <2>1, <2>2 DEF RewardInv, TableInv, SlotTable
  <2> QED BY <2>1, <2>2, <2>3
<1>3. CASE \A i \in Slots : rewards[i].mint # m
  BY <1>1, <1>3 DEF Column
<1> QED BY <1>2, <1>3

(* A slot that is filled has earned nobody anything. *)
LEMMA NewColumn ==
    ASSUME RewardInv, RewardInv', NEW k \in Keys, NEW n \in Mints, NEW d \in Durations,
           AddReward(k, n, d), NEW i \in Slots, ~Registered(i), NEW o \in Owners
    PROVE  EarnedNow(o, i)' = 0
<1>a. TypeOK /\ TypeOK' /\ SlotTable /\ clock' = clock /\ stakers' = stakers
  BY DEF RewardInv, TableInv, AddReward
<1>1. rewards'[i] \in {rewards[i], NewSlot(n, d)}
  BY <1>a DEF AddReward, TypeOK
<1>2. rewards[i] = EmptySlot /\ stakers[o].entries[i] = EmptyEntry
  BY <1>a DEF SlotTable
<1>3. RptNow(i)' = 0
  <2>1. CASE rewards'[i] = NewSlot(n, d)
    <3>1. rewards'[i].last_update_time = clock' /\ rewards'[i].reward_per_token_stored = 0
      BY <1>a, <2>1 DEF NewSlot
    <3> QED BY <1>a, <3>1, NextRptType, RptSettled
  <2>2. CASE rewards'[i] = EmptySlot
    <3>1. /\ rewards'[i].last_update_time = 0 /\ rewards'[i].period_finish = 0
          /\ rewards'[i].reward_per_token_stored = 0
      BY <2>2 DEF EmptySlot
    <3>2. RptNow(i)' = RewardPerToken(rewards'[i], pool'.total_staked, clock')
          /\ clock' \in Nat
      BY <1>a, NextRptType
    <3>3. MinOf(clock', 0) - 0 = 0
      BY <3>2 DEF MinOf
    <3> QED BY <3>1, <3>2, <3>3 DEF RewardPerToken, AccrueRpt
  <2> QED BY <1>1, <1>2, <2>1, <2>2
<1>4. stakers[o].staked_amount \in Nat
  BY <1>a, OwedInt DEF TypeOK
<1>5. stakers[o].staked_amount * (0 - 0) = 0 /\ 0 \div PRECISION = 0
  BY <1>4, WidthAssumption
<1> QED BY <1>a, <1>2, <1>3, <1>5 DEF EarnedNow, Earned, EmptyEntry

-----------------------------------------------------------------------------

LEMMA SameLedger ==
    ASSUME \A o \in Owners, m \in Mints : EarnedOf(o, m)' = EarnedOf(o, m)
    PROVE  LedgerNow' = LedgerNow
BY DEF LedgerNow

LEMMA LedgerStays ==
    ASSUME LedgerNow' = LedgerNow, reward_vault' = reward_vault
    PROVE  LedgerStep
BY DEF LedgerStep, Ledger!ledgerVars, LedgerNow

LEMMA QuietLedger ==
    ASSUME RewardInv, RewardInv', \A i \in Slots : rewards'[i].mint = rewards[i].mint,
           \A o \in Owners, i \in Slots : Registered(i) => EarnedNow(o, i)' = EarnedNow(o, i)
    PROVE  LedgerNow' = LedgerNow
<1>1. ASSUME NEW o \in Owners, NEW m \in Mints PROVE EarnedOf(o, m)' = EarnedOf(o, m)
  BY ColumnMoves
<1> QED BY <1>1, SameLedger

LEMMA FundMaps ==
    ASSUME TypeOK, TypeOK', NEW m \in Mints, NEW a \in RewardAmounts,
           reward_vault' = [reward_vault EXCEPT ![m] = @ + a],
           LedgerNow' = LedgerNow
    PROVE  LedgerStep
<1>1. /\ reward_vault[m] \in Nat /\ RewardSupply \in Nat /\ a \in Nat
      /\ reward_vault'[m] <= RewardSupply /\ reward_vault'[m] = reward_vault[m] + a
  BY PoolAssumption DEF TypeOK
<1>2. a \in 0 .. RewardSupply
  BY <1>1
<1>3. Ledger!Fund(m, a)
  BY <1>1 DEF Ledger!Fund, LedgerNow
<1> QED BY <1>2, <1>3 DEF LedgerStep, Ledger!LedgerNext

LEMMA AdminLedger ==
    ASSUME RewardInv, RewardInv', NEW k \in Keys, AdminStep(k)
    PROVE  LedgerStep
<1>a. TypeOK /\ TypeOK' /\ SlotTable /\ SlotTable'
  BY DEF RewardInv, TableInv
<1>1. \A o \in Owners, i \in Slots : Registered(i) =>
         EarnedNow(o, i)' = EarnedNow(o, i) /\ rewards'[i].mint = rewards[i].mint
  BY <1>a, AdminQuiet DEF SameFor
<1>2. CASE \E n \in Mints, d \in Durations : AddReward(k, n, d)
  <2>0. PICK n \in Mints, d \in Durations : AddReward(k, n, d)
    BY <1>2
  <2>1. ASSUME NEW o \in Owners, NEW m \in Mints PROVE EarnedOf(o, m)' = EarnedOf(o, m)
    <3>1. Column(m) /\ Column(m)'
      BY LedgerHolds, LedgerHoldsNext DEF LedgerOk
    <3>2. ASSUME NEW j \in Slots, rewards'[j].mint = m, ~Registered(j)
          PROVE  EarnedNow(o, j)' = 0
      BY <2>0, <3>2, NewColumn
    <3>3. CASE \E i \in Slots : rewards[i].mint = m
      <4>1. PICK i \in Slots : /\ Registered(i) /\ rewards[i].mint = m
                               /\ EarnedOf(o, m) = EarnedNow(o, i)
        BY <3>1, <3>3 DEF Column
      <4>2. rewards'[i].mint = m /\ EarnedNow(o, i)' = EarnedNow(o, i)
        BY <1>1, <4>1
      <4>3. PICK j \in Slots : rewards'[j].mint = m /\ EarnedOf(o, m)' = EarnedNow(o, j)'
        BY <3>1, <4>2 DEF Column
      <4>4. i = j
        BY <1>a, <4>1, <4>2, <4>3 DEF SlotTable, Registered
      <4> QED BY <4>1, <4>2, <4>3, <4>4
    <3>4. CASE \A i \in Slots : rewards[i].mint # m
      <4>1. EarnedOf(o, m) = 0
        BY <3>1, <3>4 DEF Column
      <4>2. EarnedOf(o, m)' = 0
        <5>1. CASE \E j \in Slots : /\ rewards'[j].mint = m
                                    /\ EarnedOf(o, m)' = EarnedNow(o, j)'
          <6>1. PICK j \in Slots : /\ rewards'[j].mint = m
                                   /\ EarnedOf(o, m)' = EarnedNow(o, j)'
            BY <5>1
          <6>2. ~Registered(j)
            BY <1>1, <3>4, <6>1
          <6> QED BY <3>2, <6>1, <6>2
        <5>2. CASE EarnedOf(o, m)' = 0
          BY <5>2
        <5> QED BY <3>1, <5>1, <5>2 DEF Column
      <4> QED BY <4>1, <4>2
    <3> QED BY <3>3, <3>4
  <2>2. reward_vault' = reward_vault
    BY <2>0 DEF AddReward
  <2> QED BY <2>1, <2>2, SameLedger, LedgerStays
<1>3. CASE ~(\E n \in Mints, d \in Durations : AddReward(k, n, d))
  <2>1. (\A i \in Slots : rewards'[i].mint = rewards[i].mint) /\ reward_vault' = reward_vault
    BY <1>a, <1>3 DEF AdminStep, SetUpStep, AdminOnlyStep, InitializePool, SetRewardActive, SetDuration, SetPaused,
       SetKeeperAuthority, SetAdmin, TypeOK, RewardInfoType
  <2>2. LedgerNow' = LedgerNow
    BY <1>1, <2>1, QuietLedger
  <2> QED BY <2>1, <2>2, LedgerStays
<1> QED BY <1>2, <1>3

LEMMA MintsStay ==
    ASSUME TypeOK, rewards' = rewards \/ rewards' = SettledSlots
    PROVE  \A i \in Slots : rewards'[i].mint = rewards[i].mint
BY SettledKeeps

LEMMA DepositLedger ==
    ASSUME RewardInv, RewardInv', NEW k \in Keys, NEW m \in Mints, NEW a \in RewardAmounts,
           DepositRewards(k, m, a)
    PROVE  LedgerStep
<1>a. TypeOK /\ TypeOK' /\ SettleOk
  BY DEF RewardInv, TableInv, DepositRewards
<1>1. \A o \in Owners, i \in Slots : Registered(i) => EarnedNow(o, i)' = EarnedNow(o, i)
  BY <1>a, DepositSettles DEF SameFor
<1>2. \A i \in Slots : rewards'[i].mint = rewards[i].mint
  <2>1. SettledSlots \in [Slots -> RewardInfoType]
    BY <1>a, SettledType
  <2>2. \A i \in Slots : rewards'[i].mint = SettledSlots[i].mint
    BY <2>1 DEF DepositRewards, Restreamed, RewardInfoType
  <2> QED BY <1>a, <2>2, SettledKeeps
<1>3. LedgerNow' = LedgerNow
  BY <1>1, <1>2, QuietLedger
<1>4. reward_vault' = [reward_vault EXCEPT ![m] = @ + a]
  BY DEF DepositRewards
<1> QED BY <1>a, <1>3, <1>4, FundMaps

LEMMA ClaimLedger ==
    ASSUME RewardInv, RewardInv', NEW o \in Owners, NEW S \in SUBSET Mints, Claim(o, S)
    PROVE  LedgerStep
<1>a. TypeOK /\ TypeOK' /\ rewards' = SettledSlots /\ \A m \in Mints : reward_vault[m] \in Nat
  BY PoolNats DEF RewardInv, TableInv, Claim
<1>b. \A i \in Slots : rewards'[i].mint = rewards[i].mint
  BY <1>a, MintsStay
<1>1. ASSUME NEW m \in Mints
      PROVE  /\ EarnedOf(o, m)' = IF m \in S THEN 0 ELSE EarnedOf(o, m)
             /\ \A p \in Owners : p # o => EarnedOf(p, m)' = EarnedOf(p, m)
             /\ reward_vault'[m] = IF m \in S THEN reward_vault[m] - EarnedOf(o, m)
                                              ELSE reward_vault[m]
  <2>1. CASE \E i \in Slots : /\ Registered(i) /\ rewards[i].mint = m
                              /\ \A p \in Owners : /\ EarnedOf(p, m) = EarnedNow(p, i)
                                                   /\ EarnedOf(p, m)' = EarnedNow(p, i)'
    <3>1. PICK i \in Slots : /\ Registered(i) /\ rewards[i].mint = m
                             /\ \A p \in Owners : /\ EarnedOf(p, m) = EarnedNow(p, i)
                                                  /\ EarnedOf(p, m)' = EarnedNow(p, i)'
      BY <2>1
    <3>2. /\ \A p \in Owners : p # o => EarnedNow(p, i)' = EarnedNow(p, i)
          /\ EarnedNow(o, i)' = EarnedNow(o, i) - Paying(o, S, i)
          /\ reward_vault'[m] = reward_vault[m] - Paying(o, S, i)
      BY <1>a, <3>1, ClaimSettles DEF SameFor
    <3>3. EarnedNow(o, i) \in Nat
      BY EarnedIs DEF RewardInv, TableInv
    <3> QED BY <1>a, <3>1, <3>2, <3>3 DEF Paying
  <2>2. CASE \A p \in Owners : EarnedOf(p, m) = 0 /\ EarnedOf(p, m)' = 0
    <3>1. CASE m \in S
      <4>1. \E i \in Slots : rewards[i].mint = m
        BY <3>1 DEF Claim, MayClaim
      <4>2. PICK i \in Slots : rewards[i].mint = m /\ Registered(i)
        BY <4>1, SlotAssumption DEF Registered
      <4>3. EarnedOf(o, m) = EarnedNow(o, i)
        BY <4>2, SlotColumn DEF RewardInv, TableInv
      <4>4. reward_vault'[m] = reward_vault[m] - Paying(o, S, i)
        BY <1>a, <4>2, ClaimSettles
      <4> QED BY <1>a, <2>2, <3>1, <4>2, <4>3, <4>4 DEF Paying
    <3>2. CASE m \notin S
      BY <2>2, <3>2 DEF Claim
    <3> QED BY <3>1, <3>2
  <2> QED BY <1>b, <2>1, <2>2, ColumnMoves
<1>2. LedgerNow' = [LedgerNow EXCEPT ![o] = [m \in Mints |-> IF m \in S THEN 0 ELSE @[m]]]
  BY <1>1 DEF LedgerNow
<1>3. reward_vault' = [m \in Mints |-> IF m \in S THEN reward_vault[m] - LedgerNow[o][m]
                                                  ELSE reward_vault[m]]
  <2>1. reward_vault' = [m \in Mints |-> reward_vault'[m]]
    BY <1>a DEF TypeOK
  <2>2. \A m \in Mints : LedgerNow[o][m] = EarnedOf(o, m)
    BY DEF LedgerNow
  <2> QED BY <1>1, <2>1, <2>2
<1>4. Ledger!Pay(o, S)
  BY <1>2, <1>3 DEF Ledger!Pay, LedgerNow
<1> QED BY <1>4 DEF LedgerStep, Ledger!LedgerNext

(* Ledgers as the abstract one has them, that are covered. *)
LEMMA NextLedgerCovered ==
    ASSUME RewardInv, RewardInv', reward_vault' = reward_vault, NEW T \in SUBSET Owners,
           \A i \in Slots : rewards'[i].mint = rewards[i].mint,
           \A o \in T, i \in Slots : EarnedNow(o, i) <= EarnedNow(o, i)'
    PROVE  LedgerNow' \in Ledger!NotLowered(T) /\ Ledger!Covered(LedgerNow')
<1>1. LedgerOk'
  BY LedgerHoldsNext
<1>2. LedgerNow' \in [Owners -> [Mints -> 0 .. RewardSupply]]
  BY <1>1 DEF LedgerOk, ColumnCovered, LedgerNow
<1>3. ASSUME NEW o \in T, NEW m \in Mints PROVE LedgerNow'[o][m] >= LedgerNow[o][m]
  <2>1. EarnedOf(o, m)' >= EarnedOf(o, m)
    BY ColumnMoves
  <2> QED BY <2>1 DEF LedgerNow
<1>4. LedgerNow' \in Ledger!NotLowered(T)
  BY <1>2, <1>3 DEF Ledger!NotLowered, LedgerNow
<1>5. ASSUME NEW m \in Mints PROVE Ledger!TotalEarned(LedgerNow', m) <= reward_vault[m]
  <2>1. SumFunction([o \in Owners |-> EarnedOf(o, m)'])  <= reward_vault[m]
    BY <1>1 DEF LedgerOk, ColumnCovered
  <2>2. [o \in Owners |-> LedgerNow'[o][m]] = [o \in Owners |-> EarnedOf(o, m)']
    BY DEF LedgerNow
  <2>3. Ledger!TotalEarned(LedgerNow', m) = SumFunction([o \in Owners |-> LedgerNow'[o][m]])
    BY DEF Ledger!TotalEarned, Ledger!SumFunction, Ledger!SumFunctionOnSet,
       Ledger!FoldFunctionOnSet, Ledger!MapThenFoldSet, SumFunction, SumFunctionOnSet,
       FoldFunctionOnSet, MapThenFoldSet
  <2> QED BY <2>1, <2>2, <2>3
<1> QED BY <1>4, <1>5 DEF Ledger!Covered

LEMMA EmergencyLedger ==
    ASSUME RewardInv, RewardInv', NEW o \in Owners, EmergencyWithdraw(o)
    PROVE  LedgerStep
<1>a. TypeOK' /\ rewards' = rewards /\ reward_vault' = reward_vault
  BY DEF RewardInv, TableInv, EmergencyWithdraw
<1>1. \A p \in Owners \ {o}, i \in Slots : EarnedNow(p, i) <= EarnedNow(p, i)'
  BY <1>a, EmergencyGrows
<1>2. LedgerNow' \in Ledger!NotLowered(Owners \ {o}) /\ Ledger!Covered(LedgerNow')
  BY <1>a, <1>1, NextLedgerCovered
<1>3. \A m \in Mints : EarnedOf(o, m)' = 0
  <2>1. \A i \in Slots : EarnedNow(o, i)' = 0
    BY <1>a, EmergencyGrows
  <2> QED BY <1>a, <2>1, ColumnMoves
<1>4. LedgerNow'[o] = [m \in Mints |-> 0]
  BY <1>3 DEF LedgerNow
<1>5. Ledger!Forfeit(o)
  BY <1>a, <1>2, <1>4 DEF Ledger!Forfeit, LedgerNow
<1> QED BY <1>5 DEF LedgerStep, Ledger!LedgerNext

LEMMA TickLedger ==
    ASSUME RewardInv, RewardInv', Tick
    PROVE  LedgerStep
<1>a. TypeOK' /\ rewards' = rewards /\ reward_vault' = reward_vault
  BY DEF RewardInv, TableInv, Tick
<1>1. \A p \in Owners, i \in Slots : EarnedNow(p, i) <= EarnedNow(p, i)'
  BY <1>a, TickGrows
<1>2. LedgerNow' \in Ledger!NotLowered(Owners) /\ Ledger!Covered(LedgerNow')
  BY <1>a, <1>1, NextLedgerCovered
<1>3. Ledger!Accrue
  BY <1>a, <1>2 DEF Ledger!Accrue, LedgerNow
<1> QED BY <1>3 DEF LedgerStep, Ledger!LedgerNext

LEMMA StepLedger ==
    ASSUME RewardInv, RewardInv', [Next]_vars
    PROVE  LedgerStep
<1>a. TypeOK /\ TypeOK'
  BY DEF RewardInv, TableInv
<1>1. ASSUME NEW k \in Keys, AdminStep(k) PROVE LedgerStep
  BY <1>1, AdminLedger
<1>2. ASSUME NEW k \in Keys, KeeperStep(k) PROVE LedgerStep
  BY <1>2, DepositLedger DEF KeeperStep
<1>3. ASSUME NEW o \in Owners, NEW a \in StakeAmounts, Stake(o, a) \/ Unstake(o, a)
      PROVE  LedgerStep
  <2>1. rewards' = SettledSlots /\ reward_vault' = reward_vault
    BY <1>3 DEF Stake, Unstake
  <2>2. \A p \in Owners, i \in Slots : Registered(i) => EarnedNow(p, i)' = EarnedNow(p, i)
    BY <1>3, <1>a, StakeSettles DEF SameFor
  <2> QED BY <1>a, <2>1, <2>2, MintsStay, QuietLedger, LedgerStays
<1>4. ASSUME NEW o \in Owners, NEW S \in SUBSET Mints, Claim(o, S) PROVE LedgerStep
  BY <1>4, ClaimLedger
<1>5. ASSUME NEW o \in Owners, EmergencyWithdraw(o) PROVE LedgerStep
  BY <1>5, EmergencyLedger
<1>6. CASE Donation \/ UNCHANGED vars
  <2>1. rewards' = rewards
    BY <1>6 DEF Donation, DonateStake, DonateReward, vars
  <2>2. \A p \in Owners, i \in Slots : EarnedNow(p, i)' = EarnedNow(p, i)
    BY <1>6, <1>a, DonationQuiet DEF SameFor
  <2>3. LedgerNow' = LedgerNow
    BY <2>1, <2>2, QuietLedger
  <2>4. ASSUME NEW m \in Mints, NEW a \in RewardAmounts, DonateReward(m, a) PROVE LedgerStep
    BY <1>a, <2>3, <2>4, FundMaps DEF DonateReward
  <2>5. CASE reward_vault' = reward_vault
    BY <2>3, <2>5, LedgerStays
  <2> QED BY <1>6, <2>4, <2>5 DEF Donation, DonateStake, vars
<1>7. CASE Tick
  BY <1>7, TickLedger
<1> QED BY <1>1, <1>2, <1>3, <1>4, <1>5, <1>6, <1>7 DEF Next, OwnerStep

LEMMA InitLedger == Init => Ledger!LedgerInit
<1> SUFFICES ASSUME Init PROVE Ledger!LedgerInit
  OBVIOUS
<1>1. \A m \in Mints : \A i \in Slots : rewards[i].mint # m
  BY SlotAssumption DEF Init, EmptySlot
<1>2. \A o \in Owners, m \in Mints : EarnedOf(o, m) = 0
  BY <1>1 DEF EarnedOf
<1>3. reward_vault = [m \in Mints |-> 0]
  BY DEF Init
<1> QED BY <1>2, <1>3 DEF Ledger!LedgerInit

(* The rewards are a covered ledger: what an owner has earned of a mint    *)
(* only grows, until the owner is paid all of it or forfeits it, payments  *)
(* come out of the vault in full, and the vault always covers the whole    *)
(* ledger.                                                                 *)
THEOREM RewardsAreCoveredAlways == Spec => RewardsAreCovered
<1>1. RewardInv /\ RewardInv' /\ [Next]_vars => [Ledger!LedgerNext]_(Ledger!ledgerVars)
  BY StepLedger DEF LedgerStep
<1> QED BY <1>1, InitLedger, RewardInvariant, PTL DEF Spec, RewardsAreCovered, Ledger!LedgerSpec

-----------------------------------------------------------------------------
(* The claim loop is the one-step claim, and never refuses an honest pair, *)
(* for any number of pairs.  The induction follows the set of vaults the   *)
(* loop has paid: whatever pairs came, in whatever order, the copies the   *)
(* loop works on are what a claim of that set leaves behind.               *)

WalkType ==
    [owner : Owners, rewards : [Slots -> RewardInfoType],
     entries : [Slots -> RewardEntryType], reward_vault : [Mints -> Int], pairs : Int]

(* The walk w has paid the vaults of S: its copies, and the guards of Claim. *)
Took(w, S) ==
    /\ stakers[w.owner].created
    /\ CheckpointOk(w.owner)
    /\ \A m \in S : \E i \in Slots : rewards[i].mint = m
    /\ \A m \in S : Payout(w.owner, m) <= reward_vault[m]
    /\ w.rewards = SettledSlots
    /\ w.entries = TakeSlots(w.owner, S)
    /\ w.reward_vault = [m \in Mints |-> IF m \in S
                                         THEN reward_vault[m] - Payout(w.owner, m)
                                         ELSE reward_vault[m]]

WalkInv == \A w \in walk : w \in WalkType /\ \E S \in SUBSET Mints : Took(w, S)

LEMMA TookStays ==
    ASSUME NEW w, NEW S, UNCHANGED vars, Took(w, S)
    PROVE  Took(w, S)'
<1>1. rewards' = rewards /\ stakers' = stakers /\ pool' = pool /\ clock' = clock
      /\ reward_vault' = reward_vault
  BY DEF vars
<1>2. SettledSlots' = SettledSlots
  BY <1>1 DEF SettledSlots
<1>3. CheckpointOk(w.owner)' <=> CheckpointOk(w.owner)
  BY <1>1, <1>2 DEF CheckpointOk, SettleOk
<1>4. Checkpoint(w.owner)' = Checkpoint(w.owner)
  BY <1>1, <1>2 DEF Checkpoint
<1>5. \A m : Payout(w.owner, m)' = Payout(w.owner, m)
  BY <1>1, <1>4 DEF Payout
<1>6. TakeSlots(w.owner, S)' = TakeSlots(w.owner, S)
  BY <1>1, <1>4 DEF TakeSlots
<1> QED BY <1>1, <1>2, <1>3, <1>5, <1>6 DEF Took

-----------------------------------------------------------------------------
(* What the copies hold for the slot of a vault. *)

LEMMA FirstSlot ==
    ASSUME TypeOK, NEW w \in WalkType, NEW S \in SUBSET Mints, Took(w, S),
           NEW i \in Slots, NEW v \in Vaults, IsFirstSlot(w.rewards, i, v)
    PROVE  IsFirstSlot(rewards, i, v)
<1>1. \A j \in Slots : w.rewards[j].mint = rewards[j].mint
  BY SettledKeeps DEF Took
<1> QED BY <1>1 DEF IsFirstSlot

LEMMA CopyOfEntry ==
    ASSUME TableInv, NEW w \in WalkType, NEW S \in SUBSET Mints, Took(w, S),
           NEW i \in Slots, NEW v \in Vaults, IsFirstSlot(rewards, i, v)
    PROVE  /\ w.entries[i].rewards_accrued \in Nat
           /\ v \notin Mints \/ v \in S => w.entries[i].rewards_accrued = 0
           /\ v \in Mints \ S => /\ w.entries[i] = Checkpoint(w.owner)[i]
                                 /\ w.entries[i].rewards_accrued = Payout(w.owner, v)
<1>1. w.owner \in Owners /\ w.entries[i] \in RewardEntryType
  BY DEF WalkType
<1>2. w.entries[i].rewards_accrued \in Nat
  BY <1>1, WidthAssumption DEF RewardEntryType, U64
<1>3. Checkpoint(w.owner)[i] \in RewardEntryType
  BY <1>1, CheckpointType DEF Took, TableInv
<1>4. w.entries[i] = IF \E m \in S : IsFirstSlot(rewards, i, m)
                     THEN [Checkpoint(w.owner)[i] EXCEPT !.rewards_accrued = 0]
                     ELSE Checkpoint(w.owner)[i]
  BY DEF Took, TakeSlots
<1>5. ASSUME NEW m, IsFirstSlot(rewards, i, m) PROVE m = v
  BY <1>5 DEF IsFirstSlot
<1>6. ASSUME v \notin Mints PROVE w.entries[i].rewards_accrued = 0
  <2>1. v = NoMint /\ ~Registered(i)
    BY <1>6 DEF Vaults, IsFirstSlot, Registered
  <2>2. Checkpoint(w.owner)[i] = EmptyEntry
    BY <1>1, <2>1, CheckpointKeeps DEF TableInv, SlotTable
  <2>3. ~ \E m \in S : IsFirstSlot(rewards, i, m)
    BY <1>5, <1>6
  <2> QED BY <1>4, <2>2, <2>3 DEF EmptyEntry
<1>7. ASSUME v \in S PROVE w.entries[i].rewards_accrued = 0
  BY <1>3, <1>4, <1>7 DEF RewardEntryType
<1>8. ASSUME v \in Mints \ S
      PROVE  /\ w.entries[i] = Checkpoint(w.owner)[i]
             /\ w.entries[i].rewards_accrued = Payout(w.owner, v)
  <2>1. w.entries[i] = Checkpoint(w.owner)[i]
    BY <1>4, <1>5, <1>8
  <2> QED BY <1>1, <1>8, <2>1, PayoutOfSlot
<1> QED BY <1>2, <1>6, <1>7, <1>8

-----------------------------------------------------------------------------
LEMMA WalkUpdate ==
    ASSUME NEW w \in WalkType, NEW entries \in [Slots -> RewardEntryType],
           NEW vault \in [Mints -> Int], NEW pairs \in Int
    PROVE  [w EXCEPT !.entries = entries, !.reward_vault = vault, !.pairs = pairs] \in WalkType
BY DEF WalkType

(* A pair keeps the induction: it pays nothing, or one more vault. *)
LEMMA PairTakes ==
    ASSUME TableInv, NEW w \in WalkType, NEW S \in SUBSET Mints, Took(w, S),
           NEW v \in Vaults, NEW wallet \in Wallets, NEW i \in Slots,
           IsFirstSlot(w.rewards, i, v), PairOk(w, i, v, wallet)
    PROVE  /\ PaySlot(w, i, v) \in WalkType
           /\ \E T \in SUBSET Mints : Took(PaySlot(w, i, v), T)
<1> DEFINE e == w.entries[i].rewards_accrued
           p == PaySlot(w, i, v)
<1>1. IsFirstSlot(rewards, i, v)
  BY FirstSlot DEF TableInv
<1>2. w.entries \in [Slots -> RewardEntryType] /\ w.reward_vault \in [Mints -> Int]
  BY DEF WalkType
<1>3. e \in Nat
  BY <1>1, CopyOfEntry
<1>4. /\ p.owner = w.owner
      /\ p.rewards = w.rewards
      /\ p.entries = TakeSlot(w, i)
      /\ p.reward_vault = [m \in Mints |-> IF m = v THEN w.reward_vault[m] - e
                                                    ELSE w.reward_vault[m]]
  BY DEF PaySlot, WalkType
<1>5. p \in WalkType
  <2>1. TakeSlot(w, i) \in [Slots -> RewardEntryType]
    <3>1. 0 \in U64 BY WidthAssumption DEF U64
    <3> QED BY <1>2, <3>1 DEF TakeSlot, RewardEntryType
  <2>2. [m \in Mints |-> IF m = v THEN w.reward_vault[m] - e ELSE w.reward_vault[m]]
          \in [Mints -> Int]
    BY <1>2, <1>3
  <2>3. w.pairs - 1 \in Int
    BY DEF WalkType
  <2>4. p = [w EXCEPT !.entries = TakeSlot(w, i),
                      !.reward_vault = [m \in Mints |-> IF m = v THEN w.reward_vault[m] - e
                                                                ELSE w.reward_vault[m]],
                      !.pairs = w.pairs - 1]
    BY DEF PaySlot
  <2> HIDE DEF p
  <2> QED BY <2>1, <2>2, <2>3, <2>4, WalkUpdate
<1>6. CASE v \notin Mints \/ v \in S
  <2>1. e = 0
    BY <1>1, <1>6, CopyOfEntry
  <2>2. TakeSlot(w, i) = w.entries
    BY <1>2, <2>1 DEF TakeSlot, RewardEntryType
  <2>3. p.reward_vault = w.reward_vault
    BY <1>2, <1>4, <2>1
  <2>4. Took(p, S)
    BY <1>4, <2>2, <2>3 DEF Took
  <2> QED BY <1>5, <2>4
<1>7. CASE v \in Mints \ S
  <2> DEFINE T == S \cup {v}
  <2>1. w.entries[i] = Checkpoint(w.owner)[i] /\ e = Payout(w.owner, v)
    BY <1>1, <1>7, CopyOfEntry
  <2>2. e <= reward_vault[v]
    <3>1. w.reward_vault[v] = reward_vault[v] /\ reward_vault[v] \in Nat
      BY <1>7, PoolAssumption DEF Took, TableInv, TypeOK
    <3> QED BY <1>3, <3>1 DEF PairOk
  <2>3. TakeSlot(w, i) = TakeSlots(w.owner, T)
    <3>1. \A j \in Slots : (\E m \in T : IsFirstSlot(rewards, j, m))
                              <=> j = i \/ \E m \in S : IsFirstSlot(rewards, j, m)
      BY <1>1, SlotAssumption DEF IsFirstSlot, Slots
    <3>2. w.entries = TakeSlots(w.owner, S)
      BY DEF Took
    <3>3. TakeSlots(w.owner, T)
            = [j \in Slots |-> IF j = i
                               THEN [w.entries[i] EXCEPT !.rewards_accrued = 0]
                               ELSE w.entries[j]]
      BY <2>1, <3>1, <3>2 DEF TakeSlots
    <3> QED BY <1>2, <3>3 DEF TakeSlot
  <2>4. p.reward_vault = [m \in Mints |-> IF m \in T
                                          THEN reward_vault[m] - Payout(w.owner, m)
                                          ELSE reward_vault[m]]
    <3>1. w.reward_vault = [m \in Mints |-> IF m \in S
                                            THEN reward_vault[m] - Payout(w.owner, m)
                                            ELSE reward_vault[m]]
      BY DEF Took
    <3> QED BY <1>4, <1>7, <2>1, <3>1
  <2>5. rewards[i].mint = v
    BY <1>1 DEF IsFirstSlot
  <2>6. Took(p, T)
    BY <1>4, <2>1, <2>2, <2>3, <2>4, <2>5 DEF Took
  <2> QED BY <1>5, <1>7, <2>6
<1> QED BY <1>6, <1>7

LEMMA StartTakes ==
    ASSUME TableInv, NEW o \in Owners, NEW n \in Nat, ClaimStart(o, n)
    PROVE  WalkInv'
<1>1. PICK w : w = [owner |-> o, rewards |-> SettledSlots, entries |-> Checkpoint(o),
                    reward_vault |-> reward_vault, pairs |-> n \div 2]
  OBVIOUS
<1>2. walk' = {w} /\ UNCHANGED vars /\ stakers[o].created /\ CheckpointOk(o)
  BY <1>1 DEF ClaimStart
<1>3. SettledSlots \in [Slots -> RewardInfoType] /\ Checkpoint(o) \in [Slots -> RewardEntryType]
  BY <1>2, SettledType, CheckpointType DEF TableInv, CheckpointOk
<1>4. reward_vault \in [Mints -> Int]
  BY PoolAssumption DEF TableInv, TypeOK
<1>5. w \in WalkType
  BY <1>1, <1>3, <1>4 DEF WalkType
<1>6. TakeSlots(o, {}) = Checkpoint(o)
  BY <1>3 DEF TakeSlots
<1>7. Took(w, {})
  BY <1>1, <1>2, <1>4, <1>6 DEF Took
<1>8. Took(w, {})'
  BY <1>2, <1>7, TookStays
<1> QED BY <1>2, <1>5, <1>8 DEF WalkInv

LEMMA EndClaims ==
    ASSUME WalkInv, ClaimEnd
    PROVE  \E o \in Owners, S \in SUBSET Mints : Claim(o, S)
<1>1. PICK w \in walk : /\ rewards' = w.rewards
                        /\ stakers' = [stakers EXCEPT ![w.owner].entries = w.entries]
                        /\ reward_vault' = w.reward_vault
                        /\ UNCHANGED <<clock, pool, stake_vault>>
  BY DEF ClaimEnd
<1>2. PICK S \in SUBSET Mints : Took(w, S)
  BY DEF WalkInv
<1>3. w.owner \in Owners
  BY DEF WalkInv, WalkType
<1>4. Claim(w.owner, S)
  BY <1>1, <1>2 DEF Claim, MayClaim, Took
<1> QED BY <1>3, <1>4

LEMMA StepWalk ==
    ASSUME TableInv, WalkInv, [WalkNext]_walkVars
    PROVE  WalkInv' /\ [Next]_vars
<1>1. CASE OtherStep
  <2>1. WalkInv' BY <1>1 DEF OtherStep, WalkInv
  <2>2. Next BY <1>1 DEF OtherStep, StakingStep, OwnerStep, Next
  <2> QED BY <2>1, <2>2
<1>2. ASSUME NEW o \in Owners, NEW n \in 0 .. (2 * MaxPairs), ClaimStart(o, n)
      PROVE  WalkInv' /\ [Next]_vars
  BY <1>2, StartTakes, WalkAssumption DEF ClaimStart
<1>3. ASSUME NEW v \in Vaults, NEW wallet \in Wallets, ClaimPair(v, wallet)
      PROVE  WalkInv' /\ [Next]_vars
  <2>1. PICK w \in walk : walk' = AfterPair(w, v, wallet) /\ UNCHANGED vars
    BY <1>3 DEF ClaimPair
  <2>2. PICK S \in SUBSET Mints : Took(w, S)
    BY DEF WalkInv
  <2>3. w \in WalkType
    BY DEF WalkInv
  <2>4. ASSUME NEW p \in walk'
        PROVE  p \in WalkType /\ \E T \in SUBSET Mints : Took(p, T)
    BY <2>1, <2>2, <2>3, <2>4, PairTakes DEF AfterPair
  <2>5. ASSUME NEW p \in walk'
        PROVE  p \in WalkType /\ \E T \in SUBSET Mints : Took(p, T)'
    BY <2>1, <2>4, TookStays
  <2> QED BY <2>1, <2>5 DEF WalkInv
<1>4. CASE ClaimEnd
  <2>1. walk' = {} BY <1>4 DEF ClaimEnd
  <2>2. WalkInv' BY <2>1 DEF WalkInv
  <2>3. Next BY <1>4, EndClaims DEF Next, OwnerStep
  <2> QED BY <2>2, <2>3
<1>5. CASE UNCHANGED walkVars
  <2>1. UNCHANGED vars /\ walk' = walk BY <1>5 DEF walkVars
  <2>2. WalkInv' BY <2>1, TookStays DEF WalkInv
  <2> QED BY <2>1, <2>2
<1> QED BY <1>1, <1>2, <1>3, <1>4, <1>5 DEF WalkNext

(* The claim loop does what one claim of a set of vaults does, or nothing, *)
(* for any list of pairs: repeated vaults, vaults of no slot, and a        *)
(* refusal after some have been paid make no difference.                   *)
THEOREM LoopIsOneStep == WalkSpec => ClaimIsOneStep
<1>1. WalkInit => Init /\ TableInv /\ WalkInv
  BY InitTableInv DEF WalkInit, WalkInv
<1>2. TableInv /\ WalkInv /\ [WalkNext]_walkVars
        => TableInv' /\ WalkInv' /\ [Next]_vars
  BY StepWalk, StepTableInv
<1> QED BY <1>1, <1>2, PTL DEF WalkSpec, ClaimIsOneStep, Spec

-----------------------------------------------------------------------------
(* An honest pair is accepted: the vault covers what the owner accrued.    *)

LEMMA OwnPairAccepted ==
    ASSUME RewardInv, WalkInv, NEW w \in walk, NEW m \in RegisteredMints
    PROVE  AfterPair(w, m, [owner |-> w.owner, mint |-> m]) # {}
<1> DEFINE wallet == [owner |-> w.owner, mint |-> m]
<1>1. PICK S \in SUBSET Mints : Took(w, S)
  BY DEF WalkInv
<1>2. TableInv /\ w \in WalkType /\ w.owner \in Owners
  BY DEF WalkInv, WalkType, RewardInv
<1>3. PICK i \in Slots : rewards[i].mint = m /\ Registered(i)
  BY DEF RegisteredMints, Registered
<1>4. m \in Mints /\ m \in Vaults
  BY <1>2, <1>3 DEF TableInv, TypeOK, RewardInfoType, Registered, Vaults
<1>5. IsFirstSlot(rewards, i, m)
  BY <1>2, <1>3 DEF IsFirstSlot, TableInv, SlotTable, Slots, Registered
<1>6. IsFirstSlot(w.rewards, i, m)
  <2>1. \A j \in Slots : w.rewards[j].mint = rewards[j].mint
    BY <1>1, <1>2, SettledKeeps DEF Took, TableInv
  <2> QED BY <1>5, <2>1 DEF IsFirstSlot
<1>7. ASSUME w.entries[i].rewards_accrued > 0
      PROVE  w.entries[i].rewards_accrued <= w.reward_vault[m]
  <2>1. m \in Mints \ S
    BY <1>1, <1>2, <1>4, <1>5, <1>7, CopyOfEntry
  <2>2. w.entries[i] = Checkpoint(w.owner)[i]
    BY <1>1, <1>2, <1>4, <1>5, <2>1, CopyOfEntry
  <2>3. Checkpoint(w.owner)[i].rewards_accrued <= reward_vault[m]
    BY <1>1, <1>2, <1>3, CheckpointCovered DEF Took
  <2>4. w.reward_vault[m] = reward_vault[m]
    BY <1>1, <2>1 DEF Took
  <2> QED BY <2>2, <2>3, <2>4
<1>8. PairOk(w, i, m, wallet)
  BY <1>7 DEF PairOk
<1>9. PaySlot(w, i, m) \in AfterPair(w, m, wallet)
  BY <1>6, <1>8 DEF AfterPair
<1> QED BY <1>9

(* Whatever pairs were listed before, the loop can still pay each          *)
(* registered vault to a token account of the owner: a claim fails by its  *)
(* caller's own bad pair only.                                             *)
THEOREM HonestPairsSucceed == WalkSpec => []OwnPairsSucceed
<1>1. WalkInit => RewardInv /\ WalkInv
  BY InitRewardInv DEF WalkInit, WalkInv
<1>2. RewardInv /\ WalkInv /\ [WalkNext]_walkVars => RewardInv' /\ WalkInv'
  BY StepWalk, StepRewardInv DEF RewardInv
<1>3. RewardInv /\ WalkInv => OwnPairsSucceed
  BY OwnPairAccepted DEF OwnPairsSucceed
<1> QED BY <1>1, <1>2, <1>3, PTL DEF WalkSpec

=============================================================================
