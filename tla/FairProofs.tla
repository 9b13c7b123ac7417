----------------------------- MODULE FairProofs -----------------------------
(***************************************************************************)
(* Nobody is ever owed more than the exact pro-rata share and what leavers *)
(* have left, and a step loses an owner no more than the rounding of one   *)
(* division, for every value of the constants.                             *)
(*                                                                         *)
(* The account of a slot is at least what dividing all the time since the  *)
(* last settlement among the present stakes would give (Redivided), and    *)
(* the program divides that same time, rounding down.  When a leaver does  *)
(* not settle, the new division raises both by what is inherited.          *)
(***************************************************************************)
EXTENDS FairShare, EarnedProofs

-----------------------------------------------------------------------------
(* What dividing all the time since a slot's last settlement among the     *)
(* present stakes, without rounding, would give an owner.                  *)
Redivided(o, i) ==
    OwedStored(o, i) * SharesPerUnit
    + IF pool.total_staked > 0 THEN Share(o, i, SecondsUnsettled(i)) ELSE 0

-----------------------------------------------------------------------------
(* Fractions. *)

(* The fractions of a scaled token that one staked token gets. *)
PerToken == SharesPerUnit \div pool.total_staked

LEMMA DivExact ==
    ASSUME NEW a \in Nat, NEW b \in Nat, b > 0, a % b = 0
    PROVE  a \div b \in Nat /\ a = (a \div b) * b
OBVIOUS

LEMMA PerTokenIs ==
    ASSUME TypeOK, PrincipalSolvent, pool.total_staked > 0
    PROVE  /\ PerToken \in Nat
           /\ SharesPerUnit = PerToken * pool.total_staked
<1>1. /\ pool.total_staked \in Nat /\ stake_vault \in Nat /\ stake_vault <= StakeSupply
      /\ StakeSupply \in Nat
  BY PoolNats, PoolAssumption DEF TypeOK
<1>2. pool.total_staked \in 1 .. StakeSupply
  BY <1>1 DEF PrincipalSolvent
<1>3. SharesPerUnit \in Nat /\ SharesPerUnit % pool.total_staked = 0
  BY <1>2, ShareAssumption
<1>4. /\ SharesPerUnit \div pool.total_staked \in Nat
      /\ SharesPerUnit = (SharesPerUnit \div pool.total_staked) * pool.total_staked
  BY <1>1, <1>3, DivExact
<1> QED BY <1>4 DEF PerToken

(* n scaled tokens divided among t staked ones, rounded down to q for each,*)
(* against the n * k fractions of each: a stake of s gets no more, and     *)
(* less than s whole units less.                                           *)
LEMMA RoundedShare ==
    ASSUME NEW n \in Nat, NEW t \in Nat, t > 0, NEW s \in Nat, NEW k \in Nat, NEW q \in Nat,
           t * q <= n, n <= t * q + (t - 1)
    PROVE  /\ s * q * (k * t) \in Nat /\ s * (n * k) \in Nat
           /\ s * q * (k * t) <= s * (n * k)
           /\ s * (n * k) - s * q * (k * t) <= 0
              \/ s * (n * k) - s * q * (k * t) < s * (k * t)
<1> DEFINE m == s * k
<1>1. m \in Nat
  BY MulType
<1>2. s * q * (k * t) = m * (t * q) /\ s * (n * k) = m * n /\ s * (k * t) = m * t
  OBVIOUS
<1>3. t * q \in Nat /\ t - 1 \in Nat
  BY MulType
<1> HIDE DEF m
<1>4. m * (t * q) \in Nat /\ m * n \in Nat /\ m * (t * q) <= m * n
  BY <1>1, <1>3, MulMonotone
<1>5. m * n <= m * (t * q + (t - 1))
  BY <1>1, <1>3, MulMonotone
<1>6. m * (t * q + (t - 1)) = m * (t * q) + m * (t - 1)
  BY <1>1, <1>3, MulSplit
<1>7. m * (t - 1) = m * t - m /\ m * t \in Nat
  BY <1>1, MulType
<1>8. m * n - m * (t * q) <= m * t - m
  BY <1>1, <1>4, <1>5, <1>6, <1>7
<1>9. CASE m = 0
  BY <1>1, <1>2, <1>4, <1>7, <1>8, <1>9
<1>10. CASE m > 0
  BY <1>1, <1>2, <1>4, <1>7, <1>8, <1>10
<1> QED BY <1>1, <1>9, <1>10

-----------------------------------------------------------------------------
(* What is owed, against the division of the same time without rounding. *)

LEMMA SecondsAre ==
    ASSUME TypeOK, NEW i \in Slots
    PROVE  SecondsUnsettled(i) = Elapsed(rewards[i], clock)
<1>1. rewards[i] \in RewardInfoType /\ clock \in Nat
  BY PoolNats
<1> QED BY <1>1, SlotNats DEF SecondsUnsettled, SaturatingSub, Elapsed, MinOf

(* The tokens a settlement now would add, for each one staked. *)
GapNow(i) == RptNow(i) - rewards[i].reward_per_token_stored

LEMMA OwedGap ==
    ASSUME TypeOK, Paid, NEW o \in Owners, NEW i \in Slots
    PROVE  /\ GapNow(i) \in Nat
           /\ OwedNow(o, i) = OwedStored(o, i) + StakeAt(o) * GapNow(i)
           /\ OwedStored(o, i) \in Nat /\ StakeAt(o) * GapNow(i) \in Nat
<1> DEFINE s == StakeAt(o)
           a == AccruedAt(o, i) * PRECISION
           p == PaidAt(o, i)
           r == rewards[i].reward_per_token_stored
           n == RptNow(i)
<1>1. s \in Nat /\ a \in Nat /\ p \in Nat /\ n \in Nat
  BY NowNats, PoolNats, MulType
<1>2. r \in Nat /\ r <= n
  BY PoolNats, SlotNats, RptType DEF RptNow
<1>3. OwedNow(o, i) = a + s * (n - p) /\ OwedStored(o, i) = a + s * (r - p)
  BY DEF OwedNow, OwedStored, StakeAt, AccruedAt, PaidAt
<1>4. GapNow(i) = n - r
  BY DEF GapNow
<1> HIDE DEF s, a, p, r, n
<1>5. s * (n - p) = s * (r - p) + s * (n - r)
  BY <1>1, <1>2, MulSplit
<1>6. n - r \in Nat
  BY <1>1, <1>2
<1>7. s * (n - r) \in Nat /\ s * (r - p) \in Int
  BY <1>1, <1>2, <1>6, MulType
<1>8. a + s * (n - p) = (a + s * (r - p)) + s * (n - r)
  BY <1>1, <1>5, <1>7
<1> QED BY <1>3, <1>4, <1>6, <1>7, <1>8, OwedNat DEF s

(* Redivided is never less than what is owed, and by less than one unit of *)
(* reward-per-token more.                                                  *)
ShareBounds ==
    \A o \in Owners, i \in Slots :
        /\ Redivided(o, i) \in Int
        /\ OwedNow(o, i) \in Nat
        /\ OwedNow(o, i) * SharesPerUnit \in Nat
        /\ OwedNow(o, i) * SharesPerUnit <= Redivided(o, i)
        /\ \/ Redivided(o, i) - OwedNow(o, i) * SharesPerUnit <= 0
           \/ Redivided(o, i) - OwedNow(o, i) * SharesPerUnit < StakeAt(o) * SharesPerUnit

LEMMA ShareBoundsHold == RewardInv => ShareBounds
<1> SUFFICES ASSUME RewardInv, NEW o \in Owners, NEW i \in Slots
             PROVE  /\ Redivided(o, i) \in Int
                    /\ OwedNow(o, i) \in Nat
                    /\ OwedNow(o, i) * SharesPerUnit \in Nat
                    /\ OwedNow(o, i) * SharesPerUnit <= Redivided(o, i)
                    /\ \/ Redivided(o, i) - OwedNow(o, i) * SharesPerUnit <= 0
                       \/ Redivided(o, i) - OwedNow(o, i) * SharesPerUnit
                            < StakeAt(o) * SharesPerUnit
  BY DEF ShareBounds
<1> DEFINE t == pool.total_staked
           U == SharesPerUnit
           S == OwedStored(o, i)
           s == StakeAt(o)
           e == Elapsed(rewards[i], clock)
           r == rewards[i].reward_rate
           q == GapNow(i)
           D == Redivided(o, i)
           W == OwedNow(o, i)
<1>a. TypeOK /\ Paid /\ PrincipalSolvent
  BY DEF RewardInv, TableInv
<1>1. /\ t \in Nat /\ U \in Nat /\ S \in Nat /\ s \in Nat /\ q \in Nat
      /\ e \in Nat /\ r \in Nat /\ e * r \in Nat
      /\ W = S + s * q /\ s * q \in Nat /\ W \in Nat
  <2>1. rewards[i] \in RewardInfoType /\ clock \in Nat /\ t \in Nat
    BY <1>a, PoolNats
  <2>2. e \in Nat /\ r \in Nat /\ e * r \in Nat
    BY <2>1, ElapsedType, SlotNats
  <2> QED BY <1>a, <2>1, <2>2, NowNats, OwedGap, ShareAssumption
<1>2. q = IF t > 0 THEN (e * r) \div t ELSE 0
  <2>1. rewards[i] \in RewardInfoType /\ clock \in Nat
    BY <1>a, PoolNats
  <2>2. t > 0 => (e * r) \div t \in Nat
    BY <1>1, DivBounds
  <2> QED BY <1>1, <2>1, <2>2, RptIs, SlotNats DEF GapNow, RptNow
<1>3. D = S * U + IF t > 0 THEN e * r * s * PerToken ELSE 0
  BY <1>a, SecondsAre DEF Redivided, Share, PerToken, StakeAt
<1>4. W * U = S * U + s * q * U /\ S * U \in Nat /\ W * U \in Nat /\ s * U \in Nat
  <2>1. (S + s * q) * U = S * U + s * q * U
    <3> DEFINE x == s * q
    <3>1. x \in Nat BY <1>1
    <3> HIDE DEF x, S, U
    <3>2. (S + x) * U = S * U + x * U BY <1>1, <3>1
    <3> QED BY <3>2 DEF x
  <2> QED BY <1>1, <2>1, MulType
<1>5. CASE t > 0
  <2> DEFINE k == PerToken
             n == e * r
  <2>1. k \in Nat /\ U = k * t
    BY <1>a, <1>5, PerTokenIs
  <2>2. n \in Nat /\ t * q <= n /\ n <= t * q + (t - 1)
    BY <1>1, <1>2, <1>5, DivBounds
  <2>3. e * r * s * k = s * (n * k)
    BY <1>1, <2>1
  <2> HIDE DEF t, U, S, s, e, r, q, D, W, k, n
  <2>4. /\ s * q * (k * t) \in Nat /\ s * (n * k) \in Nat
        /\ s * q * (k * t) <= s * (n * k)
        /\ \/ s * (n * k) - s * q * (k * t) <= 0
           \/ s * (n * k) - s * q * (k * t) < s * (k * t)
    BY <1>1, <1>5, <2>1, <2>2, RoundedShare
  <2>5. D = S * U + s * (n * k)
    BY <1>3, <1>5, <2>3 DEF k
  <2>6. /\ D \in Int /\ W * U <= D
        /\ D - W * U <= 0 \/ D - W * U < s * U
    BY <1>1, <1>4, <2>1, <2>4, <2>5
  <2> QED BY <1>1, <1>4, <2>6 DEF U, D, W, s
<1>6. CASE t = 0
  <2>1. D = S * U /\ q = 0
    BY <1>1, <1>2, <1>3, <1>4, <1>6
  <2>2. s * q * U = 0
    BY <1>1, <2>1
  <2> HIDE DEF t, U, S, s, e, r, q, D, W
  <2>3. D \in Int /\ W * U <= D /\ D - W * U <= 0
    BY <1>4, <2>1, <2>2
  <2> QED BY <1>1, <1>4, <2>3 DEF U, D, W, s
<1> QED BY <1>1, <1>5, <1>6

LEMMA ShareBoundsNext == RewardInv' => ShareBounds'
BY ShareBoundsHold, PTL

(* A blank slot owes nothing in the account either. *)
BlankSlots == \A i \in Slots, o \in Owners : Blank(i) => Redivided(o, i) = 0

LEMMA BlankSlotsHold == RewardInv => BlankSlots
<1> SUFFICES ASSUME RewardInv, NEW i \in Slots, NEW o \in Owners, Blank(i)
             PROVE  Redivided(o, i) = 0
  BY DEF BlankSlots
<1>a. TypeOK /\ PrincipalSolvent
  BY DEF RewardInv, TableInv
<1> DEFINE s == stakers[o].staked_amount
           e == SecondsUnsettled(i)
<1>1. /\ s \in Nat /\ e \in Nat /\ rewards[i].reward_rate = 0 /\ SharesPerUnit \in Nat
      /\ rewards[i] \in RewardInfoType /\ clock \in Nat
  BY <1>a, OwedInt, PoolNats, SecondsAre, ElapsedType, ShareAssumption DEF TypeOK, Blank
<1>2. OwedStored(o, i) = 0
  <2>1. s * (0 - 0) = 0 /\ 0 * PRECISION = 0 BY <1>1, WidthAssumption
  <2> QED BY <2>1 DEF OwedStored, Blank, EmptyEntry
<1>3. 0 * SharesPerUnit = 0
  BY <1>1
<1>4. CASE pool.total_staked > 0
  <2>1. PerToken \in Nat
    BY <1>a, <1>4, PerTokenIs
  <2>2. Share(o, i, e) = e * 0 * s * PerToken
    BY <1>1 DEF Share, PerToken
  <2> HIDE DEF e, s
  <2>3. e * 0 * s * PerToken = 0
    BY <1>1, <2>1
  <2> QED BY <1>2, <1>3, <1>4, <2>2, <2>3 DEF Redivided, e
<1>5. CASE ~(pool.total_staked > 0)
  BY <1>2, <1>3, <1>5 DEF Redivided
<1> QED BY <1>4, <1>5

LEMMA BlankSlotsNext == RewardInv' => BlankSlots'
BY BlankSlotsHold, PTL

(* Right after a settlement the two agree. *)
SettledShares ==
    \A i \in Slots, o \in Owners :
        rewards[i].last_update_time = clock =>
            Redivided(o, i) = OwedNow(o, i) * SharesPerUnit

LEMMA SettledSharesHold == RewardInv => SettledShares
<1> SUFFICES ASSUME RewardInv, NEW i \in Slots, NEW o \in Owners,
                    rewards[i].last_update_time = clock
             PROVE  Redivided(o, i) = OwedNow(o, i) * SharesPerUnit
  BY DEF SettledShares
<1>a. TypeOK /\ Paid /\ PrincipalSolvent
  BY DEF RewardInv, TableInv
<1>1. /\ rewards[i] \in RewardInfoType /\ clock \in Nat /\ pool.total_staked \in Nat
      /\ StakeAt(o) \in Nat /\ SharesPerUnit \in Nat
  BY <1>a, PoolNats, NowNats, ShareAssumption
<1>2. OwedNow(o, i) = OwedStored(o, i)
  <2>1. GapNow(i) = 0
    BY <1>1, RptSettled, SlotNats DEF GapNow, RptNow
  <2>2. StakeAt(o) * 0 = 0
    BY <1>1
  <2> QED BY <1>a, <2>1, <2>2, OwedGap
<1>3. SecondsUnsettled(i) = 0
  BY <1>1, SlotNats DEF SecondsUnsettled, SaturatingSub, MinOf
<1>4. OwedStored(o, i) * SharesPerUnit \in Nat
  BY <1>a, <1>1, OwedNat, MulType
<1>5. CASE pool.total_staked > 0
  <2>1. PerToken \in Nat /\ rewards[i].reward_rate \in Nat
    BY <1>a, <1>1, <1>5, PerTokenIs, SlotNats
  <2>2. 0 * rewards[i].reward_rate * StakeAt(o) * PerToken = 0
    BY <1>1, <2>1
  <2> QED BY <1>2, <1>3, <1>4, <1>5, <2>2 DEF Redivided, Share, PerToken, StakeAt
<1>6. CASE ~(pool.total_staked > 0)
  BY <1>2, <1>4, <1>6 DEF Redivided
<1> QED BY <1>5, <1>6

LEMMA SettledSharesNext == RewardInv' => SettledShares'
BY SettledSharesHold, PTL

-----------------------------------------------------------------------------
(* The inductive invariant: the account is at least the division anew. *)

FairInv ==
    /\ fair \in [Owners -> [Slots -> Int]]
    /\ \A o \in Owners, i \in Slots : fair[o][i] >= Redivided(o, i)

LEMMA Covers ==
    ASSUME RewardInv, FairInv, NEW o \in Owners, NEW i \in Slots
    PROVE  /\ fair[o][i] \in Int /\ fair[o][i] >= Redivided(o, i)
           /\ Redivided(o, i) \in Int
           /\ OwedNow(o, i) * SharesPerUnit \in Nat
           /\ OwedNow(o, i) * SharesPerUnit <= fair[o][i]
<1>1. /\ Redivided(o, i) \in Int
      /\ OwedNow(o, i) * SharesPerUnit \in Nat
      /\ OwedNow(o, i) * SharesPerUnit <= Redivided(o, i)
  BY ShareBoundsHold DEF ShareBounds
<1>2. fair[o][i] \in Int /\ fair[o][i] >= Redivided(o, i)
  BY DEF FairInv
<1> QED BY <1>1, <1>2

(* A slot no settlement reads differently. *)
LEMMA QuietShare ==
    ASSUME clock' = clock, pool'.total_staked = pool.total_staked, stakers' = stakers,
           NEW i \in Slots,
           /\ rewards'[i].reward_rate = rewards[i].reward_rate
           /\ rewards'[i].reward_per_token_stored = rewards[i].reward_per_token_stored
           /\ rewards'[i].period_finish = rewards[i].period_finish
           /\ rewards'[i].last_update_time = rewards[i].last_update_time
    PROVE  \A o \in Owners : Redivided(o, i)' = Redivided(o, i)
BY DEF Redivided, Share, SecondsUnsettled, OwedStored

(* An empty slot is blank. *)
LEMMA EmptyIsBlank ==
    ASSUME SlotTable, NEW i \in Slots, ~Registered(i)
    PROVE  Blank(i)
BY DEF SlotTable, Blank, EmptySlot

LEMMA EmptyIsBlankNext == SlotTable' => \A i \in Slots : ~Registered(i)' => Blank(i)'
<1>1. SlotTable => \A i \in Slots : ~Registered(i) => Blank(i)
  BY EmptyIsBlank
<1> DEFINE P == \A i \in Slots : ~Registered(i) => Blank(i)
<1>2. SlotTable => P
  BY <1>1
<1> HIDE DEF P
<1>3. SlotTable' => P'
  BY <1>2, PTL
<1> QED BY <1>3 DEF P

(* Steps that leave the account of an owner alone keep the invariant, when *)
(* the slot is settled and the owner is owed no more than before.          *)
LEMMA SettledShare ==
    ASSUME RewardInv, RewardInv', FairInv, NEW o \in Owners, NEW i \in Slots,
           SettlesSlot(i), NEW c \in Int, OwedNow(o, i)' <= OwedNow(o, i) - c
    PROVE  fair[o][i] - c * SharesPerUnit >= Redivided(o, i)'
<1> DEFINE w == OwedNow(o, i)
           x == OwedNow(o, i)'
           U == SharesPerUnit
<1>1. fair[o][i] \in Int /\ w * U \in Nat /\ w * U <= fair[o][i]
  BY Covers
<1>2. w \in Nat /\ x \in Nat /\ U \in Nat
  BY ShareBoundsHold, ShareBoundsNext, ShareAssumption DEF ShareBounds
<1>3. Redivided(o, i)' = x * U
  BY SettledSharesNext DEF SettledShares, SettlesSlot
<1> HIDE DEF w, x, U
<1>4. x <= w - c
  BY DEF w, x
<1>5. U * x <= U * (w - c)
  <2>1. w - c \in Nat
    BY <1>2, <1>4
  <2> QED BY <1>2, <1>4, <2>1, MulMonotone
<1>6. U * (w - c) = w * U - c * U /\ U * x = x * U /\ c * U \in Int /\ x * U \in Int
  BY <1>2
<1> QED BY <1>1, <1>3, <1>5, <1>6 DEF U

(* One more second of streaming. *)
LEMMA TickShare ==
    ASSUME RewardInv, RewardInv', FairInv, FairTick, NEW o \in Owners, NEW i \in Slots
    PROVE  /\ fair'[o][i] \in Int
           /\ fair'[o][i] >= Redivided(o, i)'
<1> DEFINE e == Elapsed(rewards[i], clock)
           f == Elapsed(rewards[i], clock + 1)
           r == rewards[i].reward_rate
           s == StakeAt(o)
           k == PerToken
           S == OwedStored(o, i) * SharesPerUnit
<1>a. /\ TypeOK /\ TypeOK' /\ PrincipalSolvent /\ Paid
      /\ clock' = clock + 1 /\ rewards' = rewards /\ pool' = pool /\ stakers' = stakers
      /\ rewards[i].last_update_time <= clock
  BY DEF RewardInv, TableInv, FairTick, Tick, Past
<1>1. /\ rewards[i] \in RewardInfoType /\ clock \in Nat /\ clock + 1 \in Nat
      /\ pool.total_staked \in Nat /\ s \in Nat /\ S \in Nat
      /\ e \in Nat /\ f \in Nat /\ r \in Nat
  <2>1. /\ rewards[i] \in RewardInfoType /\ clock \in Nat /\ clock + 1 \in Nat
        /\ pool.total_staked \in Nat
    BY <1>a, PoolNats
  <2>2. s \in Nat /\ S \in Nat
    BY <1>a, NowNats, OwedNat, ShareAssumption, MulType
  <2> QED BY <2>1, <2>2, ElapsedType, SlotNats
<1>2. fair[o][i] \in Int /\ fair[o][i] >= Redivided(o, i)
  BY Covers
<1>3. SecondsUnsettled(i) = e /\ SecondsUnsettled(i)' = f
  <2>1. SecondsUnsettled(i)' = SaturatingSub(MinOf(clock + 1, rewards[i].period_finish),
                                             rewards[i].last_update_time)
    BY <1>a DEF SecondsUnsettled
  <2> QED BY <1>a, <1>1, <2>1, SecondsAre, SlotNats DEF SaturatingSub, Elapsed, MinOf
<1>4. fair'[o][i] = IF Streaming(i) THEN fair[o][i] + Share(o, i, 1) ELSE fair[o][i]
  BY DEF FairTick
<1>5. CASE pool.total_staked > 0
  <2>1. k \in Nat
    BY <1>a, <1>5, PerTokenIs
  <2>2. Redivided(o, i) = S + e * r * s * k /\ Redivided(o, i)' = S + f * r * s * k
    <3>1. OwedStored(o, i)' = OwedStored(o, i)
      BY <1>a DEF OwedStored
    <3>2. Redivided(o, i)' = OwedStored(o, i)' * SharesPerUnit
                             + SecondsUnsettled(i)' * r * s * k
      BY <1>a, <1>5 DEF Redivided, Share, PerToken, StakeAt
    <3>3. Redivided(o, i) = S + SecondsUnsettled(i) * r * s * k
      BY <1>5 DEF Redivided, Share, PerToken, StakeAt
    <3> QED BY <1>3, <3>1, <3>2, <3>3
  <2>3. CASE clock < rewards[i].period_finish
    <3>1. f = e + 1
      BY <1>a, <1>1, <2>3, SlotNats DEF Elapsed, MinOf
    <3>2. fair'[o][i] = fair[o][i] + 1 * r * s * k
      BY <1>4, <1>5, <2>3 DEF Streaming, Share, PerToken, StakeAt
    <3> HIDE DEF e, f, r, s, k, S
    <3>3. (e + 1) * r * s * k = e * r * s * k + 1 * r * s * k
      BY <1>1, <2>1
    <3>4. e * r * s * k \in Int /\ 1 * r * s * k \in Int
      BY <1>1, <2>1
    <3> QED BY <1>1, <1>2, <2>2, <3>1, <3>2, <3>3, <3>4
  <2>4. CASE ~(clock < rewards[i].period_finish)
    <3>1. f = e
      BY <1>a, <1>1, <2>4, SlotNats DEF Elapsed, MinOf
    <3>2. fair'[o][i] = fair[o][i]
      BY <1>4, <2>4 DEF Streaming
    <3> QED BY <1>2, <2>2, <3>1, <3>2
  <2> QED BY <2>3, <2>4
<1>6. CASE ~(pool.total_staked > 0)
  <2>1. Redivided(o, i)' = Redivided(o, i)
    <3>1. OwedStored(o, i)' = OwedStored(o, i)
      BY <1>a DEF OwedStored
    <3>2. Redivided(o, i) = S + 0 /\ Redivided(o, i)' = S + 0
      BY <1>a, <1>6, <3>1 DEF Redivided
    <3> QED BY <3>2
  <2>2. fair'[o][i] = fair[o][i]
    BY <1>4, <1>6 DEF Streaming
  <2> QED BY <1>2, <2>1, <2>2
<1> QED BY <1>5, <1>6

-----------------------------------------------------------------------------
(* What a step does to the account of one owner in one slot. *)

FairKept(o, i) == fair'[o][i] \in Int /\ fair'[o][i] >= Redivided(o, i)'

RoundingOnly(o, i) ==
    LET more == ShareMissing(o, i)' - ShareMissing(o, i)
    IN  \/ more <= 0
        \/ /\ clock' # clock \/ \E p \in Owners \ {o} : EmergencyWithdraw(p)
           /\ more < stakers[o].staked_amount * SharesPerUnit
        \/ stakers'[o] # stakers[o] /\ more < PRECISION * SharesPerUnit

FairMove(o, i) == FairKept(o, i) /\ (Registered(i) => RoundingOnly(o, i))

LEMMA MissingIs ==
    ASSUME RewardInv, RewardInv', FairInv, NEW o \in Owners, NEW i \in Slots,
           fair'[o][i] \in Int
    PROVE  /\ ShareMissing(o, i) = fair[o][i] - OwedNow(o, i) * SharesPerUnit
           /\ ShareMissing(o, i)' = fair'[o][i] - OwedNow(o, i)' * SharesPerUnit
           /\ fair[o][i] \in Int
           /\ OwedNow(o, i) * SharesPerUnit \in Nat /\ OwedNow(o, i)' * SharesPerUnit \in Nat
           /\ OwedNow(o, i) \in Nat /\ OwedNow(o, i)' \in Nat /\ SharesPerUnit \in Nat
           /\ ShareMissing(o, i) >= 0
<1>1. /\ OwedNow(o, i) * SharesPerUnit \in Nat /\ OwedNow(o, i)' * SharesPerUnit \in Nat
      /\ OwedNow(o, i) \in Nat /\ OwedNow(o, i)' \in Nat
  BY ShareBoundsHold, ShareBoundsNext DEF ShareBounds
<1>2. /\ ShareMissing(o, i) = fair[o][i] - OwedNow(o, i) * SharesPerUnit
      /\ ShareMissing(o, i)' = fair'[o][i] - OwedNow(o, i)' * SharesPerUnit
  BY DEF ShareMissing
<1>3. fair[o][i] \in Int /\ OwedNow(o, i) * SharesPerUnit <= fair[o][i]
  BY Covers
<1> QED BY <1>1, <1>2, <1>3, ShareAssumption

(* Nothing changes. *)
LEMMA SameMissing ==
    ASSUME RewardInv, RewardInv', FairInv, NEW o \in Owners, NEW i \in Slots,
           fair'[o][i] = fair[o][i], OwedNow(o, i)' = OwedNow(o, i)
    PROVE  RoundingOnly(o, i)
<1>1. fair'[o][i] \in Int
  BY Covers
<1>2. ShareMissing(o, i)' - ShareMissing(o, i) <= 0
  BY <1>1, MissingIs
<1> QED BY <1>2 DEF RoundingOnly

(* A slot that stays or becomes blank. *)
LEMMA BlankMove ==
    ASSUME RewardInv, RewardInv', FairInv, NEW o \in Owners, NEW i \in Slots,
           ~Registered(i), Blank(i)', fair'[o][i] = fair[o][i]
    PROVE  FairMove(o, i)
<1>1. Redivided(o, i) = 0
  BY EmptyIsBlank, BlankSlotsHold DEF BlankSlots, RewardInv, TableInv
<1>2. Redivided(o, i)' = 0
  BY BlankSlotsNext DEF BlankSlots
<1> QED BY <1>1, <1>2, Covers DEF FairMove, FairKept

LEMMA EmptyMove ==
    ASSUME RewardInv, RewardInv', FairInv, NEW o \in Owners, NEW i \in Slots,
           ~Registered(i), rewards'[i].mint = rewards[i].mint, fair'[o][i] = fair[o][i]
    PROVE  FairMove(o, i)
<1>1. Blank(i)'
  BY EmptyIsBlankNext DEF RewardInv, TableInv, Registered
<1> QED BY <1>1, BlankMove

(* An owner who is left alone while the slot is settled. *)
LEMMA SettledMove ==
    ASSUME RewardInv, RewardInv', FairInv, NEW o \in Owners, NEW i \in Slots,
           SettlesSlot(i), OwedNow(o, i)' = OwedNow(o, i), fair'[o][i] = fair[o][i]
    PROVE  FairMove(o, i)
<1>1. OwedNow(o, i)' <= OwedNow(o, i) - 0
  BY ShareBoundsHold DEF ShareBounds
<1>2. fair[o][i] - 0 * SharesPerUnit >= Redivided(o, i)'
  BY <1>1, SettledShare
<1>3. fair[o][i] - 0 * SharesPerUnit = fair[o][i] /\ fair[o][i] \in Int
  BY Covers, ShareAssumption
<1> QED BY <1>2, <1>3, SameMissing DEF FairMove, FairKept

(* The owner who is checkpointed, and paid c tokens. *)
LEMMA CheckpointMove ==
    ASSUME RewardInv, RewardInv', FairInv, NEW o \in Owners, NEW i \in Slots,
           SettlesSlot(i), NEW c \in Nat,
           OwedNow(o, i)' = (EarnedNow(o, i) - c) * PRECISION,
           fair'[o][i] = fair[o][i] - c * PRECISION * SharesPerUnit
    PROVE  FairMove(o, i)
<1> DEFINE E == EarnedNow(o, i)
           W == OwedNow(o, i)
           x == OwedNow(o, i)'
           U == SharesPerUnit
           a == c * PRECISION
           more == ShareMissing(o, i)' - ShareMissing(o, i)
<1>1. /\ E \in Nat /\ W \in Nat /\ E * PRECISION <= W
      /\ W <= E * PRECISION + (PRECISION - 1)
      /\ PRECISION \in Nat /\ PRECISION > 0 /\ E * PRECISION \in Nat
      /\ a \in Nat /\ U \in Nat /\ fair[o][i] \in Int
  BY EarnedIs, PoolNats, MulType, ShareAssumption, Covers DEF RewardInv, TableInv
<1>2. x = E * PRECISION - a
  <2>1. (E - c) * PRECISION = E * PRECISION - c * PRECISION
    BY <1>1
  <2> QED BY <2>1
<1>3. fair'[o][i] = fair[o][i] - a * U /\ a * U \in Int
  BY <1>1
<1>4. FairKept(o, i)
  <2>1. x <= W - a
    BY <1>1, <1>2
  <2>2. fair[o][i] - a * U >= Redivided(o, i)'
    <3> HIDE DEF a
    <3> QED BY <1>1, <2>1, SettledShare
  <2> QED BY <1>1, <1>3, <2>2 DEF FairKept
<1>5. more = (W - E * PRECISION) * U
  <2>1. /\ ShareMissing(o, i) = fair[o][i] - W * U
        /\ ShareMissing(o, i)' = fair'[o][i] - x * U
        /\ W * U \in Nat /\ x * U \in Nat /\ x \in Nat
    BY <1>4, MissingIs DEF FairKept
  <2> DEFINE y == E * PRECISION
  <2>2. y \in Nat /\ x = y - a
    BY <1>1, <1>2
  <2> HIDE DEF y, W, x, U, a
  <2>3. (y - a) * U = y * U - a * U /\ (W - y) * U = W * U - y * U
        /\ y * U \in Int /\ a * U \in Int
    BY <1>1, <2>2
  <2>4. fair'[o][i] - x * U - (fair[o][i] - W * U) = (W - y) * U
    BY <1>1, <1>3, <2>1, <2>2, <2>3
  <2> QED BY <2>1, <2>4 DEF y
<1>6. more <= 0 \/ more < PRECISION * U
  <2> DEFINE z == W - E * PRECISION
  <2>1. z \in Nat /\ z <= PRECISION - 1 /\ more = z * U
    BY <1>1, <1>5
  <2> HIDE DEF z, more, U
  <2>2. U * z <= U * (PRECISION - 1)
    BY <1>1, <2>1, MulMonotone
  <2>3. U * z = z * U /\ U * (PRECISION - 1) = PRECISION * U - U /\ z * U \in Nat
        /\ PRECISION * U \in Nat
    BY <1>1, <2>1, MulType
  <2> QED BY <1>1, <2>1, <2>2, <2>3
<1>7. CASE stakers'[o] # stakers[o]
  BY <1>4, <1>6, <1>7 DEF FairMove, RoundingOnly
<1>8. CASE stakers'[o] = stakers[o]
  <2>1. x = W
    BY <1>8, SettlingKeepsEarned DEF RewardInv, TableInv
  <2>2. W = E * PRECISION
    BY <1>1, <1>2, <2>1
  <2>3. more <= 0
    BY <1>1, <1>5, <2>2
  <2> QED BY <1>4, <2>3 DEF FairMove, RoundingOnly
<1> QED BY <1>7, <1>8

(* A second loses less than one unit of reward-per-token on the stake. *)
LEMMA TickMove ==
    ASSUME RewardInv, RewardInv', FairInv, FairTick, NEW o \in Owners, NEW i \in Slots
    PROVE  FairMove(o, i)
<1> DEFINE e == Elapsed(rewards[i], clock)
           f == Elapsed(rewards[i], clock + 1)
           r == rewards[i].reward_rate
           s == StakeAt(o)
           k == PerToken
           t == pool.total_staked
           U == SharesPerUnit
           g == RptNow(i)' - RptNow(i)
           more == ShareMissing(o, i)' - ShareMissing(o, i)
<1>a. /\ TypeOK /\ TypeOK' /\ PrincipalSolvent /\ Paid /\ Tick
      /\ clock' = clock + 1 /\ rewards' = rewards /\ pool' = pool /\ stakers' = stakers
      /\ rewards[i].last_update_time <= clock
  BY DEF RewardInv, TableInv, FairTick, Tick, Past
<1>b. FairKept(o, i)
  BY TickShare DEF FairKept
<1>1. /\ rewards[i] \in RewardInfoType /\ clock \in Nat /\ clock + 1 \in Nat
      /\ t \in Nat /\ s \in Nat /\ r \in Nat /\ e \in Nat /\ f \in Nat /\ U \in Nat
      /\ e * r \in Nat /\ f * r \in Nat
  <2>1. rewards[i] \in RewardInfoType /\ clock \in Nat /\ clock + 1 \in Nat /\ t \in Nat
    BY <1>a, PoolNats
  <2>2. s \in Nat /\ U \in Nat
    BY <1>a, NowNats, ShareAssumption
  <2> QED BY <2>1, <2>2, ElapsedType, SlotNats
<1>2. /\ RptNow(i) = rewards[i].reward_per_token_stored
                     + IF t > 0 THEN (e * r) \div t ELSE 0
      /\ RptNow(i)' = rewards[i].reward_per_token_stored
                      + IF t > 0 THEN (f * r) \div t ELSE 0
      /\ RptNow(i) \in Nat /\ RptNow(i)' \in Nat /\ g \in Nat
  <2>1. RptNow(i) = RewardPerToken(rewards[i], t, clock)
        /\ RptNow(i)' = RewardPerToken(rewards[i], t, clock + 1)
    BY <1>a DEF RptNow
  <2>2. g \in Nat /\ RptNow(i) \in Nat /\ RptNow(i)' \in Nat
    BY <1>1, <1>a, NowNats, TickGrows
  <2> QED BY <1>1, <2>1, <2>2, RptIs
<1>3. OwedNow(o, i)' = OwedNow(o, i) + g * s
  <2>1. RptNow(i)' = RptNow(i) + g
    BY <1>2
  <2> HIDE DEF g
  <2> QED BY <1>2, <1>a, <2>1, AllOwedMore
<1>4. /\ ShareMissing(o, i) = fair[o][i] - OwedNow(o, i) * U
      /\ ShareMissing(o, i)' = fair'[o][i] - OwedNow(o, i)' * U
      /\ OwedNow(o, i) \in Nat /\ fair[o][i] \in Int /\ fair'[o][i] \in Int
  BY <1>b, MissingIs DEF FairKept
<1>5. more = (fair'[o][i] - fair[o][i]) - g * s * U
  <2> DEFINE W == OwedNow(o, i)
             y == g * s
  <2>1. y \in Nat /\ W \in Nat
    BY <1>1, <1>2, <1>4, MulType
  <2> HIDE DEF W, y, U, g, s
  <2>2. (W + y) * U = W * U + y * U /\ W * U \in Int /\ y * U \in Int
    BY <1>1, <2>1
  <2>3. more = (fair'[o][i] - (W + y) * U) - (fair[o][i] - W * U)
    BY <1>3, <1>4 DEF W, y
  <2>4. more = (fair'[o][i] - fair[o][i]) - y * U
    BY <1>4, <2>2, <2>3
  <2> QED BY <2>4 DEF y
<1>6. fair'[o][i] = IF Streaming(i) THEN fair[o][i] + Share(o, i, 1) ELSE fair[o][i]
  BY DEF FairTick
<1>7. CASE Streaming(i)
  <2>1. t > 0 /\ k \in Nat /\ U = k * t
    BY <1>a, <1>7, PerTokenIs DEF Streaming
  <2>2. f = e + 1
    BY <1>a, <1>1, <1>7, SlotNats DEF Streaming, Elapsed, MinOf
  <2>3. fair'[o][i] - fair[o][i] = 1 * r * s * k
    <3>1. fair'[o][i] = fair[o][i] + 1 * r * s * k
      BY <1>6, <1>7 DEF Share, PerToken, StakeAt
    <3>2. 1 * r * s * k \in Int
      BY <1>1, <2>1
    <3> HIDE DEF k, r, s
    <3> QED BY <1>4, <3>1, <3>2
  <2> DEFINE n == e * r
             q == n \div t
             w == (f * r) \div t
  <2>4. f * r = n + r
    BY <1>1, <2>2
  <2>5. q \in Nat /\ t * q <= n /\ w \in Nat /\ n + r <= t * w + (t - 1)
    BY <1>1, <2>1, <2>4, DivBounds
  <2>6. g = w - q
    <3> HIDE DEF e, f, r
    <3> QED BY <1>1, <1>2, <2>1, <2>5, SlotNats
  <2> HIDE DEF q, w
  <2>7. r <= t * g + (t - 1)
    <3>1. t * g = t * w - t * q /\ t * w \in Nat /\ t * q \in Nat
      BY <1>1, <2>5, <2>6, MulType
    <3>2. n \in Nat /\ t \in Nat /\ r \in Nat /\ t * g \in Nat
      BY <1>1, <1>2, MulType
    <3> HIDE DEF g, t, r, n
    <3> QED BY <2>5, <3>1, <3>2
  <2> DEFINE m == s * k
  <2>8. m \in Nat
    BY <1>1, <2>1, MulType
  <2>9. 1 * r * s * k = m * r /\ g * s * (k * t) = m * (t * g) /\ s * (k * t) = m * t
    BY <1>1, <1>2, <2>1
  <2>10. more = m * r - m * (t * g)
    BY <1>5, <2>1, <2>3, <2>9
  <2>11. t * g \in Nat
    BY <1>1, <1>2, MulType
  <2>12. more <= 0 \/ more < s * U
    <3> DEFINE y == t * g
    <3>1. y \in Nat /\ r <= y + (t - 1)
      BY <2>7, <2>11
    <3> HIDE DEF m, y, g, t, r, U, s, k
    <3>2. t - 1 \in Nat /\ y + (t - 1) \in Nat
      BY <1>1, <2>1, <3>1
    <3>3. m * r <= m * (y + (t - 1)) /\ m * r \in Nat
      BY <1>1, <2>8, <3>1, <3>2, MulMonotone
    <3>4. m * (y + (t - 1)) = m * y + m * t - m /\ m * y \in Nat /\ m * t \in Nat
      BY <1>1, <2>8, <3>1, MulType
    <3>5. more = m * r - m * y
      BY <2>10 DEF y
    <3>6. s * U = m * t
      BY <2>1, <2>9
    <3>7. CASE m = 0
      <4>1. m * r = 0 /\ m * y = 0 BY <1>1, <3>1, <3>7
      <4> QED BY <3>5, <4>1
    <3>8. CASE m > 0
      BY <2>8, <3>3, <3>4, <3>5, <3>6, <3>8
    <3> QED BY <2>8, <3>7, <3>8
  <2>13. clock' # clock
    BY <1>a, <1>1
  <2> QED BY <1>b, <2>12, <2>13 DEF FairMove, RoundingOnly, StakeAt
<1>8. CASE ~Streaming(i)
  <2>1. g = 0
    <3>1. CASE t > 0
      <4>1. f = e
        BY <1>a, <1>1, <1>8, <3>1, SlotNats DEF Streaming, Elapsed, MinOf
      <4>2. RptNow(i)' = RptNow(i)
        BY <1>2, <4>1
      <4> QED BY <1>2, <4>2
    <3>2. CASE ~(t > 0)
      BY <1>2, <3>2
    <3> QED BY <3>1, <3>2
  <2>2. g * s * U = 0
    BY <1>1, <2>1
  <2>3. more <= 0
    <3> HIDE DEF g, s, U
    <3> QED BY <1>4, <1>5, <1>6, <1>8, <2>2
  <2> QED BY <1>b, <2>3 DEF FairMove, RoundingOnly
<1> QED BY <1>7, <1>8

-----------------------------------------------------------------------------
(* One lemma per kind of step. *)

LEMMA FairIsNext == [FairNext]_fairVars => [Next]_vars
BY DEF FairNext, fairVars, FairTick, FairClaim, FairEmergency, FairOther, Next, OwnerStep

LEMMA AdminMove ==
    ASSUME RewardInv, RewardInv', FairInv, NEW k \in Keys, AdminStep(k), fair' = fair,
           NEW o \in Owners, NEW i \in Slots
    PROVE  FairMove(o, i)
<1>a. TypeOK /\ SlotTable
  BY DEF RewardInv, TableInv
<1>1. CASE Registered(i)
  <2>1. /\ clock' = clock /\ stakers' = stakers /\ pool'.total_staked = pool.total_staked
        /\ rewards'[i].reward_rate = rewards[i].reward_rate
        /\ rewards'[i].reward_per_token_stored = rewards[i].reward_per_token_stored
        /\ rewards'[i].period_finish = rewards[i].period_finish
        /\ rewards'[i].last_update_time = rewards[i].last_update_time
    BY <1>1, AdminLeaves
  <2>2. Redivided(o, i)' = Redivided(o, i)
    BY <2>1, QuietShare
  <2>3. OwedNow(o, i)' = OwedNow(o, i)
    BY <1>a, <2>1, QuietStep DEF SameFor
  <2> QED BY <2>2, <2>3, Covers, SameMissing DEF FairMove, FairKept
<1>2. CASE ~Registered(i)
  <2>1. stakers' = stakers /\ stakers[o].entries[i] = EmptyEntry /\ rewards[i] = EmptySlot
        /\ \A p \in Owners : stakers[p].entries[i] = EmptyEntry
    BY <1>2, <1>a DEF SlotTable, AdminStep, SetUpStep, AdminOnlyStep, InitializePool, AddReward, SetRewardActive,
                      SetDuration, SetPaused, SetKeeperAuthority, SetAdmin
  <2>2. rewards'[i].reward_rate = 0 /\ rewards'[i].reward_per_token_stored = 0
    <3> DEFINE Zero == rewards'[i].reward_rate = 0 /\ rewards'[i].reward_per_token_stored = 0
    <3>a. rewards \in [Slots -> RewardInfoType]
      BY <1>a DEF TypeOK
    <3>1. ASSUME NEW m \in Mints, NEW d \in Durations, AddReward(k, m, d) PROVE Zero
      <4>1. PICK j \in Slots : rewards' = [rewards EXCEPT ![j] = NewSlot(m, d)]
        BY <3>1 DEF AddReward
      <4>2. rewards'[i] = rewards[i] \/ rewards'[i] = NewSlot(m, d)
        BY <3>a, <4>1
      <4> QED BY <2>1, <4>2 DEF NewSlot, EmptySlot
    <3>2. ASSUME NEW j \in Slots, NEW active \in BOOLEAN, SetRewardActive(k, j, active)
          PROVE  Zero
      <4>1. i # j
        BY <1>2, <3>2 DEF SetRewardActive
      <4> QED BY <2>1, <3>a, <3>2, <4>1 DEF SetRewardActive, EmptySlot
    <3>3. ASSUME NEW j \in Slots, NEW d \in Durations, SetDuration(k, j, d) PROVE Zero
      <4>1. i # j
        BY <1>2, <3>3 DEF SetDuration
      <4> QED BY <2>1, <3>a, <3>3, <4>1 DEF SetDuration, EmptySlot
    <3>4. ASSUME rewards' = rewards PROVE Zero
      BY <2>1, <3>4 DEF EmptySlot
    <3> QED BY <3>1, <3>2, <3>3, <3>4
            DEF AdminStep, SetUpStep, AdminOnlyStep, InitializePool, SetPaused, SetKeeperAuthority, SetAdmin
  <2>3. Blank(i)'
    BY <2>1, <2>2 DEF Blank
  <2> QED BY <1>2, <2>3, BlankMove
<1> QED BY <1>1, <1>2

(* A settlement leaves the empty slots empty. *)
LEMMA SettledEmpty ==
    ASSUME NEW i \in Slots, ~Registered(i)
    PROVE  SettledSlots[i].mint = rewards[i].mint
BY DEF SettledSlots, UpdateSlots, Registered

LEMMA KeeperMove ==
    ASSUME RewardInv, RewardInv', FairInv, NEW k \in Keys, KeeperStep(k), fair' = fair,
           NEW o \in Owners, NEW i \in Slots
    PROVE  FairMove(o, i)
<1>1. PICK m \in Mints, a \in RewardAmounts : DepositRewards(k, m, a)
  BY DEF KeeperStep
<1>a. TypeOK /\ TypeOK' /\ SettleOk
  BY <1>1 DEF RewardInv, TableInv, DepositRewards
<1>2. CASE Registered(i)
  <2>1. SettlesSlot(i) /\ OwedNow(o, i)' = OwedNow(o, i)
    BY <1>1, <1>2, <1>a, DepositSettles DEF SameFor
  <2> QED BY <2>1, SettledMove
<1>3. CASE ~Registered(i)
  <2>1. PICK j \in Slots : \E slot : /\ IsFirstSlot(rewards, j, m)
                                     /\ rewards' = [SettledSlots EXCEPT ![j] = slot]
    BY <1>1 DEF DepositRewards
  <2>2. i # j
    BY <1>3, <2>1, SlotAssumption DEF IsFirstSlot, Registered
  <2>3. rewards'[i] = SettledSlots[i]
    BY <2>1, <2>2 DEF SettledSlots, UpdateSlots
  <2> QED BY <1>3, <2>3, SettledEmpty, EmptyMove
<1> QED BY <1>2, <1>3

LEMMA StakeMove ==
    ASSUME RewardInv, RewardInv', FairInv, NEW p \in Owners, NEW a \in StakeAmounts,
           Stake(p, a) \/ Unstake(p, a), fair' = fair, NEW o \in Owners, NEW i \in Slots
    PROVE  FairMove(o, i)
<1>a. TypeOK /\ TypeOK' /\ Paid
  BY DEF RewardInv, TableInv
<1>1. CASE Registered(i)
  <2>1. /\ SettlesSlot(i)
        /\ p # o => OwedNow(o, i)' = OwedNow(o, i)
        /\ OwedNow(p, i)' = EarnedNow(p, i) * PRECISION
    BY <1>1, <1>a, StakeSettles DEF SameFor
  <2>2. CASE p # o
    BY <2>1, <2>2, SettledMove
  <2>3. CASE p = o
    <3>1. fair[o][i] \in Int /\ EarnedNow(o, i) \in Nat
      BY <1>a, Covers, EarnedIs
    <3>2. 0 * PRECISION * SharesPerUnit = 0
      BY WidthAssumption, ShareAssumption
    <3>3. /\ OwedNow(o, i)' = (EarnedNow(o, i) - 0) * PRECISION
          /\ fair'[o][i] = fair[o][i] - 0 * PRECISION * SharesPerUnit
      BY <2>1, <2>3, <3>1, <3>2
    <3> QED BY <2>1, <3>3, CheckpointMove
  <2> QED BY <2>2, <2>3
<1>2. CASE ~Registered(i)
  <2>1. rewards' = SettledSlots
    BY DEF Stake, Unstake
  <2> QED BY <1>2, <2>1, SettledEmpty, EmptyMove
<1> QED BY <1>1, <1>2

LEMMA ClaimMove ==
    ASSUME RewardInv, RewardInv', FairInv, NEW p \in Owners, NEW S \in SUBSET Mints,
           FairClaim(p, S), NEW o \in Owners, NEW i \in Slots
    PROVE  FairMove(o, i)
<1>a. TypeOK /\ TypeOK' /\ Paid /\ Claim(p, S) /\ fair \in [Owners -> [Slots -> Int]]
  BY DEF RewardInv, TableInv, FairClaim, FairInv
<1>1. /\ p # o => fair'[o][i] = fair[o][i]
      /\ fair'[p][i] = IF Registered(i) /\ rewards[i].mint \in S
                       THEN fair[p][i] - Payout(p, rewards[i].mint) * PRECISION * SharesPerUnit
                       ELSE fair[p][i]
  BY <1>a DEF FairClaim
<1>2. CASE Registered(i)
  <2>1. /\ SettlesSlot(i)
        /\ p # o => OwedNow(o, i)' = OwedNow(o, i)
        /\ Paying(p, S, i) \in Nat
        /\ OwedNow(p, i)' = (EarnedNow(p, i) - Paying(p, S, i)) * PRECISION
        /\ rewards[i].mint \in S => Payout(p, rewards[i].mint) = EarnedNow(p, i)
    BY <1>2, <1>a, ClaimSettles DEF SameFor
  <2>2. CASE p # o
    BY <1>1, <2>1, <2>2, SettledMove
  <2>3. CASE p = o
    <3>1. fair[o][i] \in Int
      BY Covers
    <3>2. 0 * PRECISION * SharesPerUnit = 0
      BY WidthAssumption, ShareAssumption
    <3>3. fair'[o][i] = fair[o][i] - Paying(o, S, i) * PRECISION * SharesPerUnit
      BY <1>1, <1>2, <2>1, <2>3, <3>1, <3>2 DEF Paying
    <3> QED BY <2>1, <2>3, <3>3, CheckpointMove
  <2> QED BY <2>2, <2>3
<1>3. CASE ~Registered(i)
  <2>1. rewards' = SettledSlots /\ fair'[o][i] = fair[o][i]
    BY <1>a, <1>1, <1>3 DEF Claim
  <2> QED BY <1>3, <2>1, SettledEmpty, EmptyMove
<1> QED BY <1>2, <1>3

LEMMA PerTokenInt == TypeOK /\ PrincipalSolvent /\ pool.total_staked > 0 => PerToken \in Int
BY PerTokenIs

LEMMA PerTokenIntNext ==
    (TypeOK /\ PrincipalSolvent /\ pool.total_staked > 0)' => PerToken' \in Int
<1> DEFINE A == TypeOK /\ PrincipalSolvent /\ pool.total_staked > 0
           B == PerToken \in Int
<1>1. A => B
  BY PerTokenInt
<1> HIDE DEF A, B
<1>2. A' => B'
  BY <1>1, PTL
<1> QED BY <1>2 DEF A, B

LEMMA MulDiv ==
    ASSUME NEW a \in Nat, NEW q \in Nat, NEW b \in Nat, b > 0, a = b * q
    PROVE  a \div b = q
<1> DEFINE d == a \div b
<1>1. d \in Nat /\ b * d <= a /\ a <= b * d + (b - 1) /\ q <= d
  BY DivBounds, DivLargest
<1> HIDE DEF d
<1>2. ASSUME q + 1 <= d PROVE FALSE
  <2>1. b * (q + 1) <= b * d /\ b * (q + 1) \in Nat /\ b * d \in Nat
    BY <1>1, <1>2, MulMonotone
  <2>2. b * (q + 1) = b * q + b
    OBVIOUS
  <2> QED BY <1>1, <2>1, <2>2
<1>3. d = q
  BY <1>1, <1>2
<1> QED BY <1>3 DEF d

(* Dividing the unsettled seconds anew, among those who stay, gives each   *)
(* what the exact account says is inherited: e seconds at rate r, of which *)
(* the leaver's stake l had had its part of the total.                     *)
InheritedIsExact(e, r, s, l, rest, total, u) ==
    /\ (e * r * l * (u \div total) * s) \div rest \in Int
    /\ e * r * s * (u \div rest)
         = e * r * s * (u \div total)
           + (e * r * l * (u \div total) * s) \div rest

LEMMA DividedAnew ==
    ASSUME NEW e \in Nat, NEW r \in Nat, NEW s \in Nat, NEW l \in Nat, NEW rest \in Nat,
           NEW total \in Nat, NEW u \in Nat,
           rest > 0, total = rest + l, u % (total * rest) = 0
    PROVE  InheritedIsExact(e, r, s, l, rest, total, u)
<1> DEFINE k == u \div (total * rest)
<1>1. total > 0 /\ total * rest \in Nat /\ total * rest > 0
  <2>1. total > 0
    OBVIOUS
  <2>2. total * 1 <= total * rest /\ total * rest \in Nat
    BY <2>1, MulMonotone, MulType
  <2> QED BY <2>1, <2>2
<1>2. k \in Nat /\ u = k * (total * rest)
  BY <1>1, DivExact
<1> HIDE DEF k
<1>3. u \div total = k * rest
  <2>1. u = total * (k * rest) /\ k * rest \in Nat
    BY <1>2, MulType
  <2> QED BY <1>1, <2>1, MulDiv
<1>4. u \div rest = k * total
  <2>1. u = rest * (k * total) /\ k * total \in Nat
    BY <1>2, MulType
  <2> QED BY <2>1, MulDiv
<1> DEFINE m == e * r * s
           n == e * r * l * k * s
<1>5. m \in Nat /\ n \in Nat
  BY <1>2, MulType
<1>6. (e * r * l * (k * rest) * s) \div rest = n
  <2>1. e * r * l * (k * rest) * s = rest * n
    BY <1>2
  <2> HIDE DEF n
  <2> QED BY <1>5, <2>1, MulDiv
<1>7. m * (k * total) = m * (k * rest) + m * (k * l)
  <2>1. k * total = k * rest + k * l /\ k * rest \in Nat /\ k * l \in Nat
    BY <1>2, MulType
  <2> HIDE DEF m
  <2> QED BY <1>5, <2>1, MulSplit
<1>8. m * (k * l) = n
  BY <1>2
<1>9. (e * r * l * (u \div total) * s) \div rest = n
  BY <1>3, <1>6
<1>10. m * (u \div rest) = m * (u \div total) + n
  BY <1>3, <1>4, <1>7, <1>8
<1>11. n \in Int
  BY <1>5
<1> HIDE DEF n
<1> QED BY <1>9, <1>10, <1>11 DEF InheritedIsExact

LEMMA TotalCovers == TypeOK /\ PrincipalSolvent => \A o \in Owners : StakeAt(o) <= pool.total_staked
<1> SUFFICES ASSUME TypeOK, PrincipalSolvent, NEW o \in Owners
             PROVE  StakeAt(o) <= pool.total_staked
  OBVIOUS
<1> QED BY StakeOfType DEF PrincipalSolvent, StakeAt

LEMMA TotalCoversNext ==
    (TypeOK /\ PrincipalSolvent)' => (\A o \in Owners : StakeAt(o) <= pool.total_staked)'
BY TotalCovers, PTL

(* An emergency withdrawal raises a stayer's part of the unsettled seconds *)
(* by exactly what is inherited.                                           *)
LEMMA LeaverLeaves ==
    ASSUME RewardInv, RewardInv', NEW p \in Owners, EmergencyWithdraw(p),
           NEW o \in Owners, o # p, NEW i \in Slots
    PROVE  /\ Inherited(o, i, p) \in Int
           /\ Redivided(o, i)' = Redivided(o, i) + Inherited(o, i, p)
<1> DEFINE e == SecondsUnsettled(i)
           r == rewards[i].reward_rate
           s == stakers[o].staked_amount
           l == stakers[p].staked_amount
           t == pool.total_staked
           rest == t - l
           S == OwedStored(o, i) * SharesPerUnit
<1>a. TypeOK /\ TypeOK' /\ Paid /\ PrincipalSolvent /\ PrincipalSolvent'
  BY DEF RewardInv, TableInv
<1>1. /\ rewards' = rewards /\ clock' = clock /\ stakers'[o] = stakers[o]
      /\ pool'.total_staked = SaturatingSub(t, l) /\ l > 0
  BY <1>a DEF EmergencyWithdraw, MayEmergencyWithdraw, TypeOK, PoolType
<1>2. /\ s \in Nat /\ l \in Nat /\ t \in Nat /\ r \in Nat /\ e \in Nat
      /\ SharesPerUnit \in Nat /\ S \in Int
  <2>1. rewards[i] \in RewardInfoType /\ clock \in Nat /\ t \in Nat
    BY <1>a, PoolNats
  <2>2. e \in Nat /\ r \in Nat
    BY <1>a, <2>1, SecondsAre, ElapsedType, SlotNats
  <2>3. OwedStored(o, i) \in Nat /\ SharesPerUnit \in Nat
    BY <1>a, OwedGap, ShareAssumption
  <2> QED BY <1>a, <2>1, <2>2, <2>3, NowNats, MulType DEF StakeAt
<1>3. l <= t /\ rest \in Nat /\ rest < t /\ pool'.total_staked = rest
  <2>1. l <= t
    BY <1>a, TotalCovers DEF StakeAt
  <2> HIDE DEF l, t
  <2> QED BY <1>1, <1>2, <2>1 DEF SaturatingSub
<1>4. t \in 1 .. StakeSupply /\ StakeSupply \in Nat
  <2>1. stake_vault \in Nat /\ stake_vault <= StakeSupply /\ StakeSupply \in Nat
    BY <1>a, PoolAssumption DEF TypeOK
  <2>2. t <= stake_vault
    BY <1>a DEF PrincipalSolvent
  <2> QED BY <1>1, <1>2, <1>3, <2>1, <2>2
<1>5. SecondsUnsettled(i)' = e /\ (OwedStored(o, i) * SharesPerUnit)' = S
  BY <1>1 DEF SecondsUnsettled, OwedStored
<1>6. Redivided(o, i) = S + e * r * s * (SharesPerUnit \div t)
  BY <1>1, <1>2, <1>3 DEF Redivided, Share
<1>7. CASE rest > 0
  <2>1. Redivided(o, i)' = S + e * r * s * (SharesPerUnit \div rest)
    BY <1>1, <1>3, <1>5, <1>7 DEF Redivided, Share
  <2>2. Inherited(o, i, p) = (e * r * l * (SharesPerUnit \div t) * s) \div rest
    BY <1>7 DEF Inherited, Share
  <2>3. rest \in 1 .. StakeSupply
    BY <1>3, <1>4, <1>7
  <2>4. SharesPerUnit % (t * rest) = 0
    BY <1>3, <1>4, <2>3, ShareAssumption
  <2>5. t = rest + l
    BY <1>2, <1>3
  <2>6. SharesPerUnit \div t \in Nat
    BY <1>2, <1>4, ShareAssumption, DivExact
  <2> DEFINE x == e * r * s * (SharesPerUnit \div t)
             y == (e * r * l * (SharesPerUnit \div t) * s) \div rest
  <2>7. y \in Int /\ e * r * s * (SharesPerUnit \div rest) = x + y
    <3>1. InheritedIsExact(e, r, s, l, rest, t, SharesPerUnit)
      <4> HIDE DEF e, r, s, l, t, rest, S, x, y
      <4> QED BY <1>2, <1>3, <1>7, <2>4, <2>5, DividedAnew
    <3> QED BY <3>1 DEF InheritedIsExact
  <2>8. x \in Int
    <3> HIDE DEF e, r, s, l, t, rest, S
    <3> QED BY <1>2, <2>6, MulType
  <2> HIDE DEF x, y, S
  <2> QED BY <1>2, <1>6, <2>1, <2>2, <2>7, <2>8 DEF x, y
<1>8. CASE rest = 0
  <2>1. s = 0
    <3>1. StakeAt(o)' <= pool'.total_staked
      BY <1>a, TotalCoversNext
    <3> QED BY <1>1, <1>2, <1>3, <1>8, <3>1 DEF StakeAt
  <2>2. Inherited(o, i, p) = 0 /\ Redivided(o, i)' = S + 0
    BY <1>1, <1>3, <1>5, <1>8 DEF Inherited, Redivided
  <2>3. e * r * s * (SharesPerUnit \div t) = 0
    <3>1. SharesPerUnit \div t \in Nat
      BY <1>2, <1>4, ShareAssumption, DivExact
    <3>2. e * r \in Nat BY <1>2, MulType
    <3>3. (e * r) * 0 = 0 /\ 0 * (SharesPerUnit \div t) = 0
      <4> HIDE DEF e, r, t
      <4> QED BY <3>1, <3>2
    <3> QED BY <2>1, <3>3
  <2> HIDE DEF S
  <2> QED BY <1>2, <1>6, <2>2, <2>3
<1> QED BY <1>2, <1>3, <1>7, <1>8

LEMMA EmergencyMove ==
    ASSUME RewardInv, RewardInv', FairInv, NEW p \in Owners, FairEmergency(p),
           NEW o \in Owners, NEW i \in Slots
    PROVE  FairMove(o, i)
<1>a. TypeOK /\ TypeOK' /\ Paid /\ PrincipalSolvent' /\ EmergencyWithdraw(p)
  BY DEF RewardInv, TableInv, FairEmergency
<1>b. /\ stakers'[p] = [created |-> TRUE, staked_amount |-> 0, entries |-> Forfeited]
      /\ o # p => stakers'[o] = stakers[o]
      /\ rewards' = rewards /\ clock' = clock
      /\ OwedNow(p, i)' = 0
  BY <1>a, EmergencyGrows
<1>c. /\ rewards[i] \in RewardInfoType /\ clock \in Nat /\ pool.total_staked \in Nat
      /\ SharesPerUnit \in Nat
  BY <1>a, PoolNats, ShareAssumption
<1>1. fair'[o][i] = IF o = p THEN 0 ELSE fair[o][i] + Inherited(o, i, p)
  BY DEF FairEmergency
<1>2. CASE o = p
  <2>1. fair'[o][i] = 0
    BY <1>1, <1>2
  <2>2. Redivided(o, i)' = 0
    <3> DEFINE q == rewards[i].reward_per_token_stored
               e == SecondsUnsettled(i)'
    <3>1. OwedStored(o, i)' = 0 * PRECISION + 0 * (q - q)
      BY <1>b, <1>2 DEF OwedStored, Forfeited
    <3>2. q \in Nat /\ PRECISION \in Nat /\ rewards[i].reward_rate \in Nat
      BY <1>c, <1>a, SlotNats, PoolNats
    <3>3. OwedStored(o, i)' * SharesPerUnit = 0
      BY <1>c, <3>1, <3>2
    <3>4. e \in Nat
      BY <1>b, <1>c, SlotNats DEF SecondsUnsettled, SaturatingSub, MinOf
    <3>5. CASE pool'.total_staked > 0
      <4>1. Share(o, i, SecondsUnsettled(i))'
              = e * rewards[i].reward_rate * 0 * PerToken'
        BY <1>b, <1>2 DEF Share, PerToken
      <4>2. PerToken' \in Int
        BY <1>a, <3>5, PerTokenIntNext
      <4> HIDE DEF e
      <4>3. e * rewards[i].reward_rate * 0 * PerToken' = 0
        BY <3>2, <3>4, <4>2
      <4> QED BY <3>3, <3>5, <4>1, <4>3 DEF Redivided
    <3>6. CASE ~(pool'.total_staked > 0)
      BY <3>3, <3>6 DEF Redivided
    <3> QED BY <3>5, <3>6
  <2>3. ShareMissing(o, i)' - ShareMissing(o, i) <= 0
    <3>1. fair'[o][i] \in Int
      BY <2>1
    <3>2. 0 * SharesPerUnit = 0
      BY <1>c
    <3> QED BY <1>b, <1>2, <2>1, <3>1, <3>2, MissingIs
  <2> QED BY <2>1, <2>2, <2>3 DEF FairMove, FairKept, RoundingOnly
<1>3. CASE o # p
  <2>1. fair'[o][i] = fair[o][i] + Inherited(o, i, p)
    BY <1>1, <1>3
  <2>2. /\ Inherited(o, i, p) \in Int
        /\ Redivided(o, i)' = Redivided(o, i) + Inherited(o, i, p)
    BY <1>a, <1>3, LeaverLeaves
  <2>3. /\ Redivided(o, i) \in Int /\ Redivided(o, i)' \in Int
        /\ fair[o][i] \in Int /\ fair[o][i] >= Redivided(o, i)
        /\ OwedNow(o, i) * SharesPerUnit <= Redivided(o, i)
        /\ \/ Redivided(o, i)' - OwedNow(o, i)' * SharesPerUnit <= 0
           \/ Redivided(o, i)' - OwedNow(o, i)' * SharesPerUnit
                < StakeAt(o)' * SharesPerUnit
    BY ShareBoundsHold, ShareBoundsNext DEF ShareBounds, FairInv
  <2>4. FairKept(o, i)
    BY <2>1, <2>2, <2>3 DEF FairKept
  <2>5. StakeAt(o)' = stakers[o].staked_amount /\ stakers[o].staked_amount \in Nat
    BY <1>a, <1>b, <1>3, NowNats DEF StakeAt
  <2>6. ShareMissing(o, i)' - ShareMissing(o, i) <= 0
        \/ ShareMissing(o, i)' - ShareMissing(o, i) < stakers[o].staked_amount * SharesPerUnit
    <3> DEFINE z == stakers[o].staked_amount * SharesPerUnit
               w == OwedNow(o, i) * SharesPerUnit
               x == OwedNow(o, i)' * SharesPerUnit
    <3>1. z \in Nat
      BY <1>c, <2>5, MulType
    <3>2. /\ ShareMissing(o, i) = fair[o][i] - w /\ w \in Nat
          /\ ShareMissing(o, i)' = fair'[o][i] - x /\ x \in Nat
      BY <2>1, <2>2, <2>3, MissingIs
    <3>3. Redivided(o, i)' - x <= 0 \/ Redivided(o, i)' - x < z
      BY <2>3, <2>5
    <3>4. w <= Redivided(o, i)
      BY <2>3
    <3> HIDE DEF z, w, x
    <3>5. ShareMissing(o, i)' - ShareMissing(o, i)
            = (Redivided(o, i)' - x) - (Redivided(o, i) - w)
      BY <2>1, <2>2, <2>3, <3>2
    <3>6. \/ ShareMissing(o, i)' - ShareMissing(o, i) <= 0
          \/ ShareMissing(o, i)' - ShareMissing(o, i) < z
      BY <2>3, <3>1, <3>2, <3>3, <3>4, <3>5
    <3> QED BY <3>6 DEF z
  <2> QED BY <1>3, <1>a, <2>4, <2>6 DEF FairMove, RoundingOnly
<1> QED BY <1>2, <1>3

LEMMA QuietMove ==
    ASSUME RewardInv, RewardInv', FairInv, Donation \/ UNCHANGED vars, fair' = fair,
           NEW o \in Owners, NEW i \in Slots
    PROVE  FairMove(o, i)
<1>a. TypeOK
  BY DEF RewardInv, TableInv
<1>1. /\ clock' = clock /\ stakers' = stakers /\ rewards' = rewards /\ pool' = pool
      /\ OwedNow(o, i)' = OwedNow(o, i)
  BY <1>a, DonationQuiet DEF SameFor
<1>2. Redivided(o, i)' = Redivided(o, i)
  BY <1>1, QuietShare
<1> QED BY <1>1, <1>2, Covers, SameMissing DEF FairMove, FairKept

LEMMA StepFair ==
    ASSUME RewardInv, FairInv, [FairNext]_fairVars
    PROVE  /\ FairInv'
           /\ \A o \in Owners, i \in Slots : Registered(i) => RoundingOnly(o, i)
<1>a. RewardInv'
  BY FairIsNext, StepRewardInv
<1>b. fair \in [Owners -> [Slots -> Int]]
  BY DEF FairInv
<1>1. \A o \in Owners, i \in Slots : FairMove(o, i)
  <2> SUFFICES ASSUME NEW o \in Owners, NEW i \in Slots PROVE FairMove(o, i)
    OBVIOUS
  <2>1. CASE FairTick
    BY <1>a, <2>1, TickMove
  <2>2. ASSUME NEW p \in Owners, NEW S \in SUBSET Mints, FairClaim(p, S) PROVE FairMove(o, i)
    BY <1>a, <2>2, ClaimMove
  <2>3. ASSUME NEW p \in Owners, FairEmergency(p) PROVE FairMove(o, i)
    BY <1>a, <2>3, EmergencyMove
  <2>4. CASE FairOther
    <3>1. ASSUME NEW k \in Keys, AdminStep(k) PROVE FairMove(o, i)
      BY <1>a, <2>4, <3>1, AdminMove DEF FairOther
    <3>2. ASSUME NEW k \in Keys, KeeperStep(k) PROVE FairMove(o, i)
      BY <1>a, <2>4, <3>2, KeeperMove DEF FairOther
    <3>3. ASSUME NEW p \in Owners, NEW a \in StakeAmounts, Stake(p, a) \/ Unstake(p, a)
          PROVE  FairMove(o, i)
      BY <1>a, <2>4, <3>3, StakeMove DEF FairOther
    <3>4. CASE Donation
      BY <1>a, <2>4, <3>4, QuietMove DEF FairOther
    <3> QED BY <2>4, <3>1, <3>2, <3>3, <3>4 DEF FairOther
  <2>5. CASE UNCHANGED fairVars
    BY <1>a, <2>5, QuietMove DEF fairVars
  <2> QED BY <2>1, <2>2, <2>3, <2>4, <2>5 DEF FairNext
<1>2. \A o \in Owners, i \in Slots : fair'[o][i] \in Int /\ fair'[o][i] >= Redivided(o, i)'
  BY <1>1 DEF FairMove, FairKept
<1>3. fair' = [o \in Owners |-> [i \in Slots |-> fair'[o][i]]]
  <2> DEFINE Shaped == fair' = [o \in Owners |-> [i \in Slots |-> fair'[o][i]]]
  <2>1. ASSUME fair' = fair PROVE Shaped
    BY <1>b, <2>1
  <2>2. ASSUME FairTick PROVE Shaped
    BY <2>2 DEF FairTick
  <2>3. ASSUME NEW p \in Owners, NEW S \in SUBSET Mints, FairClaim(p, S) PROVE Shaped
    BY <1>b, <2>3 DEF FairClaim
  <2>4. ASSUME NEW p \in Owners, FairEmergency(p) PROVE Shaped
    BY <2>4 DEF FairEmergency
  <2> QED BY <2>1, <2>2, <2>3, <2>4 DEF FairNext, FairOther, fairVars
<1>4. fair' \in [Owners -> [Slots -> Int]]
  BY <1>2, <1>3
<1> QED BY <1>1, <1>2, <1>4 DEF FairInv, FairMove

-----------------------------------------------------------------------------
(* The theorems. *)

LEMMA InitFair == FairInit => RewardInv /\ FairInv
<1> SUFFICES ASSUME FairInit PROVE RewardInv /\ FairInv
  OBVIOUS
<1>1. RewardInv
  BY InitRewardInv DEF FairInit
<1>2. \A i \in Slots : Blank(i)
  BY DEF FairInit, Init, Blank, EmptySlot, NoStaker
<1>3. \A o \in Owners, i \in Slots : fair[o][i] = 0 /\ Redivided(o, i) = 0
  BY <1>1, <1>2, BlankSlotsHold DEF BlankSlots, FairInit
<1> QED BY <1>1, <1>3 DEF FairInv, FairInit

LEMMA FairInvariant == FairSpec => [](RewardInv /\ FairInv)
<1>1. (RewardInv /\ FairInv) /\ [FairNext]_fairVars => (RewardInv /\ FairInv)'
  BY FairIsNext, StepRewardInv, StepFair
<1> QED BY <1>1, InitFair, PTL DEF FairSpec

(* Nobody is ever owed more than the exact pro-rata share, second by       *)
(* second, of the rates while they staked, and of what the others left of  *)
(* unsettled seconds by emergency_withdraw, however calls interleave.      *)
THEOREM NobodyAboveShare == FairSpec => []NeverAboveShare
<1>1. RewardInv /\ FairInv => NeverAboveShare
  BY Covers DEF NeverAboveShare
<1> QED BY <1>1, FairInvariant, PTL

(* A step widens the distance to the exact share by less than the rounding *)
(* of one division: of the reward-per-token, or of the owner's own tokens. *)
THEOREM ShortByRoundingOnly == FairSpec => ShortByRounding
<1> DEFINE Short ==
      \A o \in Owners, i \in Slots : Registered(i) =>
          LET more == ShareMissing(o, i)' - ShareMissing(o, i)
          IN  \/ more <= 0
              \/ /\ clock' # clock \/ \E p \in Owners \ {o} : EmergencyWithdraw(p)
                 /\ more < stakers[o].staked_amount * SharesPerUnit
              \/ stakers'[o] # stakers[o] /\ more < PRECISION * SharesPerUnit
<1>1. (RewardInv /\ FairInv) /\ [FairNext]_fairVars => [Short]_fairVars
  BY StepFair DEF RoundingOnly
<1> QED BY <1>1, FairInvariant, PTL DEF FairSpec, ShortByRounding

=============================================================================
