-------------------------- MODULE RewardMathProofs --------------------------
(***************************************************************************)
(* What RewardMath says of math.rs, for arguments and widths of any size.  *)
(* The comparisons of one call with two rest on one fact about division:   *)
(* the quotients of two parts add up to the quotient of the whole, or to   *)
(* one less.  The way of a deposit to the claim is three divisions in a    *)
(* row, each of what the one before has left undivided.                    *)
(***************************************************************************)
EXTENDS RewardMath, TLAPS

LEMMA ProductNat ==
    ASSUME NEW a \in Nat, NEW b \in Nat
    PROVE  a * b \in Nat
OBVIOUS

LEMMA ProductDistributes ==
    ASSUME NEW a \in Int, NEW b \in Int, NEW c \in Int
    PROVE  /\ (a + b) * c = a * c + b * c
           /\ c * (a + b) = c * a + c * b
OBVIOUS

LEMMA DivisionBounds ==
    ASSUME NEW a \in Nat, NEW c \in Nat, c > 0
    PROVE  /\ a \div c \in Nat
           /\ c * (a \div c) <= a
           /\ a < c * (a \div c) + c
OBVIOUS

LEMMA FactorCancels ==
    ASSUME NEW c \in Nat, NEW u \in Int, NEW v \in Int, c > 0, c * u < c * v
    PROVE  u < v
<1>1. SUFFICES ASSUME u >= v PROVE FALSE
  OBVIOUS
<1>2. c * u = c * v + c * (u - v)
  BY ProductDistributes
<1>3. c * (u - v) \in Nat
  BY <1>1, ProductNat
<1>4. c * u \in Int /\ c * v \in Int
  OBVIOUS
<1> QED BY <1>2, <1>3, <1>4

LEMMA QuotientUnique ==
    ASSUME NEW a \in Nat, NEW c \in Nat, c > 0, NEW q \in Int,
           c * q <= a, a < c * q + c
    PROVE  a \div c = q
<1> DEFINE w == a \div c
<1>1. w \in Nat /\ c * w <= a /\ a < c * w + c
  BY DivisionBounds
<1> HIDE DEF w
<1>2. c * (q + 1) = c * q + c /\ c * (w + 1) = c * w + c
  BY <1>1
<1>3. c * q \in Int /\ c * w \in Int
  BY <1>1
<1>4. c * q < c * (w + 1) /\ c * w < c * (q + 1)
  BY <1>1, <1>2, <1>3
<1>5. q < w + 1 /\ w < q + 1
  BY <1>1, <1>4, FactorCancels
<1>6. w = q
  BY <1>1, <1>5
<1> QED BY <1>6 DEF w

LEMMA QuotientOfSum ==
    ASSUME NEW a \in Nat, NEW b \in Nat, NEW c \in Nat, c > 0
    PROVE  /\ a \div c \in Nat /\ b \div c \in Nat /\ (a + b) \div c \in Nat
           /\ LosesAtMostOne((a \div c) + (b \div c), (a + b) \div c)
<1> DEFINE x == a \div c
           y == b \div c
           w == (a + b) \div c
<1>1. x \in Nat /\ c * x <= a /\ a < c * x + c
  BY DivisionBounds
<1>2. y \in Nat /\ c * y <= b /\ b < c * y + c
  BY DivisionBounds
<1>3. w \in Nat /\ c * w <= a + b /\ a + b < c * w + c
  <2>1. a + b \in Nat OBVIOUS
  <2> QED BY <2>1, DivisionBounds
<1> HIDE DEF x, y, w
<1>4. /\ c * (x + y) = c * x + c * y
      /\ c * (w + 1) = c * w + c
      /\ c * (x + y + 2) = c * x + c * y + c + c
  BY <1>1, <1>2, <1>3
<1>5. c * x \in Int /\ c * y \in Int /\ c * w \in Int
  BY <1>1, <1>2, <1>3
<1>6. c * (x + y) < c * (w + 1)
  BY <1>1, <1>2, <1>3, <1>4, <1>5
<1>7. c * w < c * (x + y + 2)
  BY <1>1, <1>2, <1>3, <1>4, <1>5
<1>8. x + y < w + 1 /\ w < x + y + 2
  BY <1>1, <1>2, <1>3, <1>6, <1>7, FactorCancels
<1>9. x + y <= w /\ w <= x + y + 1
  BY <1>1, <1>2, <1>3, <1>8
<1> QED BY <1>1, <1>2, <1>3, <1>9 DEF LosesAtMostOne, x, y, w

LEMMA QuotientOfMultiple ==
    ASSUME NEW a \in Nat, NEW k \in Nat, NEW c \in Nat, c > 0
    PROVE  (a + c * k) \div c = (a \div c) + k
<1> DEFINE x == a \div c
<1>1. x \in Nat /\ c * x <= a /\ a < c * x + c
  BY DivisionBounds
<1> HIDE DEF x
<1>2. c * k \in Nat /\ c * x \in Int
  BY <1>1, ProductNat
<1>3. c * (x + k) = c * x + c * k
  BY <1>1, ProductDistributes
<1>4. (a + c * k) \div c = x + k
  BY <1>1, <1>2, <1>3, QuotientUnique
<1> QED BY <1>4 DEF x

-----------------------------------------------------------------------------

(* Two settlements of a slot against one. *)
LEMMA AccrualSplitsAlways ==
    ASSUME NEW rpt \in Nat, NEW s1 \in Nat, NEW s2 \in Nat, NEW rate \in Nat,
           NEW total \in Nat
    PROVE  AccrualSplits(rpt, s1, s2, rate, total)
<1> DEFINE d1 == (s1 * rate) \div total
           d2 == (s2 * rate) \div total
           d == ((s1 + s2) * rate) \div total
<1>1. CASE total = 0 \/ s1 + s2 = 0
  BY <1>1 DEF AccrualSplits, AccrueRpt, AccrueRptOk, LosesAtMostOne
<1>2. CASE total > 0 /\ s1 = 0 /\ s2 > 0
  <2>1. AccrueRpt(rpt, s1, rate, total) = rpt /\ s1 + s2 = s2
    BY <1>2 DEF AccrueRpt
  <2>2. s2 * rate \in Nat /\ d2 \in Nat
    BY <1>2, ProductNat, DivisionBounds
  <2>3. AccrueRpt(rpt, s2, rate, total) \in Nat
    BY <1>2, <2>2 DEF AccrueRpt
  <2> QED BY <1>2, <2>1, <2>3 DEF AccrualSplits, AccrueRptOk, LosesAtMostOne
<1>3. CASE total > 0 /\ s1 > 0 /\ s2 = 0
  <2>1. /\ AccrueRpt(AccrueRpt(rpt, s1, rate, total), s2, rate, total)
             = AccrueRpt(rpt, s1, rate, total)
        /\ s1 + s2 = s1
    BY <1>3 DEF AccrueRpt
  <2>2. s1 * rate \in Nat /\ d1 \in Nat
    BY <1>3, ProductNat, DivisionBounds
  <2>3. AccrueRpt(rpt, s1, rate, total) \in Nat
    BY <1>3, <2>2 DEF AccrueRpt
  <2> QED BY <1>3, <2>1, <2>3 DEF AccrualSplits, AccrueRptOk, LosesAtMostOne
<1>4. CASE total > 0 /\ s1 > 0 /\ s2 > 0
  <2>1. s1 * rate \in Nat /\ s2 * rate \in Nat /\ (s1 + s2) * rate = s1 * rate + s2 * rate
    BY ProductNat, ProductDistributes
  <2>2. d1 \in Nat /\ d2 \in Nat /\ d \in Nat /\ LosesAtMostOne(d1 + d2, d)
    BY <1>4, <2>1, QuotientOfSum
  <2>3. /\ AccrueRpt(rpt, s1, rate, total) = rpt + d1
        /\ AccrueRpt(rpt + d1, s2, rate, total) = rpt + d1 + d2
        /\ AccrueRpt(rpt, s1 + s2, rate, total) = rpt + d
    BY <1>4 DEF AccrueRpt
  <2> HIDE DEF d1, d2, d
  <2>4. ASSUME AccrueRptOk(rpt, s1 + s2, rate, total)
        PROVE  /\ AccrueRptOk(rpt, s1, rate, total)
               /\ AccrueRptOk(rpt + d1, s2, rate, total)
    <3>1. s1 * rate + s2 * rate <= U128Max /\ rpt + d <= U128Max
      BY <1>4, <2>1, <2>3, <2>4 DEF AccrueRptOk
    <3>2. s1 * rate <= U128Max /\ s2 * rate <= U128Max
      BY <2>1, <3>1, WidthAssumption
    <3>3. rpt + d1 <= U128Max /\ rpt + d1 + d2 <= U128Max
      BY <2>2, <3>1, WidthAssumption DEF LosesAtMostOne
    <3> QED BY <2>3, <3>2, <3>3 DEF AccrueRptOk
  <2>5. LosesAtMostOne(rpt + d1 + d2, rpt + d)
    BY <2>2 DEF LosesAtMostOne
  <2> QED BY <2>3, <2>4, <2>5 DEF AccrualSplits
<1> QED BY <1>1, <1>2, <1>3, <1>4

(* Two checkpoints of a staker against one. *)
LEMMA CheckpointSplitsAlways ==
    ASSUME NEW staked \in Nat, NEW paid \in Nat, NEW g1 \in Nat, NEW g2 \in Nat,
           NEW accrued \in Nat
    PROVE  CheckpointSplits(staked, paid, g1, g2, accrued)
<1> DEFINE q1 == (staked * g1) \div PRECISION
           q2 == (staked * g2) \div PRECISION
           q == (staked * (g1 + g2)) \div PRECISION
<1>1. /\ staked * g1 \in Nat /\ staked * g2 \in Nat
      /\ staked * (g1 + g2) = staked * g1 + staked * g2
  BY ProductNat, ProductDistributes
<1>2. q1 \in Nat /\ q2 \in Nat /\ q \in Nat /\ LosesAtMostOne(q1 + q2, q)
  <2>1. PRECISION \in Nat /\ PRECISION > 0
    BY WidthAssumption
  <2> QED BY <1>1, <2>1, QuotientOfSum
<1>3. /\ (paid + g1) - paid = g1 /\ (paid + g1 + g2) - (paid + g1) = g2
      /\ (paid + g1 + g2) - paid = g1 + g2
  OBVIOUS
<1>4. /\ Earned(staked, paid + g1, paid, accrued) = accrued + q1
      /\ Earned(staked, paid + g1 + g2, paid + g1, accrued + q1) = accrued + q1 + q2
      /\ Earned(staked, paid + g1 + g2, paid, accrued) = accrued + q
  BY <1>3 DEF Earned
<1> HIDE DEF q1, q2, q
<1>5. ASSUME EarnedOk(staked, paid + g1 + g2, paid, accrued)
      PROVE  /\ EarnedOk(staked, paid + g1, paid, accrued)
             /\ EarnedOk(staked, paid + g1 + g2, paid + g1, accrued + q1)
  <2>1. staked * g1 + staked * g2 <= U128Max /\ accrued + q <= U64Max
    BY <1>1, <1>3, <1>4, <1>5 DEF EarnedOk
  <2>2. staked * g1 <= U128Max /\ staked * g2 <= U128Max
    BY <1>1, <2>1, WidthAssumption
  <2>3. accrued + q1 <= U64Max /\ accrued + q1 + q2 <= U64Max
    BY <1>2, <2>1, WidthAssumption DEF LosesAtMostOne
  <2>4. paid <= paid + g1 /\ paid + g1 <= paid + g1 + g2
    OBVIOUS
  <2> QED BY <1>3, <1>4, <2>2, <2>3, <2>4 DEF EarnedOk
<1>6. LosesAtMostOne(accrued + q1 + q2, accrued + q)
  BY <1>2 DEF LosesAtMostOne
<1> QED BY <1>4, <1>5, <1>6 DEF CheckpointSplits

(* Two deposits within a second against one.  The second finds a whole     *)
(* period left at the rate the first has set, so that its leftover divides *)
(* without a remainder.                                                    *)
LEMMA DepositSplitsAlways ==
    ASSUME NEW a1 \in Nat, NEW a2 \in Nat, NEW rate \in Nat, NEW now \in Nat,
           NEW finish \in Nat, NEW duration \in Nat
    PROVE  DepositSplits(a1, a2, rate, now, finish, duration)
<1> DEFINE left == Leftover(rate, now, finish)
           between == NotifyRate(a1, rate, now, finish, duration)
           n1 == a1 * PRECISION + left
           n2 == a2 * PRECISION
<1> SUFFICES ASSUME NotifyRateOk(a1 + a2, rate, now, finish, duration)
             PROVE  /\ NotifyRateOk(a1, rate, now, finish, duration)
                    /\ NotifyRateOk(a2, between, now, now + duration, duration)
                    /\ LosesAtMostOne(
                         NotifyRate(a2, between, now, now + duration, duration),
                         NotifyRate(a1 + a2, rate, now, finish, duration))
  BY DEF DepositSplits
<1>1. duration > 0 /\ PRECISION \in Nat
  BY WidthAssumption DEF NotifyRateOk
<1>2. left \in Nat
  <2>1. CASE now < finish
    <3>1. finish - now \in Nat BY <2>1
    <3> QED BY <2>1, <3>1, ProductNat DEF Leftover
  <2>2. CASE ~(now < finish) BY <2>2 DEF Leftover
  <2> QED BY <2>1, <2>2
<1>3. /\ a1 * PRECISION \in Nat /\ n2 \in Nat
      /\ (a1 + a2) * PRECISION = a1 * PRECISION + n2
  BY <1>1, ProductNat, ProductDistributes
<1>4. n1 \in Nat /\ (a1 + a2) * PRECISION + left = n1 + n2
  <2> HIDE DEF left
  <2> QED BY <1>2, <1>3
<1>5. between = n1 \div duration
  BY DEF NotifyRate
<1>6. NotifyRate(a1 + a2, rate, now, finish, duration) = (n1 + n2) \div duration
  BY <1>4 DEF NotifyRate
<1>7. n1 + n2 <= U128Max
  BY <1>4 DEF NotifyRateOk
<1>8. n1 <= U128Max /\ NotifyRateOk(a1, rate, now, finish, duration)
  <2>1. n1 <= U128Max
    <3> HIDE DEF n1, n2
    <3> QED BY <1>3, <1>4, <1>7, WidthAssumption
  <2> QED BY <1>1, <2>1 DEF NotifyRateOk
<1> HIDE DEF left, between, n1, n2
<1>9. /\ between \in Nat /\ duration * between <= n1
      /\ n2 \div duration \in Nat /\ (n1 + n2) \div duration \in Nat
      /\ LosesAtMostOne(between + (n2 \div duration), (n1 + n2) \div duration)
  BY <1>1, <1>3, <1>4, <1>5, DivisionBounds, QuotientOfSum
<1>10. Leftover(between, now, now + duration) = duration * between
  BY <1>1, <1>9 DEF Leftover
<1>11. duration * between \in Nat
  BY <1>9, ProductNat
<1>12. NotifyRateOk(a2, between, now, now + duration, duration)
  <2>1. n2 + duration * between <= U128Max
    BY <1>3, <1>4, <1>7, <1>9, <1>11, WidthAssumption
  <2> QED BY <1>1, <1>10, <2>1 DEF NotifyRateOk, n2
<1>13. NotifyRate(a2, between, now, now + duration, duration)
         = (n2 \div duration) + between
  <2>1. (n2 + duration * between) \div duration = (n2 \div duration) + between
    BY <1>1, <1>3, <1>9, QuotientOfMultiple
  <2> QED BY <1>10, <2>1 DEF NotifyRate, n2
<1>14. (n2 \div duration) + between = between + (n2 \div duration)
  BY <1>9
<1> QED BY <1>6, <1>8, <1>9, <1>12, <1>13, <1>14

(* A deposit, its stream and its claim: n scaled tokens are promised, d * r*)
(* of them streamed, t * g credited and P * q paid.                        *)
LEMMA DepositPaysAlways ==
    ASSUME NEW amount \in Nat, NEW rate \in Nat, NEW now \in Nat,
           NEW finish \in Nat, NEW duration \in Nat, NEW total \in Nat
    PROVE  DepositPays(amount, rate, now, finish, duration, total)
<1> DEFINE n == amount * PRECISION + Leftover(rate, now, finish)
           r == NotifyRate(amount, rate, now, finish, duration)
           g == AccrueRpt(0, duration, r, total)
           q == Earned(total, g, 0, 0)
<1> SUFFICES ASSUME NotifyRateOk(amount, rate, now, finish, duration), total > 0
             PROVE  /\ AccrueRptOk(0, duration, r, total)
                    /\ n <= U64Max * PRECISION => EarnedOk(total, g, 0, 0)
                    /\ q * PRECISION <= n
                    /\ n - q * PRECISION
                         <= (duration - 1) + (total - 1) + (PRECISION - 1)
  <2>1. rate * SaturatingSub(finish, now) = Leftover(rate, now, finish)
    <3>1. CASE now < finish
      BY <3>1 DEF SaturatingSub, Leftover
    <3>2. CASE now >= finish
      <4>1. rate * 0 = 0 /\ finish - now \in Int OBVIOUS
      <4> QED BY <3>2, <4>1 DEF SaturatingSub, Leftover
    <3> QED BY <3>1, <3>2
  <2> QED BY <2>1 DEF DepositPays
<1>1. duration > 0 /\ PRECISION \in Nat /\ PRECISION > 0 /\ U64Max \in Nat /\ U128Max \in Nat
  BY WidthAssumption DEF NotifyRateOk
<1>2. n \in Nat /\ n <= U128Max
  <2>1. Leftover(rate, now, finish) \in Nat
    <3>1. CASE now < finish
      <4>1. finish - now \in Nat BY <3>1
      <4> QED BY <3>1, <4>1, ProductNat DEF Leftover
    <3>2. CASE ~(now < finish) BY <3>2 DEF Leftover
    <3> QED BY <3>1, <3>2
  <2>2. amount * PRECISION \in Nat
    BY <1>1, ProductNat
  <2> QED BY <2>1, <2>2 DEF NotifyRateOk
<1>3. r \in Nat /\ duration * r <= n /\ n < duration * r + duration
  <2>1. r = n \div duration
    BY DEF NotifyRate
  <2> HIDE DEF n, r
  <2> QED BY <1>1, <1>2, <2>1, DivisionBounds
<1> HIDE DEF n, r
<1>4. duration * r \in Nat
  BY <1>3, ProductNat
<1>5. g \in Nat /\ total * g <= duration * r /\ duration * r < total * g + total
  <2>1. (duration * r) \div total \in Nat
    BY <1>4, DivisionBounds
  <2>2. g = (duration * r) \div total
    BY <1>1, <2>1 DEF AccrueRpt
  <2> HIDE DEF g
  <2> QED BY <1>4, <2>2, DivisionBounds
<1>6. total * g \in Nat /\ g <= total * g
  <2> HIDE DEF g
  <2>1. total - 1 \in Nat /\ total * g = g + (total - 1) * g
    BY <1>5
  <2>2. (total - 1) * g \in Nat
    BY <1>5, <2>1, ProductNat
  <2> QED BY <1>5, <2>1, <2>2
<1>7. AccrueRptOk(0, duration, r, total)
  <2>1. g <= U128Max /\ duration * r <= U128Max
    BY <1>1, <1>2, <1>3, <1>4, <1>5, <1>6
  <2> QED BY <2>1 DEF AccrueRptOk
<1> HIDE DEF g
<1>8. q \in Nat /\ PRECISION * q <= total * g /\ total * g < PRECISION * q + PRECISION
  <2>1. g - 0 = g /\ (total * g) \div PRECISION \in Nat
    BY <1>1, <1>5, <1>6, DivisionBounds
  <2>2. q = (total * g) \div PRECISION
    BY <2>1 DEF Earned
  <2> HIDE DEF q
  <2> QED BY <1>1, <1>6, <2>2, DivisionBounds
<1>9. ASSUME n <= U64Max * PRECISION PROVE EarnedOk(total, g, 0, 0)
  <2>1. total * (g - 0) <= U128Max /\ 0 <= g
    <3>1. g - 0 = g BY <1>5
    <3> QED BY <1>1, <1>2, <1>3, <1>4, <1>5, <1>6, <3>1
  <2>2. q <= U64Max
    <3> HIDE DEF q
    <3>1. PRECISION * q \in Nat /\ U64Max * PRECISION = PRECISION * U64Max
      BY <1>1, <1>8, ProductNat
    <3>2. PRECISION * (U64Max + 1) = PRECISION * U64Max + PRECISION
      BY <1>1
    <3>3. PRECISION * U64Max \in Nat
      BY <1>1, ProductNat
    <3>4. PRECISION * q < PRECISION * (U64Max + 1)
      BY <1>1, <1>2, <1>3, <1>4, <1>5, <1>6, <1>8, <1>9, <3>1, <3>2, <3>3
    <3>5. q < U64Max + 1
      BY <1>1, <1>8, <3>4, FactorCancels
    <3> QED BY <1>1, <1>8, <3>5
  <2> QED BY <2>1, <2>2 DEF EarnedOk
<1> HIDE DEF q
<1>10. PRECISION * q \in Nat /\ q * PRECISION = PRECISION * q
  BY <1>1, <1>8, ProductNat
<1>11. /\ q * PRECISION <= n
       /\ n - q * PRECISION <= (duration - 1) + (total - 1) + (PRECISION - 1)
  BY <1>1, <1>2, <1>3, <1>4, <1>5, <1>6, <1>8, <1>10
<1> QED BY <1>7, <1>9, <1>11

-----------------------------------------------------------------------------

LEMMA InputsAreNaturals == MathSpec => [](input \in [Inputs -> Nat])
<1>1. MathInit => input \in [Inputs -> Nat]
  BY DEF MathInit
<1>2. input \in [Inputs -> Nat] /\ [MathNext]_input => (input \in [Inputs -> Nat])'
  BY DEF MathNext
<1> QED BY <1>1, <1>2, PTL DEF MathSpec

(* Settling a slot twice instead of once, with any number of seconds, any  *)
(* rate and any stake: no gain, at most one unit lost, no overflow that    *)
(* one settlement would not have (accrue_rpt, math.rs).                    *)
THEOREM SettlingTwiceIsFair == MathSpec => []SplitAccrual
<1>1. input \in [Inputs -> Nat] => SplitAccrual
  BY AccrualSplitsAlways DEF SplitAccrual, Inputs
<1> QED BY <1>1, InputsAreNaturals, PTL

(* Two checkpoints of a staker instead of one: no gain, at most one        *)
(* token lost, no sooner overflow (earned, math.rs).                       *)
THEOREM CheckpointingTwiceIsFair == MathSpec => []SplitCheckpoint
<1>1. input \in [Inputs -> Nat] => SplitCheckpoint
  BY CheckpointSplitsAlways DEF SplitCheckpoint, Inputs
<1> QED BY <1>1, InputsAreNaturals, PTL

(* Two deposits within a second instead of one: no gain, a rate at most    *)
(* one unit lower, no sooner overflow (notify_rate, math.rs).              *)
THEOREM DepositingTwiceIsFair == MathSpec => []SplitDeposit
<1>1. input \in [Inputs -> Nat] => SplitDeposit
  BY DepositSplitsAlways DEF SplitDeposit, Inputs
<1> QED BY <1>1, InputsAreNaturals, PTL

(* What a deposit promises, with the rest of the old period, comes out     *)
(* again at the claim of who stakes the whole total: never more, less only *)
(* by the remainders of three divisions, and without an overflow           *)
(* (notify_rate, accrue_rpt, earned, math.rs).                             *)
THEOREM DepositsStreamOut == MathSpec => []DepositStreamsOut
<1>1. input \in [Inputs -> Nat] => DepositStreamsOut
  BY DepositPaysAlways DEF DepositStreamsOut, Inputs
<1> QED BY <1>1, InputsAreNaturals, PTL

=============================================================================
