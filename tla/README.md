# mm-staking in TLA+

A model of the on-chain staking program of this repository
(`programs/mm-staking`), model-checked with TLC on small instances and proved
about with TLAPS. It says what the program promises its stakers (principal comes
back, rewards are covered, nobody's earnings are taken) and shows where the code
keeps the promise, and where the documentation promises more than the code does.

## The system

One **pool** per stake mint. Owners deposit the stake mint, a keeper streams up to
eight reward mints to them, pro-rata over time, in the Synthetix `StakingRewards`
style: each reward slot keeps a rate, the end of its period and a running
reward-per-token; each staker keeps, per slot, the reward-per-token already paid
and the tokens accrued.

| part | state | operations | source |
| --- | --- | --- | --- |
| pure math | none | `accrue_rpt`, `earned`, `notify_rate` (and `compute_reward_rate`, which nothing calls) | `math.rs` |
| settlement | none of its own | `settle_slot`, `update_reward`, `find_slot` | `update.rs` |
| accounts | `Pool` with 8 `RewardInfo`, `StakerAccount` with 8 `RewardEntry` | layout | `state.rs`, `constants.rs` |
| admin | admin, keeper, paused, durations, slot table | `initialize_pool`, `add_reward`, `set_reward_active`, `set_duration`, `set_paused`, `set_keeper_authority`, `set_admin` | `logic.rs`, `instructions/{initialize_pool,add_reward,admin}.rs` |
| keeper | rate and period of a slot, reward vault | `deposit_rewards` | `logic.rs`, `instructions/deposit_rewards.rs` |
| owners | stake, entries, both kinds of vault | `stake`, `unstake`, `claim`, `emergency_withdraw` | `logic.rs`, `instructions/{stake,claim,emergency_withdraw}.rs` |
| dispatch, errors | none | one entry point per instruction | `lib.rs`, `errors.rs` |
| outside | token balances, the clock | SPL transfers, `Clock::unix_timestamp` | used, not contained |

How they interact. A handler checks its accounts, calls one function of `logic.rs`
on the pool and one staker, and moves tokens by a call into the token program
(`deposit_rewards` moves them first and credits what the vault gained). `stake`,
`unstake`, `claim` and `deposit_rewards` first call `update_reward`, which settles
**every** registered slot at the present time and then checkpoints the caller's
entries against the slots. `emergency_withdraw` deliberately does not. Staker and
slot meet by index only.

What is hard here:

- *Order inside an instruction*: settle before the stake changes, settle before the
  rate changes.
- *Order between instructions*: any interleaving of owners, keeper, admin, time and
  direct transfers into a vault, with settlements happening only when somebody calls.
- *Duplicated bookkeeping*: `total_staked` beside the stakers' own amounts and beside
  the vault; a slot beside an entry that may be older than the slot's mint.
- *Partial failure*: one slot whose arithmetic overflows fails the settlement of all.
- *Rounding and limits*: three divisions in a row, and fixed-width integers.
- *Idle time*: with no stake the period is extended, but only if somebody settles
  before it ends.

- *A loop over the caller's list*: `claim` takes the vaults and token accounts it pays from
  the transaction, with repetitions and strangers' accounts among them.
- *A borrowed clock*: `Clock::unix_timestamp` is taken as it comes.

There is no concurrency inside a transaction, nothing is lost or delivered twice (the
runtime runs transactions that write the same pool in sequence, each completely or not
at all), and nothing has to be recovered after a crash.

What makes each part correct:

- *math*: no operation leaves its integer type unnoticed; every rounding is down.
- *settlement*: it neither takes from an owner nor pays for time that is not there, and
  it never fails in a healthy pool.
- *admin*: the slot table stays injective and contiguous, entries of a new slot are zero,
  no admin call changes what was earned, pausing stops only `stake`.
- *keeper*: what a deposit promises to stream is covered by the vault, and little more
  than rounding is left unstreamed.
- *owners*: the vaults can always pay; only earnings are paid, once; everybody can leave.

## Modules

| module | what it holds |
| --- | --- |
| `StakingMath` | `math.rs`: each function as an operator, its success condition as a second one (`...Ok`); integer widths are constants |
| `RewardUpdate` | `update.rs` over the records of `state.rs`: `SettleSlot`, `UpdateSlots`, `UpdateEntries`, `IsFirstSlot` |
| `MMStaking` | the pool as a state machine: one action per instruction, direct transfers, the clock; `Init`, `Next`, `Spec` |
| `ClaimWalk` | the pool with `claim` as the code runs it: a head, then one step per pair of remaining accounts, then the write-back |
| `ClockSkew` | the pool under a clock that also steps back, with an account of what the slots stream in the seconds that repeat |
| `StakingProperties` | type invariant, safety invariants, action properties |
| `StakingClaims` | statements of the README, the comments and the tests that the code does not keep |
| `StakingLiveness` | fairness and liveness |
| `PrincipalVault` | abstract: a safe deposit, which knows nothing but what each owner can take out and a balance |
| `RewardLedger` | abstract: a ledger of whole tokens earned by each owner of each mint, covered by vaults, without rates, periods or slots |
| `StakingRefinement` | the two refinement mappings: `PrincipalIsSafe`, `RewardsAreCovered` |
| `FairShare` | the pool beside an exact account, in fractions, of every owner's pro-rata share |
| `RewardMath` | `math.rs` by itself: one call against two calls over the parts, and a deposit through all three functions to the claim |
| `MCStaking`, `MCClaimWalk`, `MCFairShare`, `MCClockSkew` | the instances TLC runs: participants and symmetry; the `.cfg` files give the constants |
| `SumLemmas` | lemmas about `SumFunction` of the community modules: type, monotone, linear, multiple, change of one term |
| `StakingProofs` | theorems about `MMStaking`: types, slot table, principal |
| `RewardProofs` | the solvency of the reward vaults |
| `EarnedProofs` | earnings between the settlements: nobody's are taken, payments match them, only dust is stranded |
| `RefinementProofs` | `MMStaking` implements `PrincipalVault` and `RewardLedger`; `ClaimWalk` implements `MMStaking`, and honest pairs succeed |
| `FairProofs` | amounts owed against the exact share |
| `ExitProofs` | the exits, with a settlement that never fails; under `ClockSkew`, the principal, its exits, and what a reward vault is short of |
| `RewardMathProofs` | the theorems of `RewardMath` |

`MMStaking` extends `RewardUpdate`, which extends `StakingMath`. `StakingProperties` extends
`MMStaking`; everything that speaks about the running pool (`ClaimWalk`, `ClockSkew`, `FairShare`,
`StakingClaims`, `StakingLiveness`, `StakingRefinement`) extends `StakingProperties`.
`StakingRefinement` instantiates the two abstract modules, which know nothing of the others.

### Model and code

*State.* `pool` is the `Pool` account without its slots, `rewards` is `Pool.rewards`,
`stakers[o]` the `StakerAccount` of owner `o`; `created` in either says that the account
exists. `stake_vault` and `reward_vault[m]` are the balances of the pool's token
accounts. The vault address of a slot is derived from the pool and the slot's mint and
never changes, so the mint stands for both `mint` and `vault`.

*Actions.* An instruction is one transaction, so it is one action: the constraints of the
accounts struct, the handler, the function of `logic.rs` and the token transfer. Whatever
makes the code return an error is the negation of a guard, because an error rolls the
transaction back; error codes are not told apart. In particular the `...Ok` conditions are
guards, so a settlement that overflows disables the instruction that needs it. `MayStake`,
`MayUnstake`, `MayClaim` and `MayEmergencyWithdraw` are the whole guards of the four owner
instructions: the instruction succeeds exactly when its guard holds, so the properties about exits
are predicates of a state.

*Integers.* Amounts, rates and timestamps are integers and the widths of `u64`, `u128` and
`i64` are the constants `U64Max`, `U128Max` and `I64Max`; wherever the code uses a checked
operation the model has the comparison. `PRECISION` is a constant, too. Timestamps start at 0.

*Tokens.* Outside the vaults a mint is one lot that any signer may hold; supplies bound the
balances. A mint that is both stake mint and reward mint has two separate vaults in the code,
and is two mints here. The transfer itself is exact, as in the SPL token program the
handlers name; `DepositRewards` nevertheless credits the difference of the vault's balance,
as the code does.

*Environment.* `Tick` advances the clock by a second, `DonateStake` and `DonateReward` are
plain transfers into a vault, which no instruction records.

*The claim loop.* `MMStaking!Claim` pays a set of vaults in one step. In `ClaimWalk`, `walk` holds the
copies a running claim works on: the settled slots, the owner's entries, the vault balances and the
number of pairs left. `ClaimStart` is `claim_settle_all` and the check that the accounts come in
pairs; `ClaimPair` takes any vault and any token account, finds the slot, takes what it has
accrued (`claim_take_slot` zeroes the entry before anything is checked), skips the pair if that is
nothing, checks owner and mint of the token account and pays; `ClaimEnd` replaces the accounts by
the copies. A refused pair drops the copies. The address `Pubkey::default()`, which empty slots carry
as their vault, is among the vaults a caller may list. No other instruction runs in between.

*The exact share.* `fair` in `FairShare` grows each second by rate x stake / total, in fractions
of a scaled token fine enough to be exact (`SharesPerUnit`). It is a history variable: no guard
reads it, and it follows from the rates, the stakes and the clock alone, never from what the program
has credited. `emergency_withdraw` makes the code divide past seconds anew (`pro_rata` below), so the
account hands the leaver's exact share of the seconds nobody has settled yet to those who stay, by
their stakes (`Inherited`), and the leaver's account to nobody. Whatever else that instruction might move
between owners is a difference from the account.

*Mutants.* Some modules define, before an operator, a variant with a mistake somebody could
make in that code (a forgotten leftover, a swapped subtraction, a missing settlement). No
action uses them; they show that each property notices a bug of its kind.

## What is checked

All passing runs check deadlock (a pool can always take some step: a transfer of 0, a pause, a
claim), except `math`, whose arguments run out at the bound.

| run | instance | checks | shows |
| --- | --- | --- | --- |
| `core` | 2 owners, 1 mint, 1 slot, 3 s, periods of 2 s | `PrincipalSolvent`, `RewardSolvent`, `ExitNeverBlocked`, `PrincipalIsSafe`, `RewardsAreCovered`, `EarnedNeverTaken`, `PaidIsEarned` | the pool implements both abstract promises; solvency, exits, and that nobody loses or gains in any interleaving |
| `rerate` | 1 owner, 2 keys, 1 mint, 4 s, periods of 1 and 3 s | `RewardSolvent`, `StrandedOnlyDust` | deposits into running periods, duration changed in between, handing over admin and keeper |
| `slots` | 3 mints for 2 slots, periods of 1 and 2 s | `SlotTable`, `SlotKeepsMint`, `RewardSolvent`, `RewardsAreCovered` | full slot table, old stakers and new mints, claims of any set of vaults, two streams with different ends |
| `narrow` | `u64` up to 3, `u128` up to 5, `i64` up to 5 | `TypeOK`, `EmergencyAlwaysWorks` | overflow everywhere: types hold and the principal still comes out |
| `live` | 2 owners, 1 mint, 3 s | `PrincipalComesOut`, `RewardsComeOut` | exits and claims succeed in the end |
| `claim_walk` | 1 owner, 2 mints for 2 slots, claims of up to 3 pairs | `OwnPairsSucceed`, `ClaimIsOneStep` | any list of pairs is a claim of a set of vaults or nothing |
| `fair_share` | 2 owners, 1 mint, 3 s, stakes of 1 and 2 | `NeverAboveShare`, `ShortByRounding` | owed amounts against exact pro-rata shares, through emergency withdrawals too |
| `clock_back` | 2 owners, 1 mint, 2 s, clock steps back twice | `PrincipalExits`, `ShortByReplay` | principal leaves by `unstake` whatever the clock did, and a repeated second costs a vault no more than that second's stream |
| `math` | all arguments up to 4, `u64` up to 4, `u128` up to 11 | `SplitAccrual`, `SplitCheckpoint`, `SplitDeposit`, `DepositStreamsOut` | how calls cut time and deposits does not matter beyond one unit, and what is deposited comes out |
| `idle_rolls` | as `core`, 4 s | `IdleRewardsRollForward` violated | see below |
| `pro_rata` | as `core`, 4 s | `AccruesOnlyWithTime` violated | see below |
| `claimable` | `i64` up to 6, durations up to 5 | `ClaimableAnyTime` violated | see below |

The properties in a sentence each (exact statements, with the code they are about, in the
modules):

- `PrincipalSolvent`: `total_staked` is the sum of the stakes and the stake vault covers it.
- `RewardSolvent`: each reward vault covers what its slot owes to all stakers plus what it
  still promises to stream, in scaled tokens, so that not even rounding may eat into it.
- `EarnedNeverTaken`: no step lowers what an owner could claim, except the owner's own claim or
  emergency withdrawal.
- `PaidIsEarned`: within an instant, tokens leave a vault exactly as the owners' claimable
  amounts drop; nothing is created by staking beside a deposit, by repeated or partial claims.
- `StrandedOnlyDust`: a step leaves at most rounding dust in the vault that nobody will get; the
  exceptions are a forfeit, a transfer from outside, and a period that ends while nobody stakes.
- `ExitNeverBlocked`: every staker can claim everything and unstake everything, in every state.
- `EmergencyAlwaysWorks`: the same for `emergency_withdraw`, also when settlements fail.
- `SlotTable`: used slots come first, with distinct mints; unused slots and their entries are zero.
- `SlotKeepsMint`: no step changes the mint of a used slot, and when a mint moves into an empty slot nobody is owed
  any of it, though entries of that index were written before (by every checkpoint and by `emergency_withdraw`).
- `PrincipalIsSafe`: the pool, seen as stakes and a vault, implements `PrincipalVault`: only an owner's
  own withdrawal lowers the stake, by what leaves the vault; otherwise the vault only grows.
- `RewardsAreCovered`: the pool, seen as whole tokens earned and vaults, implements `RewardLedger`: earnings
  grow until their owner is paid all of them or forfeits them, a payment leaves everybody else's
  alone, and the vaults cover the ledger after every growth, though nobody has settled yet.
- `ClaimIsOneStep`: `ClaimWalk` implements `MMStaking`: a list of pairs, with repetitions and bad ones,
  pays each vault once, or the claim leaves no trace.
- `OwnPairsSucceed`: at every point of the loop an honest pair would be accepted.
- `NeverAboveShare`: what an owner is owed never exceeds the exact share and what leavers left of unsettled seconds.
- `ShortByRounding`: a step widens the distance to the exact share by less than one unit of
  reward-per-token on the stake (time, emergency withdrawal) or less than one token (own checkpoint).
- `PrincipalExits`: every staker can `unstake` everything, also after the clock has stepped back.
- `ShortByReplay`: after any steps back a reward vault covers what its slot owes and has to stream, but for what the
  slot streams in the repeated seconds, at the rate and up to the end of the period of the moment of each step.
- `SplitAccrual`, `SplitCheckpoint`, `SplitDeposit`: two calls return at most what one returns for the sum, less
  by at most one unit, and never overflow where one would not.
- `DepositStreamsOut`: a deposit, with the rest of the old period, comes out at the claim of who stakes the whole
  total: never more, less only by one remainder of each of the three divisions, and no overflow once the deposit is in.

### Bounds and why they suffice

`MaxClock` ends time, `StakeSupply` and `RewardSupply` bound the balances, `StakeAmounts`,
`RewardAmounts` and `Durations` the arguments. Periods are shorter than the run, so a period can
start, be re-rated, be extended, expire, and be followed by another; amounts do not divide by
the durations and totals, so every division really rounds (`PRECISION` is 1 or 2, coarser than
the code's 10^12, which makes rounding errors large); 0 is among the arguments wherever the code
tests for it. Two owners are enough for one to act between any two steps of the other, and the
theorems remove the bound where they apply. Several slots are checked in `slots` and `claim_walk`: slots do
not interact, except by failing together, through the index that pairs them with entries,
and through the list of a claim, which is what those runs are about. `core`, `rerate`, `slots`, `live`,
`claim_walk`, `fair_share` and `clock_back` have widths that no reachable value meets (so
`ExitNeverBlocked` says that nothing else stops an exit), `narrow` and `math` have widths everything meets.

`MaxPairs` is 3: two vaults in either order and one of them again, before or after a bad pair; the theorems about
`ClaimWalk` in `RefinementProofs` hold for any number. `SharesPerUnit` is no bound but a unit, and 6 is divisible by every
total up to the supply of 3 and by every total times what an emergency withdrawal leaves of it. `MaxStepBack` and `MaxSkews` let the clock
step back twice by a second, from any moment of a run of two seconds, so that a second repeats twice, or two seconds
once, before, inside and at the end of a period, and a deposit can take up a step's gain before the next; the theorems
about `ClockSkew` hold for any number of steps of any length. `MaxInput` of 4 lets the divisions of `math` leave every remainder up to 3, beside
widths that some of the arguments meet and some do not.

Symmetry is used for owners, mints and keys, never under liveness.

### Fairness

`LiveSpec` assumes for every owner that an `unstake` of the whole stake, and a `claim` of all
registered vaults, if it would succeed from some moment on, is executed one day: an owner
resubmits a transaction until it succeeds, and the chain includes a valid transaction in
the end. Nothing is assumed of admin, keeper, other owners or the clock. Weak fairness is enough
only because nothing these can do disables the two instructions: that is the point.

### What the code does differently from what is said of it

- `idle_rolls`: the comment in `update.rs` and the same test say an idle remainder rolls
  forward. It does if some instruction settles the slot before the period ends; if the period
  ends first, the remainder is dropped and stays in the vault. (The test's own remark that the first idle
  seconds are lost holds in neither case: if a settlement rolls the period, all of it is streamed later.)
- `pro_rata`: the README says stakers accrue pro-rata to their share. `emergency_withdraw`
  lowers `total_staked` without settling, so the time since the last settlement is divided among
  those who stay, whose claimable amount jumps without time passing. `RewardSolvent` still
  holds: it is the leaver's forfeited share, and the run `fair_share` shows that it is no more than that.
- `claimable`: the README says rewards are claimable any time. A duration close to the largest
  timestamp is accepted; while nobody stakes the roll of such a period overflows, and then
  `update_reward` fails for every slot. An owner who unstaked and left accrued rewards in the
  pool cannot claim them while the stake is zero. It takes an extreme duration.

## What is proved

For all constants that satisfy the assumptions named in the modules
(`WidthAssumption`, `SlotAssumption`, `PoolAssumption`: finitely many owners, positive
`PRECISION`, supplies that fit into `u64`, arguments of the types the program takes, and in
`FairShare` a unit that every total divides, and every product of a total and a smaller one). Nothing is assumed about sizes, so these results hold
where integers overflow, too; only `ExitsNeverBlocked` and `StakesExitSkewed` need wide enough ones, and say which.

- `TypeCorrectness`: `Spec => []TypeOK`.
- `SlotTableHolds`: `Spec => []SlotTable`.
- `PrincipalSolvency`: `Spec => []PrincipalSolvent`.
- `RewardSolvency`: `Spec => []RewardSolvent`.
- `EarningsAreNeverTaken`: `Spec => EarnedNeverTaken`, `PaymentsAreEarned`: `Spec => PaidIsEarned`, and
  `OnlyDustIsStranded`: `Spec => StrandedOnlyDust`.
- `SlotsKeepTheirMint`: `Spec => SlotKeepsMint`.
- `PrincipalIsSafeAlways`: `Spec => PrincipalIsSafe`, and `RewardsAreCoveredAlways`: `Spec => RewardsAreCovered`.
- `LoopIsOneStep`: `WalkSpec => ClaimIsOneStep`, and `HonestPairsSucceed`: `WalkSpec => []OwnPairsSucceed`.
- `NobodyAboveShare`: `FairSpec => []NeverAboveShare`, and `ShortByRoundingOnly`: `FairSpec => ShortByRounding`.
- `ExitsNeverBlocked`: `Spec => []ExitNeverBlocked`, for integers as wide as `WidthsSuffice` says.
- `EmergencyWorksAlways`: `Spec => []EmergencyAlwaysWorks`.
- `PrincipalSurvivesSkew`: `SkewSpec => []PrincipalSolvent`, and `EmergencySurvivesSkew`:
  `SkewSpec => []EmergencyAlwaysWorks`.
- `ShortfallIsReplay`: `SkewSpec => []ShortByReplay`.
- `StakesExitSkewed`: `SkewSpec => []PrincipalExits`, for integers wide enough for the steps back.
- `SettlingTwiceIsFair`, `CheckpointingTwiceIsFair`, `DepositingTwiceIsFair`, `DepositsStreamOut`: the
  properties of `RewardMath`, for all naturals.

*Types and slot table* are one induction (`TableInv`). Neither part is inductive alone:
`reward_count` stays within the number of slots only because the used slots are the first
`reward_count`; a claim pays from one slot per mint only because mints are distinct; the entries
of an unused slot stay zero through `emergency_withdraw`, which copies `reward_per_token_stored`
of *all* slots into the entries, only because unused slots are zero. The third conjunct, `Fresh`,
says that nobody has a stake before the pool exists, which `initialize_pool` needs to set
`total_staked` to 0. Below it, one lemma per function of `math.rs` and `update.rs` says that the
function returns a value of its type whenever its `...Ok` condition holds.

*Principal*: next to `TypeOK`, `PrincipalSolvent` is inductive. `PrincipalMoves` says how the sum
of all stakes follows a step that changes one of them; in `emergency_withdraw` the stake is one term
of the sum (`SumElement`), so it does not exceed `total_staked`, and the saturating subtraction is
an exact one.

*Rewards*: the induction (`RewardInv`) carries, next to the two above, `Past` (no slot was settled in
the future) and `Paid` (no entry's `reward_per_token_paid` is ahead of its slot). Without `Paid`,
an owner could be owed a negative amount that an emergency withdrawal would cancel at the vault's
expense; without `Past`, a settlement could stretch the stream. The argument follows the tokens of
one slot: a settlement raises the reward-per-token by `g`, and `g * total_staked` plus the stream that
remains is at most the stream before (`SettleSlotStream`, with and without stake); since `total_staked`
is the sum of the stakes, that is just what the stakers gain together (`OwedSettled`). A checkpoint
rounds down (`CheckpointedOwed`), a claim takes the same number of tokens from both sides
(`OwnerKeepsSlot`), a new rate times the new duration is at most the deposit plus the rest of the
old stream (`RestreamedCovered`), an emergency withdrawal cancels an amount that is not negative
(`EmergencyStep`), and a new slot starts with nothing owed because unused entries are zero
(`AddRewardStep`, from the slot table).

*Earnings between settlements* need no stronger invariant than `RewardInv`. What an owner could claim is a
function of the slot's reward-per-token at the present time, `RptNow`. It grows with the clock and with
fewer staked tokens (`RptLater`, `RptFewer`), which is all that a tick and an emergency withdrawal do to
the owners who stay; and a slot that is settled and asked again in the same second answers the same (`RptSettled`), so
an instruction that settles first changes nobody's earnings by doing so (`SettlingKeepsEarned`,
`CheckpointKeepsEarned`). From this every step is one of a few kinds: it changes nothing, it
settles, it takes what a claim pays, it forfeits. `EarnedNeverTaken` is a look at each kind;
`PaidIsEarned` adds them up over the owners. `SlotKeepsMint` follows the mints by themselves (`MintMoves`): one that moves
in finds the slot and everybody's entry zero (`BlankEarnsNothing`, from the slot table).

*Dust*: what is stranded is the vault minus the stream that remains minus what the owners are owed. A
second of the stream divides by the total and loses less than the total (`SecondStreams`, `TickStrands`); a
checkpoint divides by `PRECISION` (`CheckpointStrands`); a deposit divides by the duration (`RestreamStrands`). No step
divides twice, because the caller's checkpoint finds every slot settled.

*The ledger*: `RewardSolvent` speaks of amounts as last settled, the ledger of amounts as of now. `OwedCovered` closes
the gap: settling late what the stream gives up (`GapStream`) is what the stakers gain, so the vault covers
the earnings nobody has settled yet, in scaled tokens, and `EarningsCovered` rounds each owner's down to whole ones. A
column of the ledger is the one slot with that mint (`SlotColumn`, from the slot table).

*The exact share*: that nobody is owed more than `fair` is not inductive, because an emergency
withdrawal divides past seconds anew among fewer tokens. `FairInv` compares `fair` with `Redivided`
instead, the exact account that dividing all the time since the last settlement among the present stakes
would give; the program divides that same time and rounds down (`RoundedShare`). An emergency withdrawal raises
`fair` and `Redivided` of those who stay by the same amount, what is inherited (`LeaverLeaves`, from `DividedAnew`). The slots that are empty are
blank on both sides (`BlankSlots`). A step then moves the two accounts alike, but for one rounding
(`RoundingOnly`), which is `ShortByRounding`.

*Exits*: the stake vault covers the total and the total covers each stake (`StakeCovered`), and an account that
was not opened has no stake (`Started`), so `emergency_withdraw` always succeeds, whatever the settlement would do,
and whatever the clock has done. `unstake` and `claim` settle first and succeed if that does not
overflow. `Room` is inductive and says it never will (`RptFits`, `SettleSlotFits`): what a slot is due (`Due`: owed and
still to stream) is covered by the vault, which `u64` holds; a deposit spreads it over a period of at least `least` seconds,
so that a rate times `least` stays within the scaled supply (`StepSlow`), and reward-per-token within that much for
every `least` seconds; and an idle roll moves the end of the period only as far as `last_update_time` moves (`Fits`).
The hypotheses are, with `ScaledSupply` for `RewardSupply * PRECISION` and any `least` of 1 or more,

    WidthsSuffice(least) == /\ ScaledSupply <= U128Max
                            /\ MaxClock * ScaledSupply <= U128Max * least
                            /\ \A d \in Durations : MaxClock + d <= I64Max /\ (d > 0 => least <= d)

The instance of `core` satisfies them. None is for convenience: `claimable` breaks the third, and there the
property fails. In the widths of the program (`PRECISION` 10^12, `u128`, clock from 1970) a mint of 2^64 - 1 base units, all
of `u64`, meets the second with periods of a day for 50000 years, and with periods of two minutes until 2040; a mint of 10^16 base
units meets it with periods of any length until the year 3000 and later. The bound counts the whole supply once per
shortest period since 1970, as if everything were streamed to a single staked base unit, claimed and deposited again.
The lemmas take the amounts and times as a parameter (`Loads`, `Wide`, `Room`) and serve the skewed clock too.

*Safe deposit*: with `TypeOK` at both ends of a step, every action maps to a step of `PrincipalVault` or none:
`stake` to `Deposit`, `unstake` and `emergency_withdraw` to `Withdraw`, a transfer into the vault to `Gift`.

*The claim loop*: the induction (`WalkInv`) says that there is a set of vaults, the ones paid so far, such that
the copies are what `Claim` of that set leaves behind (`Took`). A pair either pays nothing, because its vault is in the
set or belongs to an empty slot, whose entry the slot table says is zero, or adds its vault to the set
(`PairTakes`). That an honest pair is accepted is `CheckpointCovered`: nobody is owed a negative amount (`Paid`),
so one owner's claim is at most the sum that `RewardSolvent` covers after the settlement.

*A skewed clock*: `TableInv` and `PrincipalSolvent` relate nothing to the time. `RewardSolvent` does not survive:
`settle_slot` puts `last_update_time` back, and the same seconds are streamed again. What survives is `Within`, the
same inequality for a vault that is short of a given amount per slot. Two things make it inductive without `Past`. A
slot whose `last_update_time` is ahead of the clock settles as if it had been settled now (`Since`, the earlier of the
two: `SettlePastStream`); and no step of the program widens a shortfall, however large it is (`StepWithin`, one lemma
per kind of instruction, of which `RewardSolvency` is the case of no shortfall). So only the step back itself adds to it, by what the
slot streams from the new time to the old one (`BackStream`), which is what `replayed` counts.

For `PrincipalExits` the shortfall has to be bounded, since what a slot is due bounds what a settlement adds. It is at
most the scaled supply and the shortfall together (`DueLimited`), and a step back adds at most the rate for each of its
seconds, while the rate times the shortest period is at most what its slot was due. A deposit may turn the gain of one
step back into a rate that the next repeats, so the bound is a geometric one (`StepGrows`):

    Grows(limit, least) == /\ ScaledSupply <= limit[0]
                           /\ \A k \in 0 .. (MaxSkews - 1) :
                                 limit[k] * least + MaxStepBack * limit[k] <= limit[k + 1] * least

`limit` is any such function, bounded by `load.most`: a sequence defined by that recursion would have to be shown
total and monotone by an induction over data. `SkewInv` carries `limit[skews]` for what is due and for the rates, and
`Fits` with the seconds that may have been counted again, up to `skews * MaxStepBack`. `Wide(load)` is `WidthsSuffice` with
`load.most` in place of the supply and `Horizon` (`MaxClock + MaxSkews * MaxStepBack`) in place of `MaxClock`, and
`load.most` within `U64Max * PRECISION`, as earnings beyond the vault are still checkpointed into a `u64`. The instance
of `clock_back` satisfies them with `least` 2 and `limit` 4, 6, 9; with periods of a day, it takes a thousand steps back of a minute each to
double the limit. `claim` is not promised: the vault may be short.

*Math*: two quotients of the parts add up to the quotient of the sum or one less (`QuotientOfSum`); a deposit's
leftover within the same second is the whole of the first rate (`QuotientOfMultiple`). For `DepositStreamsOut`
the bounds of the three divisions are chained (`DepositPaysAlways`), each in the units of the one before.

*Sums*: the community modules define `SumFunction` by a fold over an arbitrary order, so
`SumLemmas` first shows that the recursive equation of that fold has exactly one solution on the
subsets of a finite set (`UnrollsExists`, `UnrollsUnique`); every fact about sums is then an
induction over subsets (`RestInduction`).

Only model-checked:

- `PrincipalComesOut` and `RewardsComeOut`: liveness under fairness is beyond the prover. What fairness is
  applied to is proved, though: the guards of the exits stay true (`ExitsNeverBlocked`).

## What is not modelled

- Several pools: a pool's accounts are derived from its stake mint, and no instruction touches two.
- `compute_reward_rate` of `math.rs`: no instruction calls it.
- Account sizes, rent, compute limits, bumps and padding; error codes; frozen token accounts and
  token extensions.
- Which owners lose when the clock steps back: `ShortByReplay` bounds what a vault is short of, and nothing
  is said about who claims first. The exact share of `FairShare` is for a clock that only ticks.
- Tests, deployment scripts, IDL: no state of the program.

## Plan

Done: the core (`StakingMath`, `RewardUpdate`, `MMStaking`), the claim loop, the abstract promises and the
refinements, the exact share, the skewed clock and what it costs, the reward math by itself, the divergences, liveness;
the proofs of every invariant, action property and refinement in the list above.

Open:

- A bound on who loses how much under a skewed clock, in place of a bound on what a vault is short of.
- Liveness and whatever needs an induction over data, if the prover comes to support them.
