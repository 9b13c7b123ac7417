---------------------------- MODULE RewardUpdate ----------------------------
(***************************************************************************)
(* The settlement step of update.rs on the records of state.rs: bring      *)
(* every registered reward slot up to a timestamp, then checkpoint one     *)
(* staker's entries against the slots.                                     *)
(*                                                                         *)
(* A slot's vault is the token account whose address is derived from the   *)
(* pool and the slot's mint, so the mint also names the vault here.        *)
(***************************************************************************)
EXTENDS StakingMath

CONSTANTS
    Mints,        \* reward mints
    NoMint,       \* Pubkey::default(), the mint of an empty slot
    MAX_REWARDS   \* number of reward slots of a pool

ASSUME SlotAssumption ==
    /\ MAX_REWARDS \in Nat
    /\ NoMint \notin Mints

Slots == 0 .. (MAX_REWARDS - 1)

(* RewardInfo and RewardEntry; the fields stay in the range of their types. *)
RewardInfoType ==
    [mint : Mints \cup {NoMint}, reward_rate : U128, reward_per_token_stored : U128,
     period_finish : Timestamp, last_update_time : Timestamp, duration : Timestamp,
     active : BOOLEAN]

RewardEntryType == [reward_per_token_paid : U128, rewards_accrued : U64]

EmptySlot ==
    [mint |-> NoMint, reward_rate |-> 0, reward_per_token_stored |-> 0,
     period_finish |-> 0, last_update_time |-> 0, duration |-> 0, active |-> FALSE]

EmptyEntry == [reward_per_token_paid |-> 0, rewards_accrued |-> 0]

(* find_slot, and every other `(0..MAX_REWARDS).find(..)` over the mints:   *)
(* slot i is the first one that holds mint m.  The mutant takes any.        *)
IsAnySlot(slots, i, m) == slots[i].mint = m

IsFirstSlot(slots, i, m) ==
    /\ slots[i].mint = m
    /\ \A j \in Slots : slots[j].mint = m => i <= j

-----------------------------------------------------------------------------
(* settle_slot.  With stake, reward-per-token advances over the part of    *)
(* the gap that lies before period_finish.  Without stake, a period that   *)
(* is still running is extended by the gap.  The mutants accrue past the   *)
(* end of the period, forget last_update_time when there is no stake, and  *)
(* extend the period without the overflow check.                           *)

RewardPerTokenUncapped(slot, total_staked, now) ==
    AccrueRpt(slot.reward_per_token_stored, now - slot.last_update_time,
              slot.reward_rate, total_staked)

RewardPerToken(slot, total_staked, now) ==
    IF total_staked > 0
    THEN AccrueRpt(slot.reward_per_token_stored,
                   MinOf(now, slot.period_finish) - slot.last_update_time,
                   slot.reward_rate, total_staked)
    ELSE slot.reward_per_token_stored

RolledFinish(slot, total_staked, now) ==
    IF total_staked = 0 /\ now < slot.period_finish /\ slot.last_update_time < now
    THEN slot.period_finish + (now - slot.last_update_time)
    ELSE slot.period_finish

SettleSlotIdleUntouched(slot, total_staked, now) ==
    [slot EXCEPT !.reward_per_token_stored = RewardPerToken(slot, total_staked, now),
                 !.period_finish = RolledFinish(slot, total_staked, now),
                 !.last_update_time = IF total_staked > 0 THEN now ELSE @]

SettleSlot(slot, total_staked, now) ==
    [slot EXCEPT !.reward_per_token_stored = RewardPerToken(slot, total_staked, now),
                 !.period_finish = RolledFinish(slot, total_staked, now),
                 !.last_update_time = now]

SettleSlotOkUnchecked(slot, total_staked, now) ==
    AccrueRptOk(slot.reward_per_token_stored,
                MinOf(now, slot.period_finish) - slot.last_update_time,
                slot.reward_rate, total_staked)

SettleSlotOk(slot, total_staked, now) ==
    /\ AccrueRptOk(slot.reward_per_token_stored,
                   MinOf(now, slot.period_finish) - slot.last_update_time,
                   slot.reward_rate, total_staked)
    /\ RolledFinish(slot, total_staked, now) <= I64Max

-----------------------------------------------------------------------------
(* update_reward: the loop over the slots, and the loop over the entries   *)
(* of one staker, which reads the slots the first loop left behind.  The   *)
(* mutants leave reward_per_token_paid behind, and forget what had accrued *)
(* before.                                                                 *)

UpdateSlots(slots, total_staked, now) ==
    [i \in Slots |-> IF slots[i].mint = NoMint
                     THEN slots[i]
                     ELSE SettleSlot(slots[i], total_staked, now)]

UpdateSlotsOk(slots, total_staked, now) ==
    \A i \in Slots : slots[i].mint # NoMint => SettleSlotOk(slots[i], total_staked, now)

UpdateEntriesUnpaid(entries, staked_amount, slots) ==
    [i \in Slots |->
        IF slots[i].mint = NoMint
        THEN entries[i]
        ELSE [entries[i] EXCEPT !.rewards_accrued =
                Earned(staked_amount, slots[i].reward_per_token_stored,
                       entries[i].reward_per_token_paid, @)]]

UpdateEntriesForgotten(entries, staked_amount, slots) ==
    [i \in Slots |->
        IF slots[i].mint = NoMint
        THEN entries[i]
        ELSE [reward_per_token_paid |-> slots[i].reward_per_token_stored,
              rewards_accrued |-> Earned(staked_amount,
                                         slots[i].reward_per_token_stored,
                                         entries[i].reward_per_token_paid, 0)]]

UpdateEntries(entries, staked_amount, slots) ==
    [i \in Slots |->
        IF slots[i].mint = NoMint
        THEN entries[i]
        ELSE [reward_per_token_paid |-> slots[i].reward_per_token_stored,
              rewards_accrued |-> Earned(staked_amount,
                                         slots[i].reward_per_token_stored,
                                         entries[i].reward_per_token_paid,
                                         entries[i].rewards_accrued)]]

UpdateEntriesOk(entries, staked_amount, slots) ==
    \A i \in Slots : slots[i].mint # NoMint =>
        EarnedOk(staked_amount, slots[i].reward_per_token_stored,
                 entries[i].reward_per_token_paid, entries[i].rewards_accrued)

=============================================================================
