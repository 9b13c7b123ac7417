----------------------------- MODULE ClaimWalk -----------------------------
(***************************************************************************)
(* The claim instruction as the code runs it: one settlement, then a loop  *)
(* over the remaining accounts, which the caller lists as pairs of a       *)
(* reward vault and a token account to be paid.  MMStaking!Claim is the    *)
(* whole loop as one step that pays a set of vaults; here the pairs come   *)
(* one by one, in any order, with repetitions, vaults of no slot and token *)
(* accounts of somebody else.                                              *)
(*                                                                         *)
(* The transaction holds the write lock of the pool, so nothing else       *)
(* happens to the pool meanwhile.  It works on copies, which replace the   *)
(* accounts when it ends; when a pair is refused the copies are dropped.   *)
(***************************************************************************)
EXTENDS StakingProperties

CONSTANT MaxPairs   \* bound: pairs of one claim

ASSUME WalkAssumption == MaxPairs \in Nat

VARIABLE walk       \* the claim under way, if there is one: a set of at most one

walkVars == <<vars, walk>>

(* A vault is named by its mint; an empty slot has Pubkey::default() for   *)
(* its vault, an address anybody can pass.  A token account is told by the *)
(* two fields the handler reads.                                           *)
Vaults == Mints \cup {NoMint}
Wallets == [owner : Owners \cup Keys, mint : Mints]

-----------------------------------------------------------------------------

(* The head of the handler: claim_settle_all, then the length check. *)
ClaimStart(o, accounts) ==
    /\ walk = {}
    /\ stakers[o].created
    /\ CheckpointOk(o)
    /\ accounts % 2 = 0
    /\ walk' = {[owner |-> o, rewards |-> SettledSlots, entries |-> Checkpoint(o),
                 reward_vault |-> reward_vault, pairs |-> accounts \div 2]}
    /\ UNCHANGED vars

(* claim_take_slot zeroes the entry before anything is checked or paid.    *)
(* The mutant reads it only.                                               *)
TakeSlotKept(w, i) == w.entries

TakeSlot(w, i) == [w.entries EXCEPT ![i].rewards_accrued = 0]

(* Paying what slot i has accrued out of its vault.  Nothing accrued means *)
(* `continue`, which leaves the vault as it is.                            *)
PaySlot(w, i, vault) ==
    [w EXCEPT !.entries = TakeSlot(w, i),
              !.reward_vault = [m \in Mints |->
                  IF m = vault THEN @[m] - w.entries[i].rewards_accrued ELSE @[m]],
              !.pairs = @ - 1]

(* What the handler asks of a pair once there is something to pay: the     *)
(* token account is the owner's, of the vault's mint, and the vault has    *)
(* the tokens.                                                             *)
PairOk(w, i, vault, wallet) ==
    w.entries[i].rewards_accrued > 0 =>
        /\ wallet.owner = w.owner
        /\ wallet.mint = vault
        /\ w.entries[i].rewards_accrued <= w.reward_vault[vault]

(* The walk after one pair; no walk if the pair makes the handler fail.    *)
(* The mutant skips a token account it does not accept instead of failing. *)
AfterPairSkipping(w, vault, wallet) ==
    {IF PairOk(w, i, vault, wallet)
     THEN PaySlot(w, i, vault)
     ELSE [w EXCEPT !.entries = TakeSlot(w, i), !.pairs = @ - 1] :
        i \in {j \in Slots : IsFirstSlot(w.rewards, j, vault)}}

AfterPair(w, vault, wallet) ==
    {PaySlot(w, i, vault) :
        i \in {j \in Slots : /\ IsFirstSlot(w.rewards, j, vault)
                             /\ PairOk(w, j, vault, wallet)}}

ClaimPair(vault, wallet) ==
    \E w \in walk :
        /\ w.pairs > 0
        /\ walk' = AfterPair(w, vault, wallet)
        /\ UNCHANGED vars

ClaimEnd ==
    \E w \in walk :
        /\ w.pairs = 0
        /\ walk' = {}
        /\ rewards' = w.rewards
        /\ stakers' = [stakers EXCEPT ![w.owner].entries = w.entries]
        /\ reward_vault' = w.reward_vault
        /\ UNCHANGED <<clock, pool, stake_vault>>

-----------------------------------------------------------------------------

StakingStep(o) == \E a \in StakeAmounts : Stake(o, a) \/ Unstake(o, a)

(* Everything but claim, between two claims. *)
OtherStep ==
    /\ walk = {}
    /\ \/ \E k \in Keys : AdminStep(k) \/ KeeperStep(k)
       \/ \E o \in Owners : StakingStep(o) \/ EmergencyWithdraw(o)
       \/ Donation
       \/ Tick
    /\ UNCHANGED walk

WalkInit == Init /\ walk = {}

WalkNext ==
    \/ OtherStep
    \/ \E o \in Owners, n \in 0 .. (2 * MaxPairs) : ClaimStart(o, n)
    \/ \E v \in Vaults, wallet \in Wallets : ClaimPair(v, wallet)
    \/ ClaimEnd

WalkSpec == WalkInit /\ [][WalkNext]_walkVars

-----------------------------------------------------------------------------

(* Whatever pairs a caller lists, the claim is a claim of the vaults       *)
(* listed, each paid once, or nothing at all: a repetition pays nothing    *)
(* more, and a refused pair undoes the payments before it and leaves every *)
(* entry as it was.                                                        *)
ClaimIsOneStep == Spec

(* No pair listed earlier makes the handler refuse an honest one: at every *)
(* point of the loop each registered vault can still pay the entry as the  *)
(* loop has left it to a token account of the owner.                       *)
OwnPairsSucceed ==
    \A w \in walk, m \in RegisteredMints :
        AfterPair(w, m, [owner |-> w.owner, mint |-> m]) # {}

=============================================================================
