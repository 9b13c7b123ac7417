-------------------------- MODULE StakingLiveness --------------------------
(***************************************************************************)
(* What an owner who keeps sending a transaction gets in the end, whatever *)
(* the other owners, the admin, the keeper and the clock do meanwhile.     *)
(***************************************************************************)
EXTENDS StakingProperties

(* An owner resubmits the same transaction until it succeeds, and a        *)
(* transaction that would succeed at every moment is included one day.     *)
(* Nothing else is assumed: nobody has to stake, deposit or unpause, and   *)
(* the clock may stop.                                                     *)
KeepsUnstaking(o) == WF_vars(Unstake(o, stakers[o].staked_amount))

KeepsClaiming(o) == WF_vars(Claim(o, RegisteredMints))

LiveSpec ==
    /\ Spec
    /\ \A o \in Owners : KeepsUnstaking(o) /\ KeepsClaiming(o)

(* The principal comes out through unstake, paused or not. *)
PrincipalComesOut ==
    \A o \in Owners : stakers[o].staked_amount > 0 ~> stakers[o].staked_amount = 0

(* A reward once earned is paid out: no later instruction of others can    *)
(* make the claim fail for good, in any slot.                              *)
RewardsComeOut ==
    \A o \in Owners, i \in Slots :
        (Registered(i) /\ EarnedNow(o, i) > 0) ~> EarnedNow(o, i) = 0

=============================================================================
