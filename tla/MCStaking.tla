----------------------------- MODULE MCStaking -----------------------------
(* Instances of the staking pool for TLC: who takes part, and which of     *)
(* them are interchangeable.                                               *)
EXTENDS StakingClaims, StakingLiveness, StakingRefinement, TLC

CONSTANTS alice, bob, admin, keeper, gold, silver, bronze

OwnerSymmetry == Permutations(Owners)

KeySymmetry == Permutations(Keys)

MintSymmetry == Permutations(Mints)

=============================================================================
