---------------------------- MODULE MCFairShare ----------------------------
(* Instances of the fair-share account for TLC. *)
EXTENDS FairShare, TLC

CONSTANTS alice, bob, admin, gold

OwnerSymmetry == Permutations(Owners)

=============================================================================
