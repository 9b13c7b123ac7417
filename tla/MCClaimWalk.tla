---------------------------- MODULE MCClaimWalk ----------------------------
(* Instances of the claim loop for TLC. *)
EXTENDS ClaimWalk, TLC

CONSTANTS alice, admin, gold, silver

MintSymmetry == Permutations(Mints)

=============================================================================
