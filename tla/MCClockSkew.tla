---------------------------- MODULE MCClockSkew ----------------------------
(* Instances of the pool under a skewed clock for TLC. *)
EXTENDS ClockSkew, TLC

CONSTANTS alice, bob, admin, gold

OwnerSymmetry == Permutations(Owners)

=============================================================================
