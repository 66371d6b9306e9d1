--------------------------- MODULE MCCommunitySetup ---------------------------
(* Small instances of community setup for TLC. *)
EXTENDS CommunityProperties, TLC

Symmetry == Permutations(Admins)
=============================================================================
