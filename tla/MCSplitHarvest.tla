--------------------------- MODULE MCSplitHarvest ---------------------------
(* The split harvest with two candidate swap accounts, for TLC. *)
EXTENDS SplitHarvest, TLC

Symmetry == Permutations(Accounts)
=============================================================================
