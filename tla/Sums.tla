-------------------------------- MODULE Sums ---------------------------------
(***************************************************************************)
(* What the accounts of a ledger hold together.                            *)
(***************************************************************************)
EXTENDS Integers, FiniteSets, Folds

\* The sum of the values of f over a set.
SumOver(f, S) == MapThenFoldSet(+, 0, LAMBDA a : f[a], LAMBDA T : CHOOSE a \in T : TRUE, S)
=============================================================================
