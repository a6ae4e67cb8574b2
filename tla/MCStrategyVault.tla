-------------------------- MODULE MCStrategyVault ---------------------------
EXTENDS StrategyVault, TLC

At(b, d) == [b |-> b, d |-> d]
MCOthers == {At(40000, 10000)}
MCRates == {At(100, 100), At(103, 106), At(104, 116)}
MCRisks == {[c |-> 55, l |-> 100], [c |-> 50, l |-> 95], [c |-> 45, l |-> 100]}

Symmetry == Permutations(Holders)
=============================================================================
