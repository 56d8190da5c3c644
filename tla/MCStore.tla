------------------------------ MODULE MCStore ------------------------------
EXTENDS Store, TLC

\* One bin of two slots, and two bins of one slot each.
TwoLayouts == {<<1, 1>>, <<1, 2>>}

Symmetry == Permutations(Feats) \cup Permutations(Vals)
=============================================================================
