---------------------------- MODULE MCDelivery ----------------------------
EXTENDS Delivery, TLC

\* Texts are only compared with each other.
Symmetry == Permutations(Texts \ {Empty})
=============================================================================
