----------------------------- MODULE MCWatches -----------------------------
EXTENDS Watches, TLC

\* Conversations and calls are only told apart.
Symmetry == Permutations(Convs) \cup Permutations(Calls)
=============================================================================
