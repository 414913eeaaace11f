---------------------------- MODULE MCSessionMcp ----------------------------
EXTENDS SessionMcp, TLC

\* Servers and URLs are only compared with each other.
Symmetry == Permutations(Servers) \cup Permutations(Urls)
=============================================================================
