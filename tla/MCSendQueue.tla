---------------------------- MODULE MCSendQueue ----------------------------
EXTENDS SendQueue, TLC

\* Prompts differ in nothing but their place in the queue.
Symmetry == Permutations(Prompts)
=============================================================================
