---------------------------- MODULE MCLoopLease ----------------------------
EXTENDS LoopLease, TLC

Symmetry == Permutations(Loops)
=============================================================================
