---------------------------- MODULE MCLoopStore ----------------------------
EXTENDS LoopStore, TLC

Symmetry == Permutations(Bodies)
=============================================================================
