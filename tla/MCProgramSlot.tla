--------------------------- MODULE MCProgramSlot ---------------------------
EXTENDS ProgramSlot, TLC

Symmetry == Permutations(OpIds) \cup Permutations(Inputs)
=============================================================================
