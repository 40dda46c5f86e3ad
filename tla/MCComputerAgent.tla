--------------------------- MODULE MCComputerAgent ---------------------------
EXTENDS ComputerAgent, TLC
Symmetry == Permutations(Call)
==============================================================================
