--------------------------- MODULE MCPromptRelease ---------------------------
EXTENDS PromptRelease, TLC

Symmetry == Permutations(Clients)
=============================================================================
