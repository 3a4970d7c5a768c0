--------------------------- MODULE MCTaskCreation ---------------------------
\* The handlers of a tab are alike.
EXTENDS TaskCreation, TLC

Symmetry == Permutations(Jobs) \cup Permutations(Contents)
=============================================================================
