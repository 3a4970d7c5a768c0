-------------------------- MODULE MCModelOperations --------------------------
\* Two handlers, and one profile version that names one service version.
EXTENDS ModelOperations, TLC

CONSTANTS s1, p1

MCServiceOf == p1 :> s1

Symmetry == Permutations(Handlers)
=============================================================================
