---------------------------- MODULE MCAgentRuns ----------------------------
\* AgentRuns for TLC: runs and intents are interchangeable.
EXTENDS AgentRuns, TLC

Symmetry == Permutations(Runs) \cup Permutations(Intents)
=============================================================================
