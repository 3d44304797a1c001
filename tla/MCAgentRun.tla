----------------------------- MODULE MCAgentRun -----------------------------
EXTENDS AgentRun, TLC

\* Sound for the safety properties only.
Symmetry == Permutations(Messages)
=============================================================================
