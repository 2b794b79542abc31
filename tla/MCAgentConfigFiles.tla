------------------------ MODULE MCAgentConfigFiles ------------------------
EXTENDS AgentConfigFiles, TLC

Symmetry == Permutations(Paths) \cup Permutations(Servers) \cup Permutations(Processes)
=============================================================================
