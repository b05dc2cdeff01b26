----------------------- MODULE MCAgentConfiguration -----------------------
\* An instance of AgentConfiguration: one Agent and the contents it is given.
EXTENDS AgentConfiguration, TLC

MCSymmetry == Permutations(Runs) \cup Permutations(Values)
===========================================================================
