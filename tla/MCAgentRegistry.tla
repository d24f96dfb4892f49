-------------------------- MODULE MCAgentRegistry --------------------------
(* AgentRegistry on small instances; one tick is 30 seconds. *)
EXTENDS AgentRegistry, TLC

CONSTANTS a1, a2, w1, w2

Symmetry == Permutations(Agents) \cup Permutations(Workers)
=============================================================================
