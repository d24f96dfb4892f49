-------------------------- MODULE MCAgentExecution --------------------------
(* AgentExecution on small instances. *)
EXTENDS AgentExecution, TLC

CONSTANTS t1, t2, t3, a1, a2

\* Two of the tasks have the same article.
Given == t1 :> a1 @@ t2 :> a2 @@ t3 :> a1
=============================================================================
