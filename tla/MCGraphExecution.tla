-------------------------- MODULE MCGraphExecution --------------------------
(* GraphExecution on small graphs. *)
EXTENDS GraphExecution, TLC

CONSTANTS n1, n2, n3, ghost

\* One status a poll goes on after, and the two kinds of terminal status that
\* _wait_for_task returns ("dead" is treated exactly like "failed").
FewStatuses == {"running", "completed", "failed"}
=============================================================================
