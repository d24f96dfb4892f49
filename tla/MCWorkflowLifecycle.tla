------------------------ MODULE MCWorkflowLifecycle ------------------------
(* WorkflowLifecycle on small instances. *)
EXTENDS WorkflowLifecycle, TLC

CONSTANTS wf1, wf2, k1
=============================================================================
