-------------------------- MODULE MCApprovalService --------------------------
(* ApprovalService on small instances. *)
EXTENDS ApprovalService, TLC

CONSTANTS a1, a2, w1, w2, r1, r2

\* Every worker serves one POST /approvals.
Makers == a1 :> w1 @@ a2 :> w2
Maker == a1 :> w1

\* Two calls about one request, served by different workers.
Calls == r1 :> [app |-> a1, worker |-> w1] @@ r2 :> [app |-> a1, worker |-> w2]
=============================================================================
