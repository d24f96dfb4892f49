--------------------------- MODULE MCTaskDelivery ---------------------------
(* TaskDelivery on small instances. *)
EXTENDS TaskDelivery, TLC

CONSTANTS t1, t2

Symmetry == Permutations(Tasks)
=============================================================================
