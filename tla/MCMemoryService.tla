--------------------------- MODULE MCMemoryService ---------------------------
(* MemoryService on small instances. *)
EXTENDS MemoryService, TLC

CONSTANTS w1, w2, l1, q1, k1

\* Both working memories are stored under one key.
OneKey == w1 :> k1 @@ w2 :> k1
=============================================================================
