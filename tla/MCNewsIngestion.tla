--------------------------- MODULE MCNewsIngestion ---------------------------
(* NewsIngestion on small instances. *)
EXTENDS NewsIngestion, TLC

CONSTANTS f1, f2, a1, a2, t1, loop

\* The loop and the task read different feeds, which may show the same articles.
Requests == loop :> {f1} @@ t1 :> {f1, f2}
=============================================================================
