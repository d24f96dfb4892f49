---------------------------- MODULE MCApiGateway ----------------------------
(* ApiGateway on small instances. *)
EXTENDS ApiGateway, TLC

CONSTANTS h1, h2, c1

OneCaller == [h \in Handlers |-> c1]
=============================================================================
