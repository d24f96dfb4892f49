---------------------------- MODULE DagSchedule ----------------------------
(***************************************************************************)
(* What the orchestrator promises about the execution of one workflow      *)
(* graph, without saying how it runs it: a node is started once, and only  *)
(* when everything it depends on has succeeded; it ends once; and the      *)
(* verdict comes when nothing runs and nothing more could be started.      *)
(* GraphExecution is shown to implement this specification.                *)
(***************************************************************************)
EXTENDS FiniteSets

CONSTANTS
  Nodes,   \* the node_ids of the graph
  Unknown  \* node_ids a depends_on list may name and no node has

VARIABLES
  dependsOn,  \* node -> the node_ids it depends on (never changes)
  outcome,    \* node -> "waiting", "running", "done" or "failed"
  verdict     \* "none" until the execution has ended

vars == <<dependsOn, outcome, verdict>>

Init ==
  /\ dependsOn \in [Nodes -> SUBSET (Nodes \cup Unknown)]
  /\ outcome = [n \in Nodes |-> "waiting"]
  /\ verdict = "none"

Startable(n) ==
  /\ outcome[n] = "waiting"
  /\ \A d \in dependsOn[n] : d \in Nodes /\ outcome[d] = "done"

Start(S) ==
  /\ verdict = "none"
  /\ \A n \in S : Startable(n)
  /\ outcome' = [n \in Nodes |-> IF n \in S THEN "running" ELSE outcome[n]]
  /\ UNCHANGED <<dependsOn, verdict>>

Finish(n) ==
  /\ outcome[n] = "running"
  /\ \E result \in {"done", "failed"} :
       outcome' = [outcome EXCEPT ![n] = result]
  /\ UNCHANGED <<dependsOn, verdict>>

Conclude ==
  /\ verdict = "none"
  /\ \A n \in Nodes : outcome[n] # "running" /\ ~ Startable(n)
  /\ verdict' = IF \E n \in Nodes : outcome[n] = "failed"
                THEN "failed" ELSE "completed"
  /\ UNCHANGED <<dependsOn, outcome>>

Next ==
  \/ \E S \in SUBSET Nodes : Start(S)
  \/ \E n \in Nodes : Finish(n)
  \/ Conclude

Spec == Init /\ [][Next]_vars
=============================================================================
