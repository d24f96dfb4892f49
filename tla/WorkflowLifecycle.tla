-------------------------- MODULE WorkflowLifecycle --------------------------
(***************************************************************************)
(* The life of workflow requests across two services: the orchestrator     *)
(* accepts a request, executes it in the background and reports            *)
(* (src/services/orchestrator/main.py); the workflow service keeps one row *)
(* per workflow and serves the reports and cancellations                   *)
(* (src/services/workflow-service/main.py).                                *)
(*                                                                         *)
(* A request between the services is a message: it is applied while the    *)
(* orchestrator waits, or refused or lost, or applied after the            *)
(* orchestrator stopped waiting (a timeout of the client, the only fault). *)
(* The execution of the graph is a single choice of verdict here; module   *)
(* GraphExecution is about it.                                             *)
(***************************************************************************)
EXTENDS Integers, FiniteSets

CONSTANTS
  Workflows,   \* calls of POST /workflows, each drawing a new workflow id
  Keys,        \* idempotency keys of requests
  NoKey,       \* a request without an idempotency key
  MaxFaults,   \* bound: lost or late messages
  MaxCrashes   \* bound: crashes of the orchestrator

ASSUME WorkflowsAssumption == IsFiniteSet(Workflows)
ASSUME BoundsAssumption == MaxFaults \in Nat /\ MaxCrashes \in Nat

Terminal == {"completed", "failed", "cancelled"}
Rows == Terminal \cup {"none", "pending", "running"}
Verdicts == {"completed", "failed"}

VARIABLES
  key,         \* workflow -> idempotency_key of its request (never changes)
  row,         \* workflow -> status of its row, or "none"
  exec,        \* workflow -> where the orchestrator is with it
  verdict,     \* workflow -> what its execution came to, or "none"
  sent,        \* messages on their way to the workflow service
  cancelling,  \* cancellations that have found the row and not yet written it
  started,     \* workflows whose workflow.started event was published
  active,      \* the gauge active_workflows
  faults,
  crashes

vars == <<key, row, exec, verdict, sent, cancelling, started, active, faults, crashes>>

\* A message: the INSERT of POST /workflows, or a PATCH of the status.
Insert(w) == [wf |-> w, what |-> "pending"]
Patch(w, s) == [wf |-> w, what |-> s]
Messages == [wf : Workflows, what : {"pending", "running"} \cup Verdicts]

Init ==
  /\ key \in [Workflows -> Keys \cup {NoKey}]
  /\ row = [w \in Workflows |-> "none"]
  /\ exec = [w \in Workflows |-> "none"]
  /\ verdict = [w \in Workflows |-> "none"]
  /\ sent = {}
  /\ cancelling = {}
  /\ started = {}
  /\ active = 0
  /\ faults = 0
  /\ crashes = 0

-----------------------------------------------------------------------------
(* The workflow service. *)

KeyTaken(w) ==
  key[w] # NoKey /\ \E v \in Workflows : row[v] # "none" /\ key[v] = key[w]

\* Mutant: conflicts are looked for on the id alone.
Effect_SameKeyAgain(m) ==
  row' = [row EXCEPT ![m.wf] = IF @ = "none" /\ m.what # "pending" THEN @ ELSE m.what]

\* What a message does when it is applied: ON CONFLICT DO NOTHING for an INSERT,
\* and an UPDATE of whatever row there is, whatever its status.
Effect(m) ==
  IF m.what = "pending"
  THEN row' = [row EXCEPT ![m.wf] = IF KeyTaken(m.wf) THEN @ ELSE "pending"]
  ELSE row' = [row EXCEPT ![m.wf] = IF @ = "none" THEN @ ELSE m.what]

\* The stage of the orchestrator that waits for the answer to a message.
Waiting(m) ==
  CASE m.what = "pending" -> "posting"
    [] m.what = "running" -> "preparing"
    [] OTHER -> "marking"
Waited(m) == exec[m.wf] = Waiting(m)

\* Where the orchestrator goes on: the answer to the INSERT must be a success,
\* failures of a PATCH are logged and ignored.
GoesOn(m, ok) ==
  CASE m.what = "pending" -> IF ok THEN "accepted" ELSE "refused"
    [] m.what = "running" -> "publishing"
    [] OTHER -> "ended"

\* Mutant: executions are not counted when they begin.
Answered_NoInc(m, ok) ==
  /\ exec' = [exec EXCEPT ![m.wf] = GoesOn(m, ok)]
  /\ active' = IF m.what \in {"pending", "running"} THEN active ELSE active - 1

\* The orchestrator gets on with what follows the answer to m.
Answered(m, ok) ==
  /\ exec' = [exec EXCEPT ![m.wf] = GoesOn(m, ok)]
  /\ active' = CASE m.what = "pending" -> IF ok THEN active + 1 ELSE active
                 [] m.what = "running" -> active
                 [] OTHER -> active - 1

unsaid == <<key, verdict, cancelling, started, crashes>>

Apply(m) ==
  /\ m \in sent
  /\ sent' = sent \ {m}
  /\ Effect(m)
  /\ IF Waited(m) THEN Answered(m, TRUE) ELSE UNCHANGED <<exec, active>>
  /\ UNCHANGED <<unsaid, faults>>

\* Mutant: a client without a timeout waits for an answer that was lost.
Fails_NoTimeout(m) ==
  /\ m \in sent
  /\ faults < MaxFaults
  /\ faults' = faults + 1
  /\ sent' = sent \ {m}
  /\ Effect(m) \/ UNCHANGED row
  /\ UNCHANGED <<exec, active, unsaid>>

\* The message is lost, or the service answers with an error, or it was applied
\* and the answer is lost.
Fails(m) ==
  /\ m \in sent
  /\ faults < MaxFaults
  /\ faults' = faults + 1
  /\ sent' = sent \ {m}
  /\ Effect(m) \/ UNCHANGED row
  /\ IF Waited(m) THEN Answered(m, FALSE) ELSE UNCHANGED <<exec, active>>
  /\ UNCHANGED unsaid

\* The client's timeout: the message stays on its way.
GivesUp(m) ==
  /\ m \in sent
  /\ Waited(m)
  /\ faults < MaxFaults
  /\ faults' = faults + 1
  /\ Answered(m, FALSE)
  /\ UNCHANGED <<row, sent, unsaid>>

\* POST /workflows/{id}/cancel: a SELECT, and an UPDATE some time later.
CancelFinds(w) ==
  /\ row[w] # "none"
  /\ w \notin cancelling
  /\ cancelling' = cancelling \cup {w}
  /\ UNCHANGED <<key, row, exec, verdict, sent, started, active, faults, crashes>>

CancelWrites(w) ==
  /\ w \in cancelling
  /\ cancelling' = cancelling \ {w}
  /\ row' = [row EXCEPT ![w] = "cancelled"]
  /\ UNCHANGED <<key, exec, verdict, sent, started, active, faults, crashes>>

-----------------------------------------------------------------------------
(* The orchestrator. *)

Send(m) == sent' = sent \cup {m}

Create(w) ==
  /\ exec[w] = "none"
  /\ exec' = [exec EXCEPT ![w] = "posting"]
  /\ Send(Insert(w))
  /\ UNCHANGED <<key, row, verdict, cancelling, started, active, faults, crashes>>

Conclude(w, v) ==
  /\ verdict' = [verdict EXCEPT ![w] = v]
  /\ exec' = [exec EXCEPT ![w] = "marking"]
  /\ Send(Patch(w, v))

\* Mutant: the report of the graph is sent without waiting for its answer.
Prepare_WithoutAwait(w) ==
  /\ exec[w] = "accepted"
  /\ exec' = [exec EXCEPT ![w] = "publishing"]
  /\ Send(Patch(w, "running"))
  /\ UNCHANGED <<key, row, verdict, cancelling, started, active, faults, crashes>>

\* _execute_workflow takes or plans the graph and reports it; a planner that
\* raises ends the workflow.
Prepare(w) ==
  /\ exec[w] = "accepted"
  /\ \/ /\ exec' = [exec EXCEPT ![w] = "preparing"]
        /\ Send(Patch(w, "running"))
        /\ UNCHANGED verdict
     \/ Conclude(w, "failed")
  /\ UNCHANGED <<key, row, cancelling, started, active, faults, crashes>>

\* The workflow.started event; publish may raise before or after it is accepted.
PublishStarted(w) ==
  /\ exec[w] = "publishing"
  /\ started' = started \cup {w}
  /\ exec' = [exec EXCEPT ![w] = "executing"]
  /\ UNCHANGED <<key, row, verdict, sent, cancelling, active, faults, crashes>>

PublishRaises(w) ==
  /\ exec[w] = "publishing"
  /\ started' \in {started, started \cup {w}}
  /\ Conclude(w, "failed")
  /\ UNCHANGED <<key, row, cancelling, active, faults, crashes>>

\* Mutant: failed nodes are logged and the workflow is marked completed.
Execute_MarksCompleted(w) ==
  /\ exec[w] = "executing"
  /\ \E v \in Verdicts : verdict' = [verdict EXCEPT ![w] = v]
  /\ exec' = [exec EXCEPT ![w] = "marking"]
  /\ Send(Patch(w, "completed"))
  /\ UNCHANGED <<key, row, cancelling, started, active, faults, crashes>>

\* _execute_graph comes to its end and marks the workflow.
Execute(w) ==
  /\ exec[w] = "executing"
  /\ \E v \in Verdicts : Conclude(w, v)
  /\ UNCHANGED <<key, row, cancelling, started, active, faults, crashes>>

\* The process dies: its background tasks are gone, its requests are not.
Busy == {"posting", "accepted", "preparing", "publishing", "executing", "marking"}
Crash ==
  /\ crashes < MaxCrashes
  /\ crashes' = crashes + 1
  /\ exec' = [w \in Workflows |-> IF exec[w] \in Busy THEN "crashed" ELSE exec[w]]
  /\ active' = 0
  /\ UNCHANGED <<key, row, verdict, sent, cancelling, started, faults>>

-----------------------------------------------------------------------------
Run(w) == Prepare(w) \/ PublishStarted(w) \/ PublishRaises(w) \/ Execute(w)
Cancel(w) == CancelFinds(w) \/ CancelWrites(w)

Next ==
  \/ \E m \in sent : Apply(m) \/ Fails(m) \/ GivesUp(m)
  \/ \E w \in Workflows : Create(w) \/ Run(w) \/ Cancel(w)
  \/ Crash

Spec == Init /\ [][Next]_vars

\* The event loop runs its background tasks, and requests are served in the end.
Fairness ==
  /\ \A w \in Workflows : WF_vars(Run(w)) /\ WF_vars(CancelWrites(w))
  /\ \A m \in Messages : WF_vars(Apply(m))

FairSpec == Spec /\ Fairness

-----------------------------------------------------------------------------
(* Properties. *)

Running == {w \in Workflows : exec[w] \in
             {"accepted", "preparing", "publishing", "executing", "marking"}}

\* Types; the gauge is never negative.
TypeOK ==
  /\ key \in [Workflows -> Keys \cup {NoKey}]
  /\ row \in [Workflows -> Rows]
  /\ exec \in [Workflows -> Busy \cup {"none", "refused", "ended", "crashed"}]
  /\ verdict \in [Workflows -> Verdicts \cup {"none"}]
  /\ sent \subseteq Messages
  /\ cancelling \subseteq Workflows
  /\ started \subseteq Workflows
  /\ active \in Nat
  /\ faults \in 0 .. MaxFaults
  /\ crashes \in 0 .. MaxCrashes

\* active_workflows (orchestrator/main.py:159-160, 252) counts the executions that
\* have begun and not ended, whichever way they end.
GaugeIsExact == active = Cardinality(Running)

\* "Source of truth for: what is running, what completed, what failed"
\* (workflow-service/main.py:5): through lost and late requests, cancellations and
\* crashes, a row says completed or failed only if the execution came to that.
RowTellsVerdict == \A w \in Workflows : row[w] \in Verdicts => row[w] = verdict[w]

\* The idempotency key of a request makes at most one row.
OneRowPerKey ==
  \A v, w \in Workflows :
    row[v] # "none" /\ row[w] # "none" /\ key[v] = key[w] /\ key[v] # NoKey => v = w

\* What is executed is on record, under its own id or, when its key was used
\* before, under that of the request that used it (raise_for_status, main.py:144).
RunIsRecorded ==
  \A w \in Running \cup started : row[w] # "none" \/ KeyTaken(w)

\* Without a lost or late request, what has ended is told by its row: no workflow
\* stays pending or running for ever, whatever was cancelled in between.
EndedRowIsTerminal ==
  \A w \in Workflows :
    faults = 0 /\ exec[w] = "ended" /\ row[w] # "none" => row[w] \in Terminal

\* The orchestrator as who asked for a workflow sees it.
Course(w) ==
  CASE exec[w] = "none" -> "none"
    [] exec[w] = "posting" -> "asked"
    [] exec[w] \in {"accepted", "preparing", "publishing", "executing"} -> "running"
    [] exec[w] = "marking" -> "reporting"
    [] exec[w] = "ended" -> "over"
    [] OTHER -> "stopped"

\* The awaits of the orchestrator and the statements of the workflow service work
\* together: rows and executions take the course that WorkflowPromise describes.
Promise == INSTANCE WorkflowPromise WITH course <- [w \in Workflows |-> Course(w)]

KeepsItsPromise == Promise!Spec

\* An accepted workflow comes to an end unless the orchestrator dies, and its
\* gauge is given back.
AcceptedEnds ==
  \A w \in Workflows : exec[w] = "accepted" ~> exec[w] \in {"ended", "crashed"}
=============================================================================
