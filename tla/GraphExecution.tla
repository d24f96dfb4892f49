--------------------------- MODULE GraphExecution ---------------------------
(***************************************************************************)
(* The execution of one workflow graph by the orchestrator:                *)
(* _execute_graph runs the nodes in waves, one coroutine _execute_node per *)
(* node of the wave, and each coroutine finds an agent, publishes a        *)
(* TaskCreated event and polls the task's row until it is terminal or 120  *)
(* seconds are over (src/services/orchestrator/main.py).                   *)
(*                                                                         *)
(* A step of the model is the code between two awaits, so the coroutines   *)
(* of a wave interleave in every order.  The graph is chosen in Init among *)
(* ALL depends_on functions: acyclic graphs, cycles, and dependencies that *)
(* name no node.  (_execute_graph keeps its nodes in a dict keyed by       *)
(* node_id, so a graph is a function of node_ids here as well.)            *)
(*                                                                         *)
(* The rows of the tasks table belong to the workflow service; nothing in  *)
(* src/ writes them, any HTTP client may, at any time and with any status. *)
(***************************************************************************)
EXTENDS Naturals

CONSTANTS
  Nodes,      \* the node_ids of the graph
  Unknown,    \* node_ids that depends_on may name and no node has
  RowWrites   \* the statuses HTTP clients write to a task's row

Terminal == {"completed", "failed", "dead"}

ASSUME NodesAssumption  == Nodes \cap Unknown = {}
ASSUME RowsAssumption   ==
  RowWrites \subseteq Terminal \cup {"pending", "assigned", "running", "retrying", "cancelled"}

VARIABLES
  dependsOn,   \* node -> node_ids it depends on (never changes)
  loop,        \* where _execute_graph is: select, gather, mark or returned
  pending,     \* the dict `pending`: nodes not yet taken into a wave
  wave,        \* the list `ready` whose coroutines gather() awaits
  completed,   \* the keys of the dict `completed`
  failed,      \* the set `failed`
  step,        \* node -> where its coroutine _execute_node is
  answer,      \* node -> status of the row that _wait_for_task returned
  dispatched,  \* node -> number of TaskCreated events the broker accepted
  taskRow,     \* node -> status of the row of its task, "absent" without one
  verdict,     \* what _execute_graph decided
  workflowRow  \* status of the workflow's row, as far as this run writes it

nodeVars == <<step, answer, dispatched>>
loopVars == <<loop, pending, wave, completed, failed, verdict, workflowRow>>
vars == <<dependsOn, loop, pending, wave, completed, failed, step, answer,
          dispatched, taskRow, verdict, workflowRow>>

Init ==
  /\ dependsOn \in [Nodes -> SUBSET (Nodes \cup Unknown)]
  /\ loop = "select"
  /\ pending = Nodes
  /\ wave = {}
  /\ completed = {}
  /\ failed = {}
  /\ step = [n \in Nodes |-> "idle"]
  /\ answer = [n \in Nodes |-> "none"]
  /\ dispatched = [n \in Nodes |-> 0]
  /\ taskRow = [n \in Nodes |-> "absent"]
  /\ verdict = "none"
  /\ workflowRow = "running"

-----------------------------------------------------------------------------
(* The loop of _execute_graph. *)

\* Mutant: any() for all() in main.py:272.
Ready_AnyDependency ==
  {n \in pending : dependsOn[n] = {} \/ dependsOn[n] \cap completed # {}}

Ready ==
  {n \in pending : dependsOn[n] \subseteq completed /\ dependsOn[n] \cap failed = {}}

\* Mutant: main.py:289 forgotten, the wave stays pending.
StartWave_KeepsPending ==
  /\ loop = "select"
  /\ Ready # {}
  /\ wave' = Ready
  /\ step' = [n \in Nodes |-> IF n \in Ready THEN "discover" ELSE step[n]]
  /\ loop' = "gather"
  /\ UNCHANGED <<dependsOn, pending, completed, failed, answer, dispatched,
                 taskRow, verdict, workflowRow>>

\* Takes every ready node out of `pending` and starts its coroutine.
StartWave ==
  /\ loop = "select"
  /\ Ready # {}
  /\ wave' = Ready
  /\ pending' = pending \ Ready
  /\ step' = [n \in Nodes |-> IF n \in Ready THEN "discover" ELSE step[n]]
  /\ loop' = "gather"
  /\ UNCHANGED <<dependsOn, completed, failed, answer, dispatched, taskRow,
                 verdict, workflowRow>>

Ended(n) == step[n] \in {"returned", "raised"}

\* gather(return_exceptions=True) yields when every coroutine has ended.
JoinWave ==
  /\ loop = "gather"
  /\ \A n \in wave : Ended(n)
  /\ completed' = completed \cup {n \in wave : step[n] = "returned"}
  /\ failed' = failed \cup {n \in wave : step[n] = "raised"}
  /\ wave' = {}
  /\ loop' = "select"
  /\ UNCHANGED <<dependsOn, pending, nodeVars, taskRow, verdict, workflowRow>>

\* Mutant: the body of `while pending` runs once.
Decide_AfterOneWave ==
  /\ loop = "select"
  /\ Ready = {} \/ completed # {}
  /\ verdict' = IF failed # {} THEN "failed" ELSE "completed"
  /\ loop' = "mark"
  /\ UNCHANGED <<dependsOn, pending, wave, completed, failed, nodeVars, taskRow,
                 workflowRow>>

\* The loop ends: nothing is pending, or nothing pending is ready ("deadlock").
Decide ==
  /\ loop = "select"
  /\ Ready = {}
  /\ verdict' = IF failed # {} THEN "failed" ELSE "completed"
  /\ loop' = "mark"
  /\ UNCHANGED <<dependsOn, pending, wave, completed, failed, nodeVars, taskRow,
                 workflowRow>>

\* The PATCH of _mark_workflow_*: it may be lost, and the error is swallowed.
Mark ==
  /\ loop = "mark"
  /\ workflowRow' \in {workflowRow, verdict}
  /\ loop' = "returned"
  /\ UNCHANGED <<dependsOn, pending, wave, completed, failed, nodeVars, taskRow,
                 verdict>>

-----------------------------------------------------------------------------
(* One coroutine _execute_node. *)

Move(n, from, to) ==
  /\ step[n] = from
  /\ step' = [step EXCEPT ![n] = to]
  /\ UNCHANGED <<dependsOn, loopVars>>

\* router.find_best_agent answers: an agent, or None and a RuntimeError.
FindAgent(n) ==
  /\ \E to \in {"publish", "raised"} : Move(n, "discover", to)
  /\ UNCHANGED <<answer, dispatched, taskRow>>

\* publisher.publish returns once the broker has the event.
PublishTask(n) ==
  /\ Move(n, "publish", "waiting")
  /\ dispatched' = [dispatched EXCEPT ![n] = @ + 1]
  /\ UNCHANGED <<answer, taskRow>>

\* publisher.publish raises; the broker may have accepted the event before.
PublishRaises(n) ==
  /\ Move(n, "publish", "raised")
  /\ dispatched' \in {dispatched, [dispatched EXCEPT ![n] = @ + 1]}
  /\ UNCHANGED <<answer, taskRow>>

\* Mutant: main.py:380-381 returns whatever row it finds.
PollTerminal_AnyRow(n) ==
  /\ taskRow[n] # "absent"
  /\ Move(n, "waiting", "returned")
  /\ answer' = [answer EXCEPT ![n] = taskRow[n]]
  /\ UNCHANGED <<dispatched, taskRow>>

\* A poll finds a terminal row.  A poll that finds none changes nothing.
PollTerminal(n) ==
  /\ taskRow[n] \in Terminal
  /\ Move(n, "waiting", "returned")
  /\ answer' = [answer EXCEPT ![n] = taskRow[n]]
  /\ UNCHANGED <<dispatched, taskRow>>

\* The deadline passed: TimeoutError, even if the row became terminal meanwhile.
TimeOut(n) ==
  /\ Move(n, "waiting", "raised")
  /\ UNCHANGED <<answer, dispatched, taskRow>>

\* An HTTP client that saw the TaskCreated event writes the task's row.
WriteTaskRow(n) ==
  /\ dispatched[n] > 0
  /\ \E s \in RowWrites : taskRow' = [taskRow EXCEPT ![n] = s]
  /\ UNCHANGED <<dependsOn, loopVars, nodeVars>>

\* The background task has ended; the orchestrator keeps serving.
Returned == loop = "returned" /\ UNCHANGED vars

ExecuteGraph == StartWave \/ JoinWave \/ Decide \/ Mark

ExecuteNode(n) ==
  FindAgent(n) \/ PublishTask(n) \/ PublishRaises(n) \/ PollTerminal(n) \/ TimeOut(n)

Next ==
  \/ ExecuteGraph
  \/ \E n \in Nodes : ExecuteNode(n) \/ WriteTaskRow(n)
  \/ Returned

Spec == Init /\ [][Next]_vars

(***************************************************************************)
(* The event loop runs every coroutine that can go on; an HTTP call has a  *)
(* client timeout and the polling loop a deadline, so each await ends.     *)
(* Nothing is assumed of the clients that write task rows.                 *)
(***************************************************************************)
Fairness ==
  /\ WF_vars(ExecuteGraph)
  /\ \A n \in Nodes : WF_vars(ExecuteNode(n))

FairSpec == Spec /\ Fairness

-----------------------------------------------------------------------------
(* Properties. *)

TypeOK ==
  /\ dependsOn \in [Nodes -> SUBSET (Nodes \cup Unknown)]
  /\ loop \in {"select", "gather", "mark", "returned"}
  /\ pending \subseteq Nodes
  /\ wave \subseteq Nodes
  /\ completed \subseteq Nodes
  /\ failed \subseteq Nodes
  /\ step \in [Nodes -> {"idle", "discover", "publish", "waiting", "returned", "raised"}]
  /\ answer \in [Nodes -> Terminal \cup {"none"}]
  /\ dispatched \in [Nodes -> Nat]
  /\ taskRow \in [Nodes -> RowWrites \cup {"absent"}]
  /\ verdict \in {"none", "completed", "failed"}
  /\ workflowRow \in {"running", "completed", "failed"}

\* "Execute the workflow DAG respecting dependencies" (main.py:261): the event
\* for a node reaches the broker only after every dependency has succeeded, and
\* it reaches it at most once, whatever the interleaving of the wave.
DispatchInOrder ==
  \A n \in Nodes :
    /\ dispatched[n] > 0 => dependsOn[n] \subseteq completed
    /\ dispatched[n] <= 1

\* m is f or depends on f, directly or through other nodes.
DependentsOf(f) ==
  {m \in Nodes : \A S \in SUBSET Nodes :
     (f \in S /\ \A k \in Nodes : dependsOn[k] \cap S # {} => k \in S) => m \in S}

\* A node that fails keeps everything downstream of it from being sent to an
\* agent (main.py:270-274), through any number of intermediate nodes.
NothingRunsBelowAFailure ==
  \A f \in failed : \A m \in DependentsOf(f) \ {f} : step[m] = "idle" /\ dispatched[m] = 0

\* Every dependency names a node and there is no cycle: every nonempty set of
\* nodes has a member that depends on none of them.
WellFormed ==
  /\ \A n \in Nodes : dependsOn[n] \subseteq Nodes
  /\ \A S \in SUBSET Nodes : S # {} => \E n \in S : dependsOn[n] \cap S = {}

\* On a well-formed graph the "no nodes ready" exit (main.py:277-286) is taken
\* only after a failure: a workflow is marked completed only if all nodes ran.
CompletedMeansAllRan ==
  WellFormed /\ verdict = "completed" => completed = Nodes

\* One failure does not stop independent branches: at the verdict every node
\* whose dependencies all succeeded has been tried.
VerdictIsNotEarly ==
  verdict # "none" =>
    \A n \in Nodes : dependsOn[n] \subseteq completed => n \in completed \cup failed

\* An outcome is final and unique: a task that answers after its node timed out
\* (main.py:370-385) never turns the failed node into a completed one.
OutcomesAreFinal ==
  [][/\ completed \subseteq completed'
     /\ failed \subseteq failed'
     /\ completed' \cap failed' = {}]_vars

\* The loop ends on every graph, cyclic and dangling ones included, without any
\* help from the clients that write the task rows.
Terminates == <>(loop = "returned")

\* The outcome of a node as DagSchedule sees it.
Outcome(n) ==
  CASE step[n] = "idle"     -> "waiting"
    [] step[n] = "returned" -> "done"
    [] step[n] = "raised"   -> "failed"
    [] OTHER                -> "running"

Schedule == INSTANCE DagSchedule WITH outcome <- [n \in Nodes |-> Outcome(n)]

\* The waves implement the abstract schedule.
ImplementsSchedule == Schedule!Spec
=============================================================================
