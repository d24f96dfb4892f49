--------------------------- MODULE WorkflowPromise ---------------------------
(***************************************************************************)
(* What orchestrator and workflow service promise together about a         *)
(* request, whatever becomes of the requests between them: a row for every *)
(* key and every accepted request, no refusal without a fault, reports in  *)
(* order until the first fault, and no verdict but that of the execution.  *)
(* They do not promise that a cancellation lasts.                          *)
(***************************************************************************)
EXTENDS Naturals

CONSTANTS Workflows, Keys, NoKey

VARIABLES
  key,      \* workflow -> idempotency key of its request (never changes)
  row,      \* workflow -> status of its row, or "none"
  course,   \* workflow -> none, asked, running, reporting, over, or stopped
  verdict,  \* workflow -> what its execution came to, or "none"
  faults    \* lost or late requests between the services

vars == <<key, row, course, verdict, faults>>

Verdicts == {"completed", "failed"}

Init ==
  /\ key \in [Workflows -> Keys \cup {NoKey}]
  /\ row = [w \in Workflows |-> "none"]
  /\ course = [w \in Workflows |-> "none"]
  /\ verdict = [w \in Workflows |-> "none"]
  /\ faults = 0

SameKey(v, w) == v = w \/ (key[v] = key[w] /\ key[w] # NoKey)

\* The row of w: entered once, told of a run and of its verdict, cancelled.
Enter(w) ==
  /\ course[w] # "none"
  /\ \A v \in Workflows : SameKey(v, w) => row[v] = "none"
  /\ row' = [row EXCEPT ![w] = "pending"]

Report(w) ==
  /\ row[w] # "none"
  /\ course[w] \notin {"none", "asked"}
  /\ faults' = 0 => verdict[w] = "none"
  /\ row' = [row EXCEPT ![w] = "running"]

Mark(w) ==
  /\ row[w] # "none"
  /\ verdict[w] \in Verdicts
  /\ row' = [row EXCEPT ![w] = verdict[w]]

Cancel(w) ==
  /\ row[w] # "none"
  /\ row' = [row EXCEPT ![w] = "cancelled"]

\* The course of w, seen by who asked for it.
Ask(w) ==
  /\ course[w] = "none"
  /\ course' = [course EXCEPT ![w] = "asked"]
  /\ UNCHANGED verdict

Accept(w) ==
  /\ course[w] = "asked"
  /\ \E v \in Workflows : SameKey(v, w) /\ row'[v] # "none"
  /\ course' = [course EXCEPT ![w] = "running"]
  /\ UNCHANGED verdict

Refuse(w) ==
  /\ course[w] = "asked"
  /\ faults' > 0
  /\ course' = [course EXCEPT ![w] = "stopped"]
  /\ UNCHANGED verdict

Conclude(w) ==
  /\ course[w] = "running"
  /\ course' = [course EXCEPT ![w] = "reporting"]
  /\ \E v \in Verdicts : verdict' = [verdict EXCEPT ![w] = v]

Finish(w) ==
  /\ course[w] = "reporting"
  /\ faults' = 0 => row'[w] \in {verdict[w], "none"}
  /\ course' = [course EXCEPT ![w] = "over"]
  /\ UNCHANGED verdict

\* One step may change a row, answer who waits for the change, and go wrong.
Turn(w) ==
  /\ Enter(w) \/ Report(w) \/ Mark(w) \/ Cancel(w) \/ UNCHANGED row
  /\ \/ Ask(w) \/ Accept(w) \/ Refuse(w) \/ Conclude(w) \/ Finish(w)
     \/ UNCHANGED <<course, verdict>>
  /\ faults' \in {faults, faults + 1}
  /\ UNCHANGED key

Stop ==
  /\ course' = [w \in Workflows |->
       IF course[w] \in {"asked", "running", "reporting"} THEN "stopped" ELSE course[w]]
  /\ UNCHANGED <<key, row, verdict, faults>>

Next == Stop \/ \E w \in Workflows : Turn(w)

Spec == Init /\ [][Next]_vars
=============================================================================
