--------------------------- MODULE DeliveryPromise ---------------------------
(***************************************************************************)
(* What broker, consumer and agent promise together about a message,       *)
(* whatever connections are lost and however often the agent dies: its     *)
(* task runs once for each time that Redis loses its key, and once more;   *)
(* nothing is told of a task that has not run; a message is settled once,  *)
(* and acked without an answer only if it was no task or came twice.       *)
(***************************************************************************)
EXTENDS Naturals

CONSTANTS
  Tasks,
  KeysAreLost   \* does Redis lose keys?

VARIABLES
  state,     \* message -> unsent, open, acked, or dead (a dead letter)
  real,      \* messages that carry a task (never changes)
  again,     \* messages that were delivered more than once
  claimed,   \* messages whose key was set, and not lost since
  runs,      \* message -> how often its task was executed
  told       \* message -> events about its outcome

vars == <<state, real, again, claimed, runs, told>>

Events == {"task.completed", "task.failed"}

Init ==
  /\ state = [t \in Tasks |-> "unsent"]
  /\ real \in SUBSET Tasks
  /\ again = {}
  /\ claimed = {}
  /\ runs = [t \in Tasks |-> 0]
  /\ told = [t \in Tasks |-> {}]

Send(t) ==
  /\ state[t] = "unsent"
  /\ state' = [state EXCEPT ![t] = "open"]
  /\ UNCHANGED <<real, again, claimed, runs, told>>

DeliverAgain(t) ==
  /\ state[t] = "open"
  /\ again' = again \cup {t}
  /\ UNCHANGED <<state, real, claimed, runs, told>>

LoseKey(t) ==
  /\ KeysAreLost
  /\ claimed' = claimed \ {t}
  /\ UNCHANGED <<state, real, again, runs, told>>

\* Who takes the key may run the task.
Claim(t) ==
  /\ t \notin claimed
  /\ claimed' = claimed \cup {t}
  /\ \/ UNCHANGED runs
     \/ t \in real /\ runs' = [runs EXCEPT ![t] = @ + 1]

Tell(t) ==
  /\ runs[t] > 0
  /\ \E e \in Events : told' = [told EXCEPT ![t] = @ \cup {e}]

Settle(t) ==
  /\ state[t] = "open"
  /\ \/ state' = [state EXCEPT ![t] = "dead"]
     \/ /\ t \in real => t \in again \/ told'[t] # {}
        /\ state' = [state EXCEPT ![t] = "acked"]

\* One step may do several of these; what was told may still come after the ack of
\* another attempt.
Serve(t) ==
  /\ state[t] # "unsent"
  /\ Claim(t) \/ UNCHANGED <<claimed, runs>>
  /\ Tell(t) \/ UNCHANGED told
  /\ Settle(t) \/ UNCHANGED state
  /\ UNCHANGED <<real, again>>

Next == \E t \in Tasks : Send(t) \/ DeliverAgain(t) \/ LoseKey(t) \/ Serve(t)

Spec == Init /\ [][Next]_vars
=============================================================================
